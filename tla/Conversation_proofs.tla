-------------------------- MODULE Conversation_proofs --------------------------
(***************************************************************************)
(* The safety properties of Conversation, for any number of turns, any     *)
(* messages, history limit and pool.                                       *)
(*                                                                         *)
(* Turns write over each other's history, so what the properties say of    *)
(* the checkpoint has to hold of every history a turn works on (Sound):    *)
(* questions and answers side by side, an item once, each message of the   *)
(* chain that the one before it left open, and no item or lookup plan of a *)
(* chain that was not open any more.  An answered turn and an abandoned    *)
(* chain are then followed through all of them, as long as the turn they   *)
(* depend on ran alone.                                                    *)
(***************************************************************************)
EXTENDS Conversation, FiniteSetTheorems, SequenceTheorems, WellFoundedInduction, TLAPS

Paired(h) ==
  \A i \in DOMAIN h :
    IF IsUser(h[i])
    THEN i < Len(h) /\ h[i + 1] = Item("assistant", h[i].turn)
    ELSE i > 1 => h[i - 1] = Item("user", h[i].turn)

(* The chain of a turn that follows another one in a history. *)
ChainAfter(t, u, r, c) == IF r[u].type = "clarify" THEN c[u] ELSE t

(* Neither a turn nor the lookup plan of its reply is of a chain. *)
FreeOf(t, q, r, c) == c[t] # q /\ \A u \in r[t].plan : c[u] # q

(* What every history is like, whatever turns have written it: r are the   *)
(* replies and c the chains of the turns.                                  *)
Sound(h, r, c) ==
  /\ Paired(h)
  /\ \A i, j \in DOMAIN h : h[i] = h[j] => i = j
  /\ \A i \in DOMAIN h :
       r[h[i].turn] # None /\ \A u \in r[h[i].turn].plan : r[u] # None
  /\ \A i \in DOMAIN h : i > 1 /\ IsUser(h[i]) =>
       c[h[i].turn] = ChainAfter(h[i].turn, h[i - 1].turn, r, c)
  /\ \A i, j \in DOMAIN h : i < j /\ h[i].turn # h[j].turn => FreeOf(h[i].turn, h[j].turn, r, c)

Stages ==
  \A t \in Turns :
    /\ reply[t] # None => at[t] = "ended" /\ \A u \in reply[t].plan : reply[u] # None
    /\ t \notin Running => work[t] = <<>>
    /\ at[t] # "running" => context[t] = Nothing
    /\ at[t] \notin {"running", "ended"} => chain[t] = t
    /\ chain[t] = t \/ reply[chain[t]] # None

Distinct(q) == \A i, j \in DOMAIN q : q[i] = q[j] => i = j

Waiting == Distinct(line)

Histories ==
  /\ Sound(saved, reply, chain)
  /\ \A t \in Turns : Sound(work[t], reply, chain) /\ Len(work[t]) <= Limit

Following ==
  \A t \in Turns : at[t] = "running" =>
    /\ work[t] # <<>> => chain[t] = ChainAfter(t, Last(work[t]).turn, reply, chain)
    /\ \A u \in context[t].plan : reply[u] # None

Beside == \A t, u \in Running : t # u => t \in overlapped

Stays(t) == reply[t] # None /\ t \notin overlapped \union cut /\ \A d \in dropped : d[1] # chain[t]

Staying == \A t \in Turns : Stays(t) => Told(saved, t) /\ \A u \in Running : Told(work[u], t)

Forgotten(h, q, r, c) == \A i \in DOMAIN h : FreeOf(h[i].turn, q, r, c)

Dropping ==
  \A d \in dropped :
    /\ reply[d[1]] # None
    /\ d[2] \notin overlapped =>
         /\ Forgotten(saved, d[1], reply, chain)
         /\ \A t \in Running : Forgotten(work[t], d[1], reply, chain)
         /\ \A t \in Running : chain[t] # d[1] /\ \A u \in context[t].plan : chain[u] # d[1]

IInv ==
  /\ TypeOK /\ Stages /\ Waiting /\ Histories /\ Following /\ Beside /\ Staying /\ Dropping
  /\ RecoversTheQuestion
-----------------------------------------------------------------------------
(* What Max picks *)

(* The intervals below the members of T are finite sets, and of these one  *)
(* is least by inclusion.                                                  *)
LEMMA LeastNumber ==
  ASSUME NEW T \in SUBSET Nat, T # {}
  PROVE  \E m \in T : \A k \in T : m <= k
<1> DEFINE F == {0..m : m \in T}
<1>1. F \subseteq FiniteSubsetsOf(Nat) /\ F # {}
  <2>1. \A m \in T : 0..m \in SUBSET Nat /\ IsFiniteSet(0..m)
    BY FS_Interval
  <2> QED BY <2>1 DEF FiniteSubsetsOf
<1>2. PICK x \in F : \A y \in F : ~(<<y, x>> \in StrictSubsetOrdering(Nat))
  BY <1>1, FS_StrictSubsetOrderingWellFounded, WFMin
<1>3. PICK m \in T : x = 0..m
  BY DEF F
<1>4. \A k \in T : m <= k
  <2> SUFFICES ASSUME NEW k \in T, k < m PROVE FALSE
    OBVIOUS
  <2>1. 0..k \in F /\ 0..k \subseteq 0..m /\ m \in 0..m /\ m \notin 0..k
    OBVIOUS
  <2>2. <<0..k, 0..m>> \in StrictSubsetOrdering(Nat)
    BY <2>1 DEF StrictSubsetOrdering
  <2> QED BY <1>2, <1>3, <2>1, <2>2
<1> QED BY <1>4

(* Max of a bounded set of numbers is its greatest element. *)
LEMMA Greatest ==
  ASSUME NEW n \in Nat, NEW T \in SUBSET (0..n), T # {}
  PROVE  Max(T) \in T /\ \A k \in T : k <= Max(T)
<1> DEFINE Gaps == {n - k : k \in T}
<1> \A k \in T : k \in Int /\ n - k \in Nat
  OBVIOUS
<1>1. Gaps \in SUBSET Nat /\ Gaps # {}
  OBVIOUS
<1>2. PICK g \in Gaps : \A k \in Gaps : g <= k
  BY <1>1, LeastNumber
<1>3. PICK m \in T : g = n - m
  OBVIOUS
<1>4. \A k \in T : m >= k
  <2> SUFFICES ASSUME NEW k \in T PROVE m >= k
    OBVIOUS
  <2>1. n - m <= n - k
    BY <1>2, <1>3
  <2> QED BY <2>1
<1>5. Max(T) \in T /\ \A k \in T : Max(T) >= k
  BY <1>3, <1>4 DEF Max
<1> QED BY <1>5
-----------------------------------------------------------------------------
(* Histories *)

(* An item is the question or the answer of a turn. *)
LEMMA ItemsOf ==
  ASSUME NEW h \in Seq(Items)
  PROVE  /\ Len(h) \in Nat /\ DOMAIN h = 1..Len(h)
         /\ \A i \in DOMAIN h :
              h[i] \in Items /\ h[i].turn \in Turns /\ h[i] = Item(h[i].role, h[i].turn)
              /\ (IsUser(h[i]) <=> ~IsAssistant(h[i]))
<1>1. Len(h) \in Nat /\ DOMAIN h = 1..Len(h) /\ \A i \in DOMAIN h : h[i] \in Items
  BY LenProperties, ElementOfSeq
<1>2. \A i \in Items :
        i.turn \in Turns /\ i = Item(i.role, i.turn) /\ (IsUser(i) <=> ~IsAssistant(i))
  BY DEF Items, Item, IsUser, IsAssistant
<1> QED BY <1>1, <1>2

(* The last item is an answer: it is the payload that counts. *)
LEMMA LastIsPayload ==
  ASSUME NEW h \in Seq(Items), Paired(h)
  PROVE  /\ h = <<>> => LastPayload(h) = None
         /\ h # <<>> =>
              /\ Len(h) \in DOMAIN h /\ IsAssistant(h[Len(h)])
              /\ LastIndex(h) = Len(h) /\ LastPayload(h) = h[Len(h)].turn
<1>1. CASE h = <<>>
  <2>1. DOMAIN h = {}
    BY <1>1, EmptySeq, ItemsOf
  <2> QED BY <1>1, <2>1 DEF LastPayload
<1>2. CASE h # <<>>
  <2>1. Len(h) \in Nat \ {0} /\ DOMAIN h = 1..Len(h)
    BY <1>2, EmptySeq, ItemsOf
  <2>2. Len(h) \in DOMAIN h /\ IsAssistant(h[Len(h)])
    BY <2>1, ItemsOf DEF Paired
  <2> DEFINE A == {i \in DOMAIN h : IsAssistant(h[i])}
  <2>3. A \in SUBSET (0..Len(h)) /\ Len(h) \in A
    BY <2>1, <2>2
  <2>4. Max(A) \in A /\ Len(h) <= Max(A)
    BY <2>1, <2>3, Greatest
  <2>5. Max(A) = Len(h)
    BY <2>1, <2>4
  <2> QED BY <1>2, <2>2, <2>5 DEF LastPayload, LastIndex
<1> QED BY <1>1, <1>2

(* The window begins after the last item that closes one. *)
LEMMA WindowBegins ==
  ASSUME NEW h \in Seq(Items), Paired(h), h # <<>>
  PROVE  /\ WindowStart(h) \in 0..Len(h) - 1
         /\ WindowStart(h) # 0 => Closes(h[WindowStart(h)])
         /\ \A i \in WindowStart(h) + 1..Len(h) - 1 : ~Closes(h[i])
<1> DEFINE C == {i \in 1..(LastIndex(h) - 1) : Closes(h[i])}
<1>1. LastIndex(h) = Len(h) /\ Len(h) \in Nat \ {0}
  BY LastIsPayload, ItemsOf
<1>2. {0} \union C \in SUBSET (0..Len(h)) /\ {0} \union C # {}
  BY <1>1
<1>3. /\ WindowStart(h) \in {0} \union C
      /\ \A i \in {0} \union C : i <= WindowStart(h)
  BY <1>1, <1>2, Greatest DEF WindowStart
<1>4. WindowStart(h) \in 0..Len(h) - 1
  BY <1>1, <1>3
<1>5. ASSUME NEW i \in WindowStart(h) + 1..Len(h) - 1, Closes(h[i]) PROVE FALSE
  <2>1. i \in C
    BY <1>1, <1>4, <1>5
  <2> QED BY <1>3, <1>4, <1>5, <2>1
<1> QED BY <1>3, <1>4, <1>5

(* Every item of the window belongs to one chain. *)
LEMMA OneChain ==
  ASSUME NEW h \in Seq(Items), h # <<>>, Sound(h, reply, chain)
  PROVE  \A i \in WindowStart(h) + 1..Len(h) : chain[h[i].turn] = chain[LastPayload(h)]
<1> DEFINE w == WindowStart(h)
           q == chain[LastPayload(h)]
           Others == {i \in w + 1..Len(h) : chain[h[i].turn] # q}
<1>1. /\ Len(h) \in Nat \ {0} /\ DOMAIN h = 1..Len(h) /\ w \in 0..Len(h) - 1
      /\ \A i \in w + 1..Len(h) - 1 : ~Closes(h[i])
  BY WindowBegins, LastIsPayload, ItemsOf DEF Sound
<1> SUFFICES ASSUME Others # {} PROVE FALSE
  OBVIOUS
<1>2. PICK i \in Others : \A k \in Others : k <= i
  <2>1. Others \in SUBSET (0..Len(h))
    BY <1>1
  <2> QED BY <1>1, <2>1, Greatest
<1>3. chain[h[Len(h)].turn] = q
  BY LastIsPayload DEF Sound
<1>4. i \in DOMAIN h /\ i + 1 \in w + 1..Len(h) /\ i + 1 \in DOMAIN h /\ i \in w + 1..Len(h) - 1
  BY <1>1, <1>2, <1>3
<1>5. chain[h[i + 1].turn] = q
  <2>1. i + 1 \notin Others
    BY <1>2, <1>4
  <2> QED BY <1>4, <2>1
<1>6. CASE IsUser(h[i])
  <2>1. h[i + 1].turn = h[i].turn
    <3>1. h[i + 1] = Item("assistant", h[i].turn)
      BY <1>4, <1>6 DEF Sound, Paired
    <3> QED BY <3>1 DEF Item
  <2> QED BY <1>2, <1>5, <2>1
<1>7. CASE IsAssistant(h[i])
  <2>1. IsUser(h[i + 1])
    <3>1. CASE IsAssistant(h[i + 1])
      <4>1. i + 1 > 1 /\ i + 1 - 1 = i /\ ~IsUser(h[i + 1])
        BY <1>1, <1>4, <3>1, ItemsOf
      <4>2. h[i] = Item("user", h[i + 1].turn)
        BY <1>4, <4>1 DEF Sound, Paired
      <4> QED BY <1>7, <4>2 DEF IsAssistant, Item
    <3> QED BY <1>4, <3>1, ItemsOf
  <2>2. chain[h[i + 1].turn] = ChainAfter(h[i + 1].turn, h[i].turn, reply, chain)
    <3>1. i + 1 > 1 /\ i + 1 - 1 = i
      BY <1>1, <1>4
    <3> QED BY <1>4, <2>1, <3>1 DEF Sound
  <2>3. reply[h[i].turn].type = "clarify"
    BY <1>1, <1>4, <1>7 DEF Closes, IsTerminal, IsClarification
  <2> QED BY <1>2, <1>5, <2>2, <2>3 DEF ChainAfter
<1> QED BY <1>4, <1>6, <1>7, ItemsOf

(* The message after an item that closes a window opens a chain: nothing   *)
(* before the window is of the chain in it.                                *)
LEMMA BeforeTheWindow ==
  ASSUME NEW h \in Seq(Items), h # <<>>, Sound(h, reply, chain)
  PROVE  \A i \in 1..WindowStart(h) :
           FreeOf(h[i].turn, chain[LastPayload(h)], reply, chain) /\ h[i].turn # chain[LastPayload(h)]
<1> DEFINE w == WindowStart(h)
           b == h[w + 1].turn
<1> SUFFICES ASSUME NEW i \in 1..w
             PROVE  /\ FreeOf(h[i].turn, chain[LastPayload(h)], reply, chain)
                    /\ h[i].turn # chain[LastPayload(h)]
  OBVIOUS
<1>1. Len(h) \in Nat \ {0} /\ DOMAIN h = 1..Len(h) /\ w \in 1..Len(h) - 1 /\ Closes(h[w])
  BY WindowBegins, LastIsPayload, ItemsOf DEF Sound
<1>2. i \in DOMAIN h /\ w \in DOMAIN h /\ w + 1 \in DOMAIN h /\ w + 1 > 1 /\ w + 1 - 1 = w
  BY <1>1
<1>3. IsUser(h[w + 1])
  <2>1. CASE ~IsUser(h[w + 1])
    <3>1. h[w] = Item("user", h[w + 1].turn)
      BY <1>2, <2>1 DEF Sound, Paired
    <3> QED BY <1>1, <3>1 DEF Closes, IsAssistant, Item
  <2> QED BY <2>1
<1>4. w + 2 \in DOMAIN h /\ h[w + 2] = Item("assistant", b) /\ h[w + 1] = Item("user", b)
  <2>1. w + 1 < Len(h) /\ h[w + 1 + 1] = Item("assistant", b)
    BY <1>2, <1>3 DEF Sound, Paired
  <2>2. h[w + 1] = Item("user", b)
    BY <1>2, <1>3, ItemsOf DEF IsUser
  <2>3. w + 1 + 1 = w + 2
    BY <1>1
  <2> QED BY <1>1, <2>1, <2>2, <2>3
<1>5. chain[b] = b
  <2>1. chain[b] = ChainAfter(b, h[w].turn, reply, chain)
    BY <1>2, <1>3 DEF Sound
  <2>2. reply[h[w].turn].type # "clarify"
    BY <1>1 DEF Closes, IsTerminal, IsClarification
  <2> QED BY <2>1, <2>2 DEF ChainAfter
<1>6. chain[LastPayload(h)] = b
  <2>1. w + 1 \in w + 1..Len(h)
    BY <1>1
  <2> QED BY <1>5, <2>1, OneChain
<1>7. h[i].turn # b
  <2> SUFFICES ASSUME h[i].turn = b PROVE FALSE
    OBVIOUS
  <2>1. h[i] = h[w + 1] \/ h[i] = h[w + 2]
    <3>1. h[i] = Item(h[i].role, b) /\ h[i].role \in {"user", "assistant"}
      BY <1>2, ItemsOf DEF Items
    <3> QED BY <1>4, <3>1
  <2>2. i = w + 1 \/ i = w + 2
    BY <1>2, <1>4, <2>1 DEF Sound
  <2> QED BY <1>1, <2>2
<1>8. i < w + 1
  BY <1>1
<1>9. FreeOf(h[i].turn, b, reply, chain)
  BY <1>2, <1>7, <1>8 DEF Sound
<1> QED BY <1>6, <1>7, <1>9

(* A part of a history that ends with an answer is a history. *)
AnswerAt(h, n) == n = 0 \/ n = Len(h) \/ IsAssistant(h[n])

LEMMA PartIsSound ==
  ASSUME NEW r, NEW c, NEW h \in Seq(Items), Sound(h, r, c),
         NEW m \in Nat \ {0}, NEW n \in Nat, n <= Len(h), AnswerAt(h, n)
  PROVE  SubSeq(h, m, n) \in Seq(Items) /\ Sound(SubSeq(h, m, n), r, c)
<1> DEFINE g == SubSeq(h, m, n)
<1>1. Len(h) \in Nat /\ DOMAIN h = 1..Len(h)
  BY ItemsOf
<1>2. m \in Int /\ n \in Int /\ \A i \in m..n : h[i] \in Items
  <2>1. m \in Int /\ n \in Int /\ n <= Len(h)
    <3>1. m \in Int
      OBVIOUS
    <3>2. n \in Int
      OBVIOUS
    <3>3. n <= Len(h)
      OBVIOUS
    <3> QED BY <3>1, <3>2, <3>3
  <2>2. ASSUME NEW i \in m..n PROVE i \in DOMAIN h
    <3>1. i \in Int /\ m <= i /\ i <= n
      BY <2>1
    <3>2. 1 <= m
      OBVIOUS
    <3> QED BY <1>1, <2>1, <3>1, <3>2
  <2> QED BY <2>1, <2>2, ItemsOf
<1>3. /\ g \in Seq(Items) /\ Len(g) = IF m <= n THEN n - m + 1 ELSE 0
      /\ \A i \in 1..n - m + 1 : g[i] = h[m + i - 1]
  <2>1. m \in Int /\ n \in Int /\ \A i \in m..n : h[i] \in Items
    BY <1>2
  <2> QED BY <2>1, SubSeqProperties
<1>4. Len(g) \in Nat /\ DOMAIN g = 1..Len(g)
  BY <1>3, ItemsOf
<1> HIDE DEF g
<1>5. \A i \in DOMAIN g :
        /\ i \in Nat \ {0} /\ m + i - 1 \in DOMAIN h /\ m + i - 1 <= n /\ g[i] = h[m + i - 1]
        /\ i = Len(g) <=> m + i - 1 = n
  BY <1>1, <1>3, <1>4
<1>6. Paired(g)
  <2> SUFFICES ASSUME NEW i \in DOMAIN g
               PROVE  IF IsUser(g[i])
                      THEN i < Len(g) /\ g[i + 1] = Item("assistant", g[i].turn)
                      ELSE i > 1 => g[i - 1] = Item("user", g[i].turn)
    BY DEF Paired
  <2> DEFINE j == m + i - 1
  <2>1. j \in DOMAIN h /\ g[i] = h[j] /\ i \in Nat \ {0}
    BY <1>5
  <2>2. CASE IsUser(g[i])
    <3>1. j < Len(h) /\ h[j + 1] = Item("assistant", g[i].turn)
      BY <2>1, <2>2 DEF Sound, Paired
    <3>2. j # n
      <4>1. j # 0
        BY <1>1, <2>1
      <4>3. j # Len(h)
        BY <1>1, <3>1
      <4>2. ~IsAssistant(h[j])
        BY <2>1, <2>2, ItemsOf
      <4> QED BY <4>1, <4>2, <4>3 DEF AnswerAt
    <3>3. i # Len(g)
      BY <1>5, <3>2
    <3>4. i + 1 \in DOMAIN g /\ i < Len(g)
      BY <1>4, <3>3
    <3>5. g[i + 1] = h[j + 1]
      <4>1. m + (i + 1) - 1 = j + 1
        BY <1>2, <2>1
      <4> QED BY <1>5, <3>4, <4>1
    <3> QED BY <2>2, <3>1, <3>4, <3>5
  <2>3. CASE ~IsUser(g[i])
    <3> SUFFICES ASSUME i > 1 PROVE g[i - 1] = Item("user", g[i].turn)
      BY <2>3
    <3>1. j > 1 /\ i - 1 \in DOMAIN g /\ m + (i - 1) - 1 = j - 1
      BY <1>2, <1>4, <2>1, SMTT(30)
    <3>2. h[j - 1] = Item("user", g[i].turn)
      BY <2>1, <2>3, <3>1 DEF Sound, Paired
    <3>3. g[i - 1] = h[j - 1]
      BY <1>5, <3>1
    <3> QED BY <3>2, <3>3
  <2> QED BY <2>2, <2>3
<1>7. \A i, j \in DOMAIN g : g[i] = g[j] => i = j
  <2> SUFFICES ASSUME NEW i \in DOMAIN g, NEW j \in DOMAIN g, g[i] = g[j] PROVE i = j
    OBVIOUS
  <2>1. m + i - 1 = m + j - 1
    BY <1>5 DEF Sound
  <2> QED BY <1>5, <2>1
<1>8. \A i \in DOMAIN g : r[g[i].turn] # None /\ \A u \in r[g[i].turn].plan : r[u] # None
  BY <1>5 DEF Sound
<1>9. \A i \in DOMAIN g : i > 1 /\ IsUser(g[i]) =>
        c[g[i].turn] = ChainAfter(g[i].turn, g[i - 1].turn, r, c)
  <2> SUFFICES ASSUME NEW i \in DOMAIN g, i > 1, IsUser(g[i])
               PROVE  c[g[i].turn] = ChainAfter(g[i].turn, g[i - 1].turn, r, c)
    OBVIOUS
  <2> DEFINE j == m + i - 1
  <2>1. j \in DOMAIN h /\ g[i] = h[j] /\ j > 1 /\ i - 1 \in DOMAIN g /\ m + (i - 1) - 1 = j - 1
    BY <1>4, <1>5, SMTT(30)
  <2>2. g[i - 1] = h[j - 1]
    BY <1>5, <2>1
  <2> QED BY <2>1, <2>2 DEF Sound
<1>10. \A i, j \in DOMAIN g : i < j /\ g[i].turn # g[j].turn => FreeOf(g[i].turn, g[j].turn, r, c)
  <2> SUFFICES ASSUME NEW i \in DOMAIN g, NEW j \in DOMAIN g, i < j, g[i].turn # g[j].turn
               PROVE  FreeOf(g[i].turn, g[j].turn, r, c)
    OBVIOUS
  <2>1. m + i - 1 < m + j - 1
    BY <1>5
  <2> QED BY <1>5, <2>1 DEF Sound
<1> QED BY <1>3, <1>6, <1>7, <1>8, <1>9, <1>10 DEF Sound, g

(* What is known of the turns of a history does not change. *)
LEMMA StaysSound ==
  ASSUME NEW r, NEW c, NEW r2, NEW c2, NEW h \in Seq(Items), Sound(h, r, c),
         \A t \in Turns : r[t] # None => r2[t] = r[t] /\ c2[t] = c[t] /\ r[t].plan \subseteq Turns
  PROVE  Sound(h, r2, c2)
<1>1. \A i \in DOMAIN h : h[i].turn \in Turns /\ r[h[i].turn] # None
  BY ItemsOf DEF Sound
<1>2. \A i \in DOMAIN h :
        /\ r2[h[i].turn] = r[h[i].turn] /\ c2[h[i].turn] = c[h[i].turn]
        /\ \A u \in r[h[i].turn].plan : r[u] # None /\ r2[u] = r[u] /\ c2[u] = c[u]
  BY <1>1 DEF Sound
<1>3. ASSUME NEW i \in DOMAIN h, i > 1, IsUser(h[i])
      PROVE  c2[h[i].turn] = ChainAfter(h[i].turn, h[i - 1].turn, r2, c2)
  <2>1. i - 1 \in DOMAIN h
    BY <1>3, ItemsOf
  <2> QED BY <1>2, <1>3, <2>1 DEF Sound, ChainAfter
<1>4. ASSUME NEW i \in DOMAIN h, NEW j \in DOMAIN h, i < j, h[i].turn # h[j].turn
      PROVE  FreeOf(h[i].turn, h[j].turn, r2, c2)
  BY <1>2, <1>4 DEF Sound, FreeOf
<1> QED BY <1>2, <1>3, <1>4 DEF Sound

(* A turn joins the history it has worked on: r are the replies before, r2 *)
(* those after.                                                            *)
Joins(t, h, g, r, c, r2) ==
  /\ h \in Seq(Items) /\ Sound(h, r, c) /\ t \in Turns /\ r[t] = None /\ r2[t] # None
  /\ g = h \o <<Item("user", t), Item("assistant", t)>>
  /\ \A u \in Turns : r[u] # None => r2[u] = r[u] /\ r[u].plan \subseteq Turns
  /\ \A u \in r2[t].plan : r2[u] # None
  /\ h # <<>> => c[t] = ChainAfter(t, Last(h).turn, r, c)
  /\ \A u \in Turns : c[u] = u \/ r[c[u]] # None

LEMMA JoinedIsSound ==
  ASSUME NEW t, NEW h, NEW g, NEW r, NEW c, NEW r2, Joins(t, h, g, r, c, r2)
  PROVE  /\ g \in Seq(Items) /\ Len(g) = Len(h) + 2
         /\ g[Len(g)] = Item("assistant", t) /\ g[Len(g) - 1] = Item("user", t)
         /\ Sound(g, r2, c)
<1> /\ h \in Seq(Items) /\ Sound(h, r, c) /\ t \in Turns /\ r[t] = None /\ r2[t] # None
    /\ g = h \o <<Item("user", t), Item("assistant", t)>>
    /\ \A u \in Turns : r[u] # None => r2[u] = r[u] /\ r[u].plan \subseteq Turns
    /\ \A u \in r2[t].plan : r2[u] # None
    /\ h # <<>> => c[t] = ChainAfter(t, Last(h).turn, r, c)
    /\ \A u \in Turns : c[u] = u \/ r[c[u]] # None
  BY DEF Joins
<1> DEFINE new == <<Item("user", t), Item("assistant", t)>>
<1>1. new \in Seq(Items) /\ Len(new) = 2 /\ new[1] = Item("user", t) /\ new[2] = Item("assistant", t)
  BY DEF Items, Item
<1>2. Len(h) \in Nat /\ DOMAIN h = 1..Len(h)
  BY ItemsOf
<1>3. g \in Seq(Items) /\ Len(g) = Len(h) + 2 /\ DOMAIN g = 1..Len(h) + 2
  <2>1. g \in Seq(Items) /\ Len(g) = Len(h) + 2
    BY <1>1, ConcatProperties
  <2> QED BY <2>1, ItemsOf
<1>4. /\ \A i \in 1..Len(h) : g[i] = h[i]
      /\ g[Len(h) + 1] = Item("user", t) /\ g[Len(h) + 2] = Item("assistant", t)
  <2> HIDE DEF new
  <2>1. \A i \in 1..Len(h) + Len(new) : g[i] = IF i <= Len(h) THEN h[i] ELSE new[i - Len(h)]
    BY <1>1, ConcatProperties
  <2>2. \A i \in 1..Len(h) : i \in 1..Len(h) + Len(new) /\ i <= Len(h)
    BY <1>1, <1>2
  <2>3. /\ ~(Len(h) + 1 <= Len(h)) /\ Len(h) + 1 - Len(h) = 1
        /\ Len(h) + 1 \in 1..Len(h) + Len(new)
    BY <1>1, <1>2
  <2>4. /\ ~(Len(h) + 2 <= Len(h)) /\ Len(h) + 2 - Len(h) = 2
        /\ Len(h) + 2 \in 1..Len(h) + Len(new)
    BY <1>1, <1>2
  <2>5. \A i \in 1..Len(h) : g[i] = h[i]
    BY <2>1, <2>2
  <2>6. g[Len(h) + 1] = new[1]
    BY <2>1, <2>3, SMTT(30)
  <2>7. g[Len(h) + 2] = new[2]
    BY <2>1, <2>4
  <2> QED BY <1>1, <2>5, <2>6, <2>7
<1>5. \A i \in DOMAIN g : i \in 1..Len(h) \/ i = Len(h) + 1 \/ i = Len(h) + 2
  BY <1>2, <1>3
<1>6. \A i \in 1..Len(h) : h[i].turn \in Turns /\ r[h[i].turn] # None /\ h[i].turn # t
  BY <1>2, ItemsOf DEF Sound
<1>7. Sound(h, r2, c)
  BY StaysSound
<1>8. Paired(g)
  <2> SUFFICES ASSUME NEW i \in DOMAIN g
               PROVE  IF IsUser(g[i])
                      THEN i < Len(g) /\ g[i + 1] = Item("assistant", g[i].turn)
                      ELSE i > 1 => g[i - 1] = Item("user", g[i].turn)
    BY DEF Paired
  <2>1. CASE i \in 1..Len(h)
    <3>1. CASE IsUser(h[i])
      <4>1. i < Len(h) /\ h[i + 1] = Item("assistant", h[i].turn)
        BY <1>2, <2>1, <3>1 DEF Sound, Paired
      <4>2. i + 1 \in 1..Len(h) /\ i < Len(g)
        BY <1>2, <1>3, <2>1, <4>1
      <4> QED BY <1>4, <2>1, <3>1, <4>1, <4>2
    <3>2. CASE ~IsUser(h[i])
      <4> SUFFICES ASSUME i > 1 PROVE g[i - 1] = Item("user", g[i].turn)
        BY <1>4, <2>1, <3>2
      <4>1. h[i - 1] = Item("user", h[i].turn) /\ i - 1 \in 1..Len(h)
        BY <1>2, <2>1, <3>2 DEF Sound, Paired
      <4> QED BY <1>4, <2>1, <4>1
    <3> QED BY <3>1, <3>2
  <2>2. CASE i = Len(h) + 1
    <3>1. i < Len(g) /\ i + 1 = Len(h) + 2
      BY <1>2, <1>3, <2>2
    <3>2. g[i] = Item("user", t) /\ g[i + 1] = Item("assistant", t)
      BY <1>4, <2>2, <3>1
    <3> QED BY <3>1, <3>2 DEF Item, IsUser
  <2>3. CASE i = Len(h) + 2
    <3>1. i - 1 = Len(h) + 1
      BY <1>2, <2>3
    <3>2. g[i] = Item("assistant", t) /\ g[i - 1] = Item("user", t)
      BY <1>4, <2>3, <3>1
    <3> QED BY <3>2 DEF Item, IsUser
  <2> QED BY <1>5, <2>1, <2>2, <2>3
<1>9. \A i, j \in DOMAIN g : g[i] = g[j] => i = j
  <2>1. \A i, j \in 1..Len(h) : h[i] = h[j] => i = j
    BY <1>2 DEF Sound
  <2>2. \A i \in 1..Len(h) : h[i] # Item("user", t) /\ h[i] # Item("assistant", t)
    BY <1>6 DEF Item
  <2>3. Item("user", t) # Item("assistant", t)
    BY DEF Item
  <2> QED BY <1>4, <1>5, <2>1, <2>2, <2>3
<1>10. \A i \in DOMAIN g : r2[g[i].turn] # None /\ \A u \in r2[g[i].turn].plan : r2[u] # None
  <2>1. \A i \in 1..Len(h) : r2[h[i].turn] # None /\ \A u \in r2[h[i].turn].plan : r2[u] # None
    BY <1>2, <1>7 DEF Sound
  <2>2. Item("user", t).turn = t /\ Item("assistant", t).turn = t
    BY DEF Item
  <2> QED BY <1>4, <1>5, <2>1, <2>2
<1>11. \A i \in DOMAIN g : i > 1 /\ IsUser(g[i]) =>
         c[g[i].turn] = ChainAfter(g[i].turn, g[i - 1].turn, r2, c)
  <2> SUFFICES ASSUME NEW i \in DOMAIN g, i > 1, IsUser(g[i])
               PROVE  c[g[i].turn] = ChainAfter(g[i].turn, g[i - 1].turn, r2, c)
    OBVIOUS
  <2>1. CASE i \in 1..Len(h)
    <3>1. i - 1 \in 1..Len(h)
      BY <1>2, <2>1
    <3> QED BY <1>2, <1>4, <1>7, <2>1, <3>1 DEF Sound
  <2>2. CASE i = Len(h) + 1
    <3>1. i - 1 = Len(h) /\ Len(h) \in 1..Len(h) /\ h # <<>>
      BY <1>2, <2>2, EmptySeq
    <3>2. Last(h) = h[Len(h)] /\ g[i - 1] = h[Len(h)]
      BY <1>4, <3>1 DEF Last
    <3>3. ChainAfter(t, Last(h).turn, r2, c) = ChainAfter(t, Last(h).turn, r, c)
      BY <1>6, <3>1, <3>2 DEF ChainAfter
    <3>4. g[i].turn = t
      BY <1>4, <2>2 DEF Item
    <3> QED BY <3>1, <3>2, <3>3, <3>4
  <2>3. CASE i = Len(h) + 2
    BY <1>4, <2>3 DEF Item, IsUser
  <2> QED BY <1>5, <2>1, <2>2, <2>3
<1>12. \A i, j \in DOMAIN g : i < j /\ g[i].turn # g[j].turn => FreeOf(g[i].turn, g[j].turn, r2, c)
  <2> SUFFICES ASSUME NEW i \in DOMAIN g, NEW j \in DOMAIN g, i < j, g[i].turn # g[j].turn
               PROVE  FreeOf(g[i].turn, g[j].turn, r2, c)
    OBVIOUS
  <2>1. i \in 1..Len(h)
    <3>1. g[Len(h) + 1].turn = t /\ g[Len(h) + 2].turn = t
      BY <1>4 DEF Item
    <3>2. CASE i = Len(h) + 1
      BY <1>2, <1>5, <3>1, <3>2
    <3>3. CASE i = Len(h) + 2
      BY <1>2, <1>5, <3>3
    <3> QED BY <1>5, <3>2, <3>3
  <2>2. CASE j \in 1..Len(h)
    BY <1>2, <1>4, <1>7, <2>1, <2>2 DEF Sound
  <2>3. CASE j \notin 1..Len(h)
    <3>1. g[j].turn = t /\ g[i] = h[i]
      BY <1>4, <1>5, <2>1, <2>3 DEF Item
    <3>2. \A u \in Turns : r[u] # None => c[u] # t
      OBVIOUS
    <3>3. h[i].turn \in Turns /\ r[h[i].turn] # None /\ r2[h[i].turn] = r[h[i].turn]
      BY <1>6, <2>1
    <3>4. \A u \in r[h[i].turn].plan : u \in Turns /\ r[u] # None
      BY <1>2, <2>1, <3>3 DEF Sound
    <3> QED BY <3>1, <3>2, <3>3, <3>4 DEF FreeOf
  <2> QED BY <2>2, <2>3
<1>13. Sound(g, r2, c)
  BY <1>8, <1>9, <1>10, <1>11, <1>12 DEF Sound
<1>14. Len(g) = Len(h) + 2 /\ Len(g) - 1 = Len(h) + 1
  BY <1>2, <1>3
<1> QED BY <1>3, <1>4, <1>13, <1>14

(* Trimming keeps the latest items, at least two of them. *)
LEMMA TrimmedIsSound ==
  ASSUME NEW r, NEW c, NEW h \in Seq(Items), Sound(h, r, c)
  PROVE  /\ Trimmed(h) \in Seq(Items) /\ Len(Trimmed(h)) <= Limit /\ Sound(Trimmed(h), r, c)
         /\ Trimmed(h) = <<>> <=> h = <<>>
         /\ \A i \in DOMAIN Trimmed(h) : \E j \in DOMAIN h : Trimmed(h)[i] = h[j]
         /\ h # <<>> => \E k \in DOMAIN Trimmed(h) : Trimmed(h)[k] = h[Len(h)]
         /\ Len(h) > 1 => \E k \in DOMAIN Trimmed(h) : Trimmed(h)[k] = h[Len(h) - 1]
<1> DEFINE n == Len(h)
           m == Max({1, n - Limit + 1})
           g == Trimmed(h)
<1>1. n \in Nat /\ DOMAIN h = 1..n /\ Limit \in Nat /\ Limit > 1
  BY ItemsOf, ConversationAssumption
<1>2. m = IF n > Limit THEN n - Limit + 1 ELSE 1
  <2>1. \E x \in {1, n - Limit + 1} : \A y \in {1, n - Limit + 1} : x >= y
    <3>1. CASE n > Limit
      BY <1>1, <3>1
    <3>2. CASE ~(n > Limit)
      BY <1>1, <3>2
    <3> QED BY <3>1, <3>2
  <2>2. m \in {1, n - Limit + 1} /\ \A y \in {1, n - Limit + 1} : m >= y
    BY <2>1 DEF Max
  <2> HIDE DEF m
  <2>3. m >= 1 /\ m >= n - Limit + 1
    BY <2>2
  <2> QED BY <1>1, <2>2, <2>3
<1> HIDE DEF m
<1>3. m \in Nat \ {0} /\ (n = 0 \/ m <= n) /\ n - m + 1 <= Limit
  BY <1>1, <1>2
<1>4. g \in Seq(Items) /\ Sound(g, r, c)
  <2>1. n \in Nat /\ n <= Len(h) /\ AnswerAt(h, n)
    BY <1>1 DEF AnswerAt
  <2> QED BY <1>3, <2>1, PartIsSound DEF m, Trimmed
<1>5. /\ Len(g) = IF m <= n THEN n - m + 1 ELSE 0
      /\ \A i \in 1..n - m + 1 : g[i] = h[m + i - 1]
  <2>1. m \in Int /\ n \in Int /\ \A i \in m..n : h[i] \in Items
    <3>1. \A i \in m..n : i \in DOMAIN h
      BY <1>1, <1>3
    <3> QED BY <1>1, <1>3, <3>1, ItemsOf
  <2> QED BY <2>1, SubSeqProperties DEF m, Trimmed
<1>6. Len(g) \in Nat /\ DOMAIN g = 1..Len(g)
  BY <1>4, ItemsOf
<1> HIDE DEF g
<1>7. CASE n = 0
  <2>1. h = <<>>
    BY <1>7, EmptySeq
  <2>2. Len(g) = 0
    BY <1>1, <1>2, <1>5, <1>7
  <2>3. g = <<>>
    BY <1>4, <2>2, EmptySeq
  <2> QED BY <1>1, <1>4, <1>6, <1>7, <2>1, <2>2, <2>3 DEF g
<1>8. CASE n # 0
  <2>1. m <= n /\ Len(g) = n - m + 1
    BY <1>3, <1>5, <1>8
  <2>2. h # <<>> /\ g # <<>>
    BY <1>1, <1>3, <1>8, <2>1, EmptySeq
  <2>3. \A i \in DOMAIN g : m + i - 1 \in DOMAIN h /\ g[i] = h[m + i - 1]
    BY <1>1, <1>3, <1>5, <1>6, <2>1
  <2>4. n - m + 1 \in DOMAIN g /\ m + (n - m + 1) - 1 = n
    BY <1>1, <1>3, <1>6, <2>1
  <2>5. g[n - m + 1] = h[n]
    BY <2>3, <2>4
  <2>6. ASSUME n > 1 PROVE \E k \in DOMAIN g : g[k] = h[n - 1]
    <3>1. n - m >= 1
      BY <1>1, <1>2, <2>6
    <3>2. n - m \in DOMAIN g /\ m + (n - m) - 1 = n - 1
      BY <1>1, <1>3, <1>6, <2>1, <3>1
    <3>3. g[n - m] = h[n - 1]
      BY <2>3, <3>2
    <3> QED BY <3>2, <3>3
  <2>7. Len(g) <= Limit
    BY <1>3, <2>1
  <2> QED BY <1>4, <2>2, <2>3, <2>4, <2>5, <2>6, <2>7 DEF g
<1> QED BY <1>1, <1>7, <1>8

(* Without its window a history ends before the abandoned chain, nothing   *)
(* of which is left in it; it loses no turn of another chain.              *)
LEMMA WithoutWindowIsSound ==
  ASSUME NEW h \in Seq(Items), Sound(h, reply, chain), HasWindow(h)
  PROVE  LET g == WithoutWindow(h)
             q == chain[LastPayload(h)]
         IN  /\ h # <<>>
             /\ g \in Seq(Items) /\ Len(g) <= Len(h) /\ Sound(g, reply, chain)
             /\ g # <<>> => reply[Last(g).turn].type # "clarify"
             /\ \A i \in DOMAIN g : (\E j \in DOMAIN h : g[i] = h[j]) /\ FreeOf(g[i].turn, q, reply, chain)
             /\ \A t \in Turns : Told(h, t) /\ chain[t] # q => Told(g, t)
<1> DEFINE w == WindowStart(h)
           g == SubSeq(h, 1, w)
           q == chain[LastPayload(h)]
<1>1. h # <<>> /\ WithoutWindow(h) = g /\ Paired(h)
  BY LastIsPayload DEF HasWindow, WithoutWindow, Sound
<1>2. /\ Len(h) \in Nat \ {0} /\ DOMAIN h = 1..Len(h) /\ w \in 0..Len(h) - 1
      /\ w # 0 => Closes(h[w])
  BY <1>1, WindowBegins, LastIsPayload, ItemsOf
<1>3. w \in Nat /\ w <= Len(h) /\ 1 \in Nat \ {0}
  BY <1>2
<1>4. AnswerAt(h, w)
  BY <1>2 DEF AnswerAt, Closes
<1>5. g \in Seq(Items) /\ Sound(g, reply, chain)
  BY <1>3, <1>4, PartIsSound
<1>6. Len(g) = w /\ \A i \in 1..w : g[i] = h[i]
  <2>1. 1 \in Int /\ w \in Int /\ \A i \in 1..w : h[i] \in Items
    <3>1. \A i \in 1..w : i \in DOMAIN h
      BY <1>2
    <3> QED BY <1>3, <3>1, ItemsOf
  <2>2. /\ Len(g) = IF 1 <= w THEN w - 1 + 1 ELSE 0
        /\ \A i \in 1..w - 1 + 1 : g[i] = h[1 + i - 1]
    BY <2>1, SubSeqProperties
  <2>3. w - 1 + 1 = w /\ \A i \in 1..w : 1 + i - 1 = i
    BY <1>3
  <2>4. Len(g) = w
    BY <1>3, <2>2, <2>3
  <2> QED BY <2>2, <2>3, <2>4
<1>7. DOMAIN g = 1..w
  BY <1>5, <1>6, ItemsOf
<1> HIDE DEF g, w
<1>8. ASSUME g # <<>> PROVE reply[Last(g).turn].type # "clarify"
  <2>1. w # 0 /\ Last(g) = h[w]
    BY <1>3, <1>5, <1>6, <1>8, EmptySeq DEF Last
  <2> QED BY <1>2, <2>1 DEF Closes, IsTerminal, IsClarification
<1>9. ASSUME NEW i \in DOMAIN g
      PROVE  (\E j \in DOMAIN h : g[i] = h[j]) /\ FreeOf(g[i].turn, q, reply, chain)
  <2>1. i \in 1..w /\ i \in DOMAIN h /\ g[i] = h[i]
    BY <1>2, <1>6, <1>7
  <2> QED BY <1>1, <2>1, BeforeTheWindow DEF w
<1>10. ASSUME NEW t \in Turns, Told(h, t), chain[t] # q PROVE Told(g, t)
  <2>1. ASSUME NEW i \in DOMAIN h, h[i].turn = t PROVE h[i] \in Range(g)
    <3>1. i \notin w + 1..Len(h)
      BY <1>1, <1>10, <2>1, OneChain DEF w
    <3>2. i \in 1..w
      BY <1>2, <1>3, <3>1
    <3> QED BY <1>6, <1>7, <3>2 DEF Range
  <2>2. PICK i \in DOMAIN h, j \in DOMAIN h : h[i] = Item("user", t) /\ h[j] = Item("assistant", t)
    BY <1>10 DEF Told, Range
  <2>3. h[i].turn = t /\ h[j].turn = t
    BY <2>2 DEF Item
  <2> QED BY <2>1, <2>2, <2>3 DEF Told
<1>11. Len(g) <= Len(h)
  BY <1>2, <1>6
<1> QED BY <1>1, <1>5, <1>8, <1>9, <1>10, <1>11 DEF w

(* What is taken for the original question is a message of the history. *)
LEMMA OriginalIsATurn ==
  ASSUME NEW h \in Seq(Items), Paired(h)
  PROVE  OriginalQuestion(h) \in Turns \union {None}
<1>1. ASSUME NEW I \in SUBSET Asked(h) PROVE LatestOf(h, I) \in Turns \union {None}
  <2>1. CASE I = {}
    BY <2>1 DEF LatestOf
  <2>2. CASE I # {}
    <3>1. h # <<>> /\ Len(h) \in Nat /\ DOMAIN h = 1..Len(h)
      BY <1>1, <2>2, LastIsPayload, ItemsOf DEF Asked, Window, HasWindow
    <3>2. I \in SUBSET (0..Len(h)) /\ I \subseteq DOMAIN h
      <4>1. WindowStart(h) \in 0..Len(h) - 1
        BY <3>1, WindowBegins
      <4>2. Asked(h) \subseteq (WindowStart(h) + 1)..Len(h)
        BY DEF Asked, Window
      <4>3. (WindowStart(h) + 1)..Len(h) \subseteq 1..Len(h)
        BY <3>1, <4>1
      <4> QED BY <1>1, <3>1, <4>2, <4>3
    <3>3. Max(I) \in I
      BY <2>2, <3>1, <3>2, Greatest
    <3> QED BY <2>2, <3>2, <3>3, ItemsOf DEF LatestOf
  <2> QED BY <2>1, <2>2
<1> QED BY <1>1 DEF OriginalQuestion

(* The message of the window that alone looks like a question is found. *)
LEMMA FindsTheQuestion ==
  ASSUME NEW h \in Seq(Items), Sound(h, reply, chain), HasWindow(h),
         NEW q \in Turns, q = chain[LastPayload(h)], Told(h, q), ~LooksLikeShortAnswer(text[q]),
         \A u \in Seen(h) \ {q} : chain[u] = q => LooksLikeShortAnswer(text[u])
  PROVE  OriginalQuestion(h) = q
<1> DEFINE w == WindowStart(h)
           questions == {i \in Asked(h) : ~LooksLikeShortAnswer(text[h[i].turn])}
<1>1. h # <<>> /\ Paired(h) /\ LastIndex(h) = Len(h)
  BY LastIsPayload DEF HasWindow, Sound
<1>2. Len(h) \in Nat \ {0} /\ DOMAIN h = 1..Len(h) /\ w \in 0..Len(h) - 1
  BY <1>1, WindowBegins, LastIsPayload, ItemsOf
<1>3. PICK k \in DOMAIN h : h[k] = Item("user", q)
  BY DEF Told, Range
<1>4. h[k].turn = q /\ IsUser(h[k]) /\ ~IsAssistant(h[k])
  BY <1>3 DEF Item, IsUser, IsAssistant
<1>5. k \notin 1..w
  BY <1>1, <1>4, BeforeTheWindow
<1>6. k # Len(h)
  BY <1>1, <1>4, LastIsPayload
<1>7. k \in w + 1..Len(h) /\ k < Len(h)
  BY <1>2, <1>5, <1>6
<1> HIDE DEF w
<1>8. k \in questions
  BY <1>1, <1>4, <1>7 DEF Asked, Window, w
<1>9. \A i \in questions : i = k
  <2> SUFFICES ASSUME NEW i \in questions PROVE i = k
    OBVIOUS
  <2>1. i \in w + 1..Len(h) /\ IsUser(h[i]) /\ ~LooksLikeShortAnswer(text[h[i].turn])
    BY DEF Asked, Window, w
  <2>2. i \in DOMAIN h
    BY <1>2, <2>1
  <2>3. chain[h[i].turn] = q
    BY <1>1, <2>1, OneChain DEF w
  <2>4. h[i].turn = q
    BY <2>1, <2>2, <2>3 DEF Seen, Range
  <2>5. h[i] = h[k]
    BY <1>3, <2>1, <2>2, <2>4, ItemsOf DEF IsUser
  <2> QED BY <2>2, <2>5 DEF Sound
<1>10. Max(questions) = k
  <2>1. questions \in SUBSET (0..Len(h)) /\ questions # {}
    BY <1>2, <1>8, <1>9
  <2>2. Max(questions) \in questions
    BY <1>2, <2>1, Greatest
  <2> QED BY <1>9, <2>2
<1> QED BY <1>4, <1>8, <1>10 DEF OriginalQuestion, LatestOf
-----------------------------------------------------------------------------
(* The queue for a connection *)

(* A turn joins the queue at its end. *)
LEMMA Joined ==
  ASSUME NEW q \in Seq(Turns), Distinct(q), NEW t \in Turns, t \notin Range(q)
  PROVE  Append(q, t) \in Seq(Turns) /\ Distinct(Append(q, t)) /\ Range(Append(q, t)) = Range(q) \union {t}
<1> DEFINE r == Append(q, t)
<1>1. /\ r \in Seq(Turns) /\ Len(r) = Len(q) + 1
      /\ \A i \in 1..Len(q) : r[i] = q[i]
      /\ r[Len(q) + 1] = t
  BY AppendProperties
<1>2. Len(q) \in Nat /\ DOMAIN q = 1..Len(q) /\ DOMAIN r = 1..Len(q) + 1
  BY <1>1, LenProperties
<1> HIDE DEF r
<1>3. \A i \in DOMAIN r : i \in DOMAIN q \/ i = Len(q) + 1
  BY <1>2
<1>4. \A i \in DOMAIN q : i \in DOMAIN r /\ r[i] = q[i]
  BY <1>1, <1>2
<1>5. Len(q) + 1 \in DOMAIN r
  BY <1>2
<1>6. Range(r) = Range(q) \union {t}
  BY <1>1, <1>3, <1>4, <1>5 DEF Range
<1>7. Distinct(r)
  BY <1>1, <1>3, <1>4 DEF Distinct, Range
<1> QED BY <1>1, <1>6, <1>7 DEF r

(* A queue without its k-th element. *)
LEMMA Left ==
  ASSUME NEW q \in Seq(Turns), Distinct(q), NEW k \in DOMAIN q,
         NEW r \in Seq(Turns), Len(r) = Len(q) - 1,
         \A i \in DOMAIN r : r[i] = IF i < k THEN q[i] ELSE q[i + 1]
  PROVE  Distinct(r) /\ Range(r) = Range(q) \ {q[k]}
<1>1. /\ Len(q) \in Nat /\ DOMAIN q = 1..Len(q) /\ DOMAIN r = 1..Len(q) - 1
      /\ k \in Int
  BY LenProperties
<1> DEFINE From(i) == IF i < k THEN i ELSE i + 1
<1>2. \A i \in DOMAIN r : From(i) \in DOMAIN q /\ From(i) # k
  BY <1>1
<1>3. \A i, j \in DOMAIN r : From(i) = From(j) => i = j
  BY <1>1
<1>4. \A j \in DOMAIN q : j # k => \E i \in DOMAIN r : From(i) = j
  <2> SUFFICES ASSUME NEW j \in DOMAIN q, j # k PROVE \E i \in DOMAIN r : From(i) = j
    OBVIOUS
  <2>1. CASE j < k
    <3>1. j \in DOMAIN r /\ From(j) = j
      BY <1>1, <2>1
    <3> QED BY <3>1
  <2>2. CASE j > k
    <3>1. j - 1 \in DOMAIN r /\ From(j - 1) = j
      BY <1>1, <2>2
    <3> QED BY <3>1
  <2> QED BY <1>1, <2>1, <2>2
<1>5. \A i \in DOMAIN r : r[i] = q[From(i)]
  OBVIOUS
<1> HIDE DEF From
<1>6. Distinct(r)
  BY <1>2, <1>3, <1>5 DEF Distinct
<1>7. ASSUME NEW x PROVE x \in Range(r) <=> x \in Range(q) \ {q[k]}
  <2>1. x \in Range(r) => x \in Range(q) \ {q[k]}
    BY <1>2, <1>5 DEF Range, Distinct
  <2>2. x \in Range(q) \ {q[k]} => x \in Range(r)
    <3> SUFFICES ASSUME NEW j \in DOMAIN q, x = q[j], j # k PROVE x \in Range(r)
      BY DEF Range
    <3>1. PICK i \in DOMAIN r : From(i) = j
      BY <1>4
    <3> QED BY <1>5, <3>1 DEF Range
  <2> QED BY <2>1, <2>2
<1> QED BY <1>6, <1>7

(* The first of the queue is served. *)
LEMMA HeadLeaves ==
  ASSUME NEW q \in Seq(Turns), Distinct(q), q # <<>>
  PROVE  Tail(q) \in Seq(Turns) /\ Distinct(Tail(q)) /\ Range(Tail(q)) = Range(q) \ {Head(q)}
<1>1. /\ Tail(q) \in Seq(Turns) /\ Len(Tail(q)) = Len(q) - 1
      /\ \A i \in 1..Len(Tail(q)) : Tail(q)[i] = q[i + 1]
  BY HeadTailProperties
<1>2. Len(q) \in Nat \ {0} /\ DOMAIN q = 1..Len(q) /\ DOMAIN Tail(q) = 1..Len(Tail(q))
  BY <1>1, EmptySeq, LenProperties
<1>3. Head(q) = q[1] /\ 1 \in DOMAIN q
  BY <1>2
<1>4. \A i \in DOMAIN Tail(q) : ~(i < 1)
  BY <1>1, <1>2
<1>5. \A i \in DOMAIN Tail(q) : Tail(q)[i] = IF i < 1 THEN q[i] ELSE q[i + 1]
  BY <1>1, <1>2, <1>4
<1>6. Distinct(Tail(q)) /\ Range(Tail(q)) = Range(q) \ {q[1]}
  BY <1>1, <1>3, <1>5, Left, ZenonT(30)
<1> QED BY <1>1, <1>3, <1>6

(* A turn gives up its place, wherever it is in the queue. *)
LEMMA OneLeaves ==
  ASSUME NEW q \in Seq(Turns), Distinct(q), NEW k \in DOMAIN q
  PROVE  /\ RemoveAt(q, k) \in Seq(Turns) /\ Distinct(RemoveAt(q, k))
         /\ Range(RemoveAt(q, k)) = Range(q) \ {q[k]}
<1> DEFINE a == SubSeq(q, 1, k - 1)
           b == SubSeq(q, k + 1, Len(q))
           r == a \o b
<1>1. Len(q) \in Nat /\ DOMAIN q = 1..Len(q) /\ k \in 1..Len(q) /\ \A i \in DOMAIN q : q[i] \in Turns
  BY LenProperties, ElementOfSeq
<1>2. a \in Seq(Turns) /\ Len(a) = k - 1 /\ \A i \in 1..k - 1 : a[i] = q[i]
  <2>1. 1 \in Int /\ k - 1 \in Int /\ \A i \in 1..k - 1 : i \in DOMAIN q
    BY <1>1
  <2>2. \A i \in 1..k - 1 : q[i] \in Turns
    BY <1>1, <2>1
  <2>3. /\ a \in Seq(Turns) /\ Len(a) = IF 1 <= k - 1 THEN k - 1 - 1 + 1 ELSE 0
        /\ \A i \in 1..k - 1 - 1 + 1 : a[i] = q[1 + i - 1]
    BY <2>1, <2>2, SubSeqProperties
  <2>4. (IF 1 <= k - 1 THEN k - 1 - 1 + 1 ELSE 0) = k - 1 /\ k - 1 - 1 + 1 = k - 1
        /\ \A i \in 1..k - 1 : 1 + i - 1 = i
    BY <1>1
  <2> QED BY <2>3, <2>4
<1>3. b \in Seq(Turns) /\ Len(b) = Len(q) - k /\ \A i \in 1..Len(q) - k : b[i] = q[k + i]
  <2>1. k + 1 \in Int /\ Len(q) \in Int /\ \A i \in k + 1..Len(q) : i \in DOMAIN q
    BY <1>1
  <2>2. \A i \in k + 1..Len(q) : q[i] \in Turns
    BY <1>1, <2>1
  <2>3. /\ b \in Seq(Turns) /\ Len(b) = IF k + 1 <= Len(q) THEN Len(q) - (k + 1) + 1 ELSE 0
        /\ \A i \in 1..Len(q) - (k + 1) + 1 : b[i] = q[k + 1 + i - 1]
    BY <2>1, <2>2, SubSeqProperties
  <2>4. /\ (IF k + 1 <= Len(q) THEN Len(q) - (k + 1) + 1 ELSE 0) = Len(q) - k
        /\ Len(q) - (k + 1) + 1 = Len(q) - k
        /\ \A i \in 1..Len(q) - k : k + 1 + i - 1 = k + i
    BY <1>1
  <2> QED BY <2>3, <2>4
<1>4. RemoveAt(q, k) = r
  BY DEF RemoveAt
<1> HIDE DEF a, b
<1>5. /\ r \in Seq(Turns) /\ Len(r) = Len(a) + Len(b)
      /\ \A i \in 1..Len(a) + Len(b) : r[i] = IF i <= Len(a) THEN a[i] ELSE b[i - Len(a)]
  BY <1>2, <1>3, ConcatProperties
<1> HIDE DEF r
<1>6. Len(a) + Len(b) = Len(q) - 1 /\ Len(r) = Len(q) - 1 /\ DOMAIN r = 1..Len(q) - 1
  <2>1. Len(a) + Len(b) = Len(q) - 1
    BY <1>1, <1>2, <1>3
  <2> QED BY <1>5, <2>1, LenProperties
<1>7. ASSUME NEW i \in DOMAIN r PROVE r[i] = IF i < k THEN q[i] ELSE q[i + 1]
  <2>1. i \in 1..Len(q) - 1
    BY <1>6
  <2>2. r[i] = IF i <= Len(a) THEN a[i] ELSE b[i - Len(a)]
    BY <1>5, <1>6
  <2>3. CASE i < k
    <3>1. i <= Len(a) /\ i \in 1..k - 1
      BY <1>1, <1>2, <2>1, <2>3
    <3> QED BY <1>2, <2>2, <2>3, <3>1
  <2>4. CASE ~(i < k)
    <3>1. ~(i <= Len(a)) /\ i - Len(a) \in 1..Len(q) - k /\ k + (i - Len(a)) = i + 1
      BY <1>1, <1>2, <2>1, <2>4
    <3> QED BY <1>3, <2>2, <2>4, <3>1
  <2> QED BY <2>3, <2>4
<1>8. r \in Seq(Turns) /\ Len(r) = Len(q) - 1
  BY <1>5, <1>6
<1>9. Distinct(r) /\ Range(r) = Range(q) \ {q[k]}
  BY <1>7, <1>8, Left
<1> QED BY <1>4, <1>8, <1>9
-----------------------------------------------------------------------------
(* What the steps do *)

(* Nothing but the queue for a connection changes. *)
Unmoved ==
  /\ UNCHANGED <<saved, text, reply, work, context, ghosts>> /\ Running' = Running
  /\ \A t \in Turns : at'[t] = "running" <=> at[t] = "running"

(* A turn checkpoints what it works on. *)
Stores(t) ==
  /\ t \in Running /\ saved' = work[t]
  /\ UNCHANGED <<text, reply, work, context, ghosts>> /\ Running' = Running
  /\ \A u \in Turns : at'[u] = "running" <=> at[u] = "running"

(* The queue holds turns that wait. *)
LEMMA HeadWaits ==
  ASSUME TypeOK, line # <<>>
  PROVE  Head(line) \in Turns /\ at[Head(line)] = "waiting"
<1>1. Len(line) \in Nat \ {0} /\ DOMAIN line = 1..Len(line)
  BY EmptySeq, LenProperties DEF TypeOK
<1>2. Head(line) = line[1] /\ 1 \in DOMAIN line
  BY <1>1 DEF TypeOK
<1>3. Head(line) \in Range(line)
  BY <1>2 DEF Range
<1> QED BY <1>3 DEF TypeOK

(* The steps of a turn, as far as its history is concerned. *)
LEMMA StepCases ==
  ASSUME IInv, [Next]_vars
  PROVE  \/ Unmoved
         \/ \E t \in Turns : Stores(t) \/ Read(t) \/ LoadContext(t) \/ SaveTurn(t) \/ Fail(t)
<1>1. TypeOK
  BY DEF IInv
<1>2. CASE Connect
  <2>1. Head(line) \in Turns /\ at[Head(line)] = "waiting"
    BY <1>1, <1>2, HeadWaits DEF Connect
  <2>2. \A t \in Turns : at'[t] = IF t = Head(line) THEN "connected" ELSE at[t]
    BY <1>1, <1>2 DEF Connect, TypeOK
  <2> QED BY <1>2, <2>1, <2>2 DEF Connect, Unmoved, Running
<1>3. ASSUME NEW t \in Turns, Post(t) \/ GiveUp(t) PROVE Unmoved
  <2>1. at[t] \in {"new", "waiting"} /\ at'[t] \in {"waiting", "ended"}
        /\ \A u \in Turns \ {t} : at'[u] = at[u]
    BY <1>1, <1>3 DEF Post, GiveUp, TypeOK
  <2> QED BY <1>3, <2>1 DEF Post, GiveUp, Unmoved, Running
<1>4. ASSUME NEW t \in Turns, ResetTurnState(t) \/ Checkpoint(t) PROVE Stores(t)
  <2>1. CASE ResetTurnState(t)
    <3>1. \A u \in Turns : at'[u] = IF u = t THEN "ready" ELSE at[u]
      BY <1>1, <2>1 DEF ResetTurnState, TypeOK
    <3> QED BY <2>1, <3>1 DEF ResetTurnState, Stores, Running
  <2>2. CASE Checkpoint(t)
    BY <2>2 DEF Checkpoint, Stores, Running
  <2> QED BY <1>4, <2>1, <2>2
<1>5. CASE UNCHANGED vars
  BY <1>5 DEF vars, ghosts, Unmoved, Running
<1> QED BY <1>2, <1>3, <1>4, <1>5 DEF Next, Step

(* A turn starts from the checkpoint, beside the turns that run. *)
LEMMA ReadDoes ==
  ASSUME IInv, NEW t \in Turns, Read(t)
  PROVE  /\ t \notin Running /\ Running' = Running \union {t} /\ reply[t] = None /\ at'[t] = "read"
         /\ \A u \in Turns : at'[u] = IF u = t THEN "read" ELSE at[u]
         /\ \A u \in Turns : work'[u] = IF u = t THEN saved ELSE work[u]
         /\ \A u \in Turns : u # t => text'[u] = text[u]
         /\ \A u \in Running : Running # {} => u \in overlapped' /\ t \in overlapped'
         /\ overlapped \subseteq overlapped'
<1>1. at[t] = "connected" /\ \A u \in Turns : at'[u] = IF u = t THEN "read" ELSE at[u]
  BY DEF Read, IInv, TypeOK
<1>2. \A u \in Turns : work'[u] = IF u = t THEN saved ELSE work[u]
  BY DEF Read, IInv, TypeOK
<1>3. \A u \in Turns : u # t => text'[u] = text[u]
  BY DEF Read, IInv, TypeOK
<1>4. t \notin Running /\ Running' = Running \union {t}
  BY <1>1 DEF Running
<1>5. reply[t] = None
  BY <1>1 DEF IInv, Stages
<1> QED BY <1>1, <1>2, <1>3, <1>4, <1>5 DEF Read

(* load_context continues the pending chain, or opens one. *)
Continues(t, g, p) ==
  /\ work'[t] = g /\ dropped' = dropped
  /\ chain'[t] = IF p # None THEN ChainAfter(t, p, reply, chain) ELSE t
  /\ context'[t].plan \subseteq IF p # None THEN reply[p].plan ELSE {}
  /\ context'[t].original # None =>
       HasWindow(g) /\ reply[p].type = "clarify" /\ context'[t].original = OriginalQuestion(g)

(* It abandons the pending chain and opens one. *)
Abandons(t, g, p) ==
  /\ HasWindow(g) /\ work'[t] = WithoutWindow(g) /\ dropped' = dropped \union {<<chain[p], t>>}
  /\ chain'[t] = t /\ context'[t].plan = {} /\ context'[t].original = None

(* load_context goes on with the trimmed history, or with what is left of  *)
(* it without the chain it abandons.                                       *)
LEMMA LoadDoes ==
  ASSUME IInv, NEW t \in Turns, LoadContext(t), NEW g, g = Trimmed(work[t]), NEW p, p = LastPayload(g)
  PROVE  /\ t \in Running /\ Running' = Running /\ reply[t] = None
         /\ \A u \in Turns : at'[u] = IF u = t THEN "running" ELSE at[u]
         /\ \A u \in Turns : u # t =>
              work'[u] = work[u] /\ chain'[u] = chain[u] /\ context'[u] = context[u]
         /\ g \in Seq(Items) /\ Len(g) <= Limit /\ Sound(g, reply, chain)
         /\ \A i \in DOMAIN g : \E j \in DOMAIN work[t] : g[i] = work[t][j]
         /\ p # None => /\ g # <<>> /\ p \in Turns /\ reply[p] \in Payloads
                        /\ p = g[Len(g)].turn /\ Len(g) \in DOMAIN g
         /\ p = None => g = <<>>
         /\ context'[t] \in Contexts
         /\ Continues(t, g, p) \/ Abandons(t, g, p)
<1>1. work[t] \in Seq(Items) /\ Sound(work[t], reply, chain)
  BY DEF IInv, TypeOK, Histories
<1>2. /\ g \in Seq(Items) /\ Len(g) <= Limit /\ Sound(g, reply, chain)
      /\ \A i \in DOMAIN g : \E j \in DOMAIN work[t] : g[i] = work[t][j]
  BY <1>1, TrimmedIsSound
<1>3. g = <<>> => p = None
  BY <1>2, LastIsPayload DEF Sound
<1>4. ASSUME g # <<>>
      PROVE  /\ p \in Turns /\ p # None /\ reply[p] \in Payloads
             /\ p = g[Len(g)].turn /\ Len(g) \in DOMAIN g
  <2>1. Len(g) \in DOMAIN g /\ p = g[Len(g)].turn
    BY <1>2, <1>4, LastIsPayload DEF Sound
  <2>2. p \in Turns /\ reply[p] # None
    BY <1>2, <2>1, ItemsOf DEF Sound
  <2> QED BY <2>1, <2>2, ConversationAssumption DEF IInv, TypeOK
<1>5. at[t] = "ready" /\ \A u \in Turns : at'[u] = IF u = t THEN "running" ELSE at[u]
  BY DEF LoadContext, IInv, TypeOK
<1>6. t \in Running /\ Running' = Running /\ reply[t] = None
  BY <1>5 DEF Running, IInv, Stages
<1> DEFINE m == text[t]
           pending == p # None /\ IsClarification(reply[p])
           terminal == p # None /\ IsTerminal(reply[p])
<1>7. PICK d \in Decisions(p) :
       LET reuse == d.reuse \/ (pending /\ ~terminal /\ LooksLikeShortAnswer(m))
           abandoned == terminal \/ (pending /\ ~reuse)
           original == FollowupOf(m, g, IF reuse /\ ~terminal THEN p ELSE None)
           inherits == Inherited(d, abandoned)
       IN
       /\ context' = [context EXCEPT ![t] =
            [original |-> original,
             plan |-> IF /\ ~abandoned /\ p # None
                         /\ (reuse /\ original # None) \/ "entities" \in inherits
                      THEN reply[p].plan ELSE {},
             inherits |-> inherits]]
       /\ work' = [work EXCEPT ![t] = IF abandoned THEN WithoutWindow(g) ELSE g]
       /\ chain' = [chain EXCEPT ![t] = IF pending /\ ~abandoned THEN chain[p] ELSE t]
       /\ dropped' = IF abandoned THEN dropped \union {<<chain[p], t>>} ELSE dropped
  BY DEF LoadContext
<1> DEFINE reuse == d.reuse \/ (pending /\ ~terminal /\ LooksLikeShortAnswer(m))
           abandoned == terminal \/ (pending /\ ~reuse)
           original == FollowupOf(m, g, IF reuse /\ ~terminal THEN p ELSE None)
           inherits == Inherited(d, abandoned)
           plan == IF /\ ~abandoned /\ p # None
                      /\ (reuse /\ original # None) \/ "entities" \in inherits
                   THEN reply[p].plan ELSE {}
<1>8. /\ context' = [context EXCEPT ![t] = [original |-> original, plan |-> plan, inherits |-> inherits]]
      /\ work' = [work EXCEPT ![t] = IF abandoned THEN WithoutWindow(g) ELSE g]
      /\ chain' = [chain EXCEPT ![t] = IF pending /\ ~abandoned THEN chain[p] ELSE t]
      /\ dropped' = IF abandoned THEN dropped \union {<<chain[p], t>>} ELSE dropped
  BY <1>7
<1>9. inherits \in Inherits
  <2>1. {} \in Inherits
    BY DEF Inherits
  <2>2. d.inherits \in Inherits
    <3>1. CASE d \in {[reuse |-> FALSE, inherits |-> {}]}
      BY <2>1, <3>1
    <3>2. CASE d \in [reuse : {FALSE} \union {IsClarification(reply[p])}, inherits : Inherits]
      BY <3>2
    <3> QED BY <3>1, <3>2 DEF Decisions
  <2> QED BY <2>1, <2>2 DEF Inherited
<1>10. original # None =>
         /\ original = OriginalQuestion(g) /\ p # None /\ ~abandoned
         /\ IsClarification(reply[p]) /\ ~IsTerminal(reply[p])
  BY DEF FollowupOf
<1>11. plan \subseteq Turns /\ plan \subseteq IF p # None THEN reply[p].plan ELSE {}
  BY <1>3, <1>4 DEF Payloads
<1>12. original \in Turns \union {None}
  BY <1>2, <1>10, OriginalIsATurn DEF Sound
<1>13. abandoned => plan = {} /\ original = None /\ HasWindow(g)
  <2>1. abandoned => p # None /\ IsClarification(reply[p])
    BY DEF IsClarification, IsTerminal
  <2> HIDE DEF original
  <2>2. abandoned => plan = {}
    OBVIOUS
  <2> QED BY <1>10, <2>1, <2>2 DEF HasWindow
<1>14. pending /\ ~abandoned => reply[p].type = "clarify"
  BY DEF IsClarification, IsTerminal
<1>15. ~pending => p = None \/ reply[p].type # "clarify"
  BY DEF IsClarification
<1> HIDE DEF reuse, original, inherits, plan
<1>16. context'[t] = [original |-> original, plan |-> plan, inherits |-> inherits]
       /\ \A u \in Turns : u # t => context'[u] = context[u]
  BY <1>8 DEF IInv, TypeOK
<1>17. /\ work'[t] = IF abandoned THEN WithoutWindow(g) ELSE g
       /\ \A u \in Turns : u # t => work'[u] = work[u]
  BY <1>8 DEF IInv, TypeOK
<1>18. /\ chain'[t] = IF pending /\ ~abandoned THEN chain[p] ELSE t
       /\ \A u \in Turns : u # t => chain'[u] = chain[u]
  BY <1>8 DEF IInv, TypeOK
<1>19. context'[t] \in Contexts
  BY <1>9, <1>11, <1>12, <1>16 DEF Contexts
<1>20. CASE abandoned
  <2>1. Abandons(t, g, p)
    BY <1>8, <1>13, <1>16, <1>17, <1>18, <1>20 DEF Abandons
  <2> QED BY <1>2, <1>3, <1>4, <1>5, <1>6, <1>16, <1>17, <1>18, <1>19, <2>1
<1>21. CASE ~abandoned
  <2>1. chain'[t] = IF p # None THEN ChainAfter(t, p, reply, chain) ELSE t
    BY <1>14, <1>15, <1>18, <1>21 DEF ChainAfter
  <2>2. original # None => HasWindow(g) /\ reply[p].type = "clarify" /\ original = OriginalQuestion(g)
    BY <1>10 DEF HasWindow, IsClarification, IsTerminal
  <2> HIDE DEF abandoned
  <2>3. Continues(t, g, p)
    BY <1>8, <1>11, <1>16, <1>17, <1>21, <2>1, <2>2 DEF Continues
  <2> QED BY <1>2, <1>3, <1>4, <1>5, <1>6, <1>16, <1>17, <1>18, <1>19, <2>3
<1> QED BY <1>20, <1>21

(* save_turn puts the turn and its answer at the end of the history. *)
LEMMA SaveDoes ==
  ASSUME IInv, NEW t \in Turns, SaveTurn(t),
         NEW h, h = work[t] \o <<Item("user", t), Item("assistant", t)>>
  PROVE  /\ t \in Running /\ Running' = Running \ {t} /\ reply[t] = None /\ at[t] = "running"
         /\ \A u \in Turns : at'[u] = IF u = t THEN "ended" ELSE at[u]
         /\ \A u \in Turns : u # t =>
              reply'[u] = reply[u] /\ work'[u] = work[u] /\ context'[u] = context[u]
         /\ reply'[t] \in Payloads /\ reply'[t] # None
         /\ \A u \in reply'[t].plan : u = t \/ (u \in context[t].plan /\ reply[u] # None)
         /\ work'[t] = <<>> /\ context'[t] = Nothing
         /\ Sound(h, reply', chain) /\ h \in Seq(Items)
         /\ saved' = Trimmed(h) /\ Told(saved', t) /\ Told(h, t)
         /\ Seen(work[t]) \subseteq Seen(h) /\ \A u \in Turns : Told(work[t], u) => Told(h, u)
         /\ \A i \in DOMAIN h : h[i].turn = t \/ h[i].turn \in Seen(work[t])
<1>1. at[t] = "running" /\ \A u \in Turns : at'[u] = IF u = t THEN "ended" ELSE at[u]
  BY DEF SaveTurn, Gone, IInv, TypeOK
<1>2. t \in Running /\ Running' = Running \ {t} /\ reply[t] = None
  BY <1>1 DEF Running, IInv, Stages
<1>3. /\ work'[t] = <<>> /\ context'[t] = Nothing
      /\ \A u \in Turns : u # t => work'[u] = work[u] /\ context'[u] = context[u]
  BY DEF SaveTurn, Gone, IInv, TypeOK
<1>4. PICK y \in {"answer", "clarify", "failure"}, p \in {{}, context[t].plan \union {t}} :
        reply' = [reply EXCEPT ![t] = [type |-> y, plan |-> p]]
  BY DEF SaveTurn
<1>5. /\ reply'[t] = [type |-> y, plan |-> p] /\ context[t].plan \subseteq Turns
      /\ \A u \in Turns : u # t => reply'[u] = reply[u]
  BY <1>4 DEF IInv, TypeOK, Contexts
<1>6. reply'[t] \in Payloads /\ reply'[t] # None
  BY <1>5, ConversationAssumption DEF Payloads
<1>7. \A u \in reply'[t].plan : u = t \/ (u \in context[t].plan /\ reply[u] # None)
  BY <1>1, <1>5 DEF IInv, Following
<1>8. \A u \in reply'[t].plan : reply'[u] # None
  BY <1>5, <1>6, <1>7
<1>9. \A u \in Turns : reply[u] # None => reply'[u] = reply[u] /\ reply[u].plan \subseteq Turns
  BY <1>2, <1>5 DEF IInv, TypeOK, Payloads
<1>10. work[t] \in Seq(Items) /\ Sound(work[t], reply, chain)
  BY DEF IInv, TypeOK, Histories
<1>11. work[t] # <<>> => chain[t] = ChainAfter(t, Last(work[t]).turn, reply, chain)
  BY <1>1 DEF IInv, Following
<1>12. \A u \in Turns : chain[u] = u \/ reply[chain[u]] # None
  BY DEF IInv, Stages
<1>13. /\ h \in Seq(Items) /\ Len(h) = Len(work[t]) + 2 /\ Sound(h, reply', chain)
       /\ h[Len(h)] = Item("assistant", t) /\ h[Len(h) - 1] = Item("user", t)
  <2>1. Joins(t, work[t], h, reply, chain, reply')
    BY <1>2, <1>6, <1>8, <1>9, <1>10, <1>11, <1>12 DEF Joins
  <2> QED BY <2>1, JoinedIsSound
<1>14. Len(work[t]) \in Nat /\ DOMAIN work[t] = 1..Len(work[t]) /\ DOMAIN h = 1..Len(h)
  BY <1>10, <1>13, ItemsOf
<1>15. \A i \in 1..Len(work[t]) : i \in DOMAIN h /\ h[i] = work[t][i]
  <2> DEFINE new == <<Item("user", t), Item("assistant", t)>>
  <2>1. new \in Seq(Items) /\ Len(new) = 2
    BY DEF Items, Item
  <2> HIDE DEF new
  <2>2. \A i \in 1..Len(work[t]) + Len(new) :
          h[i] = IF i <= Len(work[t]) THEN work[t][i] ELSE new[i - Len(work[t])]
    BY <1>10, <2>1, ConcatProperties DEF new
  <2>3. \A i \in 1..Len(work[t]) : i \in 1..Len(work[t]) + Len(new) /\ i <= Len(work[t]) /\ i \in DOMAIN h
    BY <1>13, <1>14, <2>1
  <2> QED BY <2>2, <2>3
<1>16. Len(h) > 1 /\ h # <<>> /\ Len(h) \in DOMAIN h /\ Len(h) - 1 \in DOMAIN h
  <2>1. Len(h) > 1 /\ Len(h) \in DOMAIN h /\ Len(h) - 1 \in DOMAIN h
    BY <1>13, <1>14
  <2> QED BY <2>1, EmptySeq
<1>17. saved' = Trimmed(h)
  BY DEF SaveTurn
<1>18. Told(saved', t) /\ Told(h, t)
  <2>1. (\E k \in DOMAIN Trimmed(h) : Trimmed(h)[k] = h[Len(h)])
        /\ (\E k \in DOMAIN Trimmed(h) : Trimmed(h)[k] = h[Len(h) - 1])
    BY <1>13, <1>16, TrimmedIsSound
  <2> QED BY <1>13, <1>16, <1>17, <2>1 DEF Told, Range
<1>19. Seen(work[t]) \subseteq Seen(h) /\ \A u \in Turns : Told(work[t], u) => Told(h, u)
  <2>1. Range(work[t]) \subseteq Range(h)
    BY <1>14, <1>15 DEF Range
  <2> QED BY <2>1 DEF Seen, Told
<1>20. \A i \in DOMAIN h : h[i].turn = t \/ h[i].turn \in Seen(work[t])
  <2> SUFFICES ASSUME NEW i \in DOMAIN h PROVE h[i].turn = t \/ h[i].turn \in Seen(work[t])
    OBVIOUS
  <2>1. i \in 1..Len(work[t]) \/ i = Len(h) \/ i = Len(h) - 1
    BY <1>13, <1>14
  <2>2. CASE i \in 1..Len(work[t])
    BY <1>14, <1>15, <2>2 DEF Seen, Range
  <2>3. CASE i = Len(h) \/ i = Len(h) - 1
    BY <1>13, <2>3 DEF Item
  <2> QED BY <2>1, <2>2, <2>3
<1> QED BY <1>1, <1>2, <1>3, <1>5, <1>6, <1>7, <1>13, <1>17, <1>18, <1>19, <1>20

(* A turn that fails leaves the others and the checkpoint alone. *)
LEMMA FailDoes ==
  ASSUME IInv, NEW t \in Turns, Fail(t)
  PROVE  /\ Running' = Running \ {t} /\ reply[t] = None /\ at[t] # "ended"
         /\ \A u \in Turns : at'[u] = IF u = t THEN "ended" ELSE at[u]
         /\ \A u \in Turns : u # t =>
              text'[u] = text[u] /\ work'[u] = work[u] /\ context'[u] = context[u]
         /\ work'[t] = <<>> /\ context'[t] = Nothing
<1>1. at[t] \in {"connected", "read", "ready", "running"}
      /\ \A u \in Turns : at'[u] = IF u = t THEN "ended" ELSE at[u]
  BY DEF Fail, Gone, Holding, IInv, TypeOK
<1>2. Running' = Running \ {t} /\ reply[t] = None /\ at[t] # "ended"
  BY <1>1 DEF Running, IInv, Stages
<1>3. /\ work'[t] = <<>> /\ context'[t] = Nothing
      /\ \A u \in Turns : u # t =>
           text'[u] = text[u] /\ work'[u] = work[u] /\ context'[u] = context[u]
  BY DEF Fail, Gone, IInv, TypeOK
<1> QED BY <1>1, <1>2, <1>3

(* What an answered turn wrote, replied and belonged to stays. *)
LEMMA AnsweredIsSettled ==
  ASSUME IInv, [Next]_vars
  PROVE  \A u \in Turns : reply[u] # None =>
           reply'[u] = reply[u] /\ chain'[u] = chain[u] /\ text'[u] = text[u] /\ reply[u].plan \subseteq Turns
<1> DEFINE Same(u) == reply'[u] = reply[u] /\ chain'[u] = chain[u] /\ text'[u] = text[u]
<1> SUFFICES ASSUME NEW u \in Turns, reply[u] # None
             PROVE  Same(u)
  BY DEF IInv, TypeOK, Payloads
<1>1. CASE Unmoved
  BY <1>1 DEF Unmoved, ghosts
<1>2. ASSUME NEW t \in Turns, Stores(t) PROVE Same(u)
  BY <1>2 DEF Stores, ghosts
<1>3. ASSUME NEW t \in Turns, Read(t) PROVE Same(u)
  BY <1>3, ReadDoes DEF Read
<1>4. ASSUME NEW t \in Turns, LoadContext(t) PROVE Same(u)
  BY <1>4, LoadDoes DEF LoadContext
<1>5. ASSUME NEW t \in Turns, SaveTurn(t) PROVE Same(u)
  BY <1>5, SaveDoes DEF SaveTurn
<1>6. ASSUME NEW t \in Turns, Fail(t) PROVE Same(u)
  BY <1>6, FailDoes DEF Fail, ghosts
<1> QED BY <1>1, <1>2, <1>3, <1>4, <1>5, <1>6, StepCases
-----------------------------------------------------------------------------
(* Every step preserves the invariant *)

(* No step of a turn spoils a history. *)
LEMMA SoundStays ==
  ASSUME IInv, [Next]_vars, NEW h, h \in Seq(Items) /\ Sound(h, reply, chain)
  PROVE  Sound(h, reply', chain')
BY AnsweredIsSettled, StaysSound

(* Histories stay sound: they are cut at a border or continued. *)
LEMMA HistoriesStep ==
  ASSUME IInv, [Next]_vars
  PROVE  Histories' /\ saved' \in Seq(Items) /\ Len(saved') <= Limit
         /\ \A u \in Turns : work'[u] \in Seq(Items)
<1> DEFINE Fine(h) == h \in Seq(Items) /\ Len(h) <= Limit /\ Sound(h, reply, chain)
           Good(h) == h \in Seq(Items) /\ Len(h) <= Limit /\ Sound(h, reply', chain')
<1> SUFFICES Good(saved') /\ \A u \in Turns : Good(work'[u])
  BY DEF Histories
<1>1. Fine(saved) /\ \A u \in Turns : Fine(work[u])
  BY DEF IInv, TypeOK, Histories
<1>2. \A h : Fine(h) => Good(h)
  BY SoundStays
<1>3. Good(saved) /\ \A u \in Turns : Good(work[u])
  BY <1>1, <1>2
<1>4. Fine(<<>>)
  <2>1. <<>> \in Seq(Items) /\ Len(<<>>) = 0 /\ DOMAIN (<<>>) = {} /\ 0 <= Limit
    BY EmptySeq, ConversationAssumption
  <2> QED BY <2>1 DEF Sound, Paired
<1>5. Good(<<>>)
  BY <1>2, <1>4
<1> HIDE DEF Fine, Good
<1>6. CASE Unmoved
  BY <1>3, <1>6 DEF Unmoved
<1>7. ASSUME NEW t \in Turns, Stores(t) PROVE Good(saved') /\ \A u \in Turns : Good(work'[u])
  BY <1>3, <1>7 DEF Stores
<1>8. ASSUME NEW t \in Turns, Read(t) PROVE Good(saved') /\ \A u \in Turns : Good(work'[u])
  BY <1>3, <1>8, ReadDoes DEF Read
<1>9. ASSUME NEW t \in Turns, LoadContext(t) PROVE Good(saved') /\ \A u \in Turns : Good(work'[u])
  <2> DEFINE g == Trimmed(work[t])
             p == LastPayload(g)
  <2>1. g \in Seq(Items) /\ Len(g) <= Limit /\ Sound(g, reply, chain)
    BY <1>9, LoadDoes
  <2>2. HasWindow(g) => Fine(WithoutWindow(g))
    <3>1. HasWindow(g) => /\ WithoutWindow(g) \in Seq(Items) /\ Sound(WithoutWindow(g), reply, chain)
                          /\ Len(WithoutWindow(g)) <= Len(g)
      BY <2>1, WithoutWindowIsSound
    <3> HIDE DEF g
    <3>2. HasWindow(g) => Len(WithoutWindow(g)) \in Nat /\ Len(g) \in Nat /\ Limit \in Nat
      BY <2>1, <3>1, LenProperties, ConversationAssumption
    <3>3. HasWindow(g) => Len(WithoutWindow(g)) <= Limit
      BY <2>1, <3>1, <3>2
    <3> QED BY <3>1, <3>3 DEF Fine
  <2>3. Fine(g)
    BY <2>1 DEF Fine
  <2>4. Continues(t, g, p) \/ Abandons(t, g, p)
    BY <1>9, LoadDoes
  <2>5. Good(work'[t])
    BY <1>2, <2>2, <2>3, <2>4 DEF Continues, Abandons
  <2>6. \A u \in Turns : u # t => work'[u] = work[u]
    BY <1>9, LoadDoes
  <2>7. saved' = work'[t]
    BY <1>9 DEF LoadContext
  <2> QED BY <1>3, <2>5, <2>6, <2>7
<1>10. ASSUME NEW t \in Turns, SaveTurn(t) PROVE Good(saved') /\ \A u \in Turns : Good(work'[u])
  <2> DEFINE h == work[t] \o <<Item("user", t), Item("assistant", t)>>
  <2>1. h \in Seq(Items) /\ Sound(h, reply', chain) /\ saved' = Trimmed(h) /\ UNCHANGED chain
    BY <1>10, SaveDoes DEF SaveTurn
  <2> HIDE DEF h
  <2>2. Good(saved')
    BY <2>1, TrimmedIsSound DEF Good
  <2>3. work'[t] = <<>> /\ \A u \in Turns : u # t => work'[u] = work[u]
    BY <1>10, SaveDoes
  <2> QED BY <1>3, <1>5, <2>2, <2>3
<1>11. ASSUME NEW t \in Turns, Fail(t) PROVE Good(saved') /\ \A u \in Turns : Good(work'[u])
  <2>1. saved' = saved /\ work'[t] = <<>> /\ \A u \in Turns : u # t => work'[u] = work[u]
    BY <1>11, FailDoes DEF Fail
  <2> QED BY <1>3, <1>5, <2>1
<1> QED BY <1>6, <1>7, <1>8, <1>9, <1>10, <1>11, StepCases

(* What a turn knows of the turns it follows comes from its history. *)
LEMMA PayloadIsAnswered ==
  ASSUME IInv, NEW h \in Seq(Items), Sound(h, reply, chain), h # <<>>
  PROVE  LET p == h[Len(h)].turn
         IN  /\ p \in Turns /\ reply[p] # None /\ Last(h).turn = p /\ p \in Seen(h)
             /\ reply[p].plan \subseteq Turns /\ \A u \in reply[p].plan : reply[u] # None
<1>1. Len(h) \in DOMAIN h
  BY LastIsPayload DEF Sound
<1>2. h[Len(h)].turn \in Turns /\ reply[h[Len(h)].turn] # None
  BY <1>1, ItemsOf DEF Sound
<1> QED BY <1>1, <1>2 DEF Sound, Seen, Range, Last, IInv, TypeOK, Payloads

(* Only an ended turn is answered, and only a running one has a context. *)
LEMMA StagesStep ==
  ASSUME IInv, [Next]_vars
  PROVE  Stages'
<1> DEFINE StagedAt(u) ==
      /\ reply'[u] # None => at'[u] = "ended" /\ \A v \in reply'[u].plan : reply'[v] # None
      /\ u \notin Running' => work'[u] = <<>>
      /\ at'[u] # "running" => context'[u] = Nothing
      /\ at'[u] \notin {"running", "ended"} => chain'[u] = u
      /\ chain'[u] = u \/ reply'[chain'[u]] # None
<1> SUFFICES ASSUME NEW u \in Turns PROVE StagedAt(u)
  BY DEF Stages
<1>1. /\ reply[u] # None => at[u] = "ended" /\ \A v \in reply[u].plan : reply[v] # None
      /\ u \notin Running => work[u] = <<>>
      /\ at[u] # "running" => context[u] = Nothing
      /\ at[u] \notin {"running", "ended"} => chain[u] = u
      /\ chain[u] = u \/ reply[chain[u]] # None
  BY DEF IInv, Stages
<1>2. /\ \A v \in Turns : reply[v] # None => reply'[v] = reply[v]
      /\ chain[u] \in Turns /\ at[u] \in Places
      /\ reply[u] # None => reply[u].plan \subseteq Turns
  BY AnsweredIsSettled DEF IInv, TypeOK
<1>3. CASE UNCHANGED vars
  BY <1>1, <1>3 DEF vars, ghosts, Running
<1>4. CASE Connect
  <2>1. Head(line) \in Turns /\ at[Head(line)] = "waiting"
    BY <1>4, HeadWaits DEF Connect, IInv
  <2>2. at'[u] = IF u = Head(line) THEN "connected" ELSE at[u]
    BY <1>4 DEF Connect, IInv, TypeOK
  <2> QED BY <1>1, <1>4, <2>1, <2>2 DEF Connect, ghosts, Running
<1>5. ASSUME NEW t \in Turns, Post(t) PROVE StagedAt(u)
  BY <1>1, <1>5 DEF Post, ghosts, Running, IInv, TypeOK
<1>6. ASSUME NEW t \in Turns, GiveUp(t) PROVE StagedAt(u)
  BY <1>1, <1>6 DEF GiveUp, ghosts, Running, IInv, TypeOK
<1>7. ASSUME NEW t \in Turns, ResetTurnState(t) PROVE StagedAt(u)
  BY <1>1, <1>7 DEF ResetTurnState, ghosts, Running, IInv, TypeOK
<1>8. ASSUME NEW t \in Turns, Checkpoint(t) PROVE StagedAt(u)
  BY <1>1, <1>8 DEF Checkpoint, ghosts, Running, IInv, TypeOK
<1>9. ASSUME NEW t \in Turns, Read(t) PROVE StagedAt(u)
  <2>1. at[t] = "connected" /\ reply' = reply /\ chain' = chain /\ context' = context
    BY <1>9 DEF Read
  <2>2. CASE u = t
    BY <1>1, <1>9, <2>1, <2>2, ReadDoes
  <2>3. CASE u # t
    BY <1>1, <1>9, <2>1, <2>3, ReadDoes
  <2> QED BY <2>2, <2>3
<1>10. ASSUME NEW t \in Turns, LoadContext(t) PROVE StagedAt(u)
  <2> DEFINE g == Trimmed(work[t])
             p == LastPayload(g)
  <2>0. reply' = reply
    BY <1>10 DEF LoadContext
  <2>1. CASE u # t
    <3>1. /\ at'[u] = at[u] /\ work'[u] = work[u] /\ chain'[u] = chain[u] /\ context'[u] = context[u]
          /\ Running' = Running
      BY <1>10, <2>1, LoadDoes
    <3> QED BY <1>1, <2>0, <3>1
  <2>2. CASE u = t
    <3>1. at'[t] = "running" /\ t \in Running' /\ reply'[t] = None /\ reply' = reply
      BY <1>10, <2>0, LoadDoes
    <3>2. /\ g \in Seq(Items) /\ Sound(g, reply, chain) /\ (Continues(t, g, p) \/ Abandons(t, g, p))
          /\ p # None => g # <<>> /\ p = g[Len(g)].turn
      BY <1>10, LoadDoes
    <3> HIDE DEF g, p
    <3>3. p # None => p \in Turns /\ reply[p] # None
      BY <3>2, PayloadIsAnswered
    <3>4. p # None => chain[p] = p \/ reply[chain[p]] # None
      BY <3>3 DEF IInv, Stages
    <3>5. chain'[t] = t \/ (p # None /\ chain'[t] = chain[p])
      BY <3>2 DEF Continues, Abandons, ChainAfter
    <3>6. chain'[t] = t \/ reply[chain'[t]] # None
      BY <3>3, <3>4, <3>5
    <3> QED BY <2>2, <3>1, <3>6
  <2> QED BY <2>1, <2>2
<1>11. ASSUME NEW t \in Turns, SaveTurn(t) PROVE StagedAt(u)
  <2> DEFINE h == work[t] \o <<Item("user", t), Item("assistant", t)>>
  <2>1. chain' = chain
    BY <1>11 DEF SaveTurn
  <2>2. CASE u # t
    <3>1. /\ at'[u] = at[u] /\ work'[u] = work[u] /\ context'[u] = context[u]
          /\ Running' = Running \ {t} /\ reply'[u] = reply[u]
      BY <1>11, <2>2, SaveDoes, ZenonT(30)
    <3> QED BY <1>1, <1>2, <2>1, <2>2, <3>1
  <2>3. CASE u = t
    <3>1. /\ at'[t] = "ended" /\ work'[t] = <<>> /\ context'[t] = Nothing /\ reply'[t] # None
          /\ \A v \in reply'[t].plan : v = t \/ (v \in context[t].plan /\ reply[v] # None)
      BY <1>11, SaveDoes
    <3>2. context[t].plan \subseteq Turns
      BY DEF IInv, TypeOK, Contexts
    <3> QED BY <1>1, <1>2, <2>1, <2>3, <3>1, <3>2
  <2> QED BY <2>2, <2>3
<1>12. ASSUME NEW t \in Turns, Fail(t) PROVE StagedAt(u)
  <2>1. reply' = reply /\ chain' = chain
    BY <1>12 DEF Fail, ghosts
  <2> QED BY <1>1, <1>12, <2>1, FailDoes
<1> QED BY <1>3, <1>4, <1>5, <1>6, <1>7, <1>8, <1>9, <1>10, <1>11, <1>12 DEF Next, Step

(* A running turn is of the chain its history leaves open. *)
LEMMA FollowingStep ==
  ASSUME IInv, [Next]_vars
  PROVE  Following'
<1> DEFINE Follows(u) ==
      /\ work'[u] # <<>> => chain'[u] = ChainAfter(u, Last(work'[u]).turn, reply', chain')
      /\ \A v \in context'[u].plan : reply'[v] # None
<1> SUFFICES ASSUME NEW u \in Turns, at'[u] = "running" PROVE Follows(u)
  BY DEF Following
<1>1. ASSUME at[u] = "running", work'[u] = work[u], context'[u] = context[u], chain'[u] = chain[u]
      PROVE  Follows(u)
  <2>1. /\ work[u] # <<>> => chain[u] = ChainAfter(u, Last(work[u]).turn, reply, chain)
        /\ \A v \in context[u].plan : reply[v] # None
    BY <1>1 DEF IInv, Following
  <2>2. work[u] # <<>> => Last(work[u]).turn \in Turns /\ reply[Last(work[u]).turn] # None
    BY PayloadIsAnswered DEF IInv, Histories, TypeOK
  <2>3. context[u].plan \subseteq Turns
    BY DEF IInv, TypeOK, Contexts
  <2>4. work[u] # <<>> => chain[u] = ChainAfter(u, Last(work[u]).turn, reply', chain')
    BY <2>1, <2>2, AnsweredIsSettled DEF ChainAfter
  <2>5. \A v \in context[u].plan : reply'[v] # None
    BY <2>1, <2>3, AnsweredIsSettled
  <2> QED BY <1>1, <2>4, <2>5
<1>2. CASE Unmoved
  BY <1>1, <1>2 DEF Unmoved, ghosts
<1>3. ASSUME NEW t \in Turns, Stores(t) PROVE Follows(u)
  BY <1>1, <1>3 DEF Stores, ghosts
<1>4. ASSUME NEW t \in Turns, Read(t) PROVE Follows(u)
  <2>1. u # t
    BY <1>4, ReadDoes
  <2> QED BY <1>1, <1>4, <2>1, ReadDoes DEF Read
<1>5. ASSUME NEW t \in Turns, LoadContext(t) PROVE Follows(u)
  <2> DEFINE g == Trimmed(work[t])
             p == LastPayload(g)
  <2>1. CASE u # t
    <3>1. at[u] = "running" /\ work'[u] = work[u] /\ context'[u] = context[u] /\ chain'[u] = chain[u]
      BY <1>5, <2>1, LoadDoes
    <3> HIDE DEF Follows
    <3> QED BY <1>1, <3>1
  <2>2. CASE u = t
    <3>1. /\ g \in Seq(Items) /\ Sound(g, reply, chain) /\ (Continues(t, g, p) \/ Abandons(t, g, p))
          /\ p # None => g # <<>> /\ p = g[Len(g)].turn
          /\ p = None => g = <<>>
          /\ reply[t] = None
      BY <1>5, LoadDoes
    <3> HIDE DEF g, p
    <3>2. p # None => /\ p \in Turns /\ p # t /\ reply[p] # None /\ Last(g).turn = p
                      /\ reply[p].plan \subseteq Turns /\ \A v \in reply[p].plan : reply[v] # None
      BY <3>1, PayloadIsAnswered
    <3>3. reply' = reply /\ (p # None => chain'[p] = chain[p])
      BY <1>5, <3>2, AnsweredIsSettled DEF LoadContext
    <3>4. CASE Continues(t, g, p)
      <4>1. work'[t] # <<>> => chain'[t] = ChainAfter(t, Last(work'[t]).turn, reply', chain')
        BY <3>1, <3>2, <3>3, <3>4 DEF Continues, ChainAfter
      <4>2. \A v \in context'[t].plan : reply'[v] # None
        BY <3>2, <3>3, <3>4 DEF Continues
      <4> QED BY <2>2, <4>1, <4>2
    <3>5. CASE Abandons(t, g, p)
      <4>1. WithoutWindow(g) # <<>> => reply[Last(WithoutWindow(g)).turn].type # "clarify"
        BY <3>1, <3>5, WithoutWindowIsSound DEF Abandons
      <4> QED BY <2>2, <3>3, <3>5, <4>1 DEF Abandons, ChainAfter
    <3> QED BY <3>1, <3>4, <3>5
  <2> QED BY <2>1, <2>2
<1>6. ASSUME NEW t \in Turns, SaveTurn(t) PROVE Follows(u)
  <2>1. u # t
    BY <1>6, SaveDoes
  <2>2. at[u] = "running" /\ work'[u] = work[u] /\ context'[u] = context[u] /\ chain'[u] = chain[u]
    BY <1>6, <2>1, SaveDoes DEF SaveTurn
  <2> HIDE DEF Follows
  <2> QED BY <1>1, <2>2
<1>7. ASSUME NEW t \in Turns, Fail(t) PROVE Follows(u)
  <2>1. u # t
    BY <1>7, FailDoes
  <2>2. at[u] = "running" /\ work'[u] = work[u] /\ context'[u] = context[u] /\ chain'[u] = chain[u]
    BY <1>7, <2>1, FailDoes DEF Fail, ghosts
  <2> HIDE DEF Follows
  <2> QED BY <1>1, <2>2
<1> HIDE DEF Follows
<1> QED BY <1>2, <1>3, <1>4, <1>5, <1>6, <1>7, StepCases

(* Turns that run at once are known to have done so. *)
LEMMA BesideStep ==
  ASSUME IInv, [Next]_vars
  PROVE  Beside'
<1>1. Beside
  BY DEF IInv
<1>2. CASE Unmoved
  BY <1>1, <1>2 DEF Unmoved, ghosts, Beside
<1>3. ASSUME NEW t \in Turns, Stores(t) PROVE Beside'
  BY <1>1, <1>3 DEF Stores, ghosts, Beside
<1>4. ASSUME NEW t \in Turns, Read(t) PROVE Beside'
  BY <1>1, <1>4, ReadDoes DEF Beside
<1>5. ASSUME NEW t \in Turns, LoadContext(t) PROVE Beside'
  <2>1. Running' = Running /\ overlapped' = overlapped
    BY <1>5, LoadDoes DEF LoadContext
  <2> QED BY <1>1, <2>1 DEF Beside
<1>6. ASSUME NEW t \in Turns, SaveTurn(t) PROVE Beside'
  <2>1. Running' = Running \ {t} /\ overlapped' = overlapped
    BY <1>6, SaveDoes DEF SaveTurn
  <2> QED BY <1>1, <2>1 DEF Beside
<1>7. ASSUME NEW t \in Turns, Fail(t) PROVE Beside'
  <2>1. Running' = Running \ {t} /\ overlapped' = overlapped
    BY <1>7, FailDoes DEF Fail, ghosts
  <2> QED BY <1>1, <2>1 DEF Beside
<1> QED BY <1>2, <1>3, <1>4, <1>5, <1>6, <1>7, StepCases

(* A turn whose question and answer are in a history is in it. *)
LEMMA ToldIsSeen ==
  ASSUME NEW h, NEW t, Told(h, t)
  PROVE  t \in Seen(h)
<1>1. Item("user", t) \in Range(h) /\ Item("user", t).turn = t
  BY DEF Told, Item
<1> QED BY <1>1 DEF Seen

(* A history holds answered turns. *)
LEMMA SeenAreAnswered ==
  ASSUME NEW h \in Seq(Items), Sound(h, reply, chain)
  PROVE  \A u \in Seen(h) : u \in Turns /\ reply[u] # None
BY ItemsOf DEF Seen, Range, Sound

(* An answered turn that was neither cut, dropped nor overlapped stays in  *)
(* every history there is.                                                 *)
LEMMA StayingStep ==
  ASSUME IInv, [Next]_vars
  PROVE  Staying'
<1> DEFINE Kept(t) == Told(saved', t) /\ \A u \in Running' : Told(work'[u], t)
<1> SUFFICES ASSUME NEW t \in Turns, Stays(t)' PROVE Kept(t)
  BY DEF Staying
<1>1. reply'[t] # None /\ t \notin overlapped' /\ t \notin cut' /\ \A d \in dropped' : d[1] # chain'[t]
  BY DEF Stays
<1>2. ASSUME reply[t] # None, overlapped \subseteq overlapped', cut \subseteq cut', dropped \subseteq dropped'
      PROVE  /\ chain'[t] = chain[t] /\ Told(saved, t)
             /\ \A u \in Running : Told(work[u], t)
  <2>1. chain'[t] = chain[t]
    BY <1>2, AnsweredIsSettled
  <2>2. Stays(t)
    BY <1>1, <1>2, <2>1 DEF Stays
  <2> QED BY <2>1, <2>2 DEF IInv, Staying
<1>3. CASE Unmoved
  BY <1>1, <1>2, <1>3 DEF Unmoved, ghosts
<1>4. ASSUME NEW a \in Turns, Stores(a) PROVE Kept(t)
  BY <1>1, <1>2, <1>4 DEF Stores, ghosts
<1>5. ASSUME NEW a \in Turns, Read(a) PROVE Kept(t)
  <2>1. UNCHANGED <<saved, reply, cut, dropped>>
    BY <1>5 DEF Read
  <2>2. /\ Running' = Running \union {a} /\ overlapped \subseteq overlapped'
        /\ \A u \in Turns : work'[u] = IF u = a THEN saved ELSE work[u]
    BY <1>5, ReadDoes
  <2>3. Running \subseteq Turns
    BY DEF Running
  <2> QED BY <1>1, <1>2, <2>1, <2>2, <2>3
<1>6. ASSUME NEW a \in Turns, LoadContext(a) PROVE Kept(t)
  <2> DEFINE g == Trimmed(work[a])
             p == LastPayload(g)
  <2>1. /\ reply' = reply /\ saved' = work'[a] /\ overlapped' = overlapped
        /\ cut' = cut \union (Seen(work[a]) \ {u \in Turns : Told(g, u)})
    BY <1>6 DEF LoadContext
  <2>2. /\ a \in Running /\ Running' = Running /\ g \in Seq(Items) /\ Sound(g, reply, chain)
        /\ \A u \in Turns : u # a => work'[u] = work[u]
        /\ Continues(a, g, p) \/ Abandons(a, g, p)
    BY <1>6, LoadDoes
  <2> HIDE DEF g
  <2>3. dropped \subseteq dropped'
    BY <2>2 DEF Continues, Abandons
  <2>4. chain'[t] = chain[t] /\ Told(saved, t) /\ \A u \in Running : Told(work[u], t)
    BY <1>1, <1>2, <2>1, <2>3
  <2>5. Told(g, t)
    BY <1>1, <2>1, <2>2, <2>4, ToldIsSeen
  <2>6. Told(work'[a], t)
    <3>1. CASE Continues(a, g, p)
      BY <2>5, <3>1 DEF Continues
    <3>2. CASE Abandons(a, g, p)
      <4>1. <<chain[p], a>> \in dropped' /\ HasWindow(g) /\ work'[a] = WithoutWindow(g)
        BY <3>2 DEF Abandons
      <4>2. chain[t] # chain[p]
        BY <1>1, <2>4, <4>1
      <4> QED BY <2>2, <2>5, <4>1, <4>2, WithoutWindowIsSound
    <3> QED BY <2>2, <3>1, <3>2
  <2>7. Running \subseteq Turns
    BY DEF Running
  <2> QED BY <2>1, <2>2, <2>4, <2>6, <2>7
<1>7. ASSUME NEW a \in Turns, SaveTurn(a) PROVE Kept(t)
  <2> DEFINE h == work[a] \o <<Item("user", a), Item("assistant", a)>>
  <2>1. /\ overlapped' = overlapped /\ dropped' = dropped /\ chain' = chain
        /\ cut' = cut \union (Seen(h) \ {u \in Turns : Told(saved', u)})
    BY <1>7 DEF SaveTurn
  <2>7. a \in Running /\ Running' = Running \ {a} /\ Told(saved', a)
    BY <1>7, SaveDoes
  <2>8. \A u \in Turns : u # a => reply'[u] = reply[u] /\ work'[u] = work[u]
    BY <1>7 DEF SaveTurn, Gone, IInv, TypeOK
  <2>2. /\ a \in Running /\ Running' = Running \ {a} /\ Told(saved', a)
        /\ \A u \in Turns : u # a => reply'[u] = reply[u] /\ work'[u] = work[u]
    BY <2>7, <2>8
  <2>6. \A u \in Turns : Told(work[a], u) => Told(h, u)
    BY <1>7, SaveDoes
  <2> HIDE DEF h
  <2>3. Running \subseteq Turns
    BY DEF Running
  <2>4. CASE t = a
    <3>1. Running = {a}
      BY <1>1, <2>1, <2>2, <2>4 DEF IInv, Beside
    <3> QED BY <2>2, <2>4, <3>1
  <2>5. CASE t # a
    <3>1. Told(saved, t) /\ \A u \in Running : Told(work[u], t)
      BY <1>1, <1>2, <2>1, <2>2, <2>5
    <3>2. t \in Seen(h)
      BY <2>2, <2>6, <3>1, ToldIsSeen
    <3>3. Told(saved', t)
      BY <1>1, <2>1, <3>2
    <3> QED BY <2>2, <2>3, <3>1, <3>3
  <2> QED BY <2>4, <2>5
<1>8. ASSUME NEW a \in Turns, Fail(a) PROVE Kept(t)
  <2>1. UNCHANGED <<saved, reply, cut, dropped, overlapped>>
    BY <1>8 DEF Fail, ghosts
  <2>2. Running' = Running \ {a} /\ \A u \in Turns : u # a => work'[u] = work[u]
    BY <1>8, FailDoes
  <2>3. Running \subseteq Turns
    BY DEF Running
  <2> QED BY <1>1, <1>2, <2>1, <2>2, <2>3
<1> HIDE DEF Kept
<1> QED BY <1>3, <1>4, <1>5, <1>6, <1>7, <1>8, StepCases

(* An answered turn does not come to be of a chain it was not of. *)
LEMMA FreeStays ==
  ASSUME IInv, [Next]_vars, NEW u \in Turns, reply[u] # None, NEW q, FreeOf(u, q, reply, chain)
  PROVE  FreeOf(u, q, reply', chain')
<1>1. reply'[u] = reply[u] /\ chain'[u] = chain[u] /\ reply[u].plan \subseteq Turns
  BY AnsweredIsSettled
<1>2. \A v \in reply[u].plan : reply[v] # None
  BY DEF IInv, Stages
<1>3. \A v \in reply[u].plan : chain'[v] = chain[v]
  BY <1>1, <1>2, AnsweredIsSettled
<1> QED BY <1>1, <1>3 DEF FreeOf

(* A chain stays out of a history it is not in. *)
LEMMA ForgottenStays ==
  ASSUME IInv, [Next]_vars, NEW h \in Seq(Items), Sound(h, reply, chain), NEW q, Forgotten(h, q, reply, chain)
  PROVE  Forgotten(h, q, reply', chain')
<1>1. \A i \in DOMAIN h : h[i].turn \in Turns /\ reply[h[i].turn] # None
  BY ItemsOf DEF Sound
<1> QED BY <1>1, FreeStays DEF Forgotten

(* Nothing of an abandoned chain is in a history, a carried-over plan or a *)
(* running turn.                                                           *)
LEMMA DroppingStep ==
  ASSUME IInv, [Next]_vars
  PROVE  Dropping'
<1> DEFINE Clear(t, q) == /\ Forgotten(work'[t], q, reply', chain')
                          /\ chain'[t] # q /\ \A u \in context'[t].plan : chain'[u] # q
           Rid(d) == Forgotten(saved', d[1], reply', chain') /\ \A t \in Running' : Clear(t, d[1])
<1> SUFFICES ASSUME NEW d \in dropped'
             PROVE  reply'[d[1]] # None /\ (d[2] \notin overlapped' => Rid(d))
  BY DEF Dropping
<1>1. Running \subseteq Turns
  BY DEF Running
<1>2. ASSUME d \in dropped PROVE d[1] \in Turns /\ reply[d[1]] # None /\ reply'[d[1]] # None
  BY <1>2, AnsweredIsSettled DEF IInv, TypeOK, Dropping
<1>3. ASSUME NEW h, h \in Seq(Items) /\ Sound(h, reply, chain), Forgotten(h, d[1], reply, chain)
      PROVE  Forgotten(h, d[1], reply', chain')
  BY <1>3, ForgottenStays
<1>4. \A h : h = saved \/ (\E t \in Turns : h = work[t]) => h \in Seq(Items) /\ Sound(h, reply, chain)
  BY DEF IInv, TypeOK, Histories
<1>5. ASSUME d \in dropped, d[2] \notin overlapped
      PROVE  /\ Forgotten(saved, d[1], reply, chain) /\ Forgotten(saved, d[1], reply', chain')
             /\ \A t \in Running : /\ Forgotten(work[t], d[1], reply, chain)
                                   /\ Forgotten(work[t], d[1], reply', chain')
                                   /\ chain[t] # d[1] /\ \A u \in context[t].plan : chain[u] # d[1]
  <2>1. /\ Forgotten(saved, d[1], reply, chain)
        /\ \A t \in Running : /\ Forgotten(work[t], d[1], reply, chain)
                              /\ chain[t] # d[1] /\ \A u \in context[t].plan : chain[u] # d[1]
    BY <1>5 DEF IInv, Dropping
  <2> QED BY <1>1, <1>3, <1>4, <2>1
<1>6. \A t \in Running : \A u \in context[t].plan : chain'[u] = chain[u]
  <2> SUFFICES ASSUME NEW t \in Running, NEW u \in context[t].plan PROVE chain'[u] = chain[u]
    OBVIOUS
  <2>1. u \in Turns /\ at[t] = "running"
    <3>1. at[t] # "running" => context[t].plan = {}
      BY <1>1 DEF IInv, Stages, Nothing
    <3> QED BY <1>1, <3>1 DEF IInv, TypeOK, Contexts
  <2>2. reply[u] # None
    BY <1>1, <2>1 DEF IInv, Following
  <2> QED BY <2>1, <2>2, AnsweredIsSettled
<1>7. ASSUME NEW t \in Running, d \in dropped, d[2] \notin overlapped,
             work'[t] = work[t], chain'[t] = chain[t], context'[t] = context[t]
      PROVE  Clear(t, d[1])
  BY <1>5, <1>6, <1>7
<1> HIDE DEF Clear
<1>8. CASE Unmoved
  BY <1>2, <1>5, <1>7, <1>8 DEF Unmoved, ghosts
<1>9. ASSUME NEW t \in Turns, Stores(t) PROVE reply'[d[1]] # None /\ (d[2] \notin overlapped' => Rid(d))
  BY <1>2, <1>5, <1>7, <1>9 DEF Stores, ghosts
<1>10. ASSUME NEW t \in Turns, Read(t) PROVE reply'[d[1]] # None /\ (d[2] \notin overlapped' => Rid(d))
  <2>1. UNCHANGED <<saved, reply, chain, context, dropped>>
    BY <1>10 DEF Read
  <2>2. /\ t \notin Running /\ Running' = Running \union {t}
        /\ overlapped \subseteq overlapped' /\ reply[t] = None
        /\ \A u \in Turns : work'[u] = IF u = t THEN saved ELSE work[u]
    BY <1>10, ReadDoes
  <2> SUFFICES ASSUME d[2] \notin overlapped' PROVE Rid(d)
    BY <1>2, <2>1
  <2>3. chain[t] = t /\ context[t] = Nothing
    BY <1>10 DEF Read, IInv, Stages
  <2>4. chain[t] # d[1] /\ context[t].plan = {}
    BY <1>2, <2>1, <2>2, <2>3 DEF Nothing
  <2>5. Clear(t, d[1])
    BY <1>5, <2>1, <2>2, <2>4 DEF Clear
  <2>6. \A u \in Running : Clear(u, d[1])
    BY <1>1, <1>7, <2>1, <2>2
  <2> QED BY <1>5, <2>1, <2>2, <2>5, <2>6
<1>11. ASSUME NEW t \in Turns, LoadContext(t) PROVE reply'[d[1]] # None /\ (d[2] \notin overlapped' => Rid(d))
  <2> DEFINE g == Trimmed(work[t])
             p == LastPayload(g)
  <2>1. reply' = reply /\ saved' = work'[t] /\ overlapped' = overlapped
    BY <1>11 DEF LoadContext
  <2>2. /\ t \in Running /\ Running' = Running /\ reply[t] = None
        /\ g \in Seq(Items) /\ Sound(g, reply, chain)
        /\ \A u \in Turns : u # t => work'[u] = work[u] /\ chain'[u] = chain[u] /\ context'[u] = context[u]
        /\ p # None => g # <<>> /\ p = g[Len(g)].turn /\ Len(g) \in DOMAIN g
        /\ Continues(t, g, p) \/ Abandons(t, g, p)
    BY <1>11, LoadDoes
  <2>8. \A i \in DOMAIN g : \E j \in DOMAIN work[t] : g[i] = work[t][j]
    BY <1>11, LoadDoes
  <2> HIDE DEF g, p
  <2>3. p # None => /\ p \in Turns /\ reply[p] # None
                    /\ reply[p].plan \subseteq Turns /\ \A u \in reply[p].plan : reply[u] # None
    BY <2>2, PayloadIsAnswered
  <2>4. HasWindow(g) =>
          /\ WithoutWindow(g) \in Seq(Items) /\ Sound(WithoutWindow(g), reply, chain)
          /\ \A i \in DOMAIN WithoutWindow(g) :
               (\E j \in DOMAIN g : WithoutWindow(g)[i] = g[j])
               /\ FreeOf(WithoutWindow(g)[i].turn, chain[LastPayload(g)], reply, chain)
    BY <2>2, WithoutWindowIsSound
  <2>5. work'[t] \in Seq(Items) /\ Sound(work'[t], reply, chain)
    BY <2>2, <2>4 DEF Continues, Abandons
  <2>6. CASE d \in dropped
    <3> SUFFICES ASSUME d[2] \notin overlapped PROVE Rid(d)
      BY <1>2, <2>1, <2>6
    <3>1. \A i \in DOMAIN g : FreeOf(g[i].turn, d[1], reply, chain)
      BY <1>5, <2>2, <2>6, <2>8 DEF Forgotten
    <3>2. Forgotten(work'[t], d[1], reply, chain)
      BY <2>2, <2>4, <3>1 DEF Continues, Abandons, Forgotten
    <3>3. Forgotten(work'[t], d[1], reply', chain')
      BY <1>3, <2>5, <3>2
    <3>4. d[1] # t
      BY <1>2, <2>2, <2>6
    <3>5. p # None => chain[p] # d[1] /\ \A u \in reply[p].plan : chain[u] # d[1] /\ chain'[u] = chain[u]
      BY <2>2, <2>3, <3>1, AnsweredIsSettled DEF FreeOf
    <3>6. chain'[t] # d[1]
      BY <2>2, <3>4, <3>5 DEF Continues, Abandons, ChainAfter
    <3>7. \A u \in context'[t].plan : chain'[u] # d[1]
      BY <2>2, <3>5 DEF Continues, Abandons
    <3>8. Clear(t, d[1])
      BY <3>3, <3>6, <3>7 DEF Clear
    <3>9. \A u \in Running : u # t => Clear(u, d[1])
      BY <1>1, <1>7, <2>2, <2>6
    <3> QED BY <2>1, <2>2, <3>3, <3>8, <3>9
  <2>7. CASE d \notin dropped
    <3>1. Abandons(t, g, p) /\ d = <<chain[p], t>>
      BY <2>2, <2>7 DEF Continues, Abandons
    <3>2. p # None /\ p = LastPayload(g)
      BY <3>1 DEF Abandons, HasWindow, p
    <3>3. reply[chain[p]] # None /\ d[1] = chain[p] /\ d[2] = t
      BY <2>3, <3>1, <3>2 DEF IInv, Stages
    <3> SUFFICES ASSUME t \notin overlapped PROVE Rid(d)
      BY <2>1, <3>3
    <3>4. Running = {t}
      BY <2>2 DEF IInv, Beside
    <3>5. Forgotten(work'[t], d[1], reply, chain)
      BY <2>4, <3>1, <3>2, <3>3 DEF Abandons, Forgotten
    <3>6. Forgotten(work'[t], d[1], reply', chain')
      BY <1>3, <2>5, <3>5
    <3>7. chain'[t] # d[1] /\ context'[t].plan = {}
      BY <2>2, <3>1, <3>3 DEF Abandons
    <3>8. Clear(t, d[1])
      BY <3>6, <3>7 DEF Clear
    <3> QED BY <2>1, <2>2, <3>4, <3>6, <3>8
  <2> QED BY <2>6, <2>7
<1>12. ASSUME NEW t \in Turns, SaveTurn(t) PROVE reply'[d[1]] # None /\ (d[2] \notin overlapped' => Rid(d))
  <2> DEFINE h == work[t] \o <<Item("user", t), Item("assistant", t)>>
  <2>1. chain' = chain /\ dropped' = dropped /\ overlapped' = overlapped
    BY <1>12 DEF SaveTurn
  <2>2. /\ t \in Running /\ Running' = Running \ {t} /\ reply[t] = None
        /\ \A u \in Turns : u # t => work'[u] = work[u] /\ context'[u] = context[u]
        /\ reply'[t] \in Payloads
        /\ \A u \in reply'[t].plan : u = t \/ (u \in context[t].plan /\ reply[u] # None)
        /\ h \in Seq(Items) /\ Sound(h, reply', chain) /\ saved' = Trimmed(h)
        /\ \A i \in DOMAIN h : h[i].turn = t \/ h[i].turn \in Seen(work[t])
    BY <1>12, SaveDoes, ZenonT(30)
  <2> HIDE DEF h
  <2> SUFFICES ASSUME d[2] \notin overlapped PROVE Rid(d)
    BY <1>2, <2>1
  <2>3. \A i \in DOMAIN saved' : \E j \in DOMAIN h : saved'[i] = h[j]
    BY <2>2, TrimmedIsSound
  <2>4. chain[t] # d[1] /\ \A u \in reply'[t].plan : chain[u] # d[1]
    BY <1>5, <2>1, <2>2
  <2>5. \A u \in Seen(work[t]) : FreeOf(u, d[1], reply', chain')
    BY <1>5, <2>1, <2>2 DEF Forgotten, Seen, Range
  <2>6. FreeOf(t, d[1], reply', chain')
    BY <2>1, <2>4 DEF FreeOf
  <2>7. Forgotten(saved', d[1], reply', chain')
    BY <2>2, <2>3, <2>5, <2>6 DEF Forgotten
  <2>8. \A u \in Running' : Clear(u, d[1])
    BY <1>1, <1>7, <2>1, <2>2
  <2> QED BY <2>7, <2>8
<1>13. ASSUME NEW t \in Turns, Fail(t) PROVE reply'[d[1]] # None /\ (d[2] \notin overlapped' => Rid(d))
  <2>1. UNCHANGED <<saved, reply, chain, dropped, overlapped>>
    BY <1>13 DEF Fail, ghosts
  <2>2. /\ Running' = Running \ {t}
        /\ \A u \in Turns : u # t => work'[u] = work[u] /\ context'[u] = context[u]
    BY <1>13, FailDoes
  <2> SUFFICES ASSUME d[2] \notin overlapped PROVE Rid(d)
    BY <1>2, <2>1
  <2>3. \A u \in Running' : Clear(u, d[1])
    BY <1>1, <1>7, <2>1, <2>2
  <2> QED BY <1>5, <2>1, <2>3
<1> HIDE DEF Rid
<1> QED BY <1>8, <1>9, <1>10, <1>11, <1>12, <1>13, StepCases

(* load_context finds the original question in the pending window. *)
LEMMA RecoversStep ==
  ASSUME IInv, [Next]_vars
  PROVE  RecoversTheQuestion'
<1> DEFINE Right(t) ==
      /\ context'[t].original # None
      /\ Told(work'[t], chain'[t]) /\ ~LooksLikeShortAnswer(text'[chain'[t]])
      /\ \A u \in Seen(work'[t]) \ {chain'[t]} : chain'[u] = chain'[t] => LooksLikeShortAnswer(text'[u])
      => context'[t].original = chain'[t]
<1> SUFFICES ASSUME NEW t \in Turns PROVE Right(t)
  BY DEF RecoversTheQuestion
<1>1. ASSUME context'[t] = context[t], work'[t] = work[t], chain'[t] = chain[t]
      PROVE  Right(t)
  <2>1. \A u \in Seen(work[t]) : text'[u] = text[u] /\ chain'[u] = chain[u]
    BY SeenAreAnswered, AnsweredIsSettled DEF IInv, TypeOK, Histories
  <2>2. Told(work[t], chain[t]) => chain[t] \in Seen(work[t])
    BY ToldIsSeen
  <2> QED BY <1>1, <2>1, <2>2 DEF IInv, RecoversTheQuestion
<1>2. ASSUME context'[t] = Nothing PROVE Right(t)
  BY <1>2 DEF Nothing
<1>3. CASE Unmoved
  BY <1>1, <1>3 DEF Unmoved, ghosts
<1>4. ASSUME NEW a \in Turns, Stores(a) PROVE Right(t)
  BY <1>1, <1>4 DEF Stores, ghosts
<1>5. ASSUME NEW a \in Turns, Read(a) PROVE Right(t)
  <2>1. context' = context /\ chain' = chain /\ at[a] = "connected"
    BY <1>5 DEF Read
  <2>2. context[a] = Nothing
    BY <2>1 DEF IInv, Stages
  <2>3. t # a => work'[t] = work[t]
    BY <1>5, ReadDoes
  <2> HIDE DEF Right
  <2> QED BY <1>1, <1>2, <2>1, <2>2, <2>3
<1>6. ASSUME NEW a \in Turns, LoadContext(a) PROVE Right(t)
  <2> DEFINE g == Trimmed(work[a])
             p == LastPayload(g)
  <2>1. CASE t # a
    <3>1. context'[t] = context[t] /\ work'[t] = work[t] /\ chain'[t] = chain[t]
      BY <1>6, <2>1, LoadDoes
    <3> HIDE DEF Right
    <3> QED BY <1>1, <3>1
  <2>2. CASE t = a
    <3>1. /\ g \in Seq(Items) /\ Sound(g, reply, chain) /\ reply[t] = None
          /\ Continues(t, g, p) \/ Abandons(t, g, p)
      BY <1>6, <2>2, LoadDoes
    <3>2. text' = text
      BY <1>6 DEF LoadContext
    <3>3. \A u \in Seen(g) : u \in Turns /\ u # t /\ chain'[u] = chain[u]
      BY <3>1, SeenAreAnswered, AnsweredIsSettled
    <3> HIDE DEF g
    <3> SUFFICES ASSUME context'[t].original # None,
                        Told(work'[t], chain'[t]), ~LooksLikeShortAnswer(text'[chain'[t]]),
                        \A u \in Seen(work'[t]) \ {chain'[t]} :
                          chain'[u] = chain'[t] => LooksLikeShortAnswer(text'[u])
                 PROVE  context'[t].original = chain'[t]
      OBVIOUS
    <3>4. Continues(t, g, p)
      BY <3>1 DEF Abandons
    <3>5. /\ HasWindow(g) /\ work'[t] = g /\ chain'[t] = chain[p]
          /\ context'[t].original = OriginalQuestion(g)
      BY <3>4 DEF Continues, ChainAfter, HasWindow
    <3>6. Told(g, chain[p]) /\ chain[p] \in Turns /\ ~LooksLikeShortAnswer(text[chain[p]])
      BY <3>2, <3>3, <3>5, ToldIsSeen
    <3>7. \A u \in Seen(g) \ {chain[p]} : chain[u] = chain[p] => LooksLikeShortAnswer(text[u])
      BY <3>2, <3>3, <3>5
    <3> QED BY <3>1, <3>5, <3>6, <3>7, FindsTheQuestion
  <2> QED BY <2>1, <2>2
<1>7. ASSUME NEW a \in Turns, SaveTurn(a) PROVE Right(t)
  <2>1. /\ context'[a] = Nothing /\ chain' = chain
        /\ t # a => work'[t] = work[t] /\ context'[t] = context[t]
    BY <1>7, SaveDoes DEF SaveTurn
  <2> HIDE DEF Right
  <2> QED BY <1>1, <1>2, <2>1
<1>8. ASSUME NEW a \in Turns, Fail(a) PROVE Right(t)
  <2>1. /\ context'[a] = Nothing /\ chain' = chain
        /\ t # a => work'[t] = work[t] /\ context'[t] = context[t]
    BY <1>8, FailDoes DEF Fail, ghosts
  <2> HIDE DEF Right
  <2> QED BY <1>1, <1>2, <2>1
<1> HIDE DEF Right
<1> QED BY <1>3, <1>4, <1>5, <1>6, <1>7, <1>8, StepCases

(* The queue holds the waiting turns, each once. *)
LEMMA QueueStep ==
  ASSUME IInv, [Next]_vars
  PROVE  /\ Waiting' /\ line' \in Seq(Turns) /\ Range(line') = {t \in Turns : at'[t] = "waiting"}
         /\ at' \in [Turns -> Places]
<1> DEFINE Queued == /\ line' \in Seq(Turns) /\ Distinct(line')
                     /\ Range(line') = {t \in Turns : at'[t] = "waiting"} /\ at' \in [Turns -> Places]
<1> SUFFICES Queued
  BY DEF Waiting
<1>1. /\ line \in Seq(Turns) /\ Distinct(line) /\ Range(line) = {t \in Turns : at[t] = "waiting"}
      /\ at \in [Turns -> Places]
  BY DEF IInv, TypeOK, Waiting
<1>2. ASSUME line' = line, at' \in [Turns -> Places],
             \A t \in Turns : at'[t] = "waiting" <=> at[t] = "waiting"
      PROVE  Queued
  BY <1>1, <1>2
<1>3. ASSUME NEW t \in Turns, NEW p \in Places, at' = [at EXCEPT ![t] = p]
      PROVE  at' \in [Turns -> Places] /\ \A u \in Turns : at'[u] = IF u = t THEN p ELSE at[u]
  BY <1>1, <1>3
<1>4. CASE UNCHANGED vars
  BY <1>1, <1>2, <1>4 DEF vars
<1>5. CASE Connect
  <2>1. Head(line) \in Turns /\ at[Head(line)] = "waiting"
    BY <1>5, HeadWaits DEF Connect, IInv
  <2>2. at' \in [Turns -> Places] /\ \A u \in Turns : at'[u] = IF u = Head(line) THEN "connected" ELSE at[u]
    BY <1>3, <1>5, <2>1 DEF Connect, Places
  <2>3. line' \in Seq(Turns) /\ Distinct(line') /\ Range(line') = Range(line) \ {Head(line)}
    BY <1>1, <1>5, HeadLeaves DEF Connect
  <2> QED BY <1>1, <2>2, <2>3
<1>6. ASSUME NEW t \in Turns, Post(t) PROVE Queued
  <2>1. at' \in [Turns -> Places] /\ \A u \in Turns : at'[u] = IF u = t THEN "waiting" ELSE at[u]
    BY <1>3, <1>6 DEF Post, Places
  <2>2. t \notin Range(line)
    BY <1>1, <1>6 DEF Post
  <2>3. line' \in Seq(Turns) /\ Distinct(line') /\ Range(line') = Range(line) \union {t}
    BY <1>1, <1>6, <2>2, Joined DEF Post
  <2> QED BY <1>1, <2>1, <2>3
<1>7. ASSUME NEW t \in Turns, GiveUp(t) PROVE Queued
  <2>1. at' \in [Turns -> Places] /\ \A u \in Turns : at'[u] = IF u = t THEN "ended" ELSE at[u]
    BY <1>3, <1>7 DEF GiveUp, Places
  <2>2. PICK i \in DOMAIN line : line[i] = t /\ line' = RemoveAt(line, i)
    BY <1>7 DEF GiveUp
  <2>3. line' \in Seq(Turns) /\ Distinct(line') /\ Range(line') = Range(line) \ {t}
    BY <1>1, <2>2, OneLeaves
  <2> QED BY <1>1, <2>1, <2>3
<1>8. ASSUME NEW t \in Turns, Step(t) \/ Checkpoint(t) PROVE Queued
  <2>1. line' = line /\ at[t] # "waiting"
    BY <1>8 DEF Step, Read, ResetTurnState, LoadContext, SaveTurn, Fail, Holding, Checkpoint
  <2>2. at' = at \/ \E p \in {"read", "ready", "running", "ended"} : at' = [at EXCEPT ![t] = p]
    BY <1>8 DEF Step, Read, ResetTurnState, LoadContext, SaveTurn, Fail, Gone, Checkpoint
  <2>3. CASE at' = at
    BY <1>1, <1>2, <2>1, <2>3
  <2>4. CASE \E p \in {"read", "ready", "running", "ended"} : at' = [at EXCEPT ![t] = p]
    <3>1. PICK p \in {"read", "ready", "running", "ended"} : at' = [at EXCEPT ![t] = p]
      BY <2>4
    <3>2. p \in Places /\ p # "waiting"
      BY DEF Places
    <3>3. at' \in [Turns -> Places] /\ \A u \in Turns : at'[u] = IF u = t THEN p ELSE at[u]
      BY <1>3, <3>1, <3>2
    <3> QED BY <1>2, <2>1, <3>2, <3>3
  <2> QED BY <2>2, <2>3, <2>4
<1> QED BY <1>4, <1>5, <1>6, <1>7, <1>8 DEF Next

(* A connection is handed over only where one is free. *)
LEMMA PoolStep ==
  ASSUME IInv, [Next]_vars
  PROVE  Cardinality(Holding') <= Pool
<1>1. /\ Cardinality(Holding) <= Pool /\ at \in [Turns -> Places] /\ Pool \in Nat \ {0}
      /\ MaxTurns \in Nat
  BY ConversationAssumption DEF IInv, TypeOK
<1>2. IsFiniteSet(Holding) /\ Cardinality(Holding) \in Nat
  <2>1. IsFiniteSet(Turns)
    BY <1>1, FS_Interval DEF Turns
  <2>2. Holding \in SUBSET Turns
    BY DEF Holding
  <2> QED BY <2>1, <2>2, FS_Subset, FS_CardinalityType
<1>3. ASSUME Holding' \subseteq Holding PROVE Cardinality(Holding') <= Pool
  <2>1. Cardinality(Holding') <= Cardinality(Holding) /\ Cardinality(Holding') \in Nat
    BY <1>2, <1>3, FS_Subset, FS_CardinalityType
  <2> QED BY <1>1, <1>2, <2>1
<1>4. CASE UNCHANGED vars
  BY <1>1, <1>4 DEF vars, Holding
<1>5. CASE Connect
  <2>1. Head(line) \in Turns /\ at[Head(line)] = "waiting"
    BY <1>5, HeadWaits DEF Connect, IInv
  <2>2. \A u \in Turns : at'[u] = IF u = Head(line) THEN "connected" ELSE at[u]
    BY <1>1, <1>5, <2>1 DEF Connect
  <2>3. Holding' = Holding \union {Head(line)} /\ Head(line) \notin Holding
    BY <2>1, <2>2 DEF Holding
  <2>4. Cardinality(Holding') = Cardinality(Holding) + 1
    BY <1>2, <2>3, FS_AddElement
  <2>5. Cardinality(Holding) < Pool
    BY <1>5 DEF Connect
  <2> QED BY <1>1, <1>2, <2>4, <2>5
<1>6. ASSUME NEW t \in Turns, Post(t) \/ GiveUp(t) PROVE Cardinality(Holding') <= Pool
  <2>1. Holding' \subseteq Holding
    BY <1>1, <1>6 DEF Post, GiveUp, Holding
  <2> QED BY <1>3, <2>1
<1>7. ASSUME NEW t \in Turns, Step(t) \/ Checkpoint(t) PROVE Cardinality(Holding') <= Pool
  <2>1. t \in Holding
    BY <1>7 DEF Step, Read, ResetTurnState, LoadContext, SaveTurn, Fail, Checkpoint, Holding
  <2>2. \A u \in Turns : u # t => at'[u] = at[u]
    BY <1>1, <1>7 DEF Step, Read, ResetTurnState, LoadContext, SaveTurn, Fail, Gone, Checkpoint
  <2>3. Holding' \subseteq Holding
    BY <2>1, <2>2 DEF Holding
  <2> QED BY <1>3, <2>3
<1> QED BY <1>4, <1>5, <1>6, <1>7 DEF Next

(* The variables stay functions of the turns. *)
LEMMA FunctionsStep ==
  ASSUME IInv, [Next]_vars
  PROVE  \A f \in {text', reply', work', context', chain'} : f = [u \in Turns |-> f[u]]
<1>1. \A f \in {text, reply, work, context, chain} : f = [u \in Turns |-> f[u]]
  BY DEF IInv, TypeOK
<1>2. \A f, t, x : f = [u \in Turns |-> f[u]] =>
        [f EXCEPT ![t] = x] = [u \in Turns |-> [f EXCEPT ![t] = x][u]]
  OBVIOUS
<1>3. CASE UNCHANGED vars \/ Connect
  BY <1>1, <1>3 DEF vars, ghosts, Connect
<1>4. ASSUME NEW t \in Turns, Post(t) \/ GiveUp(t) \/ ResetTurnState(t) \/ Checkpoint(t)
      PROVE  UNCHANGED <<text, reply, work, context, chain>>
  BY <1>4 DEF Post, GiveUp, ResetTurnState, Checkpoint, ghosts
<1>5. ASSUME NEW t \in Turns, Read(t) \/ LoadContext(t) \/ SaveTurn(t) \/ Fail(t)
      PROVE  /\ text' = text \/ \E x : text' = [text EXCEPT ![t] = x]
             /\ reply' = reply \/ \E x : reply' = [reply EXCEPT ![t] = x]
             /\ work' = work \/ \E x : work' = [work EXCEPT ![t] = x]
             /\ context' = context \/ \E x : context' = [context EXCEPT ![t] = x]
             /\ chain' = chain \/ \E x : chain' = [chain EXCEPT ![t] = x]
  BY <1>5 DEF Read, LoadContext, SaveTurn, Fail, Gone, ghosts
<1> QED BY <1>1, <1>2, <1>3, <1>4, <1>5 DEF Next, Step

(* The types of Conversation are kept. *)
LEMMA TypesStep ==
  ASSUME IInv, [Next]_vars
  PROVE  TypeOK'
<1>1. TypeOK /\ Nothing \in Contexts
  BY DEF IInv, Nothing, Contexts, Inherits
<1> DEFINE Typed == /\ \A u \in Turns : /\ text'[u] \in Messages \union {None}
                                        /\ reply'[u] \in Payloads \union {None}
                                        /\ context'[u] \in Contexts /\ chain'[u] \in Turns
                    /\ dropped' \subseteq Turns \X Turns
                    /\ cut' \subseteq Turns /\ overlapped' \subseteq Turns
<1>2. /\ \A u \in Turns : /\ text[u] \in Messages \union {None} /\ reply[u] \in Payloads \union {None}
                          /\ context[u] \in Contexts /\ chain[u] \in Turns
      /\ dropped \subseteq Turns \X Turns /\ cut \subseteq Turns /\ overlapped \subseteq Turns
      /\ \A u \in Turns : Seen(work[u]) \subseteq Turns
  BY SeenAreAnswered DEF IInv, TypeOK, Histories
<1>3. ASSUME Unmoved PROVE Typed
  BY <1>2, <1>3 DEF Unmoved, ghosts
<1>4. ASSUME NEW t \in Turns, Stores(t) PROVE Typed
  BY <1>2, <1>4 DEF Stores, ghosts
<1>5. ASSUME NEW t \in Turns, Read(t) PROVE Typed
  <2>1. UNCHANGED <<reply, context, chain, dropped, cut>>
    BY <1>5 DEF Read
  <2>2. \A u \in Turns : text'[u] \in Messages \union {None}
    BY <1>1, <1>5 DEF Read, TypeOK
  <2>3. overlapped' \subseteq Turns
    BY <1>2, <1>5 DEF Read, Running
  <2> QED BY <1>2, <2>1, <2>2, <2>3
<1>6. ASSUME NEW t \in Turns, LoadContext(t) PROVE Typed
  <2> DEFINE g == Trimmed(work[t])
             p == LastPayload(g)
  <2>1. text' = text /\ reply' = reply /\ overlapped' = overlapped
        /\ cut' = cut \union (Seen(work[t]) \ {u \in Turns : Told(g, u)})
    BY <1>6 DEF LoadContext
  <2>2. \A u \in Turns : u # t => chain'[u] = chain[u] /\ context'[u] = context[u]
    BY <1>6, LoadDoes
  <2>3. /\ p # None => p \in Turns
        /\ context'[t] \in Contexts
        /\ Continues(t, g, p) \/ Abandons(t, g, p)
    BY <1>6, LoadDoes
  <2> HIDE DEF g
  <2>4. CASE Continues(t, g, p)
    <3>1. chain'[t] \in Turns /\ dropped' = dropped
      BY <1>2, <2>3, <2>4 DEF Continues, ChainAfter
    <3> QED BY <1>2, <2>1, <2>2, <2>3, <3>1
  <2>5. CASE Abandons(t, g, p)
    <3>1. p # None
      BY <2>5 DEF Abandons, HasWindow
    <3>2. chain'[t] \in Turns /\ dropped' \subseteq Turns \X Turns
      BY <1>2, <2>3, <2>5, <3>1 DEF Abandons
    <3> QED BY <1>2, <2>1, <2>2, <2>3, <3>2
  <2> QED BY <2>3, <2>4, <2>5
<1>7. ASSUME NEW t \in Turns, SaveTurn(t) PROVE Typed
  <2> DEFINE h == work[t] \o <<Item("user", t), Item("assistant", t)>>
  <2>1. /\ UNCHANGED <<text, chain, dropped, overlapped>>
        /\ cut' = cut \union (Seen(h) \ {u \in Turns : Told(saved', u)})
    BY <1>7 DEF SaveTurn
  <2>2. h \in Seq(Items) /\ reply'[t] \in Payloads /\ context'[t] = Nothing
    BY <1>7, SaveDoes
  <2>3. \A u \in Turns : u # t => reply'[u] = reply[u] /\ context'[u] = context[u]
    BY <1>1, <1>7 DEF SaveTurn, Gone, TypeOK
  <2> HIDE DEF h
  <2>4. Seen(h) \subseteq Turns
    BY <2>2, ItemsOf DEF Seen, Range
  <2> QED BY <1>1, <1>2, <2>1, <2>2, <2>3, <2>4
<1>8. ASSUME NEW t \in Turns, Fail(t) PROVE Typed
  <2>1. UNCHANGED <<reply, chain, dropped, cut, overlapped>>
    BY <1>8 DEF Fail, ghosts
  <2>2. \A u \in Turns : text'[u] = (IF u = t THEN None ELSE text[u])
                         /\ context'[u] = (IF u = t THEN Nothing ELSE context[u])
    BY <1>1, <1>8 DEF Fail, Gone, TypeOK
  <2> QED BY <1>1, <1>2, <2>1, <2>2
<1> HIDE DEF Typed
<1>9. Typed
  BY <1>3, <1>4, <1>5, <1>6, <1>7, <1>8, StepCases
<1>10. \A f, S : f = [u \in Turns |-> f[u]] /\ (\A u \in Turns : f[u] \in S) => f \in [Turns -> S]
  OBVIOUS
<1>11. /\ text' \in [Turns -> Messages \union {None}] /\ reply' \in [Turns -> Payloads \union {None}]
       /\ work' \in [Turns -> Seq(Items)] /\ context' \in [Turns -> Contexts] /\ chain' \in [Turns -> Turns]
  <2>1. \A f \in {text', reply', work', context', chain'} : f = [u \in Turns |-> f[u]]
    BY FunctionsStep
  <2>2. \A u \in Turns : work'[u] \in Seq(Items)
    BY HistoriesStep
  <2>3. \A u \in Turns : /\ text'[u] \in Messages \union {None} /\ reply'[u] \in Payloads \union {None}
                         /\ context'[u] \in Contexts /\ chain'[u] \in Turns
    BY <1>9 DEF Typed
  <2>4. text' \in [Turns -> Messages \union {None}]
    BY <1>10, <2>1, <2>3
  <2>5. reply' \in [Turns -> Payloads \union {None}]
    BY <1>10, <2>1, <2>3
  <2>6. work' \in [Turns -> Seq(Items)]
    BY <1>10, <2>1, <2>2
  <2>7. context' \in [Turns -> Contexts]
    BY <1>10, <2>1, <2>3
  <2>8. chain' \in [Turns -> Turns]
    BY <1>10, <2>1, <2>3
  <2> QED BY <2>4, <2>5, <2>6, <2>7, <2>8
<1>12. dropped' \subseteq Turns \X Turns /\ cut' \subseteq Turns /\ overlapped' \subseteq Turns
  BY <1>9 DEF Typed
<1> QED BY <1>11, <1>12, HistoriesStep, QueueStep, PoolStep DEF TypeOK

(* A new thread has none of it. *)
LEMMA Starts ==
  ASSUME Init
  PROVE  IInv
<1>1. /\ <<>> \in Seq(Items) /\ <<>> \in Seq(Turns) /\ Len(<<>>) = 0 /\ DOMAIN (<<>>) = {}
      /\ Limit \in Nat /\ Pool \in Nat /\ 0 <= Limit /\ 0 <= Pool
  BY EmptySeq, ConversationAssumption
<1>2. Range(<<>>) = {}
  BY <1>1 DEF Range
<1>3. Running = {} /\ Holding = {} /\ Cardinality(Holding) = 0
  BY FS_EmptySet DEF Init, Running, Holding
<1>4. Nothing \in Contexts
  BY DEF Nothing, Contexts, Inherits
<1>5. TypeOK
  BY <1>1, <1>2, <1>3, <1>4 DEF Init, TypeOK, Places
<1>6. Sound(<<>>, reply, chain)
  BY <1>1 DEF Sound, Paired
<1>7. Histories
  BY <1>1, <1>6 DEF Init, Histories
<1>8. Waiting
  BY <1>1 DEF Init, Waiting, Distinct
<1>9. Stages /\ Following /\ Beside /\ Dropping
  BY <1>3 DEF Init, Stages, Following, Beside, Dropping
<1>10. Staying /\ RecoversTheQuestion
  BY DEF Init, Staying, Stays, RecoversTheQuestion, Nothing
<1> QED BY <1>5, <1>7, <1>8, <1>9, <1>10 DEF IInv
-----------------------------------------------------------------------------
(* The theorems *)

(* The invariant holds of every state of a thread, whichever turns run in  *)
(* it, fail in it or write over each other.                                *)
THEOREM Inductive == Spec => []IInv
<1>1. Init => IInv
  BY Starts
<1>2. IInv /\ [Next]_vars => IInv'
  BY TypesStep, StagesStep, QueueStep, HistoriesStep, FollowingStep, BesideStep, StayingStep,
     DroppingStep, RecoversStep DEF IInv
<1> QED BY <1>1, <1>2, PTL DEF Spec

(* The queue of the pool holds each waiting turn once, no more turns hold  *)
(* a connection than the pool has, the checkpoint never keeps more than    *)
(* chat_history_limit items, and what load_context makes of a message has  *)
(* its form, at any number of turns.                                       *)
THEOREM ConversationTyped == Spec => []TypeOK
<1>1. IInv => TypeOK
  BY DEF IInv
<1> QED BY <1>1, Inductive, PTL

(* Every history that save_turn or a checkpoint stores keeps a question    *)
(* and its answer side by side, also when turns write over each other and  *)
(* the limit is odd.                                                       *)
THEOREM HistoriesArePaired == Spec => []QuestionsKeepTheirAnswers
<1>1. IInv => QuestionsKeepTheirAnswers
  BY DEF IInv, Histories, Sound, Paired, QuestionsKeepTheirAnswers
<1> QED BY <1>1, Inductive, PTL

(* A turn that save_turn has answered stays in the checkpoint until the    *)
(* limit cuts it or load_context abandons its chain, whatever turns fail.  *)
THEOREM AnswersAreKept == Spec => []AnsweredTurnsStay
<1>1. IInv => AnsweredTurnsStay
  BY DEF IInv, Staying, Stays, AnsweredTurnsStay
<1> QED BY <1>1, Inductive, PTL

(* A chain that load_context has abandoned is in no later history and in   *)
(* no lookup plan, unless the abandoning turn ran beside another one.      *)
THEOREM AbandonedIsForgotten == Spec => []AbandonedStaysGone
<1>1. ASSUME IInv PROVE AbandonedStaysGone
  <2> SUFFICES ASSUME NEW d \in dropped, d[2] \notin overlapped
               PROVE  LET chained == {t \in Turns : chain[t] = d[1] /\ at[t] = "ended"}
                      IN  /\ Seen(saved) \intersect chained = {}
                          /\ \A t \in Turns : at[t] = "running" =>
                               /\ Seen(work[t]) \intersect chained = {}
                               /\ context[t].plan \intersect chained = {}
    BY DEF AbandonedStaysGone
  <2>1. /\ Forgotten(saved, d[1], reply, chain)
        /\ \A t \in Running : /\ Forgotten(work[t], d[1], reply, chain)
                              /\ \A u \in context[t].plan : chain[u] # d[1]
    BY <1>1 DEF IInv, Dropping
  <2>2. \A h : Forgotten(h, d[1], reply, chain) => \A u \in Seen(h) : chain[u] # d[1]
    BY DEF Forgotten, FreeOf, Seen, Range
  <2> QED BY <2>1, <2>2 DEF Running
<1> QED BY <1>1, Inductive, PTL

(* A reply is merged with the question that opened its chain as long as    *)
(* that is the only message of the chain that looks like one.              *)
THEOREM QuestionIsRecovered == Spec => []RecoversTheQuestion
<1>1. IInv => RecoversTheQuestion
  BY DEF IInv
<1> QED BY <1>1, Inductive, PTL
=============================================================================
