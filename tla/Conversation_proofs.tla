------------------------ MODULE Conversation_proofs ------------------------
(***************************************************************************)
(* Proofs about Conversation: a request says the same after its            *)
(* conversion, a Responses answer says all it said but blank texts, and a  *)
(* Messages answer keeps its texts, however many messages, items and       *)
(* blocks there are.                                                       *)
(*                                                                         *)
(* These are inductions over data.  The library's induction theorems take  *)
(* the property as an operator; here it is a set, the set of all numbers   *)
(* (or sequences) that have the property, and what makes the induction     *)
(* sound is that the natural numbers are well-founded.                     *)
(***************************************************************************)
EXTENDS Conversation, SequenceTheorems, WellFoundedInduction, TLAPS

-----------------------------------------------------------------------------
(* Induction. *)

LEMMA NatSetInduction ==
  ASSUME NEW S, 0 \in S, \A n \in Nat : n \in S => n + 1 \in S
  PROVE  Nat \subseteq S
  <1> DEFINE T == Nat \ S
             R == {ss \in Nat \X Nat : ss[1] < ss[2]}
  <1>1. SUFFICES ASSUME T # {} PROVE FALSE
    OBVIOUS
  <1>2. IsWellFoundedOn(R, Nat)
    BY NatLessThanWellFounded DEF OpToRel
  <1>3. T \subseteq Nat
    OBVIOUS
  <1>4. PICK x \in T : \A y \in T : <<y, x>> \notin R
    <2> HIDE DEF T, R
    <2> QED
      BY <1>1, <1>2, <1>3, WFMin
  <1>5. x \in Nat /\ x # 0 /\ x - 1 \in Nat
    OBVIOUS
  <1>6. <<x - 1, x>> \in R
    BY <1>5
  <1>7. x - 1 \notin T
    BY <1>4, <1>6
  <1> QED
    BY <1>5, <1>7

LEMMA IndexInduction ==
  ASSUME NEW m \in Nat, NEW S, m # 0 => 1 \in S,
         \A i \in 1 .. m : i # m /\ i \in S => i + 1 \in S
  PROVE  1 .. m \subseteq S
  <1> DEFINE N == {n \in Nat : n \in 1 .. m => n \in S}
  <1>1. 0 \in N
    OBVIOUS
  <1>2. ASSUME NEW n \in Nat, n \in N PROVE n + 1 \in N
    <2>1. CASE n = 0
      BY <2>1
    <2>2. CASE n # 0
      BY <1>2, <2>2
    <2> QED
      BY <2>1, <2>2
  <1>3. Nat \subseteq N
    <2> HIDE DEF N
    <2> QED
      BY <1>1, <1>2, NatSetInduction
  <1> QED
    BY <1>3

LEMMA SeqSetInduction ==
  ASSUME NEW X, NEW S, <<>> \in S,
         \A s \in Seq(X), x \in X : s \in S => Append(s, x) \in S
  PROVE  Seq(X) \subseteq S
  <1> DEFINE N == {n \in Nat : \A s \in Seq(X) : Len(s) = n => s \in S}
  <1>1. 0 \in N
    <2>1. \A s \in Seq(X) : Len(s) = 0 => s = <<>>
      BY EmptySeq
    <2> QED
      BY <2>1
  <1>2. ASSUME NEW n \in Nat, n \in N PROVE n + 1 \in N
    <2>1. SUFFICES ASSUME NEW s \in Seq(X), Len(s) = n + 1 PROVE s \in S
      OBVIOUS
    <2>2. s # <<>>
      BY <2>1, EmptySeq
    <2>3. PICK t \in Seq(X), x \in X : s = Append(t, x)
      BY <2>2, SequenceEmptyOrAppend
    <2>4. Len(t) = n
      BY <2>1, <2>3, AppendProperties
    <2> QED
      BY <1>2, <2>3, <2>4
  <1>3. Nat \subseteq N
    <2> HIDE DEF N
    <2> QED
      BY <1>1, <1>2, NatSetInduction
  <1> QED
    BY <1>3

-----------------------------------------------------------------------------
(* FlattenSeq. *)

\* What the function inside of FlattenSeq computes.
Flattens(f, ss) ==
  \A i \in 1 .. Len(ss) : f[i] = IF i = 1 THEN ss[i] ELSE f[i - 1] \o ss[i]

LEMMA FlattenExists ==
  ASSUME NEW ss
  PROVE  \A n \in Nat : \E f :
           f = [i \in 1 .. n |-> IF i = 1 THEN ss[i] ELSE f[i - 1] \o ss[i]]
  <1> DEFINE Is(f, n) ==
               f = [i \in 1 .. n |-> IF i = 1 THEN ss[i] ELSE f[i - 1] \o ss[i]]
             N == {n \in Nat : \E f : Is(f, n)}
  <1>1. 0 \in N
    <2>1. Is([i \in 1 .. 0 |-> 0], 0)
      OBVIOUS
    <2> QED
      BY <2>1
  <1>2. ASSUME NEW n \in Nat, n \in N PROVE n + 1 \in N
    <2>1. PICK f : Is(f, n)
      BY <1>2
    <2> DEFINE g == [i \in 1 .. n + 1 |->
                       IF i <= n THEN f[i]
                       ELSE IF i = 1 THEN ss[i] ELSE f[i - 1] \o ss[i]]
    <2>2. \A i \in 1 .. n : g[i] = f[i]
      OBVIOUS
    <2>3. ASSUME NEW i \in 1 .. n + 1
          PROVE  g[i] = IF i = 1 THEN ss[i] ELSE g[i - 1] \o ss[i]
      <3>1. CASE i <= n
        <4>1. i \in 1 .. n /\ (i # 1 => i - 1 \in 1 .. n)
          BY <3>1
        <4>2. f[i] = IF i = 1 THEN ss[i] ELSE f[i - 1] \o ss[i]
          BY <2>1, <4>1
        <4> QED
          BY <2>2, <4>1, <4>2
      <3>2. CASE ~(i <= n)
        <4>1. i # 1 => i - 1 \in 1 .. n
          BY <3>2
        <4> QED
          BY <2>2, <3>2, <4>1
      <3> QED
        BY <3>1, <3>2
    <2>4. Is(g, n + 1)
      BY <2>3
    <2> HIDE DEF g, Is
    <2> QED
      BY <2>4
  <1>3. Nat \subseteq N
    <2> HIDE DEF N
    <2> QED
      BY <1>1, <1>2, NatSetInduction
  <1> QED
    BY <1>3

LEMMA FlattensType ==
  ASSUME NEW X, NEW ss \in Seq(Seq(X)), NEW f, Flattens(f, ss)
  PROVE  \A i \in 1 .. Len(ss) : f[i] \in Seq(X)
  <1> DEFINE N == {i \in 1 .. Len(ss) : f[i] \in Seq(X)}
  <1>0. Len(ss) \in Nat /\ \A i \in 1 .. Len(ss) : ss[i] \in Seq(X)
    BY LenProperties
  <1>1. Len(ss) # 0 => 1 \in N
    BY <1>0 DEF Flattens
  <1>2. ASSUME NEW i \in 1 .. Len(ss), i # Len(ss), i \in N PROVE i + 1 \in N
    <2>1. i + 1 \in 1 .. Len(ss) /\ i + 1 # 1 /\ (i + 1) - 1 = i
      BY <1>0, <1>2
    <2>2. f[i + 1] = f[i] \o ss[i + 1]
      BY <2>1 DEF Flattens
    <2>3. f[i] \in Seq(X) /\ ss[i + 1] \in Seq(X)
      BY <1>0, <1>2, <2>1
    <2>4. f[i] \o ss[i + 1] \in Seq(X)
      BY <2>3, ConcatProperties
    <2> QED
      BY <2>1, <2>2, <2>4
  <1>3. 1 .. Len(ss) \subseteq N
    <2> HIDE DEF N
    <2> QED
      BY <1>0, <1>1, <1>2, IndexInduction
  <1> QED
    BY <1>3

LEMMA FlattenIs ==
  ASSUME NEW X, NEW ss \in Seq(Seq(X))
  PROVE  /\ ss = <<>> => FlattenSeq(ss) = <<>>
         /\ ss # <<>> => \E f : Flattens(f, ss) /\ FlattenSeq(ss) = f[Len(ss)]
  <1>1. ss = <<>> => FlattenSeq(ss) = <<>>
    BY DEF FlattenSeq
  <1>2. ASSUME ss # <<>>
        PROVE  \E f : Flattens(f, ss) /\ FlattenSeq(ss) = f[Len(ss)]
    <2> DEFINE flatten == CHOOSE f :
                 f = [i \in 1 .. Len(ss) |->
                        IF i = 1 THEN ss[i] ELSE f[i - 1] \o ss[i]]
    <2>1. Len(ss) \in Nat /\ Len(ss) # 0
      BY <1>2, EmptySeq
    <2>2. FlattenSeq(ss) = flatten[Len(ss)]
      BY <2>1 DEF FlattenSeq
    <2>3. flatten = [i \in 1 .. Len(ss) |->
                       IF i = 1 THEN ss[i] ELSE flatten[i - 1] \o ss[i]]
      BY <2>1, FlattenExists
    <2>4. Flattens(flatten, ss)
      BY <2>3 DEF Flattens
    <2> QED
      BY <2>2, <2>4
  <1> QED
    BY <1>1, <1>2

LEMMA FlattenType ==
  ASSUME NEW X, NEW ss \in Seq(Seq(X))
  PROVE  FlattenSeq(ss) \in Seq(X)
  <1>1. CASE ss = <<>>
    <2>1. FlattenSeq(ss) = <<>>
      BY <1>1, FlattenIs
    <2> QED
      BY <2>1
  <1>2. CASE ss # <<>>
    <2>1. Len(ss) \in 1 .. Len(ss)
      BY <1>2, EmptySeq
    <2>2. PICK f : Flattens(f, ss) /\ FlattenSeq(ss) = f[Len(ss)]
      BY <1>2, FlattenIs
    <2> QED
      BY <2>1, <2>2, FlattensType
  <1> QED
    BY <1>1, <1>2

\* Two functions that compute the same recursion agree.
LEMMA FlattensAgree ==
  ASSUME NEW X, NEW ss \in Seq(Seq(X)), NEW s \in Seq(X),
         NEW f, Flattens(f, ss), NEW g, Flattens(g, Append(ss, s))
  PROVE  \A i \in 1 .. Len(ss) : f[i] = g[i]
  <1> DEFINE N == {i \in 1 .. Len(ss) : f[i] = g[i]}
             tt == Append(ss, s)
  <1>0. /\ Len(ss) \in Nat /\ Len(tt) = Len(ss) + 1
        /\ \A i \in 1 .. Len(ss) : tt[i] = ss[i]
        /\ Flattens(g, tt)
    BY AppendProperties, LenProperties
  <1> HIDE DEF tt
  <1>1. Len(ss) # 0 => 1 \in N
    BY <1>0 DEF Flattens
  <1>2. ASSUME NEW i \in 1 .. Len(ss), i # Len(ss), i \in N PROVE i + 1 \in N
    <2>1. /\ i + 1 \in 1 .. Len(ss) /\ i + 1 \in 1 .. Len(tt)
          /\ i + 1 # 1 /\ (i + 1) - 1 = i
      BY <1>0, <1>2
    <2>2. f[i + 1] = f[i] \o ss[i + 1]
      BY <2>1 DEF Flattens
    <2>3. g[i + 1] = g[i] \o tt[i + 1]
      BY <1>0, <2>1 DEF Flattens
    <2> QED
      BY <1>0, <1>2, <2>1, <2>2, <2>3
  <1>3. 1 .. Len(ss) \subseteq N
    <2> HIDE DEF N
    <2> QED
      BY <1>0, <1>1, <1>2, IndexInduction
  <1> QED
    BY <1>3

LEMMA FlattenAppend ==
  ASSUME NEW X, NEW ss \in Seq(Seq(X)), NEW s \in Seq(X)
  PROVE  FlattenSeq(Append(ss, s)) = FlattenSeq(ss) \o s
  <1> DEFINE tt == Append(ss, s)
  <1>1. /\ tt \in Seq(Seq(X)) /\ tt # <<>> /\ Len(tt) = Len(ss) + 1
        /\ tt[Len(tt)] = s /\ Len(ss) \in Nat
    BY AppendProperties, LenProperties
  <1>2. PICK g : Flattens(g, tt) /\ FlattenSeq(tt) = g[Len(tt)]
    BY <1>1, FlattenIs
  <1>3. CASE ss = <<>>
    <2>1. Len(tt) = 1
      BY <1>1, <1>3
    <2>2. FlattenSeq(tt) = s
      BY <1>1, <1>2, <2>1 DEF Flattens
    <2> QED
      BY <1>3, <2>2, FlattenIs, ConcatEmptySeq
  <1>4. CASE ss # <<>>
    <2>1. PICK f : Flattens(f, ss) /\ FlattenSeq(ss) = f[Len(ss)]
      BY <1>4, FlattenIs
    <2>2. Len(ss) \in 1 .. Len(ss) /\ Len(tt) # 1 /\ Len(tt) \in 1 .. Len(tt)
      BY <1>1, <1>4, EmptySeq
    <2>3. g[Len(tt)] = g[Len(ss)] \o s
      <3>1. g[Len(tt)] = g[Len(tt) - 1] \o tt[Len(tt)]
        BY <1>2, <2>2 DEF Flattens
      <3> QED
        BY <1>1, <3>1
    <2>4. f[Len(ss)] = g[Len(ss)]
      BY <1>2, <2>1, <2>2, FlattensAgree
    <2> QED
      BY <1>2, <2>1, <2>3, <2>4
  <1> QED
    BY <1>3, <1>4

-----------------------------------------------------------------------------
(* What a sequence of messages, items or sayings amounts to: F of each one,  *)
(* one after the other.                                                      *)

Gathered(F, s) == FlattenSeq([k \in DOMAIN s |-> F[s[k]]])

LEMMA MapType ==
  ASSUME NEW X, NEW Y, NEW F \in [X -> Y], NEW s \in Seq(X)
  PROVE  [k \in DOMAIN s |-> F[s[k]]] \in Seq(Y)
  <1>1. DOMAIN s = 1 .. Len(s) /\ Len(s) \in Nat /\ s \in [1 .. Len(s) -> X]
    BY LenProperties
  <1>2. [k \in 1 .. Len(s) |-> F[s[k]]] \in [1 .. Len(s) -> Y]
    BY <1>1
  <1> QED
    BY <1>1, <1>2, SeqDef

LEMMA GatheredType ==
  ASSUME NEW X, NEW Y, NEW F \in [X -> Seq(Y)], NEW s \in Seq(X)
  PROVE  Gathered(F, s) \in Seq(Y)
  <1> DEFINE m == [k \in DOMAIN s |-> F[s[k]]]
  <1>1. m \in Seq(Seq(Y))
    BY MapType
  <1> HIDE DEF m
  <1>2. FlattenSeq(m) \in Seq(Y)
    BY <1>1, FlattenType
  <1> QED
    BY <1>2 DEF Gathered, m

LEMMA GatheredEmpty == \A F : Gathered(F, <<>>) = <<>>
  <1> SUFFICES ASSUME NEW F PROVE Gathered(F, <<>>) = <<>>
    OBVIOUS
  <1> DEFINE m == [k \in DOMAIN <<>> |-> F[<<>>[k]]]
  <1>1. m = <<>>
    OBVIOUS
  <1>2. FlattenSeq(<<>>) = <<>>
    BY DEF FlattenSeq
  <1> QED
    BY <1>1, <1>2 DEF Gathered

LEMMA GatheredAppend ==
  ASSUME NEW X, NEW Y, NEW F \in [X -> Seq(Y)], NEW s \in Seq(X), NEW x \in X
  PROVE  Gathered(F, Append(s, x)) = Gathered(F, s) \o F[x]
  <1> DEFINE t == Append(s, x)
             ms == [k \in DOMAIN s |-> F[s[k]]]
             mt == [k \in DOMAIN t |-> F[t[k]]]
  <1>1. /\ DOMAIN s = 1 .. Len(s) /\ Len(s) \in Nat /\ \A k \in 1 .. Len(s) : s[k] \in X
        /\ t \in Seq(X) /\ DOMAIN t = 1 .. Len(s) + 1 /\ t[Len(s) + 1] = x
        /\ \A k \in 1 .. Len(s) : t[k] = s[k]
    BY LenProperties, AppendProperties
  <1>2. ms \in Seq(Seq(Y)) /\ mt \in Seq(Seq(Y)) /\ F[x] \in Seq(Y)
    BY <1>1, MapType
  <1>3. Len(ms) = Len(s) /\ Len(mt) = Len(s) + 1
    BY <1>1
  <1>4. mt = Append(ms, F[x])
    <2> DEFINE a == Append(ms, F[x])
    <2>1. /\ a \in Seq(Seq(Y)) /\ Len(a) = Len(mt) /\ a[Len(s) + 1] = F[x]
          /\ \A k \in 1 .. Len(s) : a[k] = ms[k]
      BY <1>2, <1>3, AppendProperties
    <2>2. \A k \in 1 .. Len(mt) : a[k] = mt[k]
      <3> HIDE DEF a
      <3>1. SUFFICES ASSUME NEW k \in 1 .. Len(s) + 1 PROVE a[k] = mt[k]
        BY <1>3
      <3>2. CASE k \in 1 .. Len(s)
        BY <1>1, <2>1, <3>2
      <3>3. CASE k = Len(s) + 1
        BY <1>1, <2>1, <3>3
      <3> QED
        BY <1>1, <3>1, <3>2, <3>3
    <2> HIDE DEF a, mt
    <2>3. a = mt
      BY <1>2, <2>1, <2>2, SeqEqual
    <2> QED
      BY <2>3 DEF a
  <1>5. FlattenSeq(mt) = FlattenSeq(ms) \o F[x]
    BY <1>2, <1>4, FlattenAppend
  <1> QED
    BY <1>5 DEF Gathered

LEMMA GatheredOne ==
  ASSUME NEW X, NEW Y, NEW F \in [X -> Seq(Y)], NEW x \in X
  PROVE  Gathered(F, <<x>>) = F[x]
  <1>1. <<x>> = Append(<<>>, x) /\ <<>> \in Seq(X)
    OBVIOUS
  <1>2. Gathered(F, <<x>>) = Gathered(F, <<>>) \o F[x]
    BY <1>1, GatheredAppend
  <1> QED
    BY <1>2, GatheredEmpty, ConcatEmptySeq

\* A sequence and one element more.
LEMMA OneMore ==
  ASSUME NEW T, NEW s \in Seq(T), NEW x \in T
  PROVE  /\ s \o <<x>> \in Seq(T) /\ Len(s \o <<x>>) = Len(s) + 1
         /\ (s \o <<x>>)[Len(s) + 1] = x
         /\ \A j \in 1 .. Len(s) : (s \o <<x>>)[j] = s[j]
  <1>1. s \o <<x>> = Append(s, x)
    OBVIOUS
  <1> QED
    BY <1>1, AppendProperties

LEMMA GatheredConcat ==
  ASSUME NEW X, NEW Y, NEW F \in [X -> Seq(Y)], NEW s \in Seq(X)
  PROVE  \A t \in Seq(X) : Gathered(F, s \o t) = Gathered(F, s) \o Gathered(F, t)
  <1> DEFINE S == {t \in Seq(X) :
                     Gathered(F, s \o t) = Gathered(F, s) \o Gathered(F, t)}
  <1>1. <<>> \in S
    <2>1. Gathered(F, s) \in Seq(Y)
      BY GatheredType
    <2> QED
      BY <2>1, GatheredEmpty, ConcatEmptySeq
  <1>2. ASSUME NEW t \in Seq(X), NEW x \in X, t \in S PROVE Append(t, x) \in S
    <2>1. s \o Append(t, x) = Append(s \o t, x)
      OBVIOUS
    <2>2. /\ Gathered(F, Append(s \o t, x)) = Gathered(F, s \o t) \o F[x]
          /\ Gathered(F, Append(t, x)) = Gathered(F, t) \o F[x]
      <3>1. s \o t \in Seq(X)
        OBVIOUS
      <3> HIDE DEF S
      <3> QED
        BY <3>1, GatheredAppend
    <2>3. /\ Gathered(F, s) \in Seq(Y) /\ Gathered(F, t) \in Seq(Y)
          /\ F[x] \in Seq(Y)
      BY GatheredType
    <2>4. (Gathered(F, s) \o Gathered(F, t)) \o F[x]
            = Gathered(F, s) \o (Gathered(F, t) \o F[x])
      BY <2>3, ConcatAssociative
    <2>5. /\ Append(t, x) \in Seq(X)
          /\ Gathered(F, s \o t) = Gathered(F, s) \o Gathered(F, t)
      BY <1>2
    <2>6. Gathered(F, s \o Append(t, x))
            = Gathered(F, s) \o Gathered(F, Append(t, x))
      BY <2>1, <2>2, <2>4, <2>5
    <2> QED
      BY <2>5, <2>6
  <1>3. Seq(X) \subseteq S
    <2> HIDE DEF S
    <2> QED
      BY <1>1, <1>2, SeqSetInduction
  <1> QED
    BY <1>3

-----------------------------------------------------------------------------
(* FoldLeft.  It is defined on sets of indices, of which it takes the        *)
(* largest first.                                                            *)

LEMMA MaxIs ==
  ASSUME NEW m \in Nat, NEW s \in SUBSET (1 .. m), m \in s
  PROVE  Max(s) = m
  <1>1. \A y \in s : m >= y
    OBVIOUS
  <1>2. \A x \in s : (\A y \in s : x >= y) => x = m
    BY <1>1
  <1> QED
    BY <1>1, <1>2 DEF Max

LEMMA MaxInside ==
  ASSUME NEW m \in Nat, NEW s \in SUBSET (1 .. m), s # {}
  PROVE  Max(s) \in s
  <1> DEFINE N == {n \in Nat : \A t \in SUBSET (1 .. n) :
                     t # {} => \E x \in t : \A y \in t : x >= y}
  <1>1. 0 \in N
    <2>1. 1 .. 0 = {}
      OBVIOUS
    <2> QED
      BY <2>1
  <1>2. ASSUME NEW n \in Nat, n \in N PROVE n + 1 \in N
    <2>1. SUFFICES ASSUME NEW t \in SUBSET (1 .. n + 1), t # {}
                   PROVE  \E x \in t : \A y \in t : x >= y
      OBVIOUS
    <2>2. CASE n + 1 \in t
      BY <2>2
    <2>3. CASE n + 1 \notin t
      <3>1. t \in SUBSET (1 .. n)
        BY <2>3
      <3> QED
        BY <1>2, <2>1, <3>1
    <2> QED
      BY <2>2, <2>3
  <1>3. Nat \subseteq N
    <2> HIDE DEF N
    <2> QED
      BY <1>1, <1>2, NatSetInduction
  <1>4. \E x \in s : \A y \in s : x >= y
    BY <1>3
  <1> QED
    BY <1>4 DEF Max

\* What the function inside of MapThenFoldSet computes, with F of what was
\* folded so far and of an index.
Folds(f, A, base, m, F) ==
  /\ f \in [SUBSET (1 .. m) -> A]
  /\ \A s \in SUBSET (1 .. m) :
       f[s] = IF s = {} THEN base ELSE F[<<f[s \ {Max(s)}], Max(s)>>]

LEMMA FoldExists ==
  ASSUME NEW A, NEW base \in A, NEW m \in Nat, NEW F \in [A \X (1 .. m) -> A]
  PROVE  \E f : Folds(f, A, base, m, F)
  <1> DEFINE Is(f, n) ==
               /\ f \in [SUBSET (1 .. n) -> A]
               /\ \A s \in SUBSET (1 .. n) :
                    f[s] = IF s = {} THEN base
                           ELSE F[<<f[s \ {Max(s)}], Max(s)>>]
             N == {n \in Nat : n <= m => \E f : Is(f, n)}
  <1>1. 0 \in N
    <2> DEFINE f == [s \in SUBSET (1 .. 0) |-> base]
    <2>1. \A s \in SUBSET (1 .. 0) : s = {}
      OBVIOUS
    <2>2. Is(f, 0)
      BY <2>1
    <2> HIDE DEF f, Is
    <2> QED
      BY <2>2
  <1>2. ASSUME NEW n \in Nat, n \in N PROVE n + 1 \in N
    <2>1. SUFFICES ASSUME n + 1 <= m PROVE \E f : Is(f, n + 1)
      <3> HIDE DEF Is
      <3> QED
        OBVIOUS
    <2>2. PICK f : Is(f, n)
      <3> HIDE DEF Is
      <3> QED
        BY <1>2, <2>1
    <2> DEFINE g == [s \in SUBSET (1 .. n + 1) |->
                       IF n + 1 \in s THEN F[<<f[s \ {n + 1}], n + 1>>]
                       ELSE f[s]]
    <2>3. \A s \in SUBSET (1 .. n + 1) : n + 1 \notin s => s \in SUBSET (1 .. n)
      OBVIOUS
    <2>4. \A s \in SUBSET (1 .. n) :
            s \in SUBSET (1 .. n + 1) /\ n + 1 \notin s /\ g[s] = f[s]
      OBVIOUS
    <2>5. ASSUME NEW s \in SUBSET (1 .. n + 1)
          PROVE  /\ g[s] \in A
                 /\ g[s] = IF s = {} THEN base
                           ELSE F[<<g[s \ {Max(s)}], Max(s)>>]
      <3>1. CASE n + 1 \in s
        <4>1. Max(s) = n + 1
          BY <3>1, MaxIs
        <4>2. s \ {n + 1} \in SUBSET (1 .. n)
          OBVIOUS
        <4>3. g[s] = F[<<f[s \ {n + 1}], n + 1>>]
          BY <3>1
        <4>4. g[s \ {n + 1}] = f[s \ {n + 1}] /\ f[s \ {n + 1}] \in A
          BY <2>2, <2>4, <4>2
        <4>5. n + 1 \in 1 .. m
          BY <2>1
        <4> HIDE DEF g
        <4> QED
          BY <3>1, <4>1, <4>3, <4>4, <4>5
      <3>2. CASE n + 1 \notin s
        <4>1. s \in SUBSET (1 .. n) /\ s \ {Max(s)} \in SUBSET (1 .. n)
          BY <2>3, <3>2
        <4>2. g[s] = f[s] /\ g[s \ {Max(s)}] = f[s \ {Max(s)}]
          BY <2>4, <4>1
        <4>3. f[s] \in A
          BY <2>2, <4>1
        <4>4. f[s] = IF s = {} THEN base
                     ELSE F[<<f[s \ {Max(s)}], Max(s)>>]
          BY <2>2, <4>1
        <4> HIDE DEF g
        <4> QED
          BY <4>2, <4>3, <4>4
      <3> QED
        BY <3>1, <3>2
    <2>6. g \in [SUBSET (1 .. n + 1) -> A]
      <3>1. g = [s \in SUBSET (1 .. n + 1) |-> g[s]]
        OBVIOUS
      <3> HIDE DEF g
      <3> QED
        BY <2>5, <3>1
    <2>7. Is(g, n + 1)
      <3> HIDE DEF g
      <3> QED
        BY <2>5, <2>6
    <2> HIDE DEF g, Is
    <2> QED
      BY <2>7
  <1>3. Nat \subseteq N
    <2> HIDE DEF N
    <2> QED
      BY <1>1, <1>2, NatSetInduction
  <1>4. PICK f : Is(f, m)
    <2> HIDE DEF Is
    <2> QED
      BY <1>3
  <1>5. Folds(f, A, base, m, F)
    BY <1>4 DEF Folds
  <1> QED
    BY <1>5

\* The sets of indices that folding a whole sequence meets.
LEMMA PrefixIs ==
  ASSUME NEW m \in Nat, NEW k \in 1 .. m
  PROVE  /\ 1 .. k \in SUBSET (1 .. m) /\ 1 .. k # {}
         /\ Max(1 .. k) = k /\ (1 .. k) \ {k} = 1 .. (k - 1)
  <1>1. 1 .. k \in SUBSET (1 .. m) /\ k \in 1 .. k
    OBVIOUS
  <1>2. \A j : j \in (1 .. k) \ {k} <=> j \in 1 .. (k - 1)
    OBVIOUS
  <1>3. (1 .. k) \ {k} = 1 .. (k - 1)
    BY <1>2
  <1>4. Max(1 .. k) = k
    BY MaxIs
  <1> QED
    BY <1>1, <1>3, <1>4

\* AnthropicMessages: what the messages are after each item.
LEMMA AddItemFold ==
  ASSUME NEW A, NEW s \in Seq(ResponsesItem), <<>> \in A,
         \A a \in A, x \in ResponsesItem : AddItem(a, x) \in A
  PROVE  \E h : /\ h[0] = <<>>
                /\ \A k \in 1 .. Len(s) : h[k] = AddItem(h[k - 1], s[k])
                /\ AnthropicMessages(s) = h[Len(s)]
  <1> DEFINE m == Len(s)
             F == [p \in A \X (1 .. m) |-> AddItem(p[1], s[p[2]])]
             iter == CHOOSE f :
               f = [t \in SUBSET (1 .. m) |->
                      IF t = {} THEN <<>>
                      ELSE AddItem(f[t \ {Max(t)}], s[Max(t)])]
  <1>1. /\ m \in Nat /\ DOMAIN s = 1 .. m
        /\ \A k \in 1 .. m : s[k] \in ResponsesItem
    BY LenProperties
  <1>2. AnthropicMessages(s) = iter[1 .. m]
    BY <1>1 DEF AnthropicMessages, FoldLeft, MapThenFoldSet
  <1>3. F \in [A \X (1 .. m) -> A]
    BY <1>1
  <1>4. PICK f : Folds(f, A, <<>>, m, F)
    <2> HIDE DEF F, m
    <2> QED
      BY <1>1, <1>3, FoldExists
  <1>5. ASSUME NEW t \in SUBSET (1 .. m), t # {}
        PROVE  f[t] = AddItem(f[t \ {Max(t)}], s[Max(t)])
    <2>1. Max(t) \in 1 .. m
      BY <1>1, <1>5, MaxInside
    <2>2. f[t \ {Max(t)}] \in A
      BY <1>4 DEF Folds
    <2>3. f[t] = F[<<f[t \ {Max(t)}], Max(t)>>]
      BY <1>4, <1>5 DEF Folds
    <2> QED
      BY <2>1, <2>2, <2>3
  <1>6. \A t \in SUBSET (1 .. m) :
          iter[t] = IF t = {} THEN <<>>
                    ELSE AddItem(iter[t \ {Max(t)}], s[Max(t)])
    <2>1. f = [t \in SUBSET (1 .. m) |->
                 IF t = {} THEN <<>>
                 ELSE AddItem(f[t \ {Max(t)}], s[Max(t)])]
      BY <1>4, <1>5 DEF Folds
    <2>2. iter = [t \in SUBSET (1 .. m) |->
                    IF t = {} THEN <<>>
                    ELSE AddItem(iter[t \ {Max(t)}], s[Max(t)])]
      BY <2>1
    <2> HIDE DEF iter
    <2> QED
      BY <2>2
  <1> DEFINE h == [k \in 0 .. m |-> iter[1 .. k]]
  <1> HIDE DEF iter
  <1>7. h[0] = <<>>
    <2>1. 1 .. 0 = {} /\ 0 \in 0 .. m
      BY <1>1
    <2>2. iter[{}] = <<>>
      BY <1>6
    <2>3. h[0] = iter[1 .. 0]
      BY <2>1
    <2> QED
      BY <2>1, <2>2, <2>3
  <1>8. ASSUME NEW k \in 1 .. m PROVE h[k] = AddItem(h[k - 1], s[k])
    <2>1. iter[1 .. k] = AddItem(iter[1 .. (k - 1)], s[k])
      BY <1>1, <1>6, PrefixIs
    <2>2. h[k] = iter[1 .. k] /\ h[k - 1] = iter[1 .. (k - 1)]
      BY <1>1
    <2> QED
      BY <2>1, <2>2
  <1>9. AnthropicMessages(s) = h[m]
    BY <1>1, <1>2
  <1> HIDE DEF h
  <1> QED
    BY <1>7, <1>8, <1>9

\* MessageItems: what is gathered after each block.
LEMMA GatherFold ==
  ASSUME NEW A, NEW role, NEW s \in Seq(MessagesBlock), Nothing \in A,
         \A a \in A, x \in MessagesBlock : Gather(role, a, x) \in A
  PROVE  \E h : /\ h[0] = Nothing
                /\ \A k \in 1 .. Len(s) : h[k] = Gather(role, h[k - 1], s[k])
                /\ GatheredBlocks(role, s) = h[Len(s)]
  <1> DEFINE m == Len(s)
             F == [p \in A \X (1 .. m) |-> Gather(role, p[1], s[p[2]])]
             iter == CHOOSE f :
               f = [t \in SUBSET (1 .. m) |->
                      IF t = {} THEN Nothing
                      ELSE Gather(role, f[t \ {Max(t)}], s[Max(t)])]
  <1>1. /\ m \in Nat /\ DOMAIN s = 1 .. m
        /\ \A k \in 1 .. m : s[k] \in MessagesBlock
    BY LenProperties
  <1>2. GatheredBlocks(role, s) = iter[1 .. m]
    BY <1>1 DEF GatheredBlocks, FoldLeft, MapThenFoldSet
  <1>3. F \in [A \X (1 .. m) -> A]
    BY <1>1
  <1>4. PICK f : Folds(f, A, Nothing, m, F)
    <2> HIDE DEF F, m
    <2> QED
      BY <1>1, <1>3, FoldExists
  <1>5. ASSUME NEW t \in SUBSET (1 .. m), t # {}
        PROVE  f[t] = Gather(role, f[t \ {Max(t)}], s[Max(t)])
    <2>1. Max(t) \in 1 .. m
      BY <1>1, <1>5, MaxInside
    <2>2. f[t \ {Max(t)}] \in A
      BY <1>4 DEF Folds
    <2>3. f[t] = F[<<f[t \ {Max(t)}], Max(t)>>]
      BY <1>4, <1>5 DEF Folds
    <2> QED
      BY <2>1, <2>2, <2>3
  <1>6. \A t \in SUBSET (1 .. m) :
          iter[t] = IF t = {} THEN Nothing
                    ELSE Gather(role, iter[t \ {Max(t)}], s[Max(t)])
    <2>1. f = [t \in SUBSET (1 .. m) |->
                 IF t = {} THEN Nothing
                 ELSE Gather(role, f[t \ {Max(t)}], s[Max(t)])]
      BY <1>4, <1>5 DEF Folds
    <2>2. iter = [t \in SUBSET (1 .. m) |->
                    IF t = {} THEN Nothing
                    ELSE Gather(role, iter[t \ {Max(t)}], s[Max(t)])]
      BY <2>1
    <2> HIDE DEF iter
    <2> QED
      BY <2>2
  <1> DEFINE h == [k \in 0 .. m |-> iter[1 .. k]]
  <1> HIDE DEF iter
  <1>7. h[0] = Nothing
    <2>1. 1 .. 0 = {} /\ 0 \in 0 .. m
      BY <1>1
    <2>2. iter[{}] = Nothing
      BY <1>6
    <2>3. h[0] = iter[1 .. 0]
      BY <2>1
    <2> QED
      BY <2>1, <2>2, <2>3
  <1>8. ASSUME NEW k \in 1 .. m PROVE h[k] = Gather(role, h[k - 1], s[k])
    <2>1. iter[1 .. k] = Gather(role, iter[1 .. (k - 1)], s[k])
      BY <1>1, <1>6, PrefixIs
    <2>2. h[k] = iter[1 .. k] /\ h[k - 1] = iter[1 .. (k - 1)]
      BY <1>1
    <2> QED
      BY <2>1, <2>2
  <1>9. GatheredBlocks(role, s) = h[m]
    BY <1>1, <1>2
  <1> HIDE DEF h
  <1> QED
    BY <1>7, <1>8, <1>9

-----------------------------------------------------------------------------
(* What is said, and by whom: the values of Saying.  No prover knows that a  *)
(* literal such as "empty" is in STRING.                                     *)

Utterance ==
  Roles \X {"text", "call", "result", "other"}
        \X (STRING \cup {"empty"} \cup Contents(Plain({"text", "other"})))

\* Converting the blocks of a result leaves what they say.
LEMMA AnthropicBlockIs ==
  ASSUME NEW block \in Plain({"text", "other"}) \cup ResponsesBlock
  PROVE  /\ AnthropicBlock(block) \in Plain({"text", "other"})
         /\ AnthropicBlock(block).value = block.value
         /\ AnthropicBlock(block).type =
              IF IsTextType(block.type) THEN "text" ELSE "other"
         /\ AnthropicBlock(AnthropicBlock(block)) = AnthropicBlock(block)
  <1>1. /\ block = [type |-> block.type, value |-> block.value]
        /\ block.type \in {"input_text", "output_text", "text", "other"}
        /\ block.value \in STRING
    BY DEF Plain, ResponsesBlock
  <1> QED
    BY <1>1 DEF AnthropicBlock, Block, IsTextType, Plain

LEMMA SaidType ==
  ASSUME NEW content \in Contents(Plain({"text", "other"})) \cup Contents(ResponsesBlock)
  PROVE  Said(content) \in Contents(Plain({"text", "other"}))
  <1> DEFINE X == Plain({"text", "other"}) \cup ResponsesBlock
             bs == content.blocks
  <1>1. CASE content.form = "string"
    BY <1>1 DEF Said, Contents
  <1>2. CASE content.form # "string"
    <2>1. bs \in Seq(X)
      <3>1. bs \in Seq(Plain({"text", "other"})) \/ bs \in Seq(ResponsesBlock)
        BY <1>2 DEF Contents
      <3> QED
        BY <3>1, SeqMonotonic
    <2>2. CASE Len(bs) = 1 /\ IsTextType(bs[1].type)
      <3>1. bs[1] \in X
        BY <2>1, <2>2, LenProperties
      <3>2. bs[1].value \in STRING
        BY <3>1 DEF Plain, ResponsesBlock
      <3> QED
        BY <1>2, <2>2, <3>2 DEF Said, Text, Contents
    <2>3. CASE ~(Len(bs) = 1 /\ IsTextType(bs[1].type))
      <3> DEFINE t == MapSeq(AnthropicBlock, bs)
      <3>1. t \in Seq(Plain({"text", "other"}))
        <4> DEFINE F == [b \in X |-> AnthropicBlock(b)]
        <4>1. F \in [X -> Plain({"text", "other"})]
          BY AnthropicBlockIs
        <4>2. [k \in DOMAIN bs |-> F[bs[k]]] \in Seq(Plain({"text", "other"}))
          <5> HIDE DEF F, X, bs
          <5> QED
            BY <2>1, <4>1, MapType
        <4>3. \A k \in DOMAIN bs : bs[k] \in X
          BY <2>1, LenProperties
        <4>4. t = [k \in DOMAIN bs |-> F[bs[k]]]
          BY <4>3 DEF MapSeq
        <4> QED
          BY <4>2, <4>4
      <3>2. Said(content) = List(t)
        BY <1>2, <2>3 DEF Said
      <3> HIDE DEF t
      <3> QED
        BY <3>1, <3>2 DEF List, Contents
    <2> QED
      BY <2>2, <2>3
  <1> QED
    BY <1>1, <1>2

\* A block of either protocol.
AnyBlock == MessagesBlock \cup ResponsesBlock \cup {Block("tool_use", "empty")}

LEMMA SayingType ==
  ASSUME NEW role \in Roles, NEW block \in AnyBlock
  PROVE  Saying(role, block) \in Utterance
  <1>1. CASE block.type = "tool_result"
    <2>1. block.value \in Contents(Plain({"text", "other"}))
      BY <1>1 DEF AnyBlock, MessagesBlock, ResponsesBlock, Plain, Block
    <2>2. Said(block.value) \in Contents(Plain({"text", "other"}))
      BY <2>1, SaidType
    <2>3. Saying(role, block) = <<"user", "result", Said(block.value)>>
      BY <1>1 DEF Saying, IsTextType
    <2>4. "user" \in Roles /\ "result" \in {"text", "call", "result", "other"}
      BY DEF Roles
    <2> QED
      BY <2>2, <2>3, <2>4 DEF Utterance
  <1>2. CASE block.type # "tool_result"
    <2>1. /\ block.type \in {"text", "tool_use", "other", "input_text", "output_text"}
          /\ block.value \in STRING \cup {"empty"}
      BY <1>2 DEF AnyBlock, MessagesBlock, ResponsesBlock, Plain, Block
    <2>2. CASE block.type = "tool_use"
      <3> DEFINE v == IF block.value = "invalid" THEN "empty" ELSE block.value
      <3>1. v \in STRING \cup {"empty"}
        BY <2>1
      <3>2. Saying(role, block) = <<"assistant", "call", v>>
        BY <2>2 DEF Saying, IsTextType
      <3>3. "assistant" \in Roles /\ "call" \in {"text", "call", "result", "other"}
        BY DEF Roles
      <3> HIDE DEF v
      <3> QED
        BY <3>1, <3>2, <3>3 DEF Utterance
    <2>3. CASE block.type # "tool_use"
      BY <2>1, <2>3 DEF Saying, IsTextType, Utterance
    <2> QED
      BY <2>2, <2>3
  <1> QED
    BY <1>1, <1>2

\* What blocks say is what each of them says.
LEMMA SayingsOfList ==
  ASSUME NEW role \in Roles, NEW blocks \in Seq(AnyBlock)
  PROVE  /\ Sayings(role, List(blocks)) \in Seq(Utterance)
         /\ Len(Sayings(role, List(blocks))) = Len(blocks)
         /\ \A k \in 1 .. Len(blocks) :
              Sayings(role, List(blocks))[k] = Saying(role, blocks[k])
  <1> DEFINE F == [b \in AnyBlock |-> Saying(role, b)]
  <1>1. F \in [AnyBlock -> Utterance]
    BY SayingType
  <1>2. /\ DOMAIN blocks = 1 .. Len(blocks) /\ Len(blocks) \in Nat
        /\ \A k \in 1 .. Len(blocks) : blocks[k] \in AnyBlock
    BY LenProperties
  <1>3. Sayings(role, List(blocks)) = [k \in DOMAIN blocks |-> F[blocks[k]]]
    BY <1>2 DEF Sayings, List, MapSeq
  <1>4. [k \in DOMAIN blocks |-> F[blocks[k]]] \in Seq(Utterance)
    <2> HIDE DEF F
    <2> QED
      BY <1>1, MapType
  <1> QED
    BY <1>2, <1>3, <1>4

LEMMA SeqOfIs ==
  ASSUME NEW X, NEW n \in Nat, NEW s,
         s = [k \in 1 .. n |-> s[k]], \A k \in 1 .. n : s[k] \in X
  PROVE  s \in Seq(X) /\ Len(s) = n
  <1>1. s \in [1 .. n -> X]
    OBVIOUS
  <1>2. s \in Seq(X)
    BY <1>1, SeqDef
  <1> QED
    BY <1>1, <1>2, LenProperties

LEMMA OneInSeq == \A X : \A x \in X : <<x>> \in Seq(X)
  OBVIOUS

LEMMA UtterancesAssociate ==
  \A s, t, u \in Seq(Utterance) : s \o (t \o u) = (s \o t) \o u
  <1> HIDE DEF Utterance
  <1> QED
    BY ConcatAssociative

LEMMA SayingsConcat ==
  ASSUME NEW role \in Roles, NEW s \in Seq(AnyBlock), NEW t \in Seq(AnyBlock)
  PROVE  Sayings(role, List(s \o t)) =
           Sayings(role, List(s)) \o Sayings(role, List(t))
  <1> DEFINE a == Sayings(role, List(s))
             b == Sayings(role, List(t))
             c == Sayings(role, List(s \o t))
  <1>1. /\ s \o t \in Seq(AnyBlock) /\ Len(s \o t) = Len(s) + Len(t)
        /\ Len(s) \in Nat /\ Len(t) \in Nat
        /\ \A k \in 1 .. Len(s) + Len(t) :
             (s \o t)[k] = IF k <= Len(s) THEN s[k] ELSE t[k - Len(s)]
    BY ConcatProperties, LenProperties
  <1>2. /\ a \in Seq(Utterance) /\ Len(a) = Len(s)
        /\ \A k \in 1 .. Len(s) : a[k] = Saying(role, s[k])
    BY SayingsOfList
  <1>3. /\ b \in Seq(Utterance) /\ Len(b) = Len(t)
        /\ \A k \in 1 .. Len(t) : b[k] = Saying(role, t[k])
    BY SayingsOfList
  <1>4. /\ c \in Seq(Utterance) /\ Len(c) = Len(s) + Len(t)
        /\ \A k \in 1 .. Len(s) + Len(t) : c[k] = Saying(role, (s \o t)[k])
    BY <1>1, SayingsOfList
  <1> HIDE DEF a, b, c
  <1>5. /\ a \o b \in Seq(Utterance) /\ Len(a \o b) = Len(s) + Len(t)
        /\ \A k \in 1 .. Len(s) + Len(t) :
             (a \o b)[k] = IF k <= Len(s) THEN a[k] ELSE b[k - Len(s)]
    <2>1. /\ a \o b \in Seq(Utterance) /\ Len(a \o b) = Len(a) + Len(b)
          /\ \A k \in 1 .. Len(a) + Len(b) :
               (a \o b)[k] = IF k <= Len(a) THEN a[k] ELSE b[k - Len(a)]
      <3>1. a \in Seq(Utterance) /\ b \in Seq(Utterance)
        BY <1>2, <1>3
      <3> QED
        BY <3>1, ConcatProperties
    <2> QED
      BY <1>2, <1>3, <2>1
  <1>6. ASSUME NEW k \in 1 .. Len(s) + Len(t) PROVE c[k] = (a \o b)[k]
    <2>1. CASE k <= Len(s)
      <3>1. k \in 1 .. Len(s)
        BY <1>1, <2>1
      <3> QED
        BY <1>1, <1>2, <1>4, <1>5, <2>1, <3>1
    <2>2. CASE ~(k <= Len(s))
      <3>1. k - Len(s) \in 1 .. Len(t)
        BY <1>1, <2>2
      <3> QED
        BY <1>1, <1>3, <1>4, <1>5, <2>2, <3>1
    <2> QED
      BY <2>1, <2>2
  <1>7. c = a \o b
    BY <1>4, <1>5, <1>6, SeqEqual
  <1> QED
    BY <1>7 DEF a, b, c

LEMMA SayingsOfOne ==
  ASSUME NEW role \in Roles, NEW block \in AnyBlock
  PROVE  Sayings(role, List(<<block>>)) = <<Saying(role, block)>>
  <1> DEFINE a == Sayings(role, List(<<block>>))
  <1>1. <<block>> \in Seq(AnyBlock) /\ Len(<<block>>) = 1 /\ <<block>>[1] = block
    OBVIOUS
  <1>2. a \in Seq(Utterance) /\ Len(a) = 1 /\ a[1] = Saying(role, block)
    <2>1. /\ a \in Seq(Utterance) /\ Len(a) = Len(<<block>>)
          /\ \A k \in 1 .. Len(<<block>>) : a[k] = Saying(role, <<block>>[k])
      BY <1>1, SayingsOfList
    <2>2. 1 \in 1 .. Len(<<block>>)
      BY <1>1
    <2> HIDE DEF a
    <2> QED
      BY <1>1, <2>1, <2>2
  <1> HIDE DEF a
  <1>3. a = <<Saying(role, block)>>
    BY <1>2
  <1> QED
    BY <1>3 DEF a

LEMMA SayingsOfNone == \A role \in Roles : Sayings(role, List(<<>>)) = <<>>
  <1> SUFFICES ASSUME NEW role \in Roles PROVE Sayings(role, List(<<>>)) = <<>>
    OBVIOUS
  <1> DEFINE a == Sayings(role, List(<<>>))
  <1>1. <<>> \in Seq(AnyBlock) /\ Len(<<>>) = 0
    OBVIOUS
  <1>2. a \in Seq(Utterance) /\ Len(a) = 0
    BY <1>1, SayingsOfList
  <1> HIDE DEF a
  <1>3. a = <<>>
    BY <1>2, EmptySeq
  <1> QED
    BY <1>3 DEF a

\* A content of any blocks.
LEMMA ContentIs ==
  ASSUME NEW B, NEW content \in Contents(B)
  PROVE  \/ /\ content.form = "string" /\ content.text \in STRING
            /\ content = Text(content.text)
         \/ /\ content.form = "list" /\ content.blocks \in Seq(B)
            /\ content = List(content.blocks)
  BY DEF Contents, Text, List

LEMMA ContentSayingsType ==
  ASSUME NEW role \in Roles, NEW B \in SUBSET AnyBlock, NEW content \in Contents(B)
  PROVE  Sayings(role, content) \in Seq(Utterance)
  <1>1. CASE content.form = "string"
    <2>1. content.text \in STRING
      BY <1>1, ContentIs
    <2>2. <<role, "text", content.text>> \in Utterance
      BY <2>1 DEF Utterance
    <2>3. Sayings(role, content) =
            IF IsBlank(content.text) THEN <<>> ELSE <<<<role, "text", content.text>>>>
      BY <1>1 DEF Sayings
    <2> HIDE DEF Utterance
    <2> QED
      BY <2>2, <2>3
  <1>2. CASE content.form # "string"
    <2>1. content.blocks \in Seq(B) /\ content = List(content.blocks)
      BY <1>2, ContentIs
    <2>2. content.blocks \in Seq(AnyBlock)
      BY <2>1, SeqMonotonic
    <2> QED
      BY <2>1, <2>2, SayingsOfList
  <1> QED
    BY <1>1, <1>2

\* An item of a request or of an answer.
AnyItem == ResponsesItem \cup OutputItem

\* What is in an item of each type, and what it says.
LEMMA ItemIs ==
  ASSUME NEW item \in AnyItem
  PROVE  /\ item.type \in {"message", "string", "input_text", "output_text", "text",
                           "function_call", "function_call_output", "reasoning",
                           "other"}
         /\ item.type \in {"message", "other"} => HasContent(item)
         /\ HasContent(item) =>
              /\ item.type \in {"message", "reasoning", "other"}
              /\ item.role \in Roles /\ item.content \in Contents(ResponsesBlock)
              /\ ItemSayings(item) = Sayings(item.role, item.content)
         /\ item.type = "string" =>
              /\ item.value \in STRING
              /\ ItemSayings(item) = <<<<"user", "text", item.value>>>>
         /\ item.type = "input_text" =>
              /\ item.role \in Roles /\ item.value \in STRING
              /\ ItemSayings(item) = IF item.value = "" THEN <<>>
                                     ELSE <<<<item.role, "text", item.value>>>>
         /\ item.type \in {"output_text", "text"} =>
              /\ item.value \in STRING
              /\ ItemSayings(item) = <<<<"assistant", "text", item.value>>>>
         /\ item.type = "function_call" =>
              /\ item.value \in STRING
              /\ ItemSayings(item) =
                   <<<<"assistant", "call",
                       IF item.value = "invalid" THEN "empty" ELSE item.value>>>>
         /\ item.type = "function_call_output" =>
              /\ item.value \in Contents(ResponsesBlock)
              /\ ItemSayings(item) = <<<<"user", "result", Said(item.value)>>>>
         /\ item.type = "reasoning" /\ ~HasContent(item) => ItemSayings(item) = <<>>
  <1>1. \/ item \in Contentful({"message", "reasoning", "other"})
        \/ item \in [type : {"input_text"}, role : Roles, value : STRING]
        \/ item \in Plain({"string", "reasoning", "function_call", "output_text", "text"})
        \/ item \in [type : {"function_call_output"}, value : Contents(ResponsesBlock)]
    BY DEF AnyItem, ResponsesItem, OutputItem, ResponsesMessage, Contentful, Plain
  <1>2. CASE item \in Contentful({"message", "reasoning", "other"})
    <2>1. /\ item.type \in {"message", "reasoning", "other"} /\ HasContent(item)
          /\ item.role \in Roles /\ item.content \in Contents(ResponsesBlock)
      BY <1>2 DEF Contentful, HasContent
    <2>2. ItemSayings(item) = Sayings(item.role, item.content)
      BY <2>1 DEF ItemSayings
    <2> QED
      BY <2>1, <2>2
  <1>3. CASE item \in [type : {"input_text"}, role : Roles, value : STRING]
    <2>1. /\ item.type = "input_text" /\ item.role \in Roles /\ item.value \in STRING
          /\ ~HasContent(item)
      BY <1>3 DEF HasContent
    <2>2. Saying(item.role, item) = <<item.role, "text", item.value>>
      BY <2>1 DEF Saying, IsTextType
    <2>3. ItemSayings(item) = IF item.value = "" THEN <<>>
                              ELSE <<Saying(item.role, item)>>
      BY <2>1 DEF ItemSayings
    <2> QED
      BY <2>1, <2>2, <2>3
  <1>4. CASE item \in Plain({"string", "reasoning", "function_call", "output_text", "text"})
    <2>1. /\ item.type \in {"string", "reasoning", "function_call", "output_text", "text"}
          /\ item.value \in STRING /\ ~HasContent(item)
      BY <1>4 DEF Plain, HasContent
    <2>2. item.type = "function_call" =>
            Saying("user", item) =
              <<"assistant", "call",
                IF item.value = "invalid" THEN "empty" ELSE item.value>>
      BY DEF Saying, IsTextType
    <2>3. item.type \in {"output_text", "text"} =>
            Saying("assistant", item) = <<"assistant", "text", item.value>>
      BY DEF Saying, IsTextType
    <2>4. CASE item.type = "function_call"
      <3>1. ItemSayings(item) = <<Saying("user", item)>>
        BY <2>1, <2>4 DEF ItemSayings
      <3> QED
        BY <2>1, <2>2, <2>4, <3>1
    <2>5. CASE item.type \in {"output_text", "text"}
      <3>1. ItemSayings(item) = <<Saying("assistant", item)>>
        BY <2>1, <2>5 DEF ItemSayings
      <3> QED
        BY <2>1, <2>3, <2>5, <3>1
    <2>6. CASE item.type \in {"string", "reasoning"}
      BY <2>1, <2>6 DEF ItemSayings
    <2> QED
      BY <2>1, <2>4, <2>5, <2>6
  <1>5. CASE item \in [type : {"function_call_output"}, value : Contents(ResponsesBlock)]
    <2>1. /\ item.type = "function_call_output" /\ item.value \in Contents(ResponsesBlock)
          /\ ~HasContent(item)
      BY <1>5 DEF HasContent
    <2>2. Saying("user", item) = <<"user", "result", Said(item.value)>>
      BY <2>1 DEF Saying, IsTextType
    <2>3. ItemSayings(item) = <<Saying("user", item)>>
      BY <2>1 DEF ItemSayings
    <2> QED
      BY <2>1, <2>2, <2>3
  <1> QED
    BY <1>1, <1>2, <1>3, <1>4, <1>5

LEMMA ItemSayingsType ==
  ASSUME NEW item \in AnyItem
  PROVE  ItemSayings(item) \in Seq(Utterance)
  <1>1. CASE HasContent(item)
    <2>1. ResponsesBlock \in SUBSET AnyBlock
      BY DEF AnyBlock
    <2> QED
      BY <1>1, <2>1, ItemIs, ContentSayingsType
  <1>2. CASE item.type = "function_call_output"
    <2>1. Said(item.value) \in Contents(Plain({"text", "other"}))
      BY <1>2, ItemIs, SaidType
    <2>2. <<"user", "result", Said(item.value)>> \in Utterance
      <3>1. "user" \in Roles /\ "result" \in {"text", "call", "result", "other"}
        BY DEF Roles
      <3> QED
        BY <2>1, <3>1 DEF Utterance
    <2>3. ItemSayings(item) = <<<<"user", "result", Said(item.value)>>>>
      BY <1>2, ItemIs
    <2> QED
      BY <2>2, <2>3
  <1>3. CASE ~HasContent(item) /\ item.type # "function_call_output"
    <2>1. \A role \in Roles, v \in STRING : <<role, "text", v>> \in Utterance
      BY DEF Utterance
    <2>2. \A v \in STRING \cup {"empty"} : <<"assistant", "call", v>> \in Utterance
      BY DEF Utterance, Roles
    <2>3. "user" \in Roles /\ "assistant" \in Roles
      BY DEF Roles
    <2>4. CASE item.type = "function_call"
      <3> DEFINE v == IF item.value = "invalid" THEN "empty" ELSE item.value
      <3>1. v \in STRING \cup {"empty"}
        BY <2>4, ItemIs
      <3>2. ItemSayings(item) = <<<<"assistant", "call", v>>>>
        BY <2>4, ItemIs
      <3> HIDE DEF v
      <3>3. <<"assistant", "call", v>> \in Utterance
        BY <2>2, <3>1
      <3> QED
        BY <3>2, <3>3
    <2>5. CASE item.type = "reasoning"
      <3>1. ItemSayings(item) = <<>>
        BY <1>3, <2>5, ItemIs
      <3> QED
        BY <3>1
    <2>6. CASE item.type = "string"
      <3>1. <<"user", "text", item.value>> \in Utterance
        BY <2>1, <2>3, <2>6, ItemIs
      <3>2. ItemSayings(item) = <<<<"user", "text", item.value>>>>
        BY <2>6, ItemIs
      <3> QED
        BY <3>1, <3>2, OneInSeq
    <2>7. CASE item.type = "input_text"
      <3>1. <<item.role, "text", item.value>> \in Utterance
        BY <2>1, <2>7, ItemIs
      <3>2. ItemSayings(item) = <<>>
              \/ ItemSayings(item) = <<<<item.role, "text", item.value>>>>
        BY <2>7, ItemIs
      <3>3. <<>> \in Seq(Utterance)
        OBVIOUS
      <3> QED
        BY <3>1, <3>2, <3>3, OneInSeq
    <2>8. CASE item.type \in {"output_text", "text"}
      <3>1. <<"assistant", "text", item.value>> \in Utterance
        BY <2>1, <2>3, <2>8, ItemIs
      <3>2. ItemSayings(item) = <<<<"assistant", "text", item.value>>>>
        BY <2>8, ItemIs
      <3> QED
        BY <3>1, <3>2, OneInSeq
    <2> QED
      BY <1>3, <2>4, <2>5, <2>6, <2>7, <2>8, ItemIs
  <1> QED
    BY <1>1, <1>2, <1>3, ItemIs
-----------------------------------------------------------------------------
(* What items and messages say, one after the other. *)

LEMMA ItemsAre ==
  ASSUME NEW s \in Seq(AnyItem)
  PROVE  ConversationOfItems(s) = Gathered([i \in AnyItem |-> ItemSayings(i)], s)
  <1> DEFINE F == [i \in AnyItem |-> ItemSayings(i)]
  <1>1. \A k \in DOMAIN s : s[k] \in AnyItem
    BY LenProperties
  <1>2. MapSeq(ItemSayings, s) = [k \in DOMAIN s |-> F[s[k]]]
    BY <1>1 DEF MapSeq
  <1> QED
    BY <1>2 DEF ConversationOfItems, Gathered

LEMMA ItemsSay ==
  /\ ConversationOfItems(<<>>) = <<>>
  /\ \A s \in Seq(AnyItem) : ConversationOfItems(s) \in Seq(Utterance)
  /\ \A s \in Seq(AnyItem), i \in AnyItem :
       ConversationOfItems(Append(s, i)) = ConversationOfItems(s) \o ItemSayings(i)
  /\ \A i \in AnyItem : ConversationOfItems(<<i>>) = ItemSayings(i)
  /\ \A s, t \in Seq(AnyItem) :
       ConversationOfItems(s \o t) = ConversationOfItems(s) \o ConversationOfItems(t)
  <1> DEFINE F == [i \in AnyItem |-> ItemSayings(i)]
  <1>1. F \in [AnyItem -> Seq(Utterance)]
    BY ItemSayingsType
  <1>2. \A i \in AnyItem : F[i] = ItemSayings(i)
    OBVIOUS
  <1>3. \A s \in Seq(AnyItem) : ConversationOfItems(s) = Gathered(F, s)
    BY ItemsAre
  <1>4. <<>> \in Seq(AnyItem)
    OBVIOUS
  <1>5. \A s \in Seq(AnyItem), i \in AnyItem : Append(s, i) \in Seq(AnyItem)
    OBVIOUS
  <1>6. \A s, t \in Seq(AnyItem) : s \o t \in Seq(AnyItem)
    OBVIOUS
  <1> HIDE DEF F
  <1>7. ConversationOfItems(<<>>) = <<>>
    BY <1>3, <1>4, GatheredEmpty
  <1>8. \A s \in Seq(AnyItem) : ConversationOfItems(s) \in Seq(Utterance)
    BY <1>1, <1>3, GatheredType
  <1>9. \A s \in Seq(AnyItem), i \in AnyItem :
          ConversationOfItems(Append(s, i)) = ConversationOfItems(s) \o ItemSayings(i)
    <2> TAKE s \in Seq(AnyItem), i \in AnyItem
    <2>1. Gathered(F, Append(s, i)) = Gathered(F, s) \o F[i]
      BY <1>1, GatheredAppend
    <2> QED
      BY <1>2, <1>3, <1>5, <2>1
  <1>10. \A i \in AnyItem : ConversationOfItems(<<i>>) = ItemSayings(i)
    <2> TAKE i \in AnyItem
    <2>1. Gathered(F, <<i>>) = F[i]
      BY <1>1, GatheredOne
    <2> QED
      BY <1>2, <1>3, <2>1, OneInSeq
  <1>11. \A s, t \in Seq(AnyItem) :
           ConversationOfItems(s \o t) = ConversationOfItems(s) \o ConversationOfItems(t)
    <2> TAKE s, t \in Seq(AnyItem)
    <2>1. Gathered(F, s \o t) = Gathered(F, s) \o Gathered(F, t)
      BY <1>1, GatheredConcat
    <2> QED
      BY <1>3, <1>6, <2>1
  <1> QED
    BY <1>7, <1>8, <1>9, <1>10, <1>11

AnyMessage == [role : Roles, content : Contents(AnyBlock)]

LEMMA ContentsMonotonic ==
  ASSUME NEW B, NEW C, B \subseteq C
  PROVE  Contents(B) \subseteq Contents(C)
  <1>1. Seq(B) \subseteq Seq(C)
    BY SeqMonotonic
  <1> QED
    BY <1>1 DEF Contents

LEMMA MessagesAreAny == MessagesMessage \subseteq AnyMessage
  <1>1. MessagesBlock \subseteq AnyBlock
    BY DEF AnyBlock
  <1>2. Contents(MessagesBlock) \subseteq Contents(AnyBlock)
    BY <1>1, ContentsMonotonic
  <1> QED
    BY <1>2 DEF MessagesMessage, AnyMessage

LEMMA MessageSayingsType ==
  ASSUME NEW message \in AnyMessage
  PROVE  MessageSayings(message) \in Seq(Utterance)
  <1>1. message.role \in Roles /\ message.content \in Contents(AnyBlock)
    BY DEF AnyMessage
  <1>2. Sayings(message.role, message.content) \in Seq(Utterance)
    BY <1>1, ContentSayingsType
  <1> QED
    BY <1>2 DEF MessageSayings

LEMMA MessagesAre ==
  ASSUME NEW s \in Seq(AnyMessage)
  PROVE  ConversationOf(s) = Gathered([m \in AnyMessage |-> MessageSayings(m)], s)
  <1> DEFINE F == [m \in AnyMessage |-> MessageSayings(m)]
  <1>1. \A k \in DOMAIN s : s[k] \in AnyMessage
    BY LenProperties
  <1>2. MapSeq(MessageSayings, s) = [k \in DOMAIN s |-> F[s[k]]]
    BY <1>1 DEF MapSeq
  <1> QED
    BY <1>2 DEF ConversationOf, Gathered

LEMMA MessagesSay ==
  /\ ConversationOf(<<>>) = <<>>
  /\ \A s \in Seq(AnyMessage) : ConversationOf(s) \in Seq(Utterance)
  /\ \A s \in Seq(AnyMessage), m \in AnyMessage :
       ConversationOf(Append(s, m)) = ConversationOf(s) \o MessageSayings(m)
  <1> DEFINE F == [m \in AnyMessage |-> MessageSayings(m)]
  <1>1. F \in [AnyMessage -> Seq(Utterance)]
    BY MessageSayingsType
  <1>2. \A m \in AnyMessage : F[m] = MessageSayings(m)
    OBVIOUS
  <1>3. \A s \in Seq(AnyMessage) : ConversationOf(s) = Gathered(F, s)
    BY MessagesAre
  <1>4. <<>> \in Seq(AnyMessage)
    OBVIOUS
  <1>5. \A s \in Seq(AnyMessage), m \in AnyMessage : Append(s, m) \in Seq(AnyMessage)
    OBVIOUS
  <1> HIDE DEF F
  <1>7. ConversationOf(<<>>) = <<>>
    BY <1>3, <1>4, GatheredEmpty
  <1>8. \A s \in Seq(AnyMessage) : ConversationOf(s) \in Seq(Utterance)
    BY <1>1, <1>3, GatheredType
  <1>9. \A s \in Seq(AnyMessage), m \in AnyMessage :
          ConversationOf(Append(s, m)) = ConversationOf(s) \o MessageSayings(m)
    <2> TAKE s \in Seq(AnyMessage), m \in AnyMessage
    <2>1. Gathered(F, Append(s, m)) = Gathered(F, s) \o F[m]
      BY <1>1, GatheredAppend
    <2> QED
      BY <1>2, <1>3, <1>5, <2>1
  <1> QED
    BY <1>7, <1>8, <1>9

Mapped(F, s) == [k \in DOMAIN s |-> F[s[k]]]

GivesOne(F, G, X, Y) ==
  F \in [X -> Y] /\ G \in [X -> Seq(Y)] /\ \A x \in X : G[x] = <<F[x]>>

\* When each element gives one, the sequence is mapped.
LEMMA GatheredOnes ==
  ASSUME NEW X, NEW Y, NEW F, NEW G, GivesOne(F, G, X, Y)
  PROVE  \A s \in Seq(X) : Gathered(G, s) = Mapped(F, s)
  <1> DEFINE S == {s \in Seq(X) : Gathered(G, s) = Mapped(F, s)}
  <1>1. F \in [X -> Y] /\ G \in [X -> Seq(Y)] /\ \A x \in X : G[x] = <<F[x]>>
    BY DEF GivesOne
  <1>2. <<>> \in S
    <2>1. Mapped(F, <<>>) = <<>>
      BY DEF Mapped
    <2> QED
      BY <2>1, GatheredEmpty
  <1>3. ASSUME NEW s \in Seq(X), NEW x \in X, s \in S PROVE Append(s, x) \in S
    <2> DEFINE t == Append(s, x)
    <2>1. Gathered(G, t) = Gathered(G, s) \o G[x]
      BY <1>1, GatheredAppend
    <2>2. /\ t \in Seq(X) /\ DOMAIN t = 1 .. Len(s) + 1 /\ t[Len(s) + 1] = x
          /\ \A k \in 1 .. Len(s) : t[k] = s[k] /\ s[k] \in X
          /\ DOMAIN s = 1 .. Len(s) /\ Len(s) \in Nat
      BY AppendProperties, LenProperties
    <2>3. Mapped(F, s) \in Seq(Y) /\ Len(Mapped(F, s)) = Len(s) /\ F[x] \in Y
      BY <1>1, <2>2, MapType DEF Mapped
    <2>4. Mapped(F, t) \in Seq(Y) /\ Len(Mapped(F, t)) = Len(s) + 1
      BY <1>1, <2>2, MapType DEF Mapped
    <2>5. Mapped(F, t) = Mapped(F, s) \o <<F[x]>>
      <3> DEFINE a == Mapped(F, s) \o <<F[x]>>
      <3>1. /\ a \in Seq(Y) /\ Len(a) = Len(s) + 1 /\ a[Len(s) + 1] = F[x]
            /\ \A k \in 1 .. Len(s) : a[k] = Mapped(F, s)[k]
        BY <2>3, OneMore
      <3>2. ASSUME NEW k \in 1 .. Len(s) + 1 PROVE a[k] = Mapped(F, t)[k]
        <4> HIDE DEF a
        <4>1. CASE k \in 1 .. Len(s)
          BY <2>2, <3>1, <4>1 DEF Mapped
        <4>2. CASE k = Len(s) + 1
          BY <1>1, <2>2, <3>1, <4>2 DEF Mapped
        <4> QED
          BY <2>2, <4>1, <4>2
      <3> HIDE DEF a
      <3>3. a = Mapped(F, t)
        BY <2>2, <2>4, <3>1, <3>2, SeqEqual
      <3> QED
        BY <3>3 DEF a
    <2>6. G[x] = <<F[x]>> /\ Gathered(G, s) = Mapped(F, s)
      BY <1>1, <1>3
    <2> QED
      BY <2>1, <2>2, <2>5, <2>6
  <1>4. Seq(X) \subseteq S
    <2> HIDE DEF S
    <2> QED
      BY <1>2, <1>3, SeqSetInduction
  <1> QED
    BY <1>4
-----------------------------------------------------------------------------
(* Messages to Responses. *)

LEMMA InputBlockSays ==
  ASSUME NEW role \in Roles, NEW block \in MessagesBlock,
         block.type \notin {"tool_use", "tool_result"}
  PROVE  /\ InputBlock(block) \in Seq(ResponsesBlock)
         /\ Sayings(role, List(InputBlock(block))) = <<Saying(role, block)>>
  <1>1. /\ block.type \in {"text", "other"} /\ block.value \in STRING
        /\ block = [type |-> block.type, value |-> block.value]
    BY DEF MessagesBlock, Plain
  <1>2. CASE block.type = "text"
    <2> DEFINE b == Block("input_text", block.value)
    <2>1. InputBlock(block) = <<b>>
      BY <1>2 DEF InputBlock
    <2>2. b \in ResponsesBlock /\ b \in AnyBlock
      BY <1>1 DEF Block, ResponsesBlock, Plain, AnyBlock
    <2>3. Saying(role, b) = Saying(role, block)
      BY <1>2 DEF Saying, IsTextType, Block
    <2> HIDE DEF b
    <2> QED
      BY <2>1, <2>2, <2>3, SayingsOfOne, OneInSeq
  <1>3. CASE block.type = "other"
    <2>1. InputBlock(block) = <<block>>
      BY <1>3 DEF InputBlock
    <2>2. block \in ResponsesBlock
      BY <1>1, <1>3 DEF ResponsesBlock, Plain
    <2>3. block \in AnyBlock
      BY DEF AnyBlock
    <2> QED
      BY <2>1, <2>2, <2>3, SayingsOfOne, OneInSeq
  <1> QED
    BY <1>1, <1>2, <1>3

\* What a result's blocks become, one for one.
LEMMA InputBlocksAre ==
  ASSUME NEW bs \in Seq(Plain({"text", "other"}))
  PROVE  /\ InputBlocks(List(bs)) \in Seq(ResponsesBlock)
         /\ Len(InputBlocks(List(bs))) = Len(bs)
         /\ \A k \in 1 .. Len(bs) :
              InputBlocks(List(bs))[k] =
                Block(IF bs[k].type = "text" THEN "input_text" ELSE "other",
                      bs[k].value)
  <1> DEFINE X == Plain({"text", "other"})
             F == [b \in X |-> Block(IF b.type = "text" THEN "input_text" ELSE "other",
                                     b.value)]
             G == [x \in X |-> <<F[x]>>]
             mapped == [k \in DOMAIN bs |-> F[bs[k]]]
  <1>1. ASSUME NEW b \in X
        PROVE  F[b] \in ResponsesBlock /\ InputBlock(b) = <<F[b]>>
    <2>1. /\ b.type \in {"text", "other"} /\ b.value \in STRING
          /\ b = [type |-> b.type, value |-> b.value]
      BY DEF Plain
    <2>2. CASE b.type = "text"
      BY <2>1, <2>2 DEF InputBlock, Block, ResponsesBlock, Plain
    <2>3. CASE b.type = "other"
      BY <2>1, <2>3 DEF InputBlock, Block, ResponsesBlock, Plain
    <2> QED
      BY <2>1, <2>2, <2>3
  <1>2. F \in [X -> ResponsesBlock]
    BY <1>1
  <1>3. /\ DOMAIN bs = 1 .. Len(bs) /\ Len(bs) \in Nat
        /\ bs \in Seq(X) /\ \A k \in 1 .. Len(bs) : bs[k] \in X
    BY LenProperties
  <1>4. MapSeq(InputBlock, bs) = [k \in DOMAIN bs |-> G[bs[k]]]
    BY <1>1, <1>3 DEF MapSeq
  <1>5. InputBlocks(List(bs)) = Gathered(G, bs)
    BY <1>4 DEF InputBlocks, List, Gathered
  <1>6. Gathered(G, bs) = mapped
    <2>1. GivesOne(F, G, X, ResponsesBlock)
      BY <1>2 DEF GivesOne
    <2> HIDE DEF F, X, G
    <2>2. \A s \in Seq(X) : Gathered(G, s) = Mapped(F, s)
      BY <2>1, GatheredOnes
    <2> QED
      BY <1>3, <2>2 DEF Mapped
  <1>7. mapped \in Seq(ResponsesBlock)
    <2> HIDE DEF F, X
    <2> QED
      BY <1>2, <1>3, MapType
  <1>8. Len(mapped) = Len(bs) /\ \A k \in 1 .. Len(bs) : mapped[k] = F[bs[k]]
    BY <1>3
  <1> HIDE DEF mapped, G
  <1> QED
    BY <1>3, <1>5, <1>6, <1>7, <1>8

LEMMA CallOutputSays ==
  ASSUME NEW content \in Contents(Plain({"text", "other"}))
  PROVE  /\ CallOutput(content) \in Contents(ResponsesBlock)
         /\ Said(CallOutput(content)) = Said(content)
  <1> DEFINE bs == content.blocks
             ib == InputBlocks(List(bs))
  <1>1. CASE content.form = "string"
    BY <1>1 DEF CallOutput, Contents
  <1>2. CASE content.form # "string"
    <2>1. bs \in Seq(Plain({"text", "other"})) /\ content = List(bs)
      BY <1>2, ContentIs
    <2>2. CASE Len(bs) = 1 /\ bs[1].type = "text"
      <3>1. bs[1] \in Plain({"text", "other"})
        BY <2>1, <2>2, LenProperties
      <3>2. bs[1].value \in STRING
        BY <3>1 DEF Plain
      <3>3. CallOutput(content) = Text(bs[1].value)
        BY <1>2, <2>2 DEF CallOutput
      <3>4. Said(content) = Text(bs[1].value)
        BY <1>2, <2>2 DEF Said, IsTextType
      <3> HIDE DEF bs
      <3> QED
        BY <3>2, <3>3, <3>4 DEF Said, Text, Contents
    <2>3. CASE ~(Len(bs) = 1 /\ bs[1].type = "text")
      <3>1. CallOutput(content) = List(ib)
        BY <1>2, <2>1, <2>3 DEF CallOutput
      <3>2. /\ ib \in Seq(ResponsesBlock) /\ Len(ib) = Len(bs)
            /\ \A k \in 1 .. Len(bs) :
                 ib[k] = Block(IF bs[k].type = "text" THEN "input_text" ELSE "other",
                               bs[k].value)
        <4> HIDE DEF bs
        <4> QED
          BY <2>1, InputBlocksAre
      <3>3. /\ DOMAIN bs = 1 .. Len(bs) /\ Len(bs) \in Nat
            /\ \A k \in 1 .. Len(bs) : bs[k] \in Plain({"text", "other"})
        BY <2>1, LenProperties
      <3> HIDE DEF bs, ib
      <3>4. DOMAIN ib = 1 .. Len(bs)
        BY <3>2, LenProperties
      <3>5. \A k \in 1 .. Len(bs) :
              /\ bs[k].type \in {"text", "other"}
              /\ bs[k] = [type |-> bs[k].type, value |-> bs[k].value]
        BY <3>3 DEF Plain
      <3>6. ASSUME NEW k \in 1 .. Len(bs)
            PROVE  /\ AnthropicBlock(ib[k]) = AnthropicBlock(bs[k])
                   /\ IsTextType(ib[k].type) <=> bs[k].type = "text"
                   /\ IsTextType(bs[k].type) <=> bs[k].type = "text"
        <4>1. CASE bs[k].type = "text"
          <5>1. ib[k] = Block("input_text", bs[k].value)
            BY <3>2, <4>1
          <5> QED
            BY <4>1, <5>1 DEF AnthropicBlock, Block, IsTextType
        <4>2. CASE bs[k].type = "other"
          BY <3>2, <3>5, <4>2 DEF AnthropicBlock, Block, IsTextType
        <4> QED
          BY <3>5, <4>1, <4>2
      <3>7. MapSeq(AnthropicBlock, ib) = MapSeq(AnthropicBlock, bs)
        BY <3>3, <3>4, <3>6 DEF MapSeq
      <3>8. ~(Len(bs) = 1 /\ IsTextType(bs[1].type))
            /\ ~(Len(ib) = 1 /\ IsTextType(ib[1].type))
        BY <2>3, <3>2, <3>6
      <3>9. Said(content) = List(MapSeq(AnthropicBlock, bs))
        BY <1>2, <2>1, <3>8 DEF Said, List
      <3>10. Said(List(ib)) = List(MapSeq(AnthropicBlock, ib))
        BY <3>8 DEF Said, List
      <3>11. List(ib) \in Contents(ResponsesBlock)
        BY <3>2 DEF List, Contents
      <3> QED
        BY <3>1, <3>7, <3>9, <3>10, <3>11
    <2> QED
      BY <2>2, <2>3
  <1> QED
    BY <1>1, <1>2

LEMMA CallItemSays ==
  ASSUME NEW role \in Roles, NEW block \in MessagesBlock,
         block.type \in {"tool_use", "tool_result"}
  PROVE  /\ CallItem(block) \in ResponsesItem
         /\ ItemSayings(CallItem(block)) = <<Saying(role, block)>>
  <1>1. CASE block.type = "tool_use"
    <2> DEFINE item == Block("function_call", block.value)
    <2>1. block.value \in STRING
      BY <1>1 DEF MessagesBlock, Plain
    <2>2. CallItem(block) = item
      BY <1>1 DEF CallItem
    <2>3. /\ item \in ResponsesItem /\ item.type = "function_call"
          /\ item.value = block.value
      BY <2>1 DEF ResponsesItem, Plain, Block
    <2>4. item \in AnyItem
      BY <2>3 DEF AnyItem
    <2>5. Saying(role, block) =
            <<"assistant", "call",
              IF block.value = "invalid" THEN "empty" ELSE block.value>>
      BY <1>1 DEF Saying, IsTextType
    <2> HIDE DEF item
    <2> QED
      BY <2>2, <2>3, <2>4, <2>5, ItemIs
  <1>2. CASE block.type = "tool_result"
    <2> DEFINE item == Block("function_call_output", CallOutput(block.value))
    <2>1. block.value \in Contents(Plain({"text", "other"}))
      BY <1>2 DEF MessagesBlock, Plain
    <2>2. CallItem(block) = item
      BY <1>2 DEF CallItem
    <2>3. /\ CallOutput(block.value) \in Contents(ResponsesBlock)
          /\ Said(CallOutput(block.value)) = Said(block.value)
      BY <2>1, CallOutputSays
    <2>4. /\ item \in ResponsesItem /\ item.type = "function_call_output"
          /\ item.value = CallOutput(block.value)
      BY <2>3 DEF ResponsesItem, Block
    <2>5. item \in AnyItem
      BY <2>4 DEF AnyItem
    <2>6. Saying(role, block) = <<"user", "result", Said(block.value)>>
      BY <1>2 DEF Saying, IsTextType
    <2> HIDE DEF item
    <2> QED
      BY <2>2, <2>3, <2>4, <2>5, <2>6, ItemIs
  <1> QED
    BY <1>1, <1>2
\* What MessageItems has gathered so far, and what is said in it.
Gathering == [items : Seq(ResponsesItem), blocks : Seq(ResponsesBlock)]
Heard(role, gathered) ==
  ConversationOfItems(gathered.items) \o Sayings(role, List(gathered.blocks))

LEMMA HeardType ==
  ASSUME NEW role \in Roles, NEW gathered \in Gathering
  PROVE  /\ gathered.items \in Seq(AnyItem) /\ gathered.blocks \in Seq(AnyBlock)
         /\ ConversationOfItems(gathered.items) \in Seq(Utterance)
         /\ Sayings(role, List(gathered.blocks)) \in Seq(Utterance)
         /\ Heard(role, gathered) \in Seq(Utterance)
  <1>1. /\ gathered.items \in Seq(ResponsesItem)
        /\ gathered.blocks \in Seq(ResponsesBlock)
    BY DEF Gathering
  <1>2. ResponsesItem \subseteq AnyItem /\ ResponsesBlock \subseteq AnyBlock
    BY DEF AnyItem, AnyBlock
  <1>3. gathered.items \in Seq(AnyItem) /\ gathered.blocks \in Seq(AnyBlock)
    BY <1>1, <1>2, SeqMonotonic
  <1>4. ConversationOfItems(gathered.items) \in Seq(Utterance)
    BY <1>3, ItemsSay
  <1>5. Sayings(role, List(gathered.blocks)) \in Seq(Utterance)
    BY <1>3, SayingsOfList
  <1> QED
    BY <1>3, <1>4, <1>5, ConcatProperties DEF Heard

LEMMA FlushedSays ==
  ASSUME NEW role \in Roles, NEW gathered \in Gathering
  PROVE  /\ Flushed(role, gathered) \in Seq(ResponsesItem)
         /\ ConversationOfItems(Flushed(role, gathered)) = Heard(role, gathered)
  <1>1. /\ gathered.items \in Seq(ResponsesItem)
        /\ gathered.blocks \in Seq(ResponsesBlock)
    BY DEF Gathering
  <1>2. CASE gathered.blocks = <<>>
    <2>1. Sayings(role, List(gathered.blocks)) = <<>>
      BY <1>2, SayingsOfNone
    <2>2. ConversationOfItems(gathered.items) \in Seq(Utterance)
      BY HeardType
    <2> QED
      BY <1>1, <1>2, <2>1, <2>2, ConcatEmptySeq DEF Flushed, Heard
  <1>3. CASE gathered.blocks # <<>>
    <2> DEFINE item == [type |-> "message", role |-> role,
                        content |-> List(gathered.blocks)]
    <2>1. Flushed(role, gathered) = Append(gathered.items, item)
      BY <1>3 DEF Flushed
    <2>2. List(gathered.blocks) \in Contents(ResponsesBlock)
      BY <1>1 DEF List, Contents
    <2>3. /\ item \in ResponsesItem /\ item.type = "message"
          /\ item.role = role /\ item.content = List(gathered.blocks)
      BY <2>2 DEF ResponsesItem, Contentful
    <2> HIDE DEF item
    <2>4. item \in AnyItem
      BY <2>3 DEF AnyItem
    <2>5. ItemSayings(item) = Sayings(role, List(gathered.blocks))
      BY <2>3, <2>4, ItemIs
    <2>6. gathered.items \in Seq(AnyItem)
      BY HeardType
    <2>7. ConversationOfItems(Append(gathered.items, item))
            = ConversationOfItems(gathered.items) \o ItemSayings(item)
      BY <2>4, <2>6, ItemsSay
    <2>8. Append(gathered.items, item) \in Seq(ResponsesItem)
      BY <1>1, <2>3, AppendProperties
    <2> QED
      BY <2>1, <2>5, <2>7, <2>8 DEF Heard
  <1> QED
    BY <1>2, <1>3

LEMMA GatherSays ==
  ASSUME NEW role \in Roles, NEW gathered \in Gathering, NEW block \in MessagesBlock
  PROVE  /\ Gather(role, gathered, block) \in Gathering
         /\ Heard(role, Gather(role, gathered, block))
              = Heard(role, gathered) \o <<Saying(role, block)>>
  <1> DEFINE next == Gather(role, gathered, block)
  <1>0. /\ gathered.items \in Seq(ResponsesItem)
        /\ gathered.blocks \in Seq(ResponsesBlock)
        /\ gathered = [items |-> gathered.items, blocks |-> gathered.blocks]
    BY DEF Gathering
  <1>1. CASE block.type \in {"tool_use", "tool_result"}
    <2> DEFINE item == CallItem(block)
               flushed == Flushed(role, gathered)
    <2>1. /\ flushed \in Seq(ResponsesItem)
          /\ ConversationOfItems(flushed) = Heard(role, gathered)
      BY FlushedSays
    <2>2. item \in ResponsesItem /\ ItemSayings(item) = <<Saying(role, block)>>
      BY <1>1, CallItemSays
    <2>3. next = [items |-> Append(flushed, item), blocks |-> <<>>]
      BY <1>1 DEF Gather
    <2> HIDE DEF item, flushed
    <2>4. Append(flushed, item) \in Seq(ResponsesItem)
      BY <2>1, <2>2, AppendProperties
    <2>5. next \in Gathering
      BY <2>3, <2>4 DEF Gathering
    <2>6. item \in AnyItem /\ flushed \in Seq(AnyItem)
      <3>1. ResponsesItem \subseteq AnyItem
        BY DEF AnyItem
      <3> QED
        BY <2>1, <2>2, <3>1, SeqMonotonic
    <2>7. ConversationOfItems(Append(flushed, item))
            = ConversationOfItems(flushed) \o ItemSayings(item)
      BY <2>6, ItemsSay
    <2>8. Heard(role, next) = ConversationOfItems(Append(flushed, item))
      <3>1. Sayings(role, List(<<>>)) = <<>>
        BY SayingsOfNone
      <3>2. ConversationOfItems(Append(flushed, item)) \in Seq(Utterance)
        BY <2>6, AppendProperties, ItemsSay
      <3>3. /\ next.items = Append(flushed, item) /\ next.blocks = <<>>
        BY <2>3
      <3> HIDE DEF next
      <3> QED
        BY <3>1, <3>2, <3>3, ConcatEmptySeq DEF Heard
    <2> HIDE DEF next
    <2>9. Heard(role, next) = Heard(role, gathered) \o <<Saying(role, block)>>
      BY <2>1, <2>2, <2>7, <2>8
    <2> QED
      BY <2>5, <2>9 DEF next
  <1>2. CASE block.type \notin {"tool_use", "tool_result"}
    <2> DEFINE bs == InputBlock(block)
    <2>1. /\ bs \in Seq(ResponsesBlock)
          /\ Sayings(role, List(bs)) = <<Saying(role, block)>>
      BY <1>2, InputBlockSays
    <2>2. next = [items |-> gathered.items, blocks |-> gathered.blocks \o bs]
      BY <1>0, <1>2 DEF Gather
    <2> HIDE DEF bs
    <2>3. gathered.blocks \o bs \in Seq(ResponsesBlock)
      BY <1>0, <2>1, ConcatProperties
    <2>4. next \in Gathering
      BY <1>0, <2>2, <2>3 DEF Gathering
    <2>5. bs \in Seq(AnyBlock) /\ gathered.blocks \in Seq(AnyBlock)
      <3>1. ResponsesBlock \subseteq AnyBlock
        BY DEF AnyBlock
      <3> QED
        BY <1>0, <2>1, <3>1, SeqMonotonic
    <2>6. Sayings(role, List(gathered.blocks \o bs))
            = Sayings(role, List(gathered.blocks)) \o Sayings(role, List(bs))
      BY <2>5, SayingsConcat
    <2>7. next.items = gathered.items /\ next.blocks = gathered.blocks \o bs
      BY <2>2
    <2> DEFINE a == ConversationOfItems(gathered.items)
               b == Sayings(role, List(gathered.blocks))
               c == Sayings(role, List(bs))
    <2>8. a \in Seq(Utterance) /\ b \in Seq(Utterance)
      BY HeardType
    <2>9. c \in Seq(Utterance)
      BY <2>5, SayingsOfList
    <2>10. Heard(role, next) = a \o (b \o c)
      <3> HIDE DEF next
      <3> QED
        BY <2>6, <2>7 DEF Heard
    <2>11. Heard(role, gathered) = a \o b
      BY DEF Heard
    <2>12. a \o (b \o c) = (a \o b) \o c
      <3> HIDE DEF a, b, c
      <3> QED
        BY <2>8, <2>9, ConcatAssociative
    <2> HIDE DEF next, a, b, c
    <2>13. Heard(role, next) = Heard(role, gathered) \o c
      BY <2>10, <2>11, <2>12
    <2> QED
      BY <2>1, <2>4, <2>13 DEF next, c
  <1> QED
    BY <1>1, <1>2

LEMMA GatheredSays ==
  ASSUME NEW role \in Roles, NEW blocks \in Seq(MessagesBlock)
  PROVE  /\ GatheredBlocks(role, blocks) \in Gathering
         /\ Heard(role, GatheredBlocks(role, blocks)) = Sayings(role, List(blocks))
  <1> DEFINE n == Len(blocks)
             Prefix(k) == [j \in 1 .. k |-> Saying(role, blocks[j])]
  <1>1. /\ n \in Nat /\ \A k \in 1 .. n : blocks[k] \in MessagesBlock
        /\ DOMAIN blocks = 1 .. n
    BY LenProperties
  <1>2. blocks \in Seq(AnyBlock) /\ MessagesBlock \subseteq AnyBlock
    <2>1. MessagesBlock \subseteq AnyBlock
      BY DEF AnyBlock
    <2> QED
      BY <2>1, SeqMonotonic
  <1>3. \A k \in 1 .. n : Saying(role, blocks[k]) \in Utterance
    BY <1>1, <1>2, SayingType
  <1>4. Sayings(role, List(blocks)) = Prefix(n)
    BY <1>1 DEF Sayings, List, MapSeq
  <1>5. Nothing \in Gathering /\ Heard(role, Nothing) = <<>>
    <2>1. Nothing \in Gathering /\ Nothing.items = <<>> /\ Nothing.blocks = <<>>
      BY DEF Nothing, Gathering
    <2>2. Sayings(role, List(<<>>)) = <<>> /\ ConversationOfItems(<<>>) = <<>>
      BY SayingsOfNone, ItemsSay
    <2>3. <<>> \o <<>> = <<>>
      OBVIOUS
    <2> QED
      BY <2>1, <2>2, <2>3 DEF Heard
  <1>6. PICK h : /\ h[0] = Nothing
                 /\ \A k \in 1 .. n : h[k] = Gather(role, h[k - 1], blocks[k])
                 /\ GatheredBlocks(role, blocks) = h[n]
    <2>1. \A a \in Gathering, x \in MessagesBlock : Gather(role, a, x) \in Gathering
      BY GatherSays
    <2> QED
      BY <1>5, <2>1, GatherFold
  <1> DEFINE N == {k \in Nat : k <= n =>
                     h[k] \in Gathering /\ Heard(role, h[k]) = Prefix(k)}
  <1>7. 0 \in N
    <2>1. Prefix(0) = <<>>
      OBVIOUS
    <2> QED
      BY <1>5, <1>6, <2>1
  <1>8. ASSUME NEW k \in Nat, k \in N PROVE k + 1 \in N
    <2>1. SUFFICES ASSUME k + 1 <= n
                   PROVE  h[k + 1] \in Gathering /\ Heard(role, h[k + 1]) = Prefix(k + 1)
      OBVIOUS
    <2>2. /\ k + 1 \in 1 .. n /\ (k + 1) - 1 = k /\ k <= n
          /\ \A j \in 1 .. k + 1 : j \in 1 .. n
      BY <1>1, <2>1
    <2>3. h[k] \in Gathering /\ Heard(role, h[k]) = Prefix(k)
      BY <1>8, <2>2
    <2>4. h[k + 1] = Gather(role, h[k], blocks[k + 1])
      BY <1>6, <2>2
    <2>5. blocks[k + 1] \in MessagesBlock
      BY <1>1, <2>2
    <2>6. /\ h[k + 1] \in Gathering
          /\ Heard(role, h[k + 1]) = Heard(role, h[k]) \o <<Saying(role, blocks[k + 1])>>
      BY <2>3, <2>4, <2>5, GatherSays
    <2>7. Prefix(k) \o <<Saying(role, blocks[k + 1])>> = Prefix(k + 1)
      <3> DEFINE u == Saying(role, blocks[k + 1])
                 a == Prefix(k) \o <<u>>
      <3>1. /\ Prefix(k) \in Seq(Utterance) /\ Len(Prefix(k)) = k
            /\ Prefix(k + 1) \in Seq(Utterance) /\ Len(Prefix(k + 1)) = k + 1
            /\ u \in Utterance
        <4>1. \A j \in 1 .. k + 1 : Saying(role, blocks[j]) \in Utterance
          BY <1>3, <2>2
        <4> QED
          BY <4>1
      <3>2. /\ a \in Seq(Utterance) /\ Len(a) = k + 1 /\ a[k + 1] = u
            /\ \A j \in 1 .. k : a[j] = Prefix(k)[j]
        <4> HIDE DEF Prefix, u
        <4> QED
          BY <3>1, OneMore
      <3>3. ASSUME NEW j \in 1 .. k + 1 PROVE a[j] = Prefix(k + 1)[j]
        <4> HIDE DEF a
        <4>1. CASE j \in 1 .. k
          BY <3>2, <4>1
        <4>2. CASE j = k + 1
          BY <3>2, <4>2
        <4> QED
          BY <4>1, <4>2
      <3> HIDE DEF a, Prefix
      <3>4. a = Prefix(k + 1)
        BY <3>1, <3>2, <3>3, SeqEqual
      <3> QED
        BY <3>4 DEF a
    <2> HIDE DEF Prefix
    <2> QED
      BY <2>3, <2>6, <2>7
  <1>9. Nat \subseteq N
    <2> HIDE DEF N
    <2> QED
      BY <1>7, <1>8, NatSetInduction
  <1>10. h[n] \in Gathering /\ Heard(role, h[n]) = Prefix(n)
    BY <1>1, <1>9
  <1> QED
    BY <1>4, <1>6, <1>10

LEMMA MessageItemsSays ==
  ASSUME NEW message \in MessagesMessage
  PROVE  /\ MessageItems(message) \in Seq(ResponsesItem)
         /\ ConversationOfItems(MessageItems(message)) = MessageSayings(message)
  <1> DEFINE role == message.role
             content == message.content
  <1>1. role \in Roles /\ content \in Contents(MessagesBlock)
    BY DEF MessagesMessage
  <1>2. CASE content.form = "string"
    <2> DEFINE bs == InputBlocks(content)
               g == [items |-> <<>>, blocks |-> bs]
    <2>1. content.text \in STRING
      BY <1>1, <1>2, ContentIs
    <2>2. bs \in Seq(ResponsesBlock) /\ Sayings(role, List(bs)) = Sayings(role, content)
      <3>1. CASE IsBlank(content.text)
        <4>1. bs = <<>>
          BY <1>2, <3>1 DEF InputBlocks
        <4>2. Sayings(role, content) = <<>>
          BY <1>2, <3>1 DEF Sayings
        <4> QED
          BY <1>1, <4>1, <4>2, SayingsOfNone
      <3>2. CASE ~IsBlank(content.text)
        <4> DEFINE b == Block("input_text", content.text)
        <4>1. bs = <<b>>
          BY <1>2, <3>2 DEF InputBlocks
        <4>2. b \in ResponsesBlock /\ b \in AnyBlock
          BY <2>1 DEF Block, ResponsesBlock, Plain, AnyBlock
        <4>3. Saying(role, b) = <<role, "text", content.text>>
          BY DEF Saying, IsTextType, Block
        <4>4. Sayings(role, content) = <<<<role, "text", content.text>>>>
          BY <1>2, <3>2 DEF Sayings
        <4> HIDE DEF b, bs
        <4>5. Sayings(role, List(<<b>>)) = <<Saying(role, b)>>
          BY <1>1, <4>2, SayingsOfOne
        <4> QED
          BY <4>1, <4>2, <4>3, <4>4, <4>5, OneInSeq
      <3> QED
        BY <3>1, <3>2
    <2>3. MessageItems(message) = Flushed(role, g)
      BY <1>2 DEF MessageItems, Nothing
    <2> HIDE DEF bs
    <2>4. g \in Gathering /\ g.items = <<>> /\ g.blocks = bs
      BY <2>2 DEF Gathering
    <2> HIDE DEF g
    <2>5. /\ Flushed(role, g) \in Seq(ResponsesItem)
          /\ ConversationOfItems(Flushed(role, g)) = Heard(role, g)
      BY <1>1, <2>4, FlushedSays
    <2>6. Heard(role, g) = Sayings(role, content)
      <3>1. Sayings(role, List(bs)) \in Seq(Utterance)
        BY <1>1, <2>4, HeardType
      <3> QED
        BY <2>2, <2>4, <3>1, ItemsSay, ConcatEmptySeq DEF Heard
    <2> QED
      BY <2>3, <2>5, <2>6 DEF MessageSayings
  <1>3. CASE content.form # "string"
    <2> DEFINE g == GatheredBlocks(role, content.blocks)
    <2>1. content.blocks \in Seq(MessagesBlock) /\ content = List(content.blocks)
      BY <1>1, <1>3, ContentIs
    <2>2. g \in Gathering /\ Heard(role, g) = Sayings(role, List(content.blocks))
      BY <1>1, <2>1, GatheredSays
    <2>3. MessageItems(message) = Flushed(role, g)
      BY <1>3 DEF MessageItems
    <2> HIDE DEF g
    <2>4. /\ Flushed(role, g) \in Seq(ResponsesItem)
          /\ ConversationOfItems(Flushed(role, g)) = Heard(role, g)
      BY <1>1, <2>2, FlushedSays
    <2> QED
      BY <2>1, <2>2, <2>3, <2>4 DEF MessageSayings
  <1> QED
    BY <1>2, <1>3

\* The input of a converted request says what its messages said: every text,
\* call and result, by the same speaker and in the same order
\* (convertAnthropicMessagesToResponsesInput).
THEOREM ResponsesInputSays ==
  \A messages \in Seq(MessagesMessage) :
    /\ ResponsesInput(messages) \in Seq(ResponsesItem)
    /\ ConversationOfItems(ResponsesInput(messages)) = ConversationOf(messages)
  <1> DEFINE F == [m \in MessagesMessage |-> MessageItems(m)]
             S == {s \in Seq(MessagesMessage) :
                     /\ Gathered(F, s) \in Seq(ResponsesItem)
                     /\ ConversationOfItems(Gathered(F, s)) = ConversationOf(s)}
  <1>1. F \in [MessagesMessage -> Seq(ResponsesItem)]
    BY MessageItemsSays
  <1>2. \A m \in MessagesMessage :
          F[m] \in Seq(ResponsesItem) /\ ConversationOfItems(F[m]) = MessageSayings(m)
    BY MessageItemsSays
  <1> HIDE DEF F
  <1>3. Seq(ResponsesItem) \subseteq Seq(AnyItem)
    <2>1. ResponsesItem \subseteq AnyItem
      BY DEF AnyItem
    <2> QED
      BY <2>1, SeqMonotonic
  <1>4. Seq(MessagesMessage) \subseteq Seq(AnyMessage)
    BY MessagesAreAny, SeqMonotonic
  <1>5. <<>> \in S
    <2>1. Gathered(F, <<>>) = <<>>
      BY GatheredEmpty
    <2>2. <<>> \in Seq(ResponsesItem) /\ <<>> \in Seq(MessagesMessage)
      OBVIOUS
    <2> QED
      BY <2>1, <2>2, ItemsSay, MessagesSay
  <1>6. ASSUME NEW s \in Seq(MessagesMessage), NEW m \in MessagesMessage, s \in S
        PROVE  Append(s, m) \in S
    <2>1. Append(s, m) \in Seq(MessagesMessage)
      BY AppendProperties
    <2>2. Gathered(F, Append(s, m)) = Gathered(F, s) \o F[m]
      BY <1>1, GatheredAppend
    <2>3. Gathered(F, s) \in Seq(ResponsesItem) /\ F[m] \in Seq(ResponsesItem)
      BY <1>2, <1>6
    <2>4. Gathered(F, s) \o F[m] \in Seq(ResponsesItem)
      BY <2>3, ConcatProperties
    <2>5. ConversationOfItems(Gathered(F, s) \o F[m])
            = ConversationOfItems(Gathered(F, s)) \o ConversationOfItems(F[m])
      BY <1>3, <2>3, ItemsSay
    <2>6. ConversationOf(Append(s, m)) = ConversationOf(s) \o MessageSayings(m)
      BY <1>4, MessagesAreAny, MessagesSay
    <2>7. ConversationOfItems(Gathered(F, s)) = ConversationOf(s)
      BY <1>6
    <2> QED
      BY <1>2, <2>1, <2>2, <2>4, <2>5, <2>6, <2>7
  <1>7. Seq(MessagesMessage) \subseteq S
    <2> HIDE DEF S
    <2> QED
      BY <1>5, <1>6, SeqSetInduction
  <1>8. ASSUME NEW s \in Seq(MessagesMessage)
        PROVE  ResponsesInput(s) = Gathered(F, s)
    <2>1. \A k \in DOMAIN s : s[k] \in MessagesMessage
      BY LenProperties
    <2>2. MapSeq(MessageItems, s) = [k \in DOMAIN s |-> F[s[k]]]
      BY <2>1 DEF MapSeq, F
    <2> QED
      BY <2>2 DEF ResponsesInput, Gathered
  <1> QED
    BY <1>7, <1>8
-----------------------------------------------------------------------------
(* Responses to Messages. *)

\* A message as AddItem leaves it: its content is a list.
ListedMessage == [role : Roles, content : [form : {"list"}, blocks : Seq(AnyBlock)]]

LEMMA ListedIs ==
  /\ \A m \in ListedMessage :
       /\ m \in AnyMessage /\ m.role \in Roles /\ m.content.blocks \in Seq(AnyBlock)
       /\ m = Message(m.role, m.content.blocks)
       /\ MessageSayings(m) = Sayings(m.role, List(m.content.blocks))
  /\ \A role \in Roles, blocks \in Seq(AnyBlock) :
       /\ Message(role, blocks) \in ListedMessage
       /\ MessageSayings(Message(role, blocks)) = Sayings(role, List(blocks))
  <1>1. ASSUME NEW m \in ListedMessage
        PROVE  /\ m \in AnyMessage /\ m.role \in Roles
               /\ m.content.blocks \in Seq(AnyBlock)
               /\ m = Message(m.role, m.content.blocks)
               /\ MessageSayings(m) = Sayings(m.role, List(m.content.blocks))
    <2>1. m.role \in Roles /\ m.content \in [form : {"list"}, blocks : Seq(AnyBlock)]
          /\ m = [role |-> m.role, content |-> m.content]
      BY DEF ListedMessage
    <2>2. m.content.blocks \in Seq(AnyBlock) /\ m.content = List(m.content.blocks)
      BY <2>1 DEF List
    <2>3. m.content \in Contents(AnyBlock)
      BY <2>1 DEF Contents
    <2> QED
      BY <2>1, <2>2, <2>3 DEF AnyMessage, Message, MessageSayings
  <1>2. ASSUME NEW role \in Roles, NEW blocks \in Seq(AnyBlock)
        PROVE  /\ Message(role, blocks) \in ListedMessage
               /\ MessageSayings(Message(role, blocks)) = Sayings(role, List(blocks))
    BY DEF Message, List, ListedMessage, MessageSayings
  <1> QED
    BY <1>1, <1>2

LEMMA AppendBlocksSays ==
  ASSUME NEW messages \in Seq(ListedMessage), NEW role \in Roles,
         NEW blocks \in Seq(AnyBlock)
  PROVE  /\ AppendBlocks(messages, role, blocks) \in Seq(ListedMessage)
         /\ ConversationOf(AppendBlocks(messages, role, blocks))
              = ConversationOf(messages) \o Sayings(role, List(blocks))
  <1>1. ListedMessage \subseteq AnyMessage
    BY ListedIs
  <1>2. Seq(ListedMessage) \subseteq Seq(AnyMessage)
    BY <1>1, SeqMonotonic
  <1>3. /\ ConversationOf(messages) \in Seq(Utterance)
        /\ Sayings(role, List(blocks)) \in Seq(Utterance)
    BY <1>2, MessagesSay, SayingsOfList
  <1>4. CASE blocks = <<>>
    BY <1>3, <1>4, SayingsOfNone, ConcatEmptySeq DEF AppendBlocks
  <1>5. CASE blocks # <<>> /\ ~(messages # <<>> /\ Last(messages).role = role)
    <2>1. AppendBlocks(messages, role, blocks) = Append(messages, Message(role, blocks))
      BY <1>5 DEF AppendBlocks
    <2>2. /\ Message(role, blocks) \in ListedMessage
          /\ MessageSayings(Message(role, blocks)) = Sayings(role, List(blocks))
      BY ListedIs
    <2>3. Append(messages, Message(role, blocks)) \in Seq(ListedMessage)
      BY <2>2, AppendProperties
    <2>4. ConversationOf(Append(messages, Message(role, blocks)))
            = ConversationOf(messages) \o MessageSayings(Message(role, blocks))
      BY <1>1, <1>2, <2>2, MessagesSay
    <2> QED
      BY <2>1, <2>2, <2>3, <2>4
  <1>6. CASE blocks # <<>> /\ messages # <<>> /\ Last(messages).role = role
    <2>1. PICK t \in Seq(ListedMessage), m \in ListedMessage : messages = Append(t, m)
      BY <1>6, SequenceEmptyOrAppend
    <2>2. /\ Len(messages) = Len(t) + 1 /\ Len(t) \in Nat
          /\ messages[Len(messages)] = m
          /\ \A k \in 1 .. Len(t) : messages[k] = t[k]
          /\ DOMAIN messages = 1 .. Len(t) + 1
      BY <2>1, AppendProperties, LenProperties
    <2>3. m.role = role
      BY <1>6, <2>2 DEF Last
    <2>4. /\ m \in AnyMessage /\ m.content.blocks \in Seq(AnyBlock)
          /\ m = Message(role, m.content.blocks)
          /\ MessageSayings(m) = Sayings(role, List(m.content.blocks))
      BY <2>3, ListedIs
    <2> DEFINE all == m.content.blocks \o blocks
               last == Message(role, all)
               next == [messages EXCEPT ![Len(messages)].content = List(@.blocks \o blocks)]
    <2>5. AppendBlocks(messages, role, blocks) = next
      BY <1>6 DEF AppendBlocks
    <2>6. all \in Seq(AnyBlock)
      BY <2>4, ConcatProperties
    <2>7. /\ last \in ListedMessage /\ last \in AnyMessage
          /\ MessageSayings(last) = Sayings(role, List(all))
      <3> HIDE DEF all
      <3> QED
        BY <2>6, ListedIs
    <2>8. /\ DOMAIN next = 1 .. Len(t) + 1
          /\ \A k \in 1 .. Len(t) : next[k] = t[k]
          /\ next[Len(t) + 1] = [m EXCEPT !.content = List(all)]
      BY <2>2
    <2>9. [m EXCEPT !.content = List(all)] = last
      BY <2>4 DEF Message
    <2>10. next = Append(t, last)
      <3> DEFINE a == Append(t, last)
      <3>1. /\ a \in Seq(ListedMessage) /\ Len(a) = Len(t) + 1 /\ a[Len(t) + 1] = last
            /\ \A k \in 1 .. Len(t) : a[k] = t[k]
        BY <2>7, AppendProperties
      <3> HIDE DEF a, last
      <3>2. DOMAIN a = 1 .. Len(t) + 1
        BY <3>1, LenProperties
      <3>3. \A k \in 1 .. Len(t) + 1 : next[k] = a[k]
        <4> SUFFICES ASSUME NEW k \in 1 .. Len(t) + 1 PROVE next[k] = a[k]
          OBVIOUS
        <4> HIDE DEF next
        <4>1. CASE k \in 1 .. Len(t)
          BY <2>8, <3>1, <4>1
        <4>2. CASE k = Len(t) + 1
          BY <2>8, <2>9, <3>1, <4>2
        <4> QED
          BY <2>2, <4>1, <4>2
      <3>4. next = [k \in 1 .. Len(t) + 1 |-> next[k]]
        BY <2>2
      <3>5. a = [k \in 1 .. Len(t) + 1 |-> a[k]]
        BY <3>1, <3>2
      <3> HIDE DEF next
      <3>6. next = a
        BY <3>3, <3>4, <3>5
      <3> QED
        BY <3>6 DEF a
    <2>11. Append(t, last) \in Seq(ListedMessage)
      <3> HIDE DEF last
      <3> QED
        BY <2>7, AppendProperties
    <2>12. t \in Seq(AnyMessage)
      BY <1>2
    <2>13. /\ ConversationOf(Append(t, last)) = ConversationOf(t) \o MessageSayings(last)
           /\ ConversationOf(messages) = ConversationOf(t) \o MessageSayings(m)
      <3> HIDE DEF last
      <3> QED
        BY <2>1, <2>4, <2>7, <2>12, MessagesSay
    <2> DEFINE a == ConversationOf(t)
               b == Sayings(role, List(m.content.blocks))
               c == Sayings(role, List(blocks))
    <2>14. Sayings(role, List(all)) = b \o c
      BY <2>4, SayingsConcat
    <2>15. a \in Seq(Utterance) /\ b \in Seq(Utterance) /\ c \in Seq(Utterance)
      BY <1>3, <2>4, <2>12, MessagesSay, SayingsOfList
    <2>16. a \o (b \o c) = (a \o b) \o c
      <3> HIDE DEF a, b, c, all, last, next
      <3> QED
        BY <2>15, UtterancesAssociate
    <2> HIDE DEF next, last, all
    <2>17. ConversationOf(Append(t, last)) = ConversationOf(messages) \o c
      BY <2>4, <2>7, <2>13, <2>14, <2>16
    <2> QED
      BY <2>5, <2>10, <2>11, <2>17
  <1> QED
    BY <1>4, <1>5, <1>6

\* A text becomes a block that says it.
LEMMA TextBlockSays ==
  ASSUME NEW role \in Roles, NEW text \in STRING
  PROVE  /\ <<Block("text", text)>> \in Seq(AnyBlock)
         /\ Sayings(role, List(<<Block("text", text)>>)) = <<<<role, "text", text>>>>
  <1> DEFINE b == Block("text", text)
  <1>1. b \in AnyBlock
    BY DEF AnyBlock, ResponsesBlock, Plain, Block
  <1>2. Saying(role, b) = <<role, "text", text>>
    BY DEF Saying, IsTextType, Block
  <1> HIDE DEF b
  <1>3. Sayings(role, List(<<b>>)) = <<<<role, "text", text>>>>
    BY <1>1, <1>2, SayingsOfOne
  <1> QED
    BY <1>1, <1>3, OneInSeq DEF b

LEMMA AnthropicContentSays ==
  ASSUME NEW role \in Roles, NEW content \in Contents(ResponsesBlock)
  PROVE  /\ AnthropicContent(content) \in Seq(AnyBlock)
         /\ Sayings(role, List(AnthropicContent(content))) = Sayings(role, content)
  <1>1. CASE content.form = "string"
    <2>1. content.text \in STRING
      BY <1>1, ContentIs
    <2>2. CASE IsBlank(content.text)
      <3>1. AnthropicContent(content) = <<>> /\ Sayings(role, content) = <<>>
        BY <1>1, <2>2 DEF AnthropicContent, Sayings
      <3>2. <<>> \in Seq(AnyBlock)
        OBVIOUS
      <3> QED
        BY <3>1, <3>2, SayingsOfNone
    <2>3. CASE ~IsBlank(content.text)
      <3>1. /\ AnthropicContent(content) = <<Block("text", content.text)>>
            /\ Sayings(role, content) = <<<<role, "text", content.text>>>>
        BY <1>1, <2>3 DEF AnthropicContent, Sayings
      <3> QED
        BY <2>1, <3>1, TextBlockSays
    <2> QED
      BY <2>2, <2>3
  <1>2. CASE content.form # "string"
    <2> DEFINE bs == content.blocks
               as == AnthropicContent(content)
    <2>1. bs \in Seq(ResponsesBlock) /\ content = List(bs) /\ content.form = "list"
      BY <1>2, ContentIs DEF List
    <2>2. as = MapSeq(AnthropicBlock, bs)
      BY <2>1 DEF AnthropicContent
    <2>3. /\ DOMAIN bs = 1 .. Len(bs) /\ Len(bs) \in Nat
          /\ \A k \in 1 .. Len(bs) : bs[k] \in ResponsesBlock
      BY <2>1, LenProperties
    <2> HIDE DEF bs, as
    <2>4. ASSUME NEW k \in 1 .. Len(bs)
          PROVE  /\ AnthropicBlock(bs[k]) \in AnyBlock
                 /\ Saying(role, AnthropicBlock(bs[k])) = Saying(role, bs[k])
      <3> DEFINE b == bs[k]
                 c == AnthropicBlock(b)
      <3>1. /\ b.type \in {"input_text", "output_text", "text", "other"}
        BY <2>3 DEF ResponsesBlock, Plain
      <3>2. /\ c \in Plain({"text", "other"}) /\ c.value = b.value
            /\ c.type = IF IsTextType(b.type) THEN "text" ELSE "other"
        BY <2>3, AnthropicBlockIs
      <3> HIDE DEF b, c
      <3>3. c \in AnyBlock
        BY <3>2 DEF AnyBlock, MessagesBlock, Plain
      <3>4. CASE IsTextType(b.type)
        <4>1. Saying(role, b) = <<role, "text", b.value>>
          BY <3>4 DEF Saying, IsTextType
        <4>2. Saying(role, c) = <<role, "text", c.value>>
          BY <3>2, <3>4 DEF Saying, IsTextType
        <4> QED
          BY <3>2, <3>3, <4>1, <4>2 DEF b, c
      <3>5. CASE ~IsTextType(b.type)
        <4>1. b.type = "other" /\ c.type = "other"
          BY <3>1, <3>2, <3>5 DEF IsTextType
        <4> QED
          BY <3>2, <3>3, <4>1 DEF Saying, IsTextType, b, c
      <3> QED
        BY <3>3, <3>4, <3>5 DEF b, c
    <2>5. /\ DOMAIN as = 1 .. Len(bs)
          /\ \A k \in 1 .. Len(bs) : as[k] = AnthropicBlock(bs[k])
      BY <2>2, <2>3 DEF MapSeq
    <2>6. as \in Seq(AnyBlock)
      <3>1. \A k \in 1 .. Len(bs) : as[k] \in AnyBlock
        BY <2>4, <2>5
      <3>2. as = [k \in 1 .. Len(bs) |-> as[k]]
        BY <2>2, <2>3 DEF MapSeq
      <3> QED
        BY <2>3, <3>1, <3>2, SeqOfIs
    <2>7. Sayings(role, List(as)) = [k \in 1 .. Len(bs) |-> Saying(role, as[k])]
      BY <2>5 DEF Sayings, List, MapSeq
    <2>8. Sayings(role, List(bs)) = [k \in 1 .. Len(bs) |-> Saying(role, bs[k])]
      BY <2>3 DEF Sayings, List, MapSeq
    <2>9. Sayings(role, List(as)) = Sayings(role, List(bs))
      BY <2>4, <2>5, <2>7, <2>8
    <2> QED
      BY <2>1, <2>6, <2>9 DEF as
  <1> QED
    BY <1>1, <1>2

LEMMA ToolUseSays ==
  ASSUME NEW item, item.value \in STRING
  PROVE  /\ <<ToolUse(item)>> \in Seq(AnyBlock)
         /\ Sayings("assistant", List(<<ToolUse(item)>>)) =
              <<<<"assistant", "call",
                  IF item.value = "invalid" THEN "empty" ELSE item.value>>>>
  <1> DEFINE v == IF item.value = "invalid" THEN "empty" ELSE item.value
             b == Block("tool_use", v)
  <1>1. ToolUse(item) = b
    BY DEF ToolUse
  <1>2. v \in STRING \/ v = "empty"
    OBVIOUS
  <1>3. v # "invalid"
    OBVIOUS
  <1> HIDE DEF v
  <1>4. b \in AnyBlock
    BY <1>2 DEF AnyBlock, MessagesBlock, Plain, Block
  <1>5. b.type = "tool_use" /\ b.value = v
    BY DEF Block
  <1> HIDE DEF b
  <1>6. Saying("assistant", b) = <<"assistant", "call", v>>
    BY <1>3, <1>5 DEF Saying, IsTextType
  <1>7. "assistant" \in Roles
    BY DEF Roles
  <1>8. Sayings("assistant", List(<<b>>)) = <<<<"assistant", "call", v>>>>
    BY <1>4, <1>6, <1>7, SayingsOfOne
  <1> QED
    BY <1>1, <1>4, <1>8, OneInSeq DEF v

LEMMA ToolResultSays ==
  ASSUME NEW item, item.value \in Contents(ResponsesBlock)
  PROVE  /\ <<ToolResult(item)>> \in Seq(AnyBlock)
         /\ Sayings("user", List(<<ToolResult(item)>>)) =
              <<<<"user", "result", Said(item.value)>>>>
  <1> DEFINE content == item.value
             given == IF content.form = "string" THEN content
                      ELSE List(AnthropicContent(content))
             b == Block("tool_result", given)
  <1>1. /\ given \in Contents(Plain({"text", "other"}))
        /\ Said(given) = Said(content)
    <2>1. CASE content.form = "string"
      BY <2>1 DEF Contents
    <2>2. CASE content.form # "string"
      <3> DEFINE bs == content.blocks
                 as == AnthropicContent(content)
      <3>1. bs \in Seq(ResponsesBlock) /\ content = List(bs) /\ content.form = "list"
        BY <2>2, ContentIs DEF List
      <3>2. as = MapSeq(AnthropicBlock, bs)
        BY <3>1 DEF AnthropicContent
      <3>3. /\ DOMAIN bs = 1 .. Len(bs) /\ Len(bs) \in Nat
            /\ \A k \in 1 .. Len(bs) : bs[k] \in ResponsesBlock
        BY <3>1, LenProperties
      <3>4. given = List(as)
        BY <2>2
      <3>5. Said(content) = IF Len(bs) = 1 /\ IsTextType(bs[1].type)
                            THEN Text(bs[1].value)
                            ELSE List(MapSeq(AnthropicBlock, bs))
        BY <2>2 DEF Said
      <3> HIDE DEF bs, as, given
      <3>6. /\ DOMAIN as = 1 .. Len(bs)
            /\ \A k \in 1 .. Len(bs) : as[k] = AnthropicBlock(bs[k])
        BY <3>2, <3>3 DEF MapSeq
      <3>7. ASSUME NEW k \in 1 .. Len(bs)
            PROVE  /\ as[k] \in Plain({"text", "other"})
                   /\ as[k].value = bs[k].value
                   /\ IsTextType(as[k].type) <=> IsTextType(bs[k].type)
                   /\ AnthropicBlock(as[k]) = AnthropicBlock(bs[k])
        <4>1. /\ AnthropicBlock(bs[k]) \in Plain({"text", "other"})
              /\ AnthropicBlock(bs[k]).value = bs[k].value
              /\ AnthropicBlock(bs[k]).type =
                   IF IsTextType(bs[k].type) THEN "text" ELSE "other"
              /\ AnthropicBlock(AnthropicBlock(bs[k])) = AnthropicBlock(bs[k])
          BY <3>3, AnthropicBlockIs
        <4>2. IsTextType("text") /\ ~IsTextType("other")
          BY DEF IsTextType
        <4> QED
          BY <3>6, <4>1, <4>2
      <3>8. as \in Seq(Plain({"text", "other"})) /\ Len(as) = Len(bs)
        <4>1. as = [k \in 1 .. Len(bs) |-> as[k]]
          BY <3>2, <3>3 DEF MapSeq
        <4>2. \A k \in 1 .. Len(bs) : as[k] \in Plain({"text", "other"})
          BY <3>7
        <4>3. Len(bs) \in Nat
          BY <3>3
        <4> QED
          BY <4>1, <4>2, <4>3, SeqOfIs
      <3>10. MapSeq(AnthropicBlock, as) = MapSeq(AnthropicBlock, bs)
        BY <3>3, <3>6, <3>7 DEF MapSeq
      <3>11. Said(given) = IF Len(as) = 1 /\ IsTextType(as[1].type)
                           THEN Text(as[1].value)
                           ELSE List(MapSeq(AnthropicBlock, as))
        BY <3>4 DEF Said, List
      <3>12. Said(given) = Said(content)
        <4>1. CASE Len(bs) = 1
          <5>1. 1 \in 1 .. Len(bs)
            BY <4>1
          <5>2. /\ as[1].value = bs[1].value
                /\ IsTextType(as[1].type) <=> IsTextType(bs[1].type)
            BY <3>7, <5>1
          <5>3. CASE IsTextType(bs[1].type)
            <6>1. Said(content) = Text(bs[1].value)
              BY <3>5, <4>1, <5>3
            <6>2. Said(given) = Text(as[1].value)
              BY <3>8, <3>11, <4>1, <5>2, <5>3
            <6> QED
              BY <5>2, <6>1, <6>2
          <5>4. CASE ~IsTextType(bs[1].type)
            <6>1. Said(content) = List(MapSeq(AnthropicBlock, bs))
              BY <3>5, <5>4
            <6>2. Said(given) = List(MapSeq(AnthropicBlock, as))
              BY <3>11, <5>2, <5>4
            <6> QED
              BY <3>10, <6>1, <6>2
          <5> QED
            BY <5>3, <5>4
        <4>2. CASE Len(bs) # 1
          BY <3>5, <3>8, <3>10, <3>11, <4>2
        <4> QED
          BY <4>1, <4>2
      <3>13. List(as) \in Contents(Plain({"text", "other"}))
        BY <3>8 DEF List, Contents
      <3> QED
        BY <3>4, <3>12, <3>13
    <2> QED
      BY <2>1, <2>2
  <1>2. ToolResult(item) = b
    BY DEF ToolResult
  <1> HIDE DEF given
  <1>3. b \in AnyBlock
    BY <1>1 DEF AnyBlock, MessagesBlock, Block
  <1>4. b.type = "tool_result" /\ b.value = given
    BY DEF Block
  <1> HIDE DEF b
  <1>5. Saying("user", b) = <<"user", "result", Said(content)>>
    BY <1>1, <1>4 DEF Saying, IsTextType
  <1>6. "user" \in Roles
    BY DEF Roles
  <1>7. Sayings("user", List(<<b>>)) = <<<<"user", "result", Said(content)>>>>
    BY <1>3, <1>5, <1>6, SayingsOfOne
  <1> QED
    BY <1>2, <1>3, <1>7, OneInSeq
LEMMA AddItemSays ==
  ASSUME NEW messages \in Seq(ListedMessage), NEW item \in ResponsesItem
  PROVE  /\ AddItem(messages, item) \in Seq(ListedMessage)
         /\ ConversationOf(AddItem(messages, item))
              = ConversationOf(messages) \o ItemSayings(item)
  <1> DEFINE before == ConversationOf(messages)
  <1>1. item \in AnyItem
    BY DEF AnyItem
  <1>2. item.type \in {"message", "string", "input_text", "function_call",
                       "function_call_output", "reasoning", "other"}
    BY DEF ResponsesItem, Contentful, Plain
  <1>3. "user" \in Roles /\ "assistant" \in Roles
    BY DEF Roles
  <1>4. CASE item.type = "string"
    <2> DEFINE bs == <<Block("text", item.value)>>
               m == Message("user", bs)
    <2>1. AddItem(messages, item) = Append(messages, m)
      BY <1>1, <1>4, ItemIs DEF AddItem
    <2>2. /\ item.value \in STRING
          /\ ItemSayings(item) = <<<<"user", "text", item.value>>>>
      BY <1>1, <1>4, ItemIs
    <2>3. /\ bs \in Seq(AnyBlock)
          /\ Sayings("user", List(bs)) = <<<<"user", "text", item.value>>>>
      BY <1>3, <2>2, TextBlockSays
    <2> HIDE DEF bs
    <2>4. m \in ListedMessage /\ m \in AnyMessage
          /\ MessageSayings(m) = Sayings("user", List(bs))
      BY <1>3, <2>3, ListedIs
    <2> HIDE DEF m
    <2>5. Append(messages, m) \in Seq(ListedMessage)
      BY <2>4, AppendProperties
    <2>6. messages \in Seq(AnyMessage)
      <3>1. ListedMessage \subseteq AnyMessage
        BY ListedIs
      <3> QED
        BY <3>1, SeqMonotonic
    <2>7. ConversationOf(Append(messages, m)) = before \o MessageSayings(m)
      BY <2>4, <2>6, MessagesSay
    <2> QED
      BY <2>1, <2>2, <2>3, <2>4, <2>5, <2>7
  <1>5. CASE item.type = "function_call"
    <2> DEFINE bs == <<ToolUse(item)>>
    <2>1. AddItem(messages, item) = AppendBlocks(messages, "assistant", bs)
      BY <1>1, <1>5, ItemIs DEF AddItem
    <2>2. /\ item.value \in STRING
          /\ ItemSayings(item) =
               <<<<"assistant", "call",
                   IF item.value = "invalid" THEN "empty" ELSE item.value>>>>
      BY <1>1, <1>5, ItemIs
    <2>3. bs \in Seq(AnyBlock) /\ Sayings("assistant", List(bs)) = ItemSayings(item)
      BY <2>2, ToolUseSays
    <2> HIDE DEF bs
    <2> QED
      BY <1>3, <2>1, <2>3, AppendBlocksSays
  <1>6. CASE item.type = "function_call_output"
    <2> DEFINE bs == <<ToolResult(item)>>
    <2>1. AddItem(messages, item) = AppendBlocks(messages, "user", bs)
      BY <1>1, <1>6, ItemIs DEF AddItem
    <2>2. /\ item.value \in Contents(ResponsesBlock)
          /\ ItemSayings(item) = <<<<"user", "result", Said(item.value)>>>>
      BY <1>1, <1>6, ItemIs
    <2>3. bs \in Seq(AnyBlock) /\ Sayings("user", List(bs)) = ItemSayings(item)
      BY <2>2, ToolResultSays
    <2> HIDE DEF bs
    <2> QED
      BY <1>3, <2>1, <2>3, AppendBlocksSays
  <1>7. CASE HasContent(item)
    <2> DEFINE bs == AnthropicContent(item.content)
    <2>1. AddItem(messages, item) = AppendBlocks(messages, item.role, bs)
      BY <1>1, <1>7, ItemIs DEF AddItem
    <2>2. /\ item.role \in Roles /\ item.content \in Contents(ResponsesBlock)
          /\ ItemSayings(item) = Sayings(item.role, item.content)
      BY <1>1, <1>7, ItemIs
    <2>3. bs \in Seq(AnyBlock) /\ Sayings(item.role, List(bs)) = ItemSayings(item)
      BY <2>2, AnthropicContentSays
    <2> HIDE DEF bs
    <2> QED
      BY <2>1, <2>2, <2>3, AppendBlocksSays
  <1>8. CASE item.type = "input_text" /\ item.value # ""
    <2> DEFINE bs == <<Block("text", item.value)>>
    <2>1. AddItem(messages, item) = AppendBlocks(messages, item.role, bs)
      BY <1>1, <1>8, ItemIs DEF AddItem
    <2>2. /\ item.role \in Roles /\ item.value \in STRING
          /\ ItemSayings(item) = <<<<item.role, "text", item.value>>>>
      BY <1>1, <1>8, ItemIs
    <2>3. bs \in Seq(AnyBlock) /\ Sayings(item.role, List(bs)) = ItemSayings(item)
      BY <2>2, TextBlockSays
    <2> HIDE DEF bs
    <2> QED
      BY <2>1, <2>2, <2>3, AppendBlocksSays
  <1>9. CASE \/ item.type = "reasoning" /\ ~HasContent(item)
             \/ item.type = "input_text" /\ item.value = ""
    <2>1. AddItem(messages, item) = messages
      BY <1>1, <1>9, ItemIs DEF AddItem
    <2>2. ItemSayings(item) = <<>>
      BY <1>1, <1>9, ItemIs
    <2>3. before \in Seq(Utterance)
      <3>1. ListedMessage \subseteq AnyMessage
        BY ListedIs
      <3>2. messages \in Seq(AnyMessage)
        BY <3>1, SeqMonotonic
      <3> QED
        BY <3>2, MessagesSay
    <2> QED
      BY <2>1, <2>2, <2>3, ConcatEmptySeq
  <1> QED
    BY <1>1, <1>2, <1>4, <1>5, <1>6, <1>7, <1>8, <1>9, ItemIs

\* The messages of a converted request say what its input said: every text,
\* call and result, by the same speaker and in the same order
\* (convertResponsesInputToAnthropicMessages).
THEOREM AnthropicMessagesSays ==
  \A input \in Seq(ResponsesItem) :
    /\ AnthropicMessages(input) \in Seq(ListedMessage)
    /\ ConversationOf(AnthropicMessages(input)) = ConversationOfItems(input)
  <1> SUFFICES ASSUME NEW input \in Seq(ResponsesItem)
               PROVE  /\ AnthropicMessages(input) \in Seq(ListedMessage)
                      /\ ConversationOf(AnthropicMessages(input))
                           = ConversationOfItems(input)
    OBVIOUS
  <1> DEFINE n == Len(input)
             Prefix(k) == [j \in 1 .. k |-> input[j]]
  <1>1. /\ n \in Nat /\ DOMAIN input = 1 .. n
        /\ \A k \in 1 .. n : input[k] \in ResponsesItem
        /\ input = [j \in 1 .. n |-> input[j]]
    BY LenProperties
  <1>2. ResponsesItem \subseteq AnyItem
    BY DEF AnyItem
  <1>3. PICK h : /\ h[0] = <<>>
                 /\ \A k \in 1 .. n : h[k] = AddItem(h[k - 1], input[k])
                 /\ AnthropicMessages(input) = h[n]
    <2>1. <<>> \in Seq(ListedMessage)
      OBVIOUS
    <2>2. \A a \in Seq(ListedMessage), x \in ResponsesItem :
            AddItem(a, x) \in Seq(ListedMessage)
      BY AddItemSays
    <2> QED
      BY <2>1, <2>2, AddItemFold
  <1> DEFINE N == {k \in Nat : k <= n =>
                     /\ h[k] \in Seq(ListedMessage)
                     /\ ConversationOf(h[k]) = ConversationOfItems(Prefix(k))}
  <1>4. 0 \in N
    <2>1. Prefix(0) = <<>> /\ <<>> \in Seq(ListedMessage)
      OBVIOUS
    <2> QED
      BY <1>3, <2>1, MessagesSay, ItemsSay
  <1>5. ASSUME NEW k \in Nat, k \in N PROVE k + 1 \in N
    <2>1. SUFFICES ASSUME k + 1 <= n
                   PROVE  /\ h[k + 1] \in Seq(ListedMessage)
                          /\ ConversationOf(h[k + 1]) = ConversationOfItems(Prefix(k + 1))
      OBVIOUS
    <2> DEFINE item == input[k + 1]
    <2>2. /\ k + 1 \in 1 .. n /\ (k + 1) - 1 = k /\ k <= n
          /\ \A j \in 1 .. k + 1 : j \in 1 .. n
      BY <1>1, <2>1
    <2>3. /\ h[k] \in Seq(ListedMessage)
          /\ ConversationOf(h[k]) = ConversationOfItems(Prefix(k))
      BY <1>5, <2>2
    <2>4. h[k + 1] = AddItem(h[k], item)
      BY <1>3, <2>2
    <2>5. item \in ResponsesItem /\ item \in AnyItem
      BY <1>1, <1>2, <2>2
    <2> HIDE DEF item
    <2>6. /\ h[k + 1] \in Seq(ListedMessage)
          /\ ConversationOf(h[k + 1]) = ConversationOf(h[k]) \o ItemSayings(item)
      BY <2>3, <2>4, <2>5, AddItemSays
    <2>7. /\ Prefix(k) \in Seq(AnyItem) /\ Len(Prefix(k)) = k
          /\ Prefix(k + 1) \in Seq(AnyItem) /\ Len(Prefix(k + 1)) = k + 1
      <3>1. \A j \in 1 .. k + 1 : input[j] \in AnyItem
        BY <1>1, <1>2, <2>2
      <3> QED
        BY <3>1
    <2>8. Append(Prefix(k), item) = Prefix(k + 1)
      <3> DEFINE a == Append(Prefix(k), item)
      <3>1. /\ a \in Seq(AnyItem) /\ Len(a) = k + 1 /\ a[k + 1] = item
            /\ \A j \in 1 .. k : a[j] = Prefix(k)[j]
        <4> HIDE DEF Prefix
        <4> QED
          BY <2>5, <2>7, AppendProperties
      <3>2. ASSUME NEW j \in 1 .. k + 1 PROVE a[j] = Prefix(k + 1)[j]
        <4> HIDE DEF a
        <4>1. CASE j \in 1 .. k
          BY <3>1, <4>1
        <4>2. CASE j = k + 1
          BY <3>1, <4>2 DEF item
        <4> QED
          BY <4>1, <4>2
      <3> HIDE DEF a, Prefix
      <3>3. a = Prefix(k + 1)
        BY <2>7, <3>1, <3>2, SeqEqual
      <3> QED
        BY <3>3 DEF a
    <2> HIDE DEF Prefix
    <2>9. ConversationOfItems(Append(Prefix(k), item))
            = ConversationOfItems(Prefix(k)) \o ItemSayings(item)
      BY <2>5, <2>7, ItemsSay
    <2> QED
      BY <2>3, <2>6, <2>8, <2>9
  <1>6. Nat \subseteq N
    <2> HIDE DEF N
    <2> QED
      BY <1>4, <1>5, NatSetInduction
  <1>7. /\ h[n] \in Seq(ListedMessage)
        /\ ConversationOf(h[n]) = ConversationOfItems(Prefix(n))
    BY <1>1, <1>6
  <1>8. Prefix(n) = input
    BY <1>1
  <1> HIDE DEF Prefix
  <1> QED
    BY <1>3, <1>7, <1>8

-----------------------------------------------------------------------------
(* What an answer says. *)

Word ==
  {"text", "call", "result", "other"}
  \X (STRING \cup {"empty"} \cup Contents(Plain({"text", "other"})))

LEMMA SpokenType == \A u \in Utterance : Spoken(u) \in Seq(Word)
  <1> SUFFICES ASSUME NEW u \in Utterance PROVE Spoken(u) \in Seq(Word)
    OBVIOUS
  <1>1. <<u[2], u[3]>> \in Word
    BY DEF Utterance, Word
  <1>2. <<<<u[2], u[3]>>>> \in Seq(Word) /\ <<>> \in Seq(Word)
    BY <1>1
  <1> QED
    BY <1>2 DEF Spoken

LEMMA SpeechIs ==
  ASSUME NEW s \in Seq(Utterance)
  PROVE  Speech(s) = Gathered([u \in Utterance |-> Spoken(u)], s)
  <1> DEFINE F == [u \in Utterance |-> Spoken(u)]
  <1>1. \A k \in DOMAIN s : s[k] \in Utterance
    BY LenProperties
  <1> HIDE DEF Utterance
  <1>2. MapSeq(Spoken, s) = [k \in DOMAIN s |-> F[s[k]]]
    BY <1>1 DEF MapSeq
  <1> QED
    BY <1>2 DEF Speech, Gathered

LEMMA SpeechSays ==
  /\ Speech(<<>>) = <<>>
  /\ \A u \in Utterance : Speech(<<u>>) = Spoken(u)
  /\ \A s, t \in Seq(Utterance) : Speech(s \o t) = Speech(s) \o Speech(t)
  <1> DEFINE F == [u \in Utterance |-> Spoken(u)]
  <1>1. F \in [Utterance -> Seq(Word)]
    BY SpokenType
  <1>2. \A u \in Utterance : F[u] = Spoken(u)
    OBVIOUS
  <1>3. \A s \in Seq(Utterance) : Speech(s) = Gathered(F, s)
    BY SpeechIs
  <1>4. <<>> \in Seq(Utterance)
    OBVIOUS
  <1>5. \A s, t \in Seq(Utterance) : s \o t \in Seq(Utterance)
    OBVIOUS
  <1> HIDE DEF F
  <1>6. Speech(<<>>) = <<>>
    BY <1>3, <1>4, GatheredEmpty
  <1>7. \A u \in Utterance : Speech(<<u>>) = Spoken(u)
    <2> TAKE u \in Utterance
    <2>1. Gathered(F, <<u>>) = F[u]
      BY <1>1, GatheredOne
    <2> QED
      BY <1>2, <1>3, <2>1, OneInSeq
  <1>8. \A s, t \in Seq(Utterance) : Speech(s \o t) = Speech(s) \o Speech(t)
    <2> TAKE s, t \in Seq(Utterance)
    <2>1. Gathered(F, s \o t) = Gathered(F, s) \o Gathered(F, t)
      BY <1>1, GatheredConcat
    <2> QED
      BY <1>3, <1>5, <2>1
  <1> QED
    BY <1>6, <1>7, <1>8

\* Who speaks makes no difference to what is said.
LEMMA SpeechOfAnyone ==
  ASSUME NEW role \in Roles, NEW other \in Roles, NEW content \in Contents(ResponsesBlock)
  PROVE  Speech(Sayings(role, content)) = Speech(Sayings(other, content))
  <1>1. CASE content.form = "string"
    <2>1. content.text \in STRING
      BY <1>1, ContentIs
    <2>2. CASE IsBlank(content.text)
      BY <1>1, <2>2 DEF Sayings
    <2>3. CASE ~IsBlank(content.text)
      <3>1. /\ Sayings(role, content) = <<<<role, "text", content.text>>>>
            /\ Sayings(other, content) = <<<<other, "text", content.text>>>>
        BY <1>1, <2>3 DEF Sayings
      <3>2. /\ <<role, "text", content.text>> \in Utterance
            /\ <<other, "text", content.text>> \in Utterance
        BY <2>1 DEF Utterance
      <3>3. Spoken(<<role, "text", content.text>>)
              = Spoken(<<other, "text", content.text>>)
        BY DEF Spoken
      <3> QED
        BY <3>1, <3>2, <3>3, SpeechSays
    <2> QED
      BY <2>2, <2>3
  <1>2. CASE content.form # "string"
    <2> DEFINE bs == content.blocks
               s == Sayings(role, content)
               t == Sayings(other, content)
    <2>1. bs \in Seq(ResponsesBlock) /\ content = List(bs) /\ content.form = "list"
      BY <1>2, ContentIs DEF List
    <2>2. /\ DOMAIN bs = 1 .. Len(bs) /\ Len(bs) \in Nat
          /\ \A k \in 1 .. Len(bs) : bs[k] \in ResponsesBlock
      BY <2>1, LenProperties
    <2>3. /\ s = [k \in 1 .. Len(bs) |-> Saying(role, bs[k])]
          /\ t = [k \in 1 .. Len(bs) |-> Saying(other, bs[k])]
      BY <2>1, <2>2 DEF Sayings, MapSeq
    <2> HIDE DEF bs, s, t
    <2>4. ASSUME NEW k \in 1 .. Len(bs) PROVE Spoken(s[k]) = Spoken(t[k])
      <3> DEFINE b == bs[k]
      <3>1. b.type \in {"input_text", "output_text", "text", "other"}
        BY <2>2 DEF ResponsesBlock, Plain
      <3>2. s[k] = Saying(role, b) /\ t[k] = Saying(other, b)
        BY <2>3
      <3> HIDE DEF b
      <3>3. CASE IsTextType(b.type)
        <4>1. Saying(role, b) = <<role, "text", b.value>>
          BY <3>3 DEF Saying, IsTextType
        <4>2. Saying(other, b) = <<other, "text", b.value>>
          BY <3>3 DEF Saying, IsTextType
        <4> QED
          BY <3>2, <4>1, <4>2 DEF Spoken
      <3>4. CASE ~IsTextType(b.type)
        <4>1. Saying(role, b) = <<role, "other", b.value>>
          BY <3>1, <3>4 DEF Saying, IsTextType
        <4>2. Saying(other, b) = <<other, "other", b.value>>
          BY <3>1, <3>4 DEF Saying, IsTextType
        <4> QED
          BY <3>2, <4>1, <4>2 DEF Spoken
      <3> QED
        BY <3>3, <3>4
    <2>5. MapSeq(Spoken, s) = MapSeq(Spoken, t)
      <3>1. DOMAIN s = 1 .. Len(bs) /\ DOMAIN t = 1 .. Len(bs)
        BY <2>3
      <3> QED
        BY <2>4, <3>1 DEF MapSeq
    <2>6. Speech(s) = Speech(t)
      BY <2>5 DEF Speech
    <2> QED
      BY <2>6 DEF s, t
  <1> QED
    BY <1>1, <1>2

LEMMA OutputItemSays ==
  ASSUME NEW item \in OutputItem
  PROVE  /\ OutputItemContent(item) \in Seq(AnyBlock)
         /\ MessageSpeech(OutputItemContent(item)) = Speech(ItemSayings(item))
         /\ OutputItemContent(item) = <<>> <=> IsSilent(item)
  <1>1. item \in AnyItem
    BY DEF AnyItem
  <1>2. item.type \in {"message", "output_text", "text", "reasoning", "function_call"}
    BY DEF OutputItem, ResponsesMessage, Contentful, Plain
  <1>3. "assistant" \in Roles
    BY DEF Roles
  <1>0. MessageSpeech(<<>>) = <<>> /\ Speech(<<>>) = <<>>
    BY <1>3, SayingsOfNone, SpeechSays DEF MessageSpeech
  <1>4. CASE item.type = "message"
    <2>1. OutputItemContent(item) = AnthropicContent(item.content)
      BY <1>4 DEF OutputItemContent
    <2>2. /\ item.role \in Roles /\ item.content \in Contents(ResponsesBlock)
          /\ ItemSayings(item) = Sayings(item.role, item.content)
      BY <1>1, <1>4, ItemIs
    <2>3. /\ AnthropicContent(item.content) \in Seq(AnyBlock)
          /\ Sayings("assistant", List(AnthropicContent(item.content)))
               = Sayings("assistant", item.content)
      BY <1>3, <2>2, AnthropicContentSays
    <2>4. Speech(Sayings("assistant", item.content))
            = Speech(Sayings(item.role, item.content))
      BY <1>3, <2>2, SpeechOfAnyone
    <2>5. AnthropicContent(item.content) = <<>> <=> ItemSayings(item) = <<>>
      <3> DEFINE bs == AnthropicContent(item.content)
      <3>1. bs \in Seq(AnyBlock) /\ ItemSayings(item) = Sayings(item.role, List(bs))
        BY <2>2, AnthropicContentSays
      <3> HIDE DEF bs
      <3>2. Len(ItemSayings(item)) = Len(bs) /\ ItemSayings(item) \in Seq(Utterance)
        BY <2>2, <3>1, SayingsOfList
      <3>3. bs = <<>> <=> ItemSayings(item) = <<>>
        BY <3>1, <3>2, EmptySeq
      <3> QED
        BY <3>3 DEF bs
    <2>6. IsSilent(item) <=> ItemSayings(item) = <<>>
      BY <1>4 DEF IsSilent
    <2> QED
      BY <2>1, <2>2, <2>3, <2>4, <2>5, <2>6 DEF MessageSpeech
  <1>5. CASE item.type = "function_call"
    <2>1. OutputItemContent(item) = <<ToolUse(item)>>
      BY <1>5 DEF OutputItemContent
    <2>2. /\ item.value \in STRING
          /\ ItemSayings(item) =
               <<<<"assistant", "call",
                   IF item.value = "invalid" THEN "empty" ELSE item.value>>>>
      BY <1>1, <1>5, ItemIs
    <2>3. /\ <<ToolUse(item)>> \in Seq(AnyBlock)
          /\ Sayings("assistant", List(<<ToolUse(item)>>)) = ItemSayings(item)
      BY <2>2, ToolUseSays
    <2>4. Speech(ItemSayings(item)) # <<>>
      <3>1. ItemSayings(item) \in Seq(Utterance)
        BY <1>1, ItemSayingsType
      <3>2. PICK u : u = <<"assistant", "call",
                   IF item.value = "invalid" THEN "empty" ELSE item.value>>
        OBVIOUS
      <3>3. u \in Utterance /\ ItemSayings(item) = <<u>>
        <4>1. ItemSayings(item) = <<u>>
          BY <2>2, <3>2
        <4> QED
          BY <3>1, <4>1
      <3>4. Spoken(u) # <<>>
        BY <3>2 DEF Spoken
      <3> QED
        BY <3>3, <3>4, SpeechSays
    <2>5. ~IsSilent(item)
      BY <1>5, <2>4 DEF IsSilent
    <2>6. <<ToolUse(item)>> # <<>>
      OBVIOUS
    <2> QED
      BY <2>1, <2>3, <2>5, <2>6 DEF MessageSpeech
  <1>6. CASE item.type \in {"output_text", "text"}
    <2>1. /\ item.value \in STRING
          /\ ItemSayings(item) = <<<<"assistant", "text", item.value>>>>
      BY <1>1, <1>6, ItemIs
    <2>2. CASE ~IsBlank(item.value)
      <3>1. OutputItemContent(item) = <<Block("text", item.value)>>
        BY <1>6, <2>2 DEF OutputItemContent
      <3>2. /\ <<Block("text", item.value)>> \in Seq(AnyBlock)
            /\ Sayings("assistant", List(<<Block("text", item.value)>>))
                 = ItemSayings(item)
        BY <1>3, <2>1, TextBlockSays
      <3>3. PICK u : u = <<"assistant", "text", item.value>>
        OBVIOUS
      <3>4. u \in Utterance /\ ItemSayings(item) = <<u>>
        BY <1>3, <2>1, <3>3 DEF Utterance
      <3>5. Spoken(u) # <<>>
        BY <2>2, <3>3 DEF Spoken
      <3>6. Speech(ItemSayings(item)) # <<>>
        BY <3>4, <3>5, SpeechSays
      <3>7. ~IsSilent(item) /\ <<Block("text", item.value)>> # <<>>
        BY <1>6, <3>6 DEF IsSilent
      <3> QED
        BY <3>1, <3>2, <3>7 DEF MessageSpeech
    <2>3. CASE IsBlank(item.value)
      <3>1. OutputItemContent(item) = <<>>
        BY <1>6, <2>3 DEF OutputItemContent
      <3>2. <<"assistant", "text", item.value>> \in Utterance
        BY <1>3, <2>1 DEF Utterance
      <3>3. Spoken(<<"assistant", "text", item.value>>) = <<>>
        BY <2>3 DEF Spoken
      <3>4. Speech(ItemSayings(item)) = <<>>
        BY <2>1, <3>2, <3>3, SpeechSays
      <3>5. MessageSpeech(<<>>) = <<>>
        BY <1>3, SayingsOfNone, SpeechSays DEF MessageSpeech
      <3>6. <<>> \in Seq(AnyBlock)
        OBVIOUS
      <3>7. IsSilent(item)
        BY <1>6, <3>4 DEF IsSilent
      <3> QED
        BY <3>1, <3>4, <3>5, <3>6, <3>7
    <2> QED
      BY <2>2, <2>3
  <1>7. CASE item.type = "reasoning"
    <2>1. OutputItemContent(item) = <<>>
      BY <1>7 DEF OutputItemContent
    <2>2. ItemSayings(item) = <<>>
      <3>1. ~HasContent(item)
        BY <1>7 DEF OutputItem, ResponsesMessage, Contentful, Plain, HasContent
      <3> QED
        BY <1>1, <1>7, <3>1, ItemIs
    <2>3. IsSilent(item)
      BY <1>0, <1>7, <2>2 DEF IsSilent
    <2>4. <<>> \in Seq(AnyBlock)
      OBVIOUS
    <2> QED
      BY <1>0, <2>1, <2>2, <2>3, <2>4
  <1> QED
    BY <1>2, <1>4, <1>5, <1>6, <1>7

\* The content made of the items says what they say, and is empty when all of
\* them are silent.
LEMMA MessagesContentSays ==
  ASSUME NEW output \in Seq(OutputItem)
  PROVE  /\ MessageSpeech(MessagesContent(output)) = ItemSpeech(output)
         /\ MessagesContent(output) = <<>>
              <=> \A k \in DOMAIN output : IsSilent(output[k])
  <1> DEFINE F == [i \in OutputItem |-> OutputItemContent(i)]
             Silent(s) == \A k \in DOMAIN s : IsSilent(s[k])
             S == {s \in Seq(OutputItem) :
                     /\ Gathered(F, s) \in Seq(AnyBlock)
                     /\ MessageSpeech(Gathered(F, s)) = ItemSpeech(s)
                     /\ Gathered(F, s) = <<>> <=> Silent(s)}
  <1>1. F \in [OutputItem -> Seq(AnyBlock)]
    BY OutputItemSays
  <1>2. \A i \in OutputItem :
          /\ F[i] \in Seq(AnyBlock) /\ MessageSpeech(F[i]) = Speech(ItemSayings(i))
          /\ F[i] = <<>> <=> IsSilent(i)
    BY OutputItemSays
  <1> HIDE DEF F
  <1>3. OutputItem \subseteq AnyItem
    BY DEF AnyItem
  <1>4. Seq(OutputItem) \subseteq Seq(AnyItem)
    BY <1>3, SeqMonotonic
  <1>5. "assistant" \in Roles
    BY DEF Roles
  <1>6. <<>> \in S
    <2>1. Gathered(F, <<>>) = <<>>
      BY GatheredEmpty
    <2>2. <<>> \in Seq(AnyBlock) /\ <<>> \in Seq(OutputItem)
      OBVIOUS
    <2>3. MessageSpeech(<<>>) = <<>> /\ ItemSpeech(<<>>) = <<>>
      BY <1>5, SayingsOfNone, ItemsSay, SpeechSays DEF MessageSpeech, ItemSpeech
    <2>4. Silent(<<>>)
      OBVIOUS
    <2> QED
      BY <2>1, <2>2, <2>3, <2>4
  <1>7. ASSUME NEW s \in Seq(OutputItem), NEW i \in OutputItem, s \in S
        PROVE  Append(s, i) \in S
    <2>1. Append(s, i) \in Seq(OutputItem)
      BY AppendProperties
    <2>2. Gathered(F, Append(s, i)) = Gathered(F, s) \o F[i]
      BY <1>1, GatheredAppend
    <2>3. Gathered(F, s) \in Seq(AnyBlock) /\ F[i] \in Seq(AnyBlock)
      BY <1>2, <1>7
    <2>4. Gathered(F, s) \o F[i] \in Seq(AnyBlock)
      BY <2>3, ConcatProperties
    <2> DEFINE a == Sayings("assistant", List(Gathered(F, s)))
               b == Sayings("assistant", List(F[i]))
    <2>5. Sayings("assistant", List(Gathered(F, s) \o F[i])) = a \o b
      BY <1>5, <2>3, SayingsConcat
    <2>6. a \in Seq(Utterance) /\ b \in Seq(Utterance)
      BY <1>5, <2>3, SayingsOfList
    <2>7. MessageSpeech(Gathered(F, s) \o F[i])
            = MessageSpeech(Gathered(F, s)) \o MessageSpeech(F[i])
      <3>1. Speech(a \o b) = Speech(a) \o Speech(b)
        <4> HIDE DEF a, b
        <4> QED
          BY <2>6, SpeechSays
      <3> QED
        BY <2>5, <3>1 DEF MessageSpeech
    <2>8. /\ ConversationOfItems(Append(s, i)) = ConversationOfItems(s) \o ItemSayings(i)
          /\ ConversationOfItems(s) \in Seq(Utterance)
          /\ ItemSayings(i) \in Seq(Utterance)
      BY <1>3, <1>4, ItemsSay, ItemSayingsType
    <2>9. ItemSpeech(Append(s, i)) = ItemSpeech(s) \o Speech(ItemSayings(i))
      BY <2>8, SpeechSays DEF ItemSpeech
    <2>10. /\ MessageSpeech(Gathered(F, s)) = ItemSpeech(s)
           /\ Gathered(F, s) = <<>> <=> Silent(s)
      BY <1>7
    <2>11. Silent(Append(s, i)) <=> Silent(s) /\ IsSilent(i)
      <3> DEFINE t == Append(s, i)
      <3>1. /\ DOMAIN s = 1 .. Len(s) /\ Len(s) \in Nat
            /\ DOMAIN t = 1 .. Len(s) + 1 /\ t[Len(s) + 1] = i
            /\ \A k \in 1 .. Len(s) : t[k] = s[k]
        BY LenProperties, AppendProperties
      <3> HIDE DEF t
      <3>2. Silent(t) <=> Silent(s) /\ IsSilent(i)
        BY <3>1
      <3> QED
        BY <3>2 DEF t
    <2>12. Gathered(F, s) \o F[i] = <<>> <=> Gathered(F, s) = <<>> /\ F[i] = <<>>
      <3>1. \A a1, b1 \in Seq(AnyBlock) : a1 \o b1 = <<>> <=> a1 = <<>> /\ b1 = <<>>
        BY LenProperties, ConcatProperties, EmptySeq
      <3> QED
        BY <2>3, <3>1
    <2> HIDE DEF Silent
    <2> QED
      BY <1>2, <2>1, <2>2, <2>4, <2>7, <2>9, <2>10, <2>11, <2>12
  <1>8. Seq(OutputItem) \subseteq S
    <2> HIDE DEF S
    <2> QED
      BY <1>6, <1>7, SeqSetInduction
  <1>9. ASSUME NEW s \in Seq(OutputItem)
        PROVE  MessagesContent(s) = Gathered(F, s)
    <2>1. \A k \in DOMAIN s : s[k] \in OutputItem
      BY LenProperties
    <2>2. MapSeq(OutputItemContent, s) = [k \in DOMAIN s |-> F[s[k]]]
      BY <2>1 DEF MapSeq, F
    <2> QED
      BY <2>2 DEF MessagesContent, Gathered
  <1> QED
    BY <1>8, <1>9

\* The Messages answer made of a Responses answer says the same, texts, calls
\* and all else, in the same order, and what the output_text says when no item
\* says anything (ConvertResponsesResponseToMessagesResponse).
THEOREM MessagesAnswerSays ==
  \A answer \in OutputAnswer :
    MessageSpeech(MessagesAnswer(answer)) = AnswerSpeech(answer)
  <1> SUFFICES ASSUME NEW answer \in OutputAnswer
               PROVE  MessageSpeech(MessagesAnswer(answer)) = AnswerSpeech(answer)
    OBVIOUS
  <1>1. answer.output \in Seq(OutputItem) /\ answer.text \in STRING
    BY DEF OutputAnswer
  <1>2. "assistant" \in Roles
    BY DEF Roles
  <1>3. PICK u : u = <<"assistant", "text", answer.text>>
    OBVIOUS
  <1>4. u \in Utterance
    BY <1>1, <1>2, <1>3 DEF Utterance
  <1>5. CASE MessagesContent(answer.output) # <<>>
    <2>1. MessagesAnswer(answer) = MessagesContent(answer.output)
      BY <1>5 DEF MessagesAnswer
    <2>2. AnswerSpeech(answer) = ItemSpeech(answer.output)
      BY <1>1, <1>5, MessagesContentSays DEF AnswerSpeech
    <2> QED
      BY <1>1, <2>1, <2>2, MessagesContentSays
  <1>6. CASE MessagesContent(answer.output) = <<>>
    <2>1. AnswerSpeech(answer) = Speech(<<u>>)
      BY <1>1, <1>3, <1>6, MessagesContentSays DEF AnswerSpeech
    <2>2. CASE answer.text = ""
      <3>1. MessagesAnswer(answer) = <<>>
        BY <1>6, <2>2 DEF MessagesAnswer
      <3>2. Spoken(u) = <<>>
        BY <1>3, <2>2 DEF Spoken, IsBlank
      <3>3. Speech(<<u>>) = <<>>
        BY <1>4, <3>2, SpeechSays
      <3>4. MessageSpeech(<<>>) = <<>>
        BY <1>2, SayingsOfNone, SpeechSays DEF MessageSpeech
      <3> QED
        BY <2>1, <3>1, <3>3, <3>4
    <2>3. CASE answer.text # ""
      <3>1. MessagesAnswer(answer) = <<Block("text", answer.text)>>
        BY <1>6, <2>3 DEF MessagesAnswer
      <3>2. Sayings("assistant", List(<<Block("text", answer.text)>>)) = <<u>>
        BY <1>1, <1>2, <1>3, TextBlockSays
      <3> QED
        BY <2>1, <3>1, <3>2 DEF MessageSpeech
    <2> QED
      BY <2>2, <2>3
  <1> QED
    BY <1>5, <1>6

\* The Responses answer made of a Messages answer has the same texts in the
\* same order (convertAnthropicContentToResponsesOutputContent).
THEOREM ResponsesAnswerSays ==
  \A content \in Seq(MessagesBlock) :
    ItemTexts(ResponsesAnswer(content)) = MessageTexts(content)
  <1> SUFFICES ASSUME NEW content \in Seq(MessagesBlock)
               PROVE  ItemTexts(ResponsesAnswer(content)) = MessageTexts(content)
    OBVIOUS
  <1> DEFINE os == MapSeq(OutputBlock, content)
             item == [type |-> "message", role |-> "assistant", content |-> List(os)]
             F == [i \in {item} |-> ItemSayings(i)]
  <1>1. /\ DOMAIN content = 1 .. Len(content) /\ Len(content) \in Nat
        /\ \A k \in 1 .. Len(content) : content[k] \in MessagesBlock
    BY LenProperties
  <1>2. /\ DOMAIN os = 1 .. Len(content)
        /\ os = [k \in 1 .. Len(content) |-> os[k]]
        /\ \A k \in 1 .. Len(content) : os[k] = OutputBlock(content[k])
    BY <1>1 DEF MapSeq
  <1>3. /\ item.type = "message" /\ item.role = "assistant" /\ item.content = List(os)
        /\ HasContent(item)
    BY DEF HasContent
  <1>4. ResponsesAnswer(content) = <<item>>
    BY DEF ResponsesAnswer
  <1> HIDE DEF os, item
  <1>5. ASSUME NEW k \in 1 .. Len(content)
        PROVE  /\ os[k] \in AnyBlock
               /\ Saying("assistant", os[k]) = Saying("assistant", content[k])
    <2> DEFINE b == content[k]
    <2>1. b \in MessagesBlock
      BY <1>1
    <2>2. os[k] = OutputBlock(b)
      BY <1>2
    <2> HIDE DEF b
    <2>3. CASE b.type = "text"
      <3>1. OutputBlock(b) = Block("output_text", b.value) /\ b.value \in STRING
        BY <2>1, <2>3 DEF OutputBlock, MessagesBlock, Plain
      <3>2. OutputBlock(b) \in AnyBlock
        BY <3>1 DEF AnyBlock, ResponsesBlock, Plain, Block
      <3>3. Saying("assistant", OutputBlock(b)) = <<"assistant", "text", b.value>>
        BY <3>1 DEF Saying, IsTextType, Block
      <3>4. Saying("assistant", b) = <<"assistant", "text", b.value>>
        BY <2>3 DEF Saying, IsTextType
      <3> QED
        BY <2>2, <3>2, <3>3, <3>4 DEF b
    <2>4. CASE b.type # "text"
      <3>1. OutputBlock(b) = b
        BY <2>4 DEF OutputBlock
      <3> QED
        BY <2>1, <2>2, <3>1 DEF b, AnyBlock
    <2> QED
      BY <2>3, <2>4
  <1>6. os \in Seq(AnyBlock)
    BY <1>1, <1>2, <1>5, SeqOfIs
  <1>7. "assistant" \in Roles
    BY DEF Roles
  <1>8. Sayings("assistant", List(os)) = Sayings("assistant", List(content))
    <2>1. Sayings("assistant", List(os))
            = [k \in 1 .. Len(content) |-> Saying("assistant", os[k])]
      BY <1>2 DEF Sayings, List, MapSeq
    <2>2. Sayings("assistant", List(content))
            = [k \in 1 .. Len(content) |-> Saying("assistant", content[k])]
      BY <1>1 DEF Sayings, List, MapSeq
    <2> QED
      BY <1>5, <2>1, <2>2
  <1>9. ItemSayings(item) = Sayings("assistant", List(os))
    <2> HIDE DEF item
    <2> QED
      BY <1>3 DEF ItemSayings
  <1>10. ConversationOfItems(<<item>>) = ItemSayings(item)
    <2>1. ItemSayings(item) \in Seq(Utterance)
      BY <1>6, <1>7, <1>9, SayingsOfList
    <2>2. F \in [{item} -> Seq(Utterance)] /\ F[item] = ItemSayings(item)
      BY <2>1
    <2>3. Gathered(F, <<item>>) = F[item]
      <3>1. item \in {item}
        OBVIOUS
      <3> HIDE DEF F
      <3> QED
        BY <2>2, <3>1, GatheredOne
    <2>4. MapSeq(ItemSayings, <<item>>) = [k \in DOMAIN <<item>> |-> F[<<item>>[k]]]
      <3>1. \A k \in DOMAIN <<item>> : <<item>>[k] \in {item}
        OBVIOUS
      <3> QED
        BY <3>1 DEF MapSeq
    <2>5. ConversationOfItems(<<item>>) = Gathered(F, <<item>>)
      BY <2>4 DEF ConversationOfItems, Gathered
    <2> QED
      BY <2>2, <2>3, <2>5
  <1> QED
    BY <1>4, <1>8, <1>9, <1>10 DEF ItemTexts, MessageTexts
=============================================================================
