----------------------------- MODULE AssetProofs -----------------------------
(***************************************************************************)
(* What assets do besides materializations, for texts, values, files and   *)
(* times of any size.  Of a plain script splitStatements finds the         *)
(* statements, its scanner simulating Spark's lexer token by token, and    *)
(* what is submitted says what was written; values that seeds, checks and  *)
(* the sensor write into SQL arrive, but for the cases that ValuesArrive   *)
(* names.  A seed replaces its table, by what each batch adds to it, and a *)
(* sensor returns in time and notices a table that appears while it        *)
(* sleeps.                                                                 *)
(*                                                                         *)
(* What a function computes for every text is proved by the smallest       *)
(* counterexample: NatSets and SeqSets say that a set with the empty text  *)
(* and, with each text, the longer ones holds every text.                  *)
(***************************************************************************)
EXTENDS SQLText, SeedAndSensor, FiniteSetTheorems, WellFoundedInduction, TLAPS

-----------------------------------------------------------------------------
(* Induction over numbers and sequences *)

\* Induction: a set with 0 and every successor holds the naturals.
LEMMA NatSets ==
    ASSUME NEW S, 0 \in S, \A n \in Nat : n \in S => n + 1 \in S
    PROVE  Nat \subseteq S
<1> SUFFICES ASSUME Nat \ S # {} PROVE FALSE
  OBVIOUS
<1>1. PICK m \in Nat \ S : \A n \in Nat \ S : ~(<<n, m>> \in OpToRel(<, Nat))
  <2>1. \E x \in Nat \ S : \A y \in Nat \ S : ~(<<y, x>> \in OpToRel(<, Nat))
    <3> DEFINE R == OpToRel(<, Nat)
               T == Nat \ S
    <3>1. IsWellFoundedOn(R, Nat)
      BY NatLessThanWellFounded
    <3>2. T \subseteq Nat /\ T # {}
      OBVIOUS
    <3> HIDE DEF R, T
    <3>3. \E x \in T : \A y \in T : ~(<<y, x>> \in R)
      BY <3>1, <3>2, WFMin
    <3> QED
      BY <3>3 DEF R, T
  <2> QED
    BY <2>1
<1>2. m - 1 \in Nat /\ (m - 1) + 1 = m /\ m - 1 < m
  OBVIOUS
<1>3. <<m - 1, m>> \in OpToRel(<, Nat)
  BY <1>2 DEF OpToRel
<1> QED
  BY <1>1, <1>2, <1>3

\* Induction over sequences: what holds of the empty one, and goes on by one
\* element, holds of all.
LEMMA SeqSets ==
    ASSUME NEW T, NEW P, <<>> \in P,
           \A t \in Seq(T) : \A c \in T : t \in P => Append(t, c) \in P
    PROVE  Seq(T) \subseteq P
<1> DEFINE S == {n \in Nat : \A t \in Seq(T) : Len(t) = n => t \in P}
<1>1. 0 \in S
  <2>1. \A t \in Seq(T) : Len(t) = 0 => t = <<>>
    OBVIOUS
  <2> QED
    BY <2>1
<1>2. ASSUME NEW n \in Nat, n \in S PROVE n + 1 \in S
  <2> SUFFICES ASSUME NEW t \in Seq(T), Len(t) = n + 1 PROVE t \in P
    OBVIOUS
  <2> DEFINE f == SubSeq(t, 1, n)
  <2>1. f \in Seq(T) /\ Len(f) = n /\ t[n + 1] \in T /\ t = Append(f, t[n + 1])
    OBVIOUS
  <2>2. f \in P
    BY <1>2, <2>1
  <2> QED
    BY <2>1, <2>2
<1> HIDE DEF S
<1>3. Nat \subseteq S
  BY <1>1, <1>2, NatSets
<1> QED
  BY <1>3 DEF S

-----------------------------------------------------------------------------
(* Sequences, and the ends of a set of indices *)

\* Typing of sequences, stated once.
LEMMA AppendStays ==
    ASSUME NEW S, NEW q \in Seq(S), NEW x \in S
    PROVE  Append(q, x) \in Seq(S)
OBVIOUS

\* And of their elements.
LEMMA MembersAreTyped ==
    ASSUME NEW S, NEW q \in Seq(S)
    PROVE  \A i \in DOMAIN q : q[i] \in S
OBVIOUS

\* A sequence with an element is not empty.
LEMMA AppendIsSomething ==
    ASSUME NEW T, NEW t \in Seq(T), NEW c \in T
    PROVE  Append(t, c) # <<>>
<1> DEFINE u == Append(t, c)
<1>1. u[Len(t) + 1] = c /\ Len(u) = Len(t) + 1 /\ Len(t) \in Nat
  OBVIOUS
<1>2. Len(u) # 0
  BY <1>1
<1>3. Len(<<>>) = 0
  OBVIOUS
<1> HIDE DEF u
<1>4. u # <<>>
  BY <1>2, <1>3, Zenon
<1> QED
  BY <1>4 DEF u

\* Only the empty sequence has length 0.
LEMMA NoLength ==
    ASSUME NEW T, NEW t \in Seq(T), Len(t) = 0
    PROVE  t = <<>>
OBVIOUS

\* A sequence of length 1.
LEMMA OnlyOne ==
    ASSUME NEW T, NEW s \in Seq(T), Len(s) = 1
    PROVE  s[1] \in T /\ s = <<s[1]>>
<1>1. s[1] \in T
  OBVIOUS
<1>2. s = <<s[1]>>
  OBVIOUS
<1> QED
  BY <1>1, <1>2

\* A function on the elements, over a sequence with one more.
LEMMA MapGrows ==
    ASSUME NEW S, NEW T, NEW F \in [S -> T], NEW s \in Seq(S), NEW c \in S
    PROVE  /\ [i \in DOMAIN s |-> F[s[i]]] \in Seq(T)
           /\ [i \in DOMAIN Append(s, c) |-> F[Append(s, c)[i]]]
                 = Append([i \in DOMAIN s |-> F[s[i]]], F[c])
<1> DEFINE u == Append(s, c)
           k == [i \in DOMAIN s |-> F[s[i]]]
           ku == [i \in DOMAIN u |-> F[u[i]]]
<1>1. PICK n \in Nat : n = Len(s)
  OBVIOUS
<1>2. /\ DOMAIN s = 1..n /\ DOMAIN u = 1..(n + 1)
      /\ u[n + 1] = c /\ \A i \in 1..n : u[i] = s[i] /\ s[i] \in S
  BY <1>1
<1>3. \A i \in 1..(n + 1) : i = n + 1 \/ i \in 1..n
  OBVIOUS
<1>4. \A i \in 1..(n + 1) : u[i] \in S
  BY <1>2, <1>3
<1>5. k \in [1..n -> T] /\ \A i \in 1..n : k[i] = F[s[i]]
  BY <1>2
<1>6. ku \in [1..(n + 1) -> T] /\ \A i \in 1..(n + 1) : ku[i] = F[u[i]]
  BY <1>2, <1>4
<1> HIDE DEF u, k, ku
<1>7. k \in Seq(T) /\ Len(k) = n /\ ku \in Seq(T) /\ Len(ku) = n + 1
  BY <1>5, <1>6
<1>8. PICK a : a = Append(k, F[c])
  OBVIOUS
<1>9. a \in Seq(T) /\ Len(a) = n + 1 /\ a[n + 1] = F[c] /\ \A i \in 1..n : a[i] = k[i]
  BY <1>7, <1>8
<1>10. \A i \in 1..n : i \in 1..(n + 1)
  OBVIOUS
<1>11. \A i \in 1..(n + 1) : a[i] = ku[i]
  BY <1>2, <1>3, <1>5, <1>6, <1>9, <1>10
<1>12. a = ku
  BY <1>7, <1>9, <1>11
<1> QED
  BY <1>7, <1>8, <1>12 DEF u, k, ku

\* The tokens that have a name here.
LEMMA TextNames ==
    /\ Quotes \subseteq Tokens
    /\ {"backslash", ";", "--", "newline", "/*", "*/", "wildcard", "x", "single"} \subseteq Tokens
BY DEF Tokens, Quotes

\* Texts of one token and of two.
LEMMA OneToken ==
    ASSUME NEW c \in Tokens, NEW d \in Tokens
    PROVE  <<c>> \in Seq(Tokens) /\ <<d, c>> \in Seq(Tokens)
OBVIOUS

\* Concatenation is associative.
LEMMA Associates ==
    ASSUME NEW a \in Seq(Tokens), NEW b \in Seq(Tokens), NEW c \in Seq(Tokens)
    PROVE  a \o (b \o c) = (a \o b) \o c
OBVIOUS

\* How concatenation and Append go together.
LEMMA Concatenations ==
    ASSUME NEW a \in Seq(Tokens), NEW b \in Seq(Tokens), NEW c \in Tokens, NEW d \in Tokens
    PROVE  /\ a \o <<>> = a
           /\ <<>> \o a = a
           /\ a \o b \in Seq(Tokens)
           /\ a \o <<c>> = Append(a, c)
           /\ a \o <<d, c>> = Append(Append(a, d), c)
           /\ a \o Append(b, c) = Append(a \o b, c)
<1>1. a \o <<>> = a /\ <<>> \o a = a /\ a \o b \in Seq(Tokens)
  OBVIOUS
<1>2. a \o <<c>> = Append(a, c)
  OBVIOUS
<1>3. a \o <<d, c>> = Append(Append(a, d), c)
  OBVIOUS
<1>4. a \o Append(b, c) = Append(a \o b, c)
  OBVIOUS
<1> QED
  BY <1>1, <1>2, <1>3, <1>4

\* A text is its front and its last token.
LEMMA LastOfText ==
    ASSUME NEW t \in Seq(Tokens), t # <<>>
    PROVE  /\ Front(t) \in Seq(Tokens) /\ Last(t) \in Tokens
           /\ t = Append(Front(t), Last(t))
           /\ \A i \in DOMAIN Front(t) : i \in DOMAIN t /\ Front(t)[i] = t[i]
<1>1. PICK n \in Nat : n = Len(t)
  OBVIOUS
<1>2. n # 0
  BY <1>1
<1>3. PICK k \in Nat : n = k + 1
  <2>1. n - 1 \in Nat /\ n = (n - 1) + 1
    BY <1>2
  <2> QED
    BY <2>1
<1>4. Len(t) = k + 1 /\ Len(t) - 1 = k
  BY <1>1, <1>3
<1>5. /\ SubSeq(t, 1, k) \in Seq(Tokens) /\ t[k + 1] \in Tokens
      /\ t = Append(SubSeq(t, 1, k), t[k + 1])
      /\ \A i \in DOMAIN SubSeq(t, 1, k) : i \in DOMAIN t /\ SubSeq(t, 1, k)[i] = t[i]
  BY <1>4
<1> QED
  BY <1>4, <1>5 DEF Front, Last

\* Texts that grow to the same text.
LEMMA SameEnds ==
    ASSUME NEW t \in Seq(Tokens), NEW u \in Seq(Tokens), NEW c \in Tokens, NEW d \in Tokens,
           Append(t, c) = Append(u, d)
    PROVE  t = u /\ c = d
<1>1. Len(Append(t, c)) = Len(t) + 1 /\ Len(Append(u, d)) = Len(u) + 1
  OBVIOUS
<1>2. Len(t) = Len(u)
  BY <1>1
<1>3. Append(t, c)[Len(t) + 1] = c /\ Append(u, d)[Len(u) + 1] = d
  OBVIOUS
<1>4. /\ \A i \in 1..Len(t) : Append(t, c)[i] = t[i]
      /\ \A i \in 1..Len(u) : Append(u, d)[i] = u[i]
  OBVIOUS
<1>5. \A i \in 1..Len(t) : t[i] = u[i]
  BY <1>2, <1>4
<1> QED
  BY <1>2, <1>3, <1>5

\* A text as a subsequence of itself.
LEMMA WholeText ==
    ASSUME NEW q \in Seq(Tokens), NEW k \in Nat, Len(q) = k + 1
    PROVE  /\ DOMAIN q = 1..(k + 1) /\ 1 \in 1..(k + 1) /\ k + 1 \in 1..(k + 1)
           /\ SubSeq(q, 1, k + 1) = q
           /\ Last(q) = q[k + 1]
<1>1. DOMAIN q = 1..(k + 1) /\ 1 \in 1..(k + 1) /\ k + 1 \in 1..(k + 1)
  OBVIOUS
<1>2. SubSeq(q, 1, k + 1) = q
  OBVIOUS
<1>3. Last(q) = q[k + 1]
  BY DEF Last
<1> QED
  BY <1>1, <1>2, <1>3

\* The last index of a set of indices.
LEMMA MaxOfInterval ==
    ASSUME NEW n \in Nat
    PROVE  \A s \in SUBSET (1..(n + 1)) : n + 1 \in s => Max(s) = n + 1
<1> SUFFICES ASSUME NEW s \in SUBSET (1..(n + 1)), n + 1 \in s PROVE Max(s) = n + 1
  OBVIOUS
<1> DEFINE m == Max(s)
<1>1. \E x \in s : \A y \in s : x >= y
  OBVIOUS
<1>2. m \in s /\ \A y \in s : m >= y
  BY <1>1 DEF Max
<1> HIDE DEF m
<1>3. m = n + 1
  BY <1>2
<1> QED
  BY <1>3 DEF m

\* A set of indices that is not empty has a last one.
LEMMA MaxIsThere ==
    ASSUME NEW n \in Nat
    PROVE  \A s \in SUBSET (1..n) : s # {} => Max(s) \in s
<1> DEFINE Top(s) == \E x \in s : \A y \in s : x >= y
           S == {k \in Nat : \A s \in SUBSET (1..k) : s # {} => Top(s)}
<1> HIDE DEF Top
<1>1. 0 \in S
  <2>1. 1..0 = {}
    OBVIOUS
  <2> QED
    BY <2>1
<1>2. ASSUME NEW k \in Nat, k \in S PROVE k + 1 \in S
  <2> SUFFICES ASSUME NEW s \in SUBSET (1..(k + 1)), s # {} PROVE Top(s)
    OBVIOUS
  <2>1. CASE k + 1 \in s
    BY <2>1 DEF Top
  <2>2. CASE k + 1 \notin s
    <3>1. s \in SUBSET (1..k)
      BY <2>2
    <3> QED
      BY <1>2, <3>1
  <2> QED
    BY <2>1, <2>2
<1> HIDE DEF S
<1>3. n \in S
  BY <1>1, <1>2, NatSets
<1>4. ASSUME NEW s \in SUBSET (1..n), s # {} PROVE Max(s) \in s
  <2>1. \E x \in s : \A y \in s : x >= y
    BY <1>3, <1>4 DEF S, Top
  <2> QED
    BY <2>1 DEF Max
<1> QED
  BY <1>4

\* And a first one.
LEMMA MinIsThere ==
    ASSUME NEW n \in Nat
    PROVE  \A s \in SUBSET (1..n) : s # {} => Min(s) \in s /\ \A y \in s : Min(s) =< y
<1> DEFINE Least(s) == \E x \in s : \A y \in s : x =< y
           S == {k \in Nat : \A s \in SUBSET (1..k) : s # {} => Least(s)}
<1> HIDE DEF Least
<1>1. 0 \in S
  <2>1. 1..0 = {}
    OBVIOUS
  <2> QED
    BY <2>1
<1>2. ASSUME NEW k \in Nat, k \in S PROVE k + 1 \in S
  <2> SUFFICES ASSUME NEW s \in SUBSET (1..(k + 1)), s # {} PROVE Least(s)
    OBVIOUS
  <2> DEFINE r == s \ {k + 1}
  <2>1. r \in SUBSET (1..k)
    OBVIOUS
  <2>2. CASE r = {}
    <3>1. k + 1 \in s /\ \A y \in s : y = k + 1
      BY <2>2
    <3>2. k + 1 =< k + 1
      OBVIOUS
    <3>3. \A y \in s : k + 1 =< y
      BY <3>1, <3>2
    <3> HIDE DEF r
    <3> QED
      BY <3>1, <3>3 DEF Least
  <2>3. CASE r # {}
    <3>1. Least(r)
      BY <1>2, <2>1, <2>3
    <3>2. PICK x \in r : \A y \in r : x =< y
      BY <3>1 DEF Least
    <3>3. x =< k + 1
      BY <2>1
    <3>4. \A y \in s : x =< y
      BY <3>2, <3>3
    <3> QED
      BY <3>2, <3>4 DEF Least
  <2> QED
    BY <2>2, <2>3
<1> HIDE DEF S
<1>3. n \in S
  BY <1>1, <1>2, NatSets
<1>4. ASSUME NEW s \in SUBSET (1..n), s # {}
      PROVE  Min(s) \in s /\ \A y \in s : Min(s) =< y
  <2>1. \E x \in s : \A y \in s : x =< y
    BY <1>3, <1>4 DEF S, Least
  <2> QED
    BY <2>1 DEF Min
<1> QED
  BY <1>4

\* A later index does not change the first.
LEMMA MinStays ==
    ASSUME NEW n \in Nat, NEW s \in SUBSET (1..n)
    PROVE  /\ s # {} => Min(s \cup {n + 1}) = Min(s) /\ Min(s) \in 1..n
           /\ Min({n + 1}) = n + 1
<1>1. ASSUME s # {} PROVE Min(s \cup {n + 1}) = Min(s) /\ Min(s) \in 1..n
  <2> DEFINE u == s \cup {n + 1}
  <2>1. u \in SUBSET (1..(n + 1)) /\ u # {}
    OBVIOUS
  <2>2. Min(s) \in s /\ \A y \in s : Min(s) =< y
    BY <1>1, MinIsThere
  <2>3. Min(u) \in u /\ \A y \in u : Min(u) =< y
    BY <2>1, MinIsThere, n + 1 \in Nat
  <2> HIDE DEF u
  <2>4. PICK a \in 1..n : a = Min(s)
    BY <2>2
  <2>5. PICK b \in 1..(n + 1) : b = Min(u)
    BY <2>1, <2>3
  <2>6. b =< a /\ b # n + 1
    BY <2>2, <2>3, <2>4, <2>5 DEF u
  <2>7. a =< b
    BY <2>2, <2>3, <2>4, <2>5, <2>6 DEF u
  <2>8. a = b
    BY <2>6, <2>7
  <2> QED
    BY <2>4, <2>5, <2>8 DEF u
<1>2. Min({n + 1}) = n + 1
  <2>1. {n + 1} \in SUBSET (1..(n + 1)) /\ {n + 1} # {}
    OBVIOUS
  <2> QED
    BY <2>1, MinIsThere, n + 1 \in Nat
<1> QED
  BY <1>1, <1>2

\* A set of indices that holds both ends.
LEMMA EndsAreMinAndMax ==
    ASSUME NEW k \in Nat, NEW S \in SUBSET (1..(k + 1)), 1 \in S, k + 1 \in S
    PROVE  Min(S) = 1 /\ Max(S) = k + 1
<1>1. k + 1 \in Nat
  OBVIOUS
<1>2. PICK m \in 1..(k + 1) : m = Min(S) /\ m =< 1
  BY <1>1, MinIsThere
<1>3. m = 1
  BY <1>2
<1> QED
  BY <1>2, <1>3, MaxOfInterval

-----------------------------------------------------------------------------
(* Folds *)

\* What FoldLeft iterates: a function on sets of indices, the last index first; and
\* what it computes along the prefixes of the text.
IsFold(h, St, text, F, b) ==
    /\ h \in [SUBSET (1..Len(text)) -> St]
    /\ h = [s \in SUBSET (1..Len(text)) |->
               IF s = {} THEN b ELSE F[h[s \ {Max(s)}], text[Max(s)]]]

GoesOn(h, n, text, F, b) ==
    /\ h[{}] = b
    /\ \A k \in Nat : k + 1 <= n => h[1..(k + 1)] = F[h[1..k], text[k + 1]]

\* Such a function exists.
LEMMA FoldsExist ==
    ASSUME NEW T, NEW St, NEW F \in [St \X T -> St], NEW b \in St, NEW text \in Seq(T)
    PROVE  \E h : IsFold(h, St, text, F, b)
<1> DEFINE Good(n, iter) ==
              /\ iter \in [SUBSET (1..n) -> St]
              /\ \A s \in SUBSET (1..n) :
                    iter[s] = IF s = {} THEN b ELSE F[iter[s \ {Max(s)}], text[Max(s)]]
           Some(n) == \E iter : Good(n, iter)
           S == {n \in Nat : n <= Len(text) => Some(n)}
<1>1. 0 \in S
  <2> DEFINE i0 == [s \in SUBSET (1..0) |-> b]
  <2>1. 1..0 = {}
    OBVIOUS
  <2>2. Good(0, i0)
    BY <2>1
  <2>3. Some(0)
    BY <2>2
  <2> QED
    BY <2>3
<1>2. ASSUME NEW n \in Nat, n \in S PROVE n + 1 \in S
  <2> HIDE DEF Some
  <2> SUFFICES ASSUME n + 1 <= Len(text) PROVE Some(n + 1)
    OBVIOUS
  <2>0. Some(n)
    BY <1>2
  <2>1. PICK iter : Good(n, iter)
    BY <2>0 DEF Some
  <2> DEFINE D == SUBSET (1..(n + 1))
             next == [s \in D |-> IF n + 1 \in s THEN F[iter[s \ {n + 1}], text[n + 1]] ELSE iter[s]]
  <2>2. \A s \in D : s \ {n + 1} \in SUBSET (1..n) /\ (n + 1 \notin s => s \in SUBSET (1..n))
    OBVIOUS
  <2>3. text[n + 1] \in T
    OBVIOUS
  <2>4. next \in [D -> St]
    BY <2>1, <2>2, <2>3
  <2>5. ASSUME NEW s \in D
        PROVE  next[s] = IF s = {} THEN b ELSE F[next[s \ {Max(s)}], text[Max(s)]]
    <3>1. CASE n + 1 \in s
      <4>1. Max(s) = n + 1
        BY <3>1, MaxOfInterval
      <4>2. s \ {n + 1} \in D /\ n + 1 \notin s \ {n + 1}
        OBVIOUS
      <4>3. next[s \ {n + 1}] = iter[s \ {n + 1}]
        BY <4>2
      <4> QED
        BY <3>1, <4>1, <4>3
    <3>2. CASE n + 1 \notin s
      <4>1. s \in SUBSET (1..n) /\ next[s] = iter[s]
        BY <2>2, <3>2
      <4>2. s \ {Max(s)} \in D /\ n + 1 \notin s \ {Max(s)}
        BY <3>2
      <4>3. next[s \ {Max(s)}] = iter[s \ {Max(s)}]
        BY <4>2
      <4> QED
        BY <2>1, <4>1, <4>3
    <3> QED
      BY <3>1, <3>2
  <2> HIDE DEF next
  <2>6. Good(n + 1, next)
    BY <2>4, <2>5
  <2> QED
    BY <2>6 DEF Some
<1> HIDE DEF S, Some
<1>3. Len(text) \in S
  BY <1>1, <1>2, NatSets
<1>3a. Some(Len(text))
  BY <1>3 DEF S
<1>4. PICK iter : Good(Len(text), iter)
  BY <1>3a DEF Some
<1>5. iter = [s \in SUBSET (1..Len(text)) |->
                 IF s = {} THEN b ELSE F[iter[s \ {Max(s)}], text[Max(s)]]]
  BY <1>4
<1> HIDE DEF Good
<1> QED
  BY <1>4, <1>5 DEF Good, IsFold

\* The last index of a prefix.
LEMMA PrefixIntervals ==
    ASSUME NEW k \in Nat
    PROVE  /\ Max(1..(k + 1)) = k + 1
           /\ (1..(k + 1)) \ {k + 1} = 1..k
           /\ 1..(k + 1) # {} /\ 1..0 = {}
<1>1. Max(1..(k + 1)) = k + 1
  BY MaxOfInterval
<1> QED
  BY <1>1

\* Two folds that go on alike are the same.
LEMMA FoldsAreUnique ==
    ASSUME NEW n \in Nat, NEW g, NEW h, g[{}] = h[{}],
           \A k \in Nat : k + 1 <= n /\ g[1..k] = h[1..k] => g[1..(k + 1)] = h[1..(k + 1)]
    PROVE  g[1..n] = h[1..n]
<1> DEFINE S == {k \in Nat : k <= n => g[1..k] = h[1..k]}
<1>1. 0 \in S
  <2>1. 1..0 = {}
    OBVIOUS
  <2> QED
    BY <2>1
<1>2. ASSUME NEW k \in Nat, k \in S PROVE k + 1 \in S
  BY <1>2
<1> HIDE DEF S
<1>3. n \in S
  BY <1>1, <1>2, NatSets
<1> QED
  BY <1>3 DEF S

\* A fold goes on from one prefix to the next.
LEMMA FoldsGoOn ==
    ASSUME NEW St, NEW F, NEW b, NEW T, NEW text \in Seq(T), NEW h, IsFold(h, St, text, F, b)
    PROVE  GoesOn(h, Len(text), text, F, b)
<1>0. PICK n \in Nat : n = Len(text)
  OBVIOUS
<1>1. \A s \in SUBSET (1..n) :
         h[s] = IF s = {} THEN b ELSE F[h[s \ {Max(s)}], text[Max(s)]]
  BY <1>0 DEF IsFold
<1>2. h[{}] = b
  BY <1>1
<1>3. ASSUME NEW k \in Nat, k + 1 <= n PROVE h[1..(k + 1)] = F[h[1..k], text[k + 1]]
  <2>1. PICK s : s = 1..(k + 1)
    OBVIOUS
  <2>2. s \in SUBSET (1..n)
    BY <1>3, <2>1
  <2>3. Max(s) = k + 1 /\ s \ {k + 1} = 1..k /\ s # {}
    BY <2>1, PrefixIntervals
  <2>4. h[s] = F[h[1..k], text[k + 1]]
    BY <1>1, <2>2, <2>3
  <2> QED
    BY <2>1, <2>4
<1> QED
  BY <1>0, <1>2, <1>3 DEF GoesOn

\* What a fold makes of an empty text, and of a text with one more token.
Stepwise(fold, T, St, F, b) ==
    /\ fold \in [Seq(T) -> St]
    /\ fold[<<>>] = b
    /\ \A t \in Seq(T), c \in T : fold[Append(t, c)] = F[fold[t], c]
    /\ \A t \in Seq(T) : \E h : IsFold(h, St, t, F, b) /\ h[1..Len(t)] = fold[t]

\* There is one function that folds every text.
LEMMA FoldsStepwise ==
    ASSUME NEW T, NEW St, NEW F \in [St \X T -> St], NEW b \in St
    PROVE  \E fold : Stepwise(fold, T, St, F, b)
<1> DEFINE it(t) == CHOOSE h : IsFold(h, St, t, F, b)
           fold == [t \in Seq(T) |-> it(t)[1..Len(t)]]
<1>1. ASSUME NEW t \in Seq(T) PROVE IsFold(it(t), St, t, F, b)
  <2>1. \E h : IsFold(h, St, t, F, b)
    BY FoldsExist
  <2> QED
    BY <2>1
<1> HIDE DEF it
<1>2. fold \in [Seq(T) -> St]
  <2>1. ASSUME NEW t \in Seq(T) PROVE it(t)[1..Len(t)] \in St
    <3>1. it(t) \in [SUBSET (1..Len(t)) -> St] /\ 1..Len(t) \in SUBSET (1..Len(t))
      BY <1>1 DEF IsFold
    <3> QED
      BY <3>1
  <2> QED
    BY <2>1
<1>3. ASSUME NEW t \in Seq(T) PROVE GoesOn(it(t), Len(t), t, F, b)
  BY <1>1, FoldsGoOn
<1>4. fold[<<>>] = b
  <2>1. <<>> \in Seq(T) /\ 1..Len(<<>>) = {}
    OBVIOUS
  <2>2. it(<<>>)[{}] = b
    BY <1>3, <2>1 DEF GoesOn
  <2> QED
    BY <2>1, <2>2
<1>5. ASSUME NEW t \in Seq(T), NEW c \in T PROVE fold[Append(t, c)] = F[fold[t], c]
  <2>0. Append(t, c) \in Seq(T)
    OBVIOUS
  <2>1. PICK u \in Seq(T) : u = Append(t, c)
    BY <2>0
  <2>2. PICK n \in Nat : n = Len(t)
    OBVIOUS
  <2>3. PICK g : g = it(t)
    OBVIOUS
  <2>4. PICK h : h = it(u)
    OBVIOUS
  <2>5. Len(u) = n + 1 /\ u[n + 1] = c /\ \A k \in Nat : k + 1 <= n => u[k + 1] = t[k + 1]
    BY <2>1, <2>2
  <2>6. g[{}] = b /\ \A k \in Nat : k + 1 <= n => g[1..(k + 1)] = F[g[1..k], t[k + 1]]
    BY <1>3, <2>2, <2>3 DEF GoesOn
  <2>7. h[{}] = b /\ \A k \in Nat : k + 1 <= n + 1 => h[1..(k + 1)] = F[h[1..k], u[k + 1]]
    BY <1>3, <2>4, <2>5 DEF GoesOn
  <2>8. ASSUME NEW k \in Nat, k + 1 <= n, g[1..k] = h[1..k]
        PROVE  g[1..(k + 1)] = h[1..(k + 1)]
    <3>1. k + 1 <= n + 1
      BY <2>8
    <3> QED
      BY <2>5, <2>6, <2>7, <2>8, <3>1
  <2>9. g[1..n] = h[1..n]
    BY <2>6, <2>7, <2>8, FoldsAreUnique
  <2>10. h[1..(n + 1)] = F[h[1..n], c]
    <3>1. n + 1 <= n + 1
      OBVIOUS
    <3> QED
      BY <2>5, <2>7, <3>1
  <2>11. fold[u] = h[1..(n + 1)] /\ fold[t] = g[1..n]
    BY <2>2, <2>3, <2>4, <2>5
  <2> QED
    BY <2>1, <2>9, <2>10, <2>11
<1>6. ASSUME NEW t \in Seq(T)
      PROVE  \E h : IsFold(h, St, t, F, b) /\ h[1..Len(t)] = fold[t]
  BY <1>1
<1> HIDE DEF fold
<1> QED
  BY <1>2, <1>4, <1>5, <1>6 DEF Stepwise
\* FoldLeft takes an operator.  A function g that it may have chosen goes on like the
\* operator as long as it stays in St.
Follows(g, St, text, F, b) ==
    /\ g[{}] = b
    /\ \A s \in SUBSET DOMAIN text : s # {} /\ g[s \ {Max(s)}] \in St
                                     => g[s] = F[g[s \ {Max(s)}], text[Max(s)]]

\* FoldLeft computes that function.
LEMMA ChosenFold ==
    ASSUME NEW T, NEW St, NEW F, NEW b, NEW text \in Seq(T), NEW fold,
           Stepwise(fold, T, St, F, b), NEW g, Follows(g, St, text, F, b)
    PROVE  g[DOMAIN text] = fold[text]
<1>0. /\ g[{}] = b
      /\ \A s \in SUBSET DOMAIN text : s # {} /\ g[s \ {Max(s)}] \in St
                                       => g[s] = F[g[s \ {Max(s)}], text[Max(s)]]
  BY DEF Follows
<1>1. PICK n \in Nat : n = Len(text)
  OBVIOUS
<1>2. DOMAIN text = 1..n
  BY <1>1
<1>3. PICK h : IsFold(h, St, text, F, b) /\ h[1..n] = fold[text]
  BY <1>1 DEF Stepwise
<1>4. h \in [SUBSET (1..n) -> St]
  BY <1>1, <1>3 DEF IsFold
<1>5. h[{}] = b /\ \A k \in Nat : k + 1 <= n => h[1..(k + 1)] = F[h[1..k], text[k + 1]]
  <2>1. GoesOn(h, n, text, F, b)
    BY <1>1, <1>3, FoldsGoOn
  <2> QED
    BY <2>1 DEF GoesOn
<1>6. ASSUME NEW k \in Nat, k + 1 <= n, g[1..k] = h[1..k]
      PROVE  g[1..(k + 1)] = h[1..(k + 1)]
  <2>1. PICK s : s = 1..(k + 1)
    OBVIOUS
  <2>2. s \in SUBSET (1..n) /\ 1..k \in SUBSET (1..n)
    BY <1>6, <2>1
  <2>3. Max(s) = k + 1 /\ s \ {k + 1} = 1..k /\ s # {}
    BY <2>1, PrefixIntervals
  <2>4. g[s \ {Max(s)}] \in St
    BY <1>4, <1>6, <2>2, <2>3
  <2>5. g[s] = F[g[1..k], text[k + 1]]
    BY <1>0, <1>2, <2>2, <2>3, <2>4
  <2> QED
    BY <1>5, <1>6, <2>1, <2>5
<1>7. g[1..n] = h[1..n]
  BY <1>0, <1>5, <1>6, FoldsAreUnique
<1> QED
  BY <1>2, <1>3, <1>7

\* What an IsFold satisfies, for the operator's equation.
LEMMA FoldIsTyped ==
    ASSUME NEW T, NEW St, NEW F, NEW b, NEW text \in Seq(T), NEW h, IsFold(h, St, text, F, b)
    PROVE  /\ h = [s \in SUBSET DOMAIN text |-> h[s]]
           /\ \A s \in SUBSET DOMAIN text :
                 /\ h[s] = IF s = {} THEN b ELSE F[h[s \ {Max(s)}], text[Max(s)]]
                 /\ s # {} => h[s \ {Max(s)}] \in St /\ text[Max(s)] \in T
<1>1. PICK n \in Nat : n = Len(text)
  OBVIOUS
<1>2. DOMAIN text = 1..n
  BY <1>1
<1>3. h \in [SUBSET (1..n) -> St] /\ h = [s \in SUBSET (1..n) |->
               IF s = {} THEN b ELSE F[h[s \ {Max(s)}], text[Max(s)]]]
  BY <1>1 DEF IsFold
<1>4. h = [s \in SUBSET (1..n) |-> h[s]]
  BY <1>3
<1>5. ASSUME NEW s \in SUBSET (1..n)
      PROVE  h[s] = IF s = {} THEN b ELSE F[h[s \ {Max(s)}], text[Max(s)]]
  BY <1>3
<1>6. ASSUME NEW s \in SUBSET (1..n), s # {}
      PROVE  h[s \ {Max(s)}] \in St /\ text[Max(s)] \in T
  <2>1. Max(s) \in 1..n
    BY <1>6, MaxIsThere
  <2>2. text[Max(s)] \in T
    BY <1>1, <2>1
  <2>3. PICK r \in SUBSET (1..n) : r = s \ {Max(s)}
    OBVIOUS
  <2>4. h[r] \in St
    BY <1>3
  <2> QED
    BY <2>2, <2>3, <2>4
<1> QED
  BY <1>2, <1>4, <1>5, <1>6

-----------------------------------------------------------------------------
(* Texts, token by token *)

LexStates ==
    [mode : Quotes \cup {"", "--", "/*"}, escaped : BOOLEAN, current : Seq(Tokens),
     statements : Seq(Seq(Tokens)), plain : BOOLEAN, kept : Seq(Tokens),
     value : Seq(Tokens), values : Seq(Seq(Tokens))]

\* Lex keeps the lexer's type.
LEMMA LexStaysTyped ==
    ASSUME NEW s \in LexStates, NEW c \in Tokens
    PROVE  Lex(s, c) \in LexStates
<1>1. /\ s.current \in Seq(Tokens) /\ s.statements \in Seq(Seq(Tokens))
      /\ s.kept \in Seq(Tokens) /\ s.value \in Seq(Tokens) /\ s.values \in Seq(Seq(Tokens))
  BY DEF LexStates
<1>2. /\ Append(s.current, c) \in Seq(Tokens) /\ Append(s.kept, c) \in Seq(Tokens)
      /\ Append(s.value, c) \in Seq(Tokens) /\ <<>> \in Seq(Tokens)
      /\ Append(Append(s.value, "backslash"), c) \in Seq(Tokens)
  <2>1. PICK b \in Tokens : b = "backslash"
    BY TextNames
  <2>2. PICK v \in Seq(Tokens) : v = s.value
    BY <1>1
  <2>3. Append(v, b) \in Seq(Tokens) /\ Append(Append(v, b), c) \in Seq(Tokens)
    BY AppendStays
  <2> QED
    BY <1>1, <2>1, <2>2, <2>3
<1>3. /\ Append(s.statements, s.current) \in Seq(Seq(Tokens))
      /\ Append(s.values, s.value) \in Seq(Seq(Tokens))
  BY <1>1
<1>4. (s.plain /\ ~Misread(s.mode, c)) \in BOOLEAN
  OBVIOUS
<1> DEFINE escapes == s.mode \in {"single", "double", "--"} /\ c = "backslash" /\ ~s.escaped
           mode == IF s.escaped \/ escapes THEN s.mode ELSE SparkMode(s.mode, c)
<1>5. mode \in Quotes \cup {"", "--", "/*"} /\ escapes \in BOOLEAN
  BY DEF LexStates, SparkMode, Quotes
<1> HIDE DEF mode, escapes
<1> QED
  BY <1>1, <1>2, <1>3, <1>4, <1>5 DEF Lex, LexStates, mode, escapes

\* It has that type at the beginning.
LEMMA NothingReadTyped == NothingRead \in LexStates
<1>1. <<>> \in Seq(Tokens) /\ <<>> \in Seq(Seq(Tokens))
  OBVIOUS
<1> QED
  BY <1>1 DEF NothingRead, LexStates

\* What Spark's lexer makes of a longer text.
LEMMA SparkReadsStepwise ==
    /\ SparkReads(<<>>) = NothingRead
    /\ \A t \in Seq(Tokens) : SparkReads(t) \in LexStates
    /\ \A t \in Seq(Tokens), c \in Tokens : SparkReads(Append(t, c)) = Lex(SparkReads(t), c)
<1> DEFINE F == [p \in LexStates \X Tokens |-> Lex(p[1], p[2])]
<1>1. F \in [LexStates \X Tokens -> LexStates]
  BY LexStaysTyped
<1>2. \A s \in LexStates, c \in Tokens : F[s, c] = Lex(s, c)
  OBVIOUS
<1> HIDE DEF F
<1>3. PICK fold : Stepwise(fold, Tokens, LexStates, F, NothingRead)
  BY <1>1, NothingReadTyped, FoldsStepwise
<1>4. ASSUME NEW t \in Seq(Tokens) PROVE SparkReads(t) = fold[t]
  <2> DEFINE Eq(g) == g = [s \in SUBSET DOMAIN t |->
                              IF s = {} THEN NothingRead ELSE Lex(g[s \ {Max(s)}], t[Max(s)])]
  <2>1. SparkReads(t) = (CHOOSE g : Eq(g))[DOMAIN t]
    BY DEF SparkReads, FoldLeft, MapThenFoldSet
  <2>2. PICK h : IsFold(h, LexStates, t, F, NothingRead)
    BY <1>3 DEF Stepwise
  <2>3. /\ h = [s \in SUBSET DOMAIN t |-> h[s]]
        /\ \A s \in SUBSET DOMAIN t :
              /\ h[s] = IF s = {} THEN NothingRead ELSE F[h[s \ {Max(s)}], t[Max(s)]]
              /\ s # {} => h[s \ {Max(s)}] \in LexStates /\ t[Max(s)] \in Tokens
    BY <2>2, FoldIsTyped
  <2>4. \A s \in SUBSET DOMAIN t :
           h[s] = IF s = {} THEN NothingRead ELSE Lex(h[s \ {Max(s)}], t[Max(s)])
    BY <1>2, <2>3
  <2>5. Eq(h)
    BY <2>3, <2>4
  <2>6. PICK g : Eq(g) /\ SparkReads(t) = g[DOMAIN t]
    BY <2>1, <2>5
  <2>7. \A s \in SUBSET DOMAIN t :
           g[s] = IF s = {} THEN NothingRead ELSE Lex(g[s \ {Max(s)}], t[Max(s)])
    BY <2>6
  <2> HIDE DEF Eq
  <2>8. Follows(g, LexStates, t, F, NothingRead)
    BY <1>2, <2>3, <2>7 DEF Follows
  <2>9. g[DOMAIN t] = fold[t]
    BY <1>3, <2>8, ChosenFold
  <2> QED
    BY <2>6, <2>9
<1>5. /\ fold[<<>>] = NothingRead
      /\ \A t \in Seq(Tokens) : fold[t] \in LexStates
      /\ \A t \in Seq(Tokens), c \in Tokens : fold[Append(t, c)] = F[fold[t], c]
  BY <1>3 DEF Stepwise
<1>6. <<>> \in Seq(Tokens)
  OBVIOUS
<1>7. ASSUME NEW t \in Seq(Tokens), NEW c \in Tokens
      PROVE  SparkReads(Append(t, c)) = Lex(SparkReads(t), c)
  <2>1. Append(t, c) \in Seq(Tokens)
    OBVIOUS
  <2>2. SparkReads(Append(t, c)) = fold[Append(t, c)] /\ SparkReads(t) = fold[t]
    BY <1>4, <2>1
  <2> QED
    BY <1>2, <1>5, <2>2
<1> QED
  BY <1>4, <1>5, <1>6, <1>7

DropStates == [text : Seq(Tokens), comment : Seq(Tokens)]
ScanStates == [mode : Quotes \cup {"", "--"}, current : Seq(Tokens), statements : Seq(Seq(Tokens))]
Texts == Seq(Tokens)
TextLists == Seq(Texts)
Dropped(text) == FoldLeft(Drop, NothingDropped, text)
Scanned(text) == FoldLeft(Scan, NoStatement, text)

\* Drop keeps the sanitizer's type.
LEMMA DropStaysTyped ==
    ASSUME NEW s \in DropStates, NEW c \in Tokens
    PROVE  Drop(s, c) \in DropStates
<1>1. s.text \in Seq(Tokens) /\ s.comment \in Seq(Tokens)
  BY DEF DropStates
<1>2. "newline" \in Tokens
  BY DEF Tokens
<1>3. /\ Append(s.text, c) \in Seq(Tokens) /\ Append(s.text, "newline") \in Seq(Tokens)
      /\ Append(s.comment, c) \in Seq(Tokens) /\ <<>> \in Seq(Tokens) /\ <<c>> \in Seq(Tokens)
  BY <1>1, <1>2
<1> QED
  BY <1>1, <1>3 DEF Drop, DropStates

\* It has that type at the beginning.
LEMMA NothingDroppedTyped == NothingDropped \in DropStates
<1>1. <<>> \in Seq(Tokens)
  OBVIOUS
<1> QED
  BY <1>1 DEF NothingDropped, DropStates

\* Scan keeps the scanner's type.
LEMMA ScanStaysTyped ==
    ASSUME NEW s \in ScanStates, NEW c \in Tokens
    PROVE  Scan(s, c) \in ScanStates
<1>1. s.current \in Seq(Tokens) /\ s.statements \in Seq(Seq(Tokens))
  BY DEF ScanStates
<1>2. Append(s.current, c) \in Seq(Tokens) /\ <<>> \in Seq(Tokens)
  BY <1>1
<1>3. Append(s.statements, s.current) \in Seq(Seq(Tokens))
  BY <1>1
<1>4. GoMode(s.mode, c) \in Quotes \cup {"", "--"}
  BY DEF GoMode, ScanStates, Quotes, Tokens
<1> QED
  BY <1>1, <1>2, <1>3, <1>4 DEF Scan, ScanStates

\* It has that type at the beginning.
LEMMA NoStatementTyped == NoStatement \in ScanStates
<1>1. <<>> \in Seq(Tokens) /\ <<>> \in Seq(Seq(Tokens))
  OBVIOUS
<1> QED
  BY <1>1 DEF NoStatement, ScanStates

\* Keep makes lists of texts.
LEMMA KeepStaysTyped ==
    ASSUME NEW s \in TextLists, NEW t \in Texts
    PROVE  Keep(s, t) \in TextLists
BY DEF Keep, TextLists

\* The empty list is one.
LEMMA NoTextsTyped == <<>> \in TextLists
BY DEF TextLists

\* What the sanitizer makes of a longer text.
LEMMA DroppedStepwise ==
    /\ Dropped(<<>>) = NothingDropped
    /\ \A t \in Seq(Tokens) : Dropped(t) \in DropStates
    /\ \A t \in Seq(Tokens), c \in Tokens : Dropped(Append(t, c)) = Drop(Dropped(t), c)
<1> DEFINE F == [p \in DropStates \X Tokens |-> Drop(p[1], p[2])]
<1>1. F \in [DropStates \X Tokens -> DropStates]
  BY DropStaysTyped
<1>2. \A s \in DropStates, c \in Tokens : F[s, c] = Drop(s, c)
  OBVIOUS
<1> HIDE DEF F
<1>3. PICK fold : Stepwise(fold, Tokens, DropStates, F, NothingDropped)
  BY <1>1, NothingDroppedTyped, FoldsStepwise
<1>4. ASSUME NEW t \in Seq(Tokens) PROVE Dropped(t) = fold[t]
  <2> DEFINE Eq(g) == g = [s \in SUBSET DOMAIN t |->
                              IF s = {} THEN NothingDropped ELSE Drop(g[s \ {Max(s)}], t[Max(s)])]
  <2>1. Dropped(t) = (CHOOSE g : Eq(g))[DOMAIN t]
    BY DEF Dropped, FoldLeft, MapThenFoldSet
  <2>2. PICK h : IsFold(h, DropStates, t, F, NothingDropped)
    BY <1>3 DEF Stepwise
  <2>3. /\ h = [s \in SUBSET DOMAIN t |-> h[s]]
        /\ \A s \in SUBSET DOMAIN t :
              /\ h[s] = IF s = {} THEN NothingDropped ELSE F[h[s \ {Max(s)}], t[Max(s)]]
              /\ s # {} => h[s \ {Max(s)}] \in DropStates /\ t[Max(s)] \in Tokens
    BY <2>2, FoldIsTyped
  <2>4. \A s \in SUBSET DOMAIN t :
           h[s] = IF s = {} THEN NothingDropped ELSE Drop(h[s \ {Max(s)}], t[Max(s)])
    BY <1>2, <2>3
  <2>5. Eq(h)
    BY <2>3, <2>4
  <2>6. PICK g : Eq(g) /\ Dropped(t) = g[DOMAIN t]
    BY <2>1, <2>5
  <2>7. \A s \in SUBSET DOMAIN t :
           g[s] = IF s = {} THEN NothingDropped ELSE Drop(g[s \ {Max(s)}], t[Max(s)])
    BY <2>6
  <2> HIDE DEF Eq
  <2>8. Follows(g, DropStates, t, F, NothingDropped)
    BY <1>2, <2>3, <2>7 DEF Follows
  <2>9. g[DOMAIN t] = fold[t]
    BY <1>3, <2>8, ChosenFold
  <2> QED
    BY <2>6, <2>9
<1>5. /\ fold[<<>>] = NothingDropped
      /\ \A t \in Seq(Tokens) : fold[t] \in DropStates
      /\ \A t \in Seq(Tokens), c \in Tokens : fold[Append(t, c)] = F[fold[t], c]
  BY <1>3 DEF Stepwise
<1>6. <<>> \in Seq(Tokens)
  OBVIOUS
<1>7. ASSUME NEW t \in Seq(Tokens), NEW c \in Tokens
      PROVE  Dropped(Append(t, c)) = Drop(Dropped(t), c)
  <2>1. Append(t, c) \in Seq(Tokens)
    OBVIOUS
  <2>2. Dropped(Append(t, c)) = fold[Append(t, c)] /\ Dropped(t) = fold[t]
    BY <1>4, <2>1
  <2> QED
    BY <1>2, <1>5, <2>2
<1> QED
  BY <1>4, <1>5, <1>6, <1>7

\* What the scanner makes of a longer text.
LEMMA ScannedStepwise ==
    /\ Scanned(<<>>) = NoStatement
    /\ \A t \in Seq(Tokens) : Scanned(t) \in ScanStates
    /\ \A t \in Seq(Tokens), c \in Tokens : Scanned(Append(t, c)) = Scan(Scanned(t), c)
<1> DEFINE F == [p \in ScanStates \X Tokens |-> Scan(p[1], p[2])]
<1>1. F \in [ScanStates \X Tokens -> ScanStates]
  BY ScanStaysTyped
<1>2. \A s \in ScanStates, c \in Tokens : F[s, c] = Scan(s, c)
  OBVIOUS
<1> HIDE DEF F
<1>3. PICK fold : Stepwise(fold, Tokens, ScanStates, F, NoStatement)
  BY <1>1, NoStatementTyped, FoldsStepwise
<1>4. ASSUME NEW t \in Seq(Tokens) PROVE Scanned(t) = fold[t]
  <2> DEFINE Eq(g) == g = [s \in SUBSET DOMAIN t |->
                              IF s = {} THEN NoStatement ELSE Scan(g[s \ {Max(s)}], t[Max(s)])]
  <2>1. Scanned(t) = (CHOOSE g : Eq(g))[DOMAIN t]
    BY DEF Scanned, FoldLeft, MapThenFoldSet
  <2>2. PICK h : IsFold(h, ScanStates, t, F, NoStatement)
    BY <1>3 DEF Stepwise
  <2>3. /\ h = [s \in SUBSET DOMAIN t |-> h[s]]
        /\ \A s \in SUBSET DOMAIN t :
              /\ h[s] = IF s = {} THEN NoStatement ELSE F[h[s \ {Max(s)}], t[Max(s)]]
              /\ s # {} => h[s \ {Max(s)}] \in ScanStates /\ t[Max(s)] \in Tokens
    BY <2>2, FoldIsTyped
  <2>4. \A s \in SUBSET DOMAIN t :
           h[s] = IF s = {} THEN NoStatement ELSE Scan(h[s \ {Max(s)}], t[Max(s)])
    BY <1>2, <2>3
  <2>5. Eq(h)
    BY <2>3, <2>4
  <2>6. PICK g : Eq(g) /\ Scanned(t) = g[DOMAIN t]
    BY <2>1, <2>5
  <2>7. \A s \in SUBSET DOMAIN t :
           g[s] = IF s = {} THEN NoStatement ELSE Scan(g[s \ {Max(s)}], t[Max(s)])
    BY <2>6
  <2> HIDE DEF Eq
  <2>8. Follows(g, ScanStates, t, F, NoStatement)
    BY <1>2, <2>3, <2>7 DEF Follows
  <2>9. g[DOMAIN t] = fold[t]
    BY <1>3, <2>8, ChosenFold
  <2> QED
    BY <2>6, <2>9
<1>5. /\ fold[<<>>] = NoStatement
      /\ \A t \in Seq(Tokens) : fold[t] \in ScanStates
      /\ \A t \in Seq(Tokens), c \in Tokens : fold[Append(t, c)] = F[fold[t], c]
  BY <1>3 DEF Stepwise
<1>6. <<>> \in Seq(Tokens)
  OBVIOUS
<1>7. ASSUME NEW t \in Seq(Tokens), NEW c \in Tokens
      PROVE  Scanned(Append(t, c)) = Scan(Scanned(t), c)
  <2>1. Append(t, c) \in Seq(Tokens)
    OBVIOUS
  <2>2. Scanned(Append(t, c)) = fold[Append(t, c)] /\ Scanned(t) = fold[t]
    BY <1>4, <2>1
  <2> QED
    BY <1>2, <1>5, <2>2
<1> QED
  BY <1>4, <1>5, <1>6, <1>7

\* What is left of a longer list.
LEMMA NonBlankStepwise ==
    /\ NonBlank(<<>>) = <<>>
    /\ \A t \in Seq(Texts) : NonBlank(t) \in TextLists
    /\ \A t \in Seq(Texts), c \in Texts : NonBlank(Append(t, c)) = Keep(NonBlank(t), c)
<1> DEFINE F == [p \in TextLists \X Texts |-> Keep(p[1], p[2])]
<1>1. F \in [TextLists \X Texts -> TextLists]
  BY KeepStaysTyped
<1>2. \A s \in TextLists, c \in Texts : F[s, c] = Keep(s, c)
  OBVIOUS
<1> HIDE DEF F
<1>3. PICK fold : Stepwise(fold, Texts, TextLists, F, <<>>)
  BY <1>1, NoTextsTyped, FoldsStepwise
<1>4. ASSUME NEW t \in Seq(Texts) PROVE NonBlank(t) = fold[t]
  <2> DEFINE Eq(g) == g = [s \in SUBSET DOMAIN t |->
                              IF s = {} THEN <<>> ELSE Keep(g[s \ {Max(s)}], t[Max(s)])]
  <2>1. NonBlank(t) = (CHOOSE g : Eq(g))[DOMAIN t]
    BY DEF NonBlank, FoldLeft, MapThenFoldSet
  <2>2. PICK h : IsFold(h, TextLists, t, F, <<>>)
    BY <1>3 DEF Stepwise
  <2>3. /\ h = [s \in SUBSET DOMAIN t |-> h[s]]
        /\ \A s \in SUBSET DOMAIN t :
              /\ h[s] = IF s = {} THEN <<>> ELSE F[h[s \ {Max(s)}], t[Max(s)]]
              /\ s # {} => h[s \ {Max(s)}] \in TextLists /\ t[Max(s)] \in Texts
    BY <2>2, FoldIsTyped
  <2>4. \A s \in SUBSET DOMAIN t :
           h[s] = IF s = {} THEN <<>> ELSE Keep(h[s \ {Max(s)}], t[Max(s)])
    BY <1>2, <2>3
  <2>5. Eq(h)
    BY <2>3, <2>4
  <2>6. PICK g : Eq(g) /\ NonBlank(t) = g[DOMAIN t]
    BY <2>1, <2>5
  <2>7. \A s \in SUBSET DOMAIN t :
           g[s] = IF s = {} THEN <<>> ELSE Keep(g[s \ {Max(s)}], t[Max(s)])
    BY <2>6
  <2> HIDE DEF Eq
  <2>8. Follows(g, TextLists, t, F, <<>>)
    BY <1>2, <2>3, <2>7 DEF Follows
  <2>9. g[DOMAIN t] = fold[t]
    BY <1>3, <2>8, ChosenFold
  <2> QED
    BY <2>6, <2>9
<1>5. /\ fold[<<>>] = <<>>
      /\ \A t \in Seq(Texts) : fold[t] \in TextLists
      /\ \A t \in Seq(Texts), c \in Texts : fold[Append(t, c)] = F[fold[t], c]
  BY <1>3 DEF Stepwise
<1>6. <<>> \in Seq(Texts)
  OBVIOUS
<1>7. ASSUME NEW t \in Seq(Texts), NEW c \in Texts
      PROVE  NonBlank(Append(t, c)) = Keep(NonBlank(t), c)
  <2>1. Append(t, c) \in Seq(Texts)
    OBVIOUS
  <2>2. NonBlank(Append(t, c)) = fold[Append(t, c)] /\ NonBlank(t) = fold[t]
    BY <1>4, <2>1
  <2> QED
    BY <1>2, <1>5, <2>2
<1> QED
  BY <1>4, <1>5, <1>6, <1>7

-----------------------------------------------------------------------------

(* splitStatements *)

\* splitStatements knows no block comment: in one it is where it was before.
GoModeFor(mode) == IF mode = "/*" THEN "" ELSE mode

ScannerTyped ==
    go \in [mode : Quotes \cup {"", "--"}, current : Seq(Tokens), statements : Seq(Seq(Tokens))]

LexerTyped ==
    /\ spark.mode \in Quotes \cup {"", "--", "/*"}
    /\ spark.escaped \in BOOLEAN /\ spark.plain \in BOOLEAN
    /\ spark.mode \in {"", "/*", "backtick"} => ~spark.escaped

\* The simulation relation.
Simulates ==
    spark.plain =>
        /\ ~spark.escaped
        /\ go.mode = GoModeFor(spark.mode)
        /\ go.statements = spark.statements
        /\ go.current = spark.current

TextsTyped == script \in Seq(Tokens) /\ cells \in Seq(Seq(Tokens))

TextInv == TextsTyped /\ ScannerTyped /\ LexerTyped /\ Simulates

\* The scanner's mode after a token.
LEMMA GoModes ==
    ASSUME NEW mode \in Quotes \cup {"", "--"}, NEW c \in Tokens
    PROVE  GoMode(mode, c) \in Quotes \cup {"", "--"}
BY DEF GoMode, Quotes, Tokens

\* Both sides go on together over a token that is not misread.
LEMMA ModesAgree ==
    ASSUME NEW mode \in Quotes \cup {"", "--", "/*"}, NEW c \in Tokens, ~Misread(mode, c)
    PROVE  GoMode(GoModeFor(mode), c) = GoModeFor(SparkMode(mode, c))
<1>1. CASE mode \in Quotes \cup {"--"}
  BY <1>1 DEF GoMode, GoModeFor, SparkMode, Quotes, Tokens, Misread
<1>2. CASE mode = "/*"
  BY <1>2 DEF GoMode, GoModeFor, SparkMode, Quotes, Tokens, Misread
<1>3. CASE mode = ""
  BY <1>3 DEF GoMode, GoModeFor, SparkMode, Quotes, Tokens
<1>4. QED  BY <1>1, <1>2, <1>3

\* One iteration of the loop keeps the scanner's type.
LEMMA ScanTyped ==
    ASSUME ScannerTyped, NEW c \in Tokens, go' = Scan(go, c)
    PROVE  ScannerTyped'
<1>0. go.current \in Seq(Tokens) /\ go.statements \in Seq(Seq(Tokens))
  BY DEF ScannerTyped
<1>1. CASE go.mode = "" /\ c = ";"
  <2>1. go' = [go EXCEPT !.statements = Append(@, go.current), !.current = <<>>]
    BY <1>1 DEF Scan
  <2>2. Append(go.statements, go.current) \in Seq(Seq(Tokens)) /\ <<>> \in Seq(Tokens)
    BY <1>0
  <2>3. QED  BY <2>1, <2>2 DEF ScannerTyped
<1>2. CASE ~(go.mode = "" /\ c = ";")
  <2>1. go' = [go EXCEPT !.mode = GoMode(@, c), !.current = Append(@, c)]
    BY <1>2 DEF Scan
  <2>2. Append(go.current, c) \in Seq(Tokens)
    BY <1>0
  <2>3. GoMode(go.mode, c) \in Quotes \cup {"", "--"}
    BY GoModes DEF ScannerTyped
  <2>4. QED  BY <2>1, <2>2, <2>3 DEF ScannerTyped
<1>3. QED  BY <1>1, <1>2

\* The fields of the lexer that the simulation is about.
LEMMA LexFields ==
    ASSUME NEW c \in Tokens, spark' = Lex(spark, c),
           NEW escapes, escapes = (spark.mode \in {"single", "double", "--"}
                                       /\ c = "backslash" /\ ~spark.escaped)
    PROVE  /\ spark'.mode = IF spark.escaped \/ escapes
                            THEN spark.mode ELSE SparkMode(spark.mode, c)
           /\ spark'.escaped = escapes
           /\ spark'.plain = (spark.plain /\ ~Misread(spark.mode, c))
           /\ spark'.statements = IF spark.mode = "" /\ c = ";"
                                  THEN Append(spark.statements, spark.current)
                                  ELSE spark.statements
           /\ spark'.current = IF spark.mode = "" /\ c = ";"
                               THEN <<>> ELSE Append(spark.current, c)
BY DEF Lex

LEMMA LexTyped ==
    ASSUME LexerTyped, NEW c \in Tokens, spark' = Lex(spark, c)
    PROVE  LexerTyped'
<1> DEFINE escapes == spark.mode \in {"single", "double", "--"}
                          /\ c = "backslash" /\ ~spark.escaped
<1>1. /\ spark'.mode = IF spark.escaped \/ escapes
                       THEN spark.mode ELSE SparkMode(spark.mode, c)
      /\ spark'.escaped = escapes
      /\ spark'.plain = (spark.plain /\ ~Misread(spark.mode, c))
  BY LexFields
<1>2. SparkMode(spark.mode, c) \in Quotes \cup {"", "--", "/*"}
  BY DEF SparkMode, LexerTyped, Quotes, Tokens
<1>3. spark'.mode \in {"", "/*", "backtick"} => ~spark'.escaped
  BY <1>1
<1>4. QED  BY <1>1, <1>2, <1>3 DEF LexerTyped

\* One token keeps the simulation.
LEMMA SimulationStep ==
    ASSUME ScannerTyped, LexerTyped, Simulates, NEW c \in Tokens,
           go' = Scan(go, c), spark' = Lex(spark, c)
    PROVE  Simulates'
<1> SUFFICES ASSUME spark'.plain
             PROVE  /\ ~spark'.escaped
                    /\ go'.mode = GoModeFor(spark'.mode)
                    /\ go'.statements = spark'.statements
                    /\ go'.current = spark'.current
  BY DEF Simulates, GoModeFor
<1> DEFINE escapes == spark.mode \in {"single", "double", "--"}
                          /\ c = "backslash" /\ ~spark.escaped
<1>1. /\ spark'.mode = IF spark.escaped \/ escapes
                       THEN spark.mode ELSE SparkMode(spark.mode, c)
      /\ spark'.escaped = escapes
      /\ spark'.plain = (spark.plain /\ ~Misread(spark.mode, c))
      /\ spark'.statements = IF spark.mode = "" /\ c = ";"
                             THEN Append(spark.statements, spark.current)
                             ELSE spark.statements
      /\ spark'.current = IF spark.mode = "" /\ c = ";"
                          THEN <<>> ELSE Append(spark.current, c)
  BY LexFields
<1>2. spark.plain /\ ~Misread(spark.mode, c)
  BY <1>1
<1>3. /\ ~spark.escaped
      /\ go.mode = GoModeFor(spark.mode)
      /\ go.statements = spark.statements
      /\ go.current = spark.current
  BY <1>2 DEF Simulates
<1>4. ~escapes
  BY <1>2 DEF Misread, Quotes
<1>5. spark'.mode = SparkMode(spark.mode, c) /\ ~spark'.escaped
  BY <1>1, <1>3, <1>4
<1>6. GoMode(go.mode, c) = GoModeFor(spark'.mode)
  BY <1>2, <1>3, <1>5, ModesAgree DEF LexerTyped
<1>7. CASE spark.mode = "" /\ c = ";"
  <2>1. go.mode = ""
    BY <1>3, <1>7 DEF GoModeFor
  <2>2. go' = [go EXCEPT !.statements = Append(@, go.current), !.current = <<>>]
    BY <1>7, <2>1 DEF Scan
  <2>3. go'.mode = "" /\ go'.current = <<>>
        /\ go'.statements = Append(go.statements, go.current)
    BY <2>1, <2>2 DEF ScannerTyped
  <2>4. spark'.mode = ""
    BY <1>5, <1>7 DEF SparkMode, Quotes
  <2>5. QED  BY <1>1, <1>3, <1>5, <1>7, <2>3, <2>4 DEF GoModeFor
<1>8. CASE ~(spark.mode = "" /\ c = ";")
  <2>1. ~(go.mode = "" /\ c = ";")
    BY <1>2, <1>3, <1>8 DEF GoModeFor, Misread
  <2>2. go' = [go EXCEPT !.mode = GoMode(@, c), !.current = Append(@, c)]
    BY <2>1 DEF Scan
  <2>3. go'.mode = GoMode(go.mode, c) /\ go'.current = Append(go.current, c)
        /\ go'.statements = go.statements
    BY <2>2 DEF ScannerTyped
  <2>4. QED  BY <1>1, <1>3, <1>5, <1>6, <1>8, <2>3
<1>9. QED  BY <1>7, <1>8

-----------------------------------------------------------------------------

\* The invariant at the beginning.
LEMMA InitTextInv == TextInit => TextInv
<1> SUFFICES ASSUME TextInit PROVE TextInv
  OBVIOUS
<1>1. TextsTyped
  BY DEF TextInit, TextsTyped
<1>2. ScannerTyped
  <2>1. <<>> \in Seq(Tokens) /\ <<>> \in Seq(Seq(Tokens))
    OBVIOUS
  <2>2. QED  BY <2>1 DEF TextInit, NoStatement, ScannerTyped
<1>3. LexerTyped
  BY DEF TextInit, NothingRead, LexerTyped
<1>4. Simulates
  BY DEF TextInit, NoStatement, NothingRead, Simulates, GoModeFor
<1>5. QED  BY <1>1, <1>2, <1>3, <1>4 DEF TextInv

\* The invariant over a step.
LEMMA NextTextInv == TextInv /\ [TextNext]_textVars => TextInv'
<1> SUFFICES ASSUME TextInv, [TextNext]_textVars PROVE TextInv'
  OBVIOUS
<1> USE DEF TextInv
<1>1. ASSUME NEW c \in Tokens, Read(c) PROVE TextInv'
  <2>1. go' = Scan(go, c) /\ spark' = Lex(spark, c) /\ script' = Append(script, c)
        /\ cells' = cells
    BY <1>1 DEF Read
  <2>2. TextsTyped'
    BY <2>1 DEF TextsTyped
  <2>3. QED  BY <2>1, <2>2, ScanTyped, LexTyped, SimulationStep
<1>2. ASSUME NewCell PROVE TextInv'
  <2>1. <<>> \in Seq(Tokens)
    OBVIOUS
  <2>2. TextsTyped'
    BY <1>2, <2>1 DEF NewCell, TextsTyped
  <2>3. QED  BY <1>2, <2>2 DEF NewCell, ScannerTyped, LexerTyped, Simulates
<1>3. ASSUME NEW c \in Tokens, Extend(c) PROVE TextInv'
  <2>1. cells # <<>> /\ cells' = [cells EXCEPT ![Len(cells)] = Append(@, c)]
        /\ UNCHANGED <<script, go, spark>>
    BY <1>3 DEF Extend
  <2>2. cells \in Seq(Seq(Tokens)) /\ Len(cells) \in DOMAIN cells
    BY <2>1 DEF TextsTyped
  <2>3. Append(cells[Len(cells)], c) \in Seq(Tokens)
    BY <2>2
  <2>4. TextsTyped'
    BY <2>1, <2>2, <2>3 DEF TextsTyped
  <2>5. QED  BY <2>1, <2>4 DEF ScannerTyped, LexerTyped, Simulates
<1>4. CASE UNCHANGED textVars
  BY <1>4 DEF textVars, TextsTyped, ScannerTyped, LexerTyped, Simulates
<1>5. QED  BY <1>1, <1>2, <1>3, <1>4 DEF TextNext

THEOREM TextInvariance == TextSpec => []TextInv
BY InitTextInv, NextTextInv, PTL DEF TextSpec

\* Every variable stays in its range.
THEOREM TextTypeCorrect == TextSpec => []TextTypeOK
<1>1. TextInv => TextTypeOK
  BY DEF TextInv, TextsTyped, ScannerTyped, LexerTyped, TextTypeOK
<1>2. QED  BY <1>1, TextInvariance, PTL

\* "splits a SQL string on semicolons at statement boundaries" (db.go:488), in a
\* plain script of any length.
THEOREM SplitsAreStatements == TextSpec => []SplitsWhereStatementsEnd
<1>1. TextInv => SplitsWhereStatementsEnd
  BY DEF TextInv, Simulates, SplitsWhereStatementsEnd
<1>2. QED  BY <1>1, TextInvariance, PTL

-----------------------------------------------------------------------------
(* Plain scripts *)

PlainState(s) == s.plain /\ ~s.escaped

Silent(mode, c) ==
    {mode, SparkMode(mode, c)} \cap {"--", "/*"} # {} \/ (mode = "" /\ c = "newline")

\* What Spark's lexer does with the next token of a plain text.
PlainStep(s, c, next) ==
    /\ PlainState(next)
    /\ next.mode = SparkMode(s.mode, c)
    /\ next.kept = IF Silent(s.mode, c) THEN s.kept ELSE Append(s.kept, c)
    /\ next.statements = IF s.mode = "" /\ c = ";" THEN Append(s.statements, s.current)
                         ELSE s.statements
    /\ next.current = IF s.mode = "" /\ c = ";" THEN <<>> ELSE Append(s.current, c)

\* Lex on a token that is not misread.
LEMMA PlainGoesOn ==
    ASSUME NEW s \in LexStates, NEW c \in Tokens
    PROVE  /\ Lex(s, c).plain => s.plain /\ ~Misread(s.mode, c)
           /\ PlainState(s) /\ ~Misread(s.mode, c) => PlainStep(s, c, Lex(s, c))
<1>1. Lex(s, c).plain = (s.plain /\ ~Misread(s.mode, c))
  BY DEF Lex
<1>2. ASSUME PlainState(s), ~Misread(s.mode, c) PROVE PlainStep(s, c, Lex(s, c))
  <2> DEFINE escapes == s.mode \in {"single", "double", "--"} /\ c = "backslash" /\ ~s.escaped
             mode == IF s.escaped \/ escapes THEN s.mode ELSE SparkMode(s.mode, c)
             ends == s.mode = "" /\ c = ";"
             silent == {s.mode, mode} \cap {"--", "/*"} # {} \/ (s.mode = "" /\ c = "newline")
  <2>1. ~escapes
    BY <1>2 DEF Misread, Quotes
  <2>2. mode = SparkMode(s.mode, c)
    BY <1>2, <2>1 DEF PlainState
  <2>3. silent = Silent(s.mode, c)
    BY <2>2 DEF Silent
  <2>4. /\ Lex(s, c).mode = mode /\ Lex(s, c).escaped = escapes
        /\ Lex(s, c).kept = IF silent THEN s.kept ELSE Append(s.kept, c)
        /\ Lex(s, c).statements = IF ends THEN Append(s.statements, s.current) ELSE s.statements
        /\ Lex(s, c).current = IF ends THEN <<>> ELSE Append(s.current, c)
    BY DEF Lex
  <2> HIDE DEF escapes, mode, silent
  <2>5. PlainState(Lex(s, c))
    BY <1>1, <1>2, <2>1, <2>4 DEF PlainState
  <2> QED
    BY <2>2, <2>3, <2>4, <2>5 DEF PlainStep
<1> QED
  BY <1>1, <1>2

PlainIsPlain(t) == SparkReads(t).plain => PlainState(SparkReads(t))

\* A plain text leaves nothing escaped.
LEMMA PlainTexts == \A t \in Seq(Tokens) : PlainIsPlain(t)
<1> DEFINE S == {t \in Seq(Tokens) : PlainIsPlain(t)}
<1>1. <<>> \in S
  <2>1. <<>> \in Seq(Tokens)
    OBVIOUS
  <2>2. SparkReads(<<>>).plain /\ ~SparkReads(<<>>).escaped
    <3>1. NothingRead.plain
      BY DEF NothingRead
    <3>2. ~NothingRead.escaped
      BY DEF NothingRead
    <3> QED
      BY <3>1, <3>2, SparkReadsStepwise
  <2>3. PlainIsPlain(<<>>)
    BY <2>2 DEF PlainIsPlain, PlainState
  <2> QED
    BY <2>1, <2>3
<1>2. ASSUME NEW t \in Seq(Tokens), NEW c \in Tokens, t \in S PROVE Append(t, c) \in S
  <2>1. SparkReads(t) \in LexStates /\ SparkReads(Append(t, c)) = Lex(SparkReads(t), c)
    BY SparkReadsStepwise
  <2>2. PlainIsPlain(Append(t, c))
    BY <1>2, <2>1, PlainGoesOn DEF PlainIsPlain, PlainStep
  <2> QED
    BY <2>2
<1> HIDE DEF S
<1>3. Seq(Tokens) \subseteq S
  BY <1>1, <1>2, SeqSets
<1> QED
  BY <1>3 DEF S

\* A plain text, token by token.
LEMMA PlainTextGoesOn ==
    ASSUME NEW t \in Seq(Tokens), NEW c \in Tokens, SparkReads(Append(t, c)).plain
    PROVE  /\ SparkReads(t).plain /\ ~Misread(SparkReads(t).mode, c)
           /\ PlainStep(SparkReads(t), c, SparkReads(Append(t, c)))
<1>1. SparkReads(t) \in LexStates /\ SparkReads(Append(t, c)) = Lex(SparkReads(t), c)
  BY SparkReadsStepwise
<1>2. SparkReads(t).plain /\ ~Misread(SparkReads(t).mode, c)
  BY <1>1, PlainGoesOn
<1>3. PlainState(SparkReads(t))
  BY <1>2, PlainTexts DEF PlainIsPlain
<1> QED
  BY <1>1, <1>2, <1>3, PlainGoesOn

\* And the other way round.
LEMMA PlainTextExtends ==
    ASSUME NEW t \in Seq(Tokens), NEW c \in Tokens, SparkReads(t).plain,
           ~Misread(SparkReads(t).mode, c)
    PROVE  PlainStep(SparkReads(t), c, SparkReads(Append(t, c)))
<1>1. SparkReads(t) \in LexStates /\ SparkReads(Append(t, c)) = Lex(SparkReads(t), c)
  BY SparkReadsStepwise
<1>2. PlainState(SparkReads(t))
  BY PlainTexts DEF PlainIsPlain
<1> QED
  BY <1>1, <1>2, PlainGoesOn

-----------------------------------------------------------------------------
(* sanitizeSQL *)

\* l: the lexer after a text; d: the sanitizer; m: the lexer after what it left.
Matches(l, d, m) ==
    /\ m.plain
    /\ m.kept = l.kept
    /\ l.mode = "/*" => d.comment # <<>> /\ m.mode = ""
    /\ l.mode # "/*" => d.comment = <<>> /\ m.mode = l.mode
    /\ l.statements = <<>> => m.statements = <<>>

Bracketless(t) == \A i \in DOMAIN t : t[i] # "/*"

Sanitized(t) ==
    SparkReads(t).plain =>
        /\ Matches(SparkReads(t), Dropped(t), SparkReads(Dropped(t).text))
        /\ Bracketless(Dropped(t).text)

\* One more token that opens no comment.
LEMMA AppendBracketless ==
    ASSUME NEW t \in Seq(Tokens), NEW c \in Tokens, Bracketless(t), c # "/*"
    PROVE  Bracketless(Append(t, c))
BY DEF Bracketless

\* One token at the sanitizer and at the two lexers.
LEMMA SanitizedStep ==
    ASSUME NEW t \in Seq(Tokens), NEW c \in Tokens, Sanitized(t)
    PROVE  Sanitized(Append(t, c))
<1> SUFFICES ASSUME SparkReads(Append(t, c)).plain
             PROVE  /\ Matches(SparkReads(Append(t, c)), Dropped(Append(t, c)),
                               SparkReads(Dropped(Append(t, c)).text))
                    /\ Bracketless(Dropped(Append(t, c)).text)
  BY DEF Sanitized
<1> DEFINE l == SparkReads(t)
           d == Dropped(t)
           m == SparkReads(d.text)
           next == SparkReads(Append(t, c))
           after == Dropped(Append(t, c))
<1>1. l.plain /\ ~Misread(l.mode, c) /\ PlainStep(l, c, next)
  BY PlainTextGoesOn
<1>2. Matches(l, d, m) /\ Bracketless(d.text)
  BY <1>1 DEF Sanitized
<1>3. l \in LexStates /\ d \in DropStates /\ d.text \in Seq(Tokens) /\ after = Drop(d, c)
  BY SparkReadsStepwise, DroppedStepwise DEF DropStates
<1>4. /\ l.current \in Seq(Tokens) /\ l.statements \in Seq(Seq(Tokens))
      /\ l.mode \in Quotes \cup {"", "--", "/*"}
  BY <1>3 DEF LexStates
<1>4a. m \in LexStates
  BY <1>3, SparkReadsStepwise
<1>4b. m.current \in Seq(Tokens) /\ m.statements \in Seq(Seq(Tokens))
  BY <1>4a DEF LexStates
<1>5. Append(l.statements, l.current) # <<>>
  BY <1>4, AppendIsSomething
<1> HIDE DEF l, d, m, next, after
<1>6. CASE l.mode = "/*" /\ c = "*/"
  <2>1. after.text = Append(d.text, "newline") /\ after.comment = <<>>
    BY <1>2, <1>3, <1>6 DEF Drop, Matches
  <2>2. next.mode = "" /\ next.kept = l.kept /\ next.statements = l.statements
    BY <1>1, <1>6 DEF PlainStep, SparkMode, Silent
  <2>3. "newline" \in Tokens /\ m.plain /\ m.mode = "" /\ ~Misread(m.mode, "newline")
    BY <1>2, <1>6 DEF Tokens, Matches, Misread, Quotes
  <2>4. PlainStep(m, "newline", SparkReads(after.text))
    BY <1>3, <2>1, <2>3, PlainTextExtends DEF m
  <2>5. /\ SparkReads(after.text).plain /\ SparkReads(after.text).mode = ""
        /\ SparkReads(after.text).kept = m.kept /\ SparkReads(after.text).statements = m.statements
    BY <2>3, <2>4 DEF PlainStep, PlainState, SparkMode, Silent, Quotes
  <2>6. Matches(next, after, SparkReads(after.text))
    BY <1>2, <2>1, <2>2, <2>5 DEF Matches
  <2>7. Bracketless(after.text)
    BY <1>2, <1>3, <2>1, <2>3, AppendBracketless
  <2> QED
    BY <2>6, <2>7 DEF next, after
<1>7. CASE l.mode = "/*" /\ c # "*/"
  <2>1. after.text = d.text /\ after.comment # <<>>
    <3>1. d.comment # <<>> /\ d.comment \in Seq(Tokens)
      BY <1>2, <1>3, <1>7 DEF Matches, DropStates
    <3>2. Append(d.comment, c) # <<>>
      BY <3>1
    <3>3. after = [d EXCEPT !.comment = Append(@, c)]
      BY <1>3, <1>7, <3>1 DEF Drop
    <3> QED
      BY <1>3, <3>2, <3>3 DEF DropStates
  <2>2. next.mode = "/*" /\ next.kept = l.kept /\ next.statements = l.statements
    BY <1>1, <1>7 DEF PlainStep, SparkMode, Silent
  <2>3. SparkReads(after.text) = m
    BY <2>1 DEF m
  <2>4. Matches(next, after, m)
    BY <1>2, <1>7, <2>1, <2>2 DEF Matches
  <2> QED
    BY <1>2, <2>1, <2>3, <2>4 DEF next, after
<1>8. CASE l.mode # "/*" /\ c = "/*"
  <2>1. l.mode = ""
    BY <1>1, <1>4, <1>8 DEF Misread
  <2>2. after.text = d.text /\ after.comment # <<>>
    <3>1. d.comment = <<>> /\ <<c>> # <<>>
      BY <1>2, <1>8 DEF Matches
    <3>3. after = [d EXCEPT !.comment = <<c>>]
      BY <1>3, <1>8, <3>1 DEF Drop
    <3> QED
      BY <1>3, <3>1, <3>3 DEF DropStates
  <2>3. next.mode = "/*" /\ next.kept = l.kept /\ next.statements = l.statements
    BY <1>1, <1>8, <2>1 DEF PlainStep, SparkMode, Silent, Quotes
  <2>4. SparkReads(after.text) = m
    BY <2>2 DEF m
  <2>5. Matches(next, after, m)
    BY <1>2, <2>1, <2>2, <2>3 DEF Matches
  <2> QED
    BY <1>2, <2>2, <2>4, <2>5 DEF next, after
<1>9. CASE l.mode # "/*" /\ c # "/*"
  <2>1. after.text = Append(d.text, c) /\ after.comment = <<>>
    <3>1. d.comment = <<>>
      BY <1>2, <1>9 DEF Matches
    <3>2. after = [d EXCEPT !.text = Append(@, c)]
      BY <1>3, <1>9, <3>1 DEF Drop
    <3> QED
      BY <1>3, <3>1, <3>2 DEF DropStates
  <2>2. m.plain /\ m.mode = l.mode /\ ~Misread(m.mode, c)
    BY <1>1, <1>2, <1>9 DEF Matches
  <2>3. PlainStep(m, c, SparkReads(after.text))
    BY <1>3, <2>1, <2>2, PlainTextExtends DEF m
  <2>4. next.mode # "/*"
    BY <1>1, <1>4, <1>9 DEF PlainStep, SparkMode, Quotes
  <2>5. /\ SparkReads(after.text).plain /\ SparkReads(after.text).mode = next.mode
        /\ SparkReads(after.text).kept = next.kept
    BY <1>1, <1>2, <2>2, <2>3 DEF PlainStep, PlainState, Matches
  <2>6. next.statements = <<>> => SparkReads(after.text).statements = <<>>
    <3>1. CASE l.mode = "" /\ c = ";"
      BY <1>1, <1>5, <3>1 DEF PlainStep
    <3>2. CASE ~(l.mode = "" /\ c = ";")
      BY <1>1, <1>2, <2>2, <2>3, <3>2 DEF PlainStep, Matches
    <3> QED
      BY <3>1, <3>2
  <2>7. Matches(next, after, SparkReads(after.text))
    BY <2>1, <2>4, <2>5, <2>6 DEF Matches
  <2>8. Bracketless(after.text)
    BY <1>2, <1>3, <1>9, <2>1, AppendBracketless
  <2> QED
    BY <2>7, <2>8 DEF next, after
<1> QED
  BY <1>6, <1>7, <1>8, <1>9

\* sanitizeSQL of a plain text, token by token.
LEMMA SanitizedTexts == \A t \in Seq(Tokens) : Sanitized(t)
<1> DEFINE S == {t \in Seq(Tokens) : Sanitized(t)}
<1>1. <<>> \in S
  <2>1. <<>> \in Seq(Tokens) /\ DOMAIN <<>> = {}
    OBVIOUS
  <2>2. SparkReads(<<>>) = NothingRead /\ Dropped(<<>>) = NothingDropped
    BY SparkReadsStepwise, DroppedStepwise
  <2>3. Matches(NothingRead, NothingDropped, NothingRead) /\ Bracketless(<<>>)
    BY <2>1 DEF Matches, Bracketless, NothingRead, NothingDropped
  <2> QED
    BY <2>1, <2>2, <2>3 DEF Sanitized, NothingDropped
<1>2. ASSUME NEW t \in Seq(Tokens), NEW c \in Tokens, t \in S PROVE Append(t, c) \in S
  BY <1>2, SanitizedStep
<1> HIDE DEF S
<1>3. Seq(Tokens) \subseteq S
  BY <1>1, <1>2, SeqSets
<1> QED
  BY <1>3 DEF S

\* A piece of a plain script: one statement, whose literals and comments are closed.
Piece(t) ==
    /\ t \in Seq(Tokens)
    /\ SparkReads(t).plain
    /\ SparkReads(t).statements = <<>>
    /\ SparkReads(t).mode \in {"", "--"}

\* sanitizeSQL keeps what a piece says, and leaves no bracket.
LEMMA SanitizeKeeps ==
    ASSUME NEW t, Piece(t)
    PROVE  /\ Piece(SanitizeSQL(t))
           /\ SparkReads(SanitizeSQL(t)).kept = SparkReads(t).kept
           /\ Bracketless(SanitizeSQL(t))
<1>1. Sanitized(t) /\ Dropped(t) \in DropStates
  BY SanitizedTexts, DroppedStepwise DEF Piece
<1>2. Dropped(t).comment = <<>> /\ Dropped(t).text \in Seq(Tokens)
  BY <1>1 DEF Piece, Sanitized, Matches, DropStates
<1>3. SanitizeSQL(t) = Dropped(t).text
  <2>1. SanitizeSQL(t) = Dropped(t).text \o Dropped(t).comment
    BY DEF SanitizeSQL, Dropped
  <2> QED
    BY <1>2, <2>1
<1> QED
  BY <1>1, <1>2, <1>3 DEF Piece, Sanitized, Matches

-----------------------------------------------------------------------------
(* strings.TrimSpace *)

Said(t) == {i \in DOMAIN t : t[i] # "newline"}

\* What trimming leaves when nothing follows but text.
Begun(t) == IF Said(t) = {} THEN <<>> ELSE SubSeq(t, Min(Said(t)), Len(t))

\* The positions that hold something, with one more token.
LEMMA SaidGrows ==
    ASSUME NEW t \in Seq(Tokens), NEW c \in Tokens
    PROVE  /\ Said(t) \in SUBSET (1..Len(t))
           /\ Said(Append(t, c)) = IF c = "newline" THEN Said(t) ELSE Said(t) \cup {Len(t) + 1}
<1> DEFINE u == Append(t, c)
           n == Len(t)
<1>1. /\ DOMAIN t = 1..n /\ DOMAIN u = 1..(n + 1) /\ n \in Nat
      /\ u[n + 1] = c /\ \A i \in 1..n : u[i] = t[i]
  OBVIOUS
<1> HIDE DEF u, n
<1>2. Said(t) \in SUBSET (1..n)
  BY <1>1 DEF Said
<1>3. \A i : i \in 1..(n + 1) <=> i \in 1..n \/ i = n + 1
  BY <1>1
<1>4. n + 1 \notin 1..n
  BY <1>1
<1>5. Said(u) = IF c = "newline" THEN Said(t) ELSE Said(t) \cup {n + 1}
  <2>1. CASE c = "newline"
    BY <1>1, <1>3, <2>1 DEF Said
  <2>2. CASE c # "newline"
    BY <1>1, <1>3, <2>2 DEF Said
  <2> QED
    BY <2>1, <2>2
<1> QED
  BY <1>2, <1>5 DEF u, n

\* Parts of a text with one more token.
LEMMA PrefixAndMiddle ==
    ASSUME NEW t \in Seq(Tokens), NEW c \in Tokens, NEW a \in 1..Len(t), NEW z \in 1..Len(t)
    PROVE  /\ SubSeq(Append(t, c), a, Len(t) + 1) = Append(SubSeq(t, a, Len(t)), c)
           /\ SubSeq(Append(t, c), a, z) = SubSeq(t, a, z)
           /\ SubSeq(t, a, z) \in Seq(Tokens)
OBVIOUS

\* A trimmed beginning with one more token.
LEMMA BegunGrows ==
    ASSUME NEW t \in Seq(Tokens), NEW c \in Tokens
    PROVE  Begun(Append(t, c)) = IF Said(t) = {} /\ c = "newline" THEN <<>> ELSE Append(Begun(t), c)
<1> DEFINE u == Append(t, c)
<1>1. PICK n \in Nat : n = Len(t)
  OBVIOUS
<1>2. Len(u) = n + 1
  BY <1>1
<1>3. /\ Said(t) \in SUBSET (1..n)
      /\ Said(u) = IF c = "newline" THEN Said(t) ELSE Said(t) \cup {n + 1}
  BY <1>1, SaidGrows
<1>4. CASE Said(t) = {} /\ c = "newline"
  BY <1>3, <1>4 DEF Begun
<1>5. CASE Said(t) = {} /\ c # "newline"
  <2>1. Said(u) = {n + 1} /\ Min({n + 1}) = n + 1
    BY <1>3, <1>5, MinStays
  <2>2. SubSeq(u, n + 1, n + 1) = Append(<<>>, c)
    <3>1. u[n + 1] = c /\ u \in Seq(Tokens) /\ n + 1 \in 1..Len(u)
      BY <1>1, <1>2
    <3> HIDE DEF u
    <3>2. PICK v : v = SubSeq(u, n + 1, n + 1)
      OBVIOUS
    <3>3. v \in Seq(Tokens) /\ Len(v) = 0 + 1 /\ v[0 + 1] = c
      BY <3>1, <3>2
    <3>4. v = Append(SubSeq(v, 1, 0), v[0 + 1]) /\ SubSeq(v, 1, 0) = <<>>
      BY <3>3
    <3> QED
      BY <3>2, <3>3, <3>4
  <2> QED
    BY <1>2, <1>5, <2>1, <2>2 DEF Begun
<1>6. CASE Said(t) # {}
  <2>1. Said(u) # {} /\ Min(Said(u)) = Min(Said(t)) /\ Min(Said(t)) \in 1..n
    BY <1>3, <1>6, MinStays
  <2>2. SubSeq(u, Min(Said(t)), n + 1) = Append(SubSeq(t, Min(Said(t)), n), c)
    <3>1. 1..n = 1..Len(t)
      BY <1>1
    <3>2. n \in 1..n
      BY <2>1
    <3> QED
      BY <1>1, <2>1, <3>1, <3>2, PrefixAndMiddle
  <2> QED
    BY <1>1, <1>2, <1>6, <2>1, <2>2 DEF Begun
<1> QED
  BY <1>4, <1>5, <1>6

\* A trimmed text with one more token.
LEMMA TrimGrows ==
    ASSUME NEW t \in Seq(Tokens), NEW c \in Tokens
    PROVE  Trim(Append(t, c)) = IF c = "newline" THEN Trim(t) ELSE Begun(Append(t, c))
<1> DEFINE u == Append(t, c)
<1>1. PICK n \in Nat : n = Len(t)
  OBVIOUS
<1>2. Len(u) = n + 1
  BY <1>1
<1>3. /\ Said(t) \in SUBSET (1..n)
      /\ Said(u) = IF c = "newline" THEN Said(t) ELSE Said(t) \cup {n + 1}
  BY <1>1, SaidGrows
<1>4. \A v \in Seq(Tokens) :
         Trim(v) = IF Said(v) = {} THEN <<>> ELSE SubSeq(v, Min(Said(v)), Max(Said(v)))
  BY DEF Trim, Said
<1>5. u \in Seq(Tokens)
  OBVIOUS
<1>6. CASE c = "newline" /\ Said(t) = {}
  BY <1>3, <1>4, <1>5, <1>6
<1>7. CASE c = "newline" /\ Said(t) # {}
  <2>1. Min(Said(t)) \in 1..n /\ Max(Said(t)) \in 1..n
    BY <1>3, <1>7, MinStays, MaxIsThere
  <2>2. SubSeq(u, Min(Said(t)), Max(Said(t))) = SubSeq(t, Min(Said(t)), Max(Said(t)))
    <3>1. PICK a \in 1..Len(t) : a = Min(Said(t))
      BY <1>1, <2>1
    <3>2. PICK z \in 1..Len(t) : z = Max(Said(t))
      BY <1>1, <2>1
    <3>3. SubSeq(u, a, z) = SubSeq(t, a, z)
      BY PrefixAndMiddle
    <3> QED
      BY <3>1, <3>2, <3>3
  <2> QED
    BY <1>3, <1>4, <1>5, <1>7, <2>2
<1>8. CASE c # "newline"
  <2>1. Said(u) = Said(t) \cup {n + 1} /\ Said(u) \in SUBSET (1..(n + 1)) /\ n + 1 \in Said(u)
    BY <1>3, <1>8
  <2>2. Max(Said(u)) = n + 1
    BY <2>1, MaxOfInterval
  <2> QED
    BY <1>2, <1>4, <1>5, <1>8, <2>1, <2>2 DEF Begun
<1> QED
  BY <1>6, <1>7, <1>8

\* l: the lexer after a text; m: after what is left of it.
Agree(l, m) ==
    /\ m.plain
    /\ m.mode = l.mode
    /\ m.kept = l.kept
    /\ l.statements = <<>> => m.statements = <<>>

\* Newlines at the beginning say nothing.
BegunAgrees(t) ==
    /\ Begun(t) \in Seq(Tokens)
    /\ SparkReads(t).plain =>
          /\ Agree(SparkReads(t), SparkReads(Begun(t)))
          /\ Said(t) = {} => SparkReads(t).mode = "" /\ SparkReads(t).kept = <<>>

\* Two plain texts that agree, with one more token.
LEMMA AgreeGoesOn ==
    ASSUME NEW t \in Seq(Tokens), NEW u \in Seq(Tokens), NEW c \in Tokens,
           SparkReads(Append(t, c)).plain, Agree(SparkReads(t), SparkReads(u))
    PROVE  Agree(SparkReads(Append(t, c)), SparkReads(Append(u, c)))
<1> DEFINE l == SparkReads(t)
           m == SparkReads(u)
           next == SparkReads(Append(t, c))
           after == SparkReads(Append(u, c))
<1>1. l.plain /\ ~Misread(l.mode, c) /\ PlainStep(l, c, next)
  BY PlainTextGoesOn
<1>2. m.plain /\ m.mode = l.mode /\ m.kept = l.kept /\ (l.statements = <<>> => m.statements = <<>>)
  BY DEF Agree
<1>3. ~Misread(m.mode, c)
  BY <1>1, <1>2
<1>4. PlainStep(m, c, after)
  BY <1>2, <1>3, PlainTextExtends
<1>5. l \in LexStates
  BY SparkReadsStepwise
<1>6. l.statements \in Seq(Seq(Tokens)) /\ l.current \in Seq(Tokens)
  BY <1>5 DEF LexStates
<1>7. Append(l.statements, l.current) # <<>>
  BY <1>6, AppendIsSomething
<1> HIDE DEF l, m, next, after
<1>8. next.statements = <<>> => after.statements = <<>>
  <2>1. CASE l.mode = "" /\ c = ";"
    BY <1>1, <1>7, <2>1 DEF PlainStep
  <2>2. CASE ~(l.mode = "" /\ c = ";")
    BY <1>1, <1>2, <1>4, <2>2 DEF PlainStep
  <2> QED
    BY <2>1, <2>2
<1>9. after.plain /\ after.mode = next.mode /\ after.kept = next.kept
  BY <1>1, <1>2, <1>4 DEF PlainStep, PlainState
<1>10. Agree(next, after)
  BY <1>8, <1>9 DEF Agree
<1> QED
  BY <1>10 DEF next, after

\* They agree at the beginning.
LEMMA NothingAgrees == Agree(NothingRead, NothingRead)
<1>1. NothingRead.plain
  BY DEF NothingRead
<1> QED
  BY <1>1 DEF Agree

\* Trimming the beginning changes nothing that is said.
LEMMA BegunTexts == \A t \in Seq(Tokens) : BegunAgrees(t)
<1> DEFINE S == {t \in Seq(Tokens) : BegunAgrees(t)}
<1>0. <<>> \in Seq(Tokens) /\ Said(<<>>) = {}
  BY DEF Said
<1>1. <<>> \in S
  <2>1. Begun(<<>>) = <<>>
    BY <1>0 DEF Begun
  <2>2. SparkReads(<<>>) = NothingRead /\ NothingRead.mode = "" /\ NothingRead.kept = <<>>
    BY SparkReadsStepwise DEF NothingRead
  <2>3. BegunAgrees(<<>>)
    BY <1>0, <2>1, <2>2, NothingAgrees DEF BegunAgrees
  <2> QED
    BY <1>0, <2>3
<1>2. ASSUME NEW t \in Seq(Tokens), NEW c \in Tokens, t \in S PROVE Append(t, c) \in S
  <2>0. Append(t, c) \in Seq(Tokens)
    OBVIOUS
  <2>1. BegunAgrees(t)
    BY <1>2
  <2>2. Begun(t) \in Seq(Tokens)
    BY <2>1 DEF BegunAgrees
  <2>3. CASE Said(t) = {} /\ c = "newline"
    <3>1. Said(Append(t, c)) = {} /\ Begun(Append(t, c)) = <<>> /\ Begun(t) = <<>>
      BY <2>3, SaidGrows, BegunGrows DEF Begun
    <3>2. ASSUME SparkReads(Append(t, c)).plain
          PROVE  /\ Agree(SparkReads(Append(t, c)), SparkReads(<<>>))
                 /\ SparkReads(Append(t, c)).mode = "" /\ SparkReads(Append(t, c)).kept = <<>>
      <4> DEFINE l == SparkReads(t)
                 next == SparkReads(Append(t, c))
                 m == SparkReads(<<>>)
      <4>1. l.plain /\ PlainStep(l, c, next)
        BY <3>2, PlainTextGoesOn
      <4>2. Agree(l, m) /\ l.mode = "" /\ l.kept = <<>>
        BY <2>1, <2>3, <3>1, <4>1 DEF BegunAgrees
      <4> HIDE DEF l, next, m
      <4>3. next.mode = "" /\ next.kept = <<>> /\ next.statements = l.statements
        BY <2>3, <4>1, <4>2 DEF PlainStep, SparkMode, Silent, Quotes
      <4>4. Agree(next, m)
        BY <4>2, <4>3 DEF Agree
      <4> QED
        BY <4>3, <4>4 DEF next, m
    <3>3. BegunAgrees(Append(t, c))
      BY <1>0, <3>1, <3>2 DEF BegunAgrees
    <3> QED
      BY <2>0, <3>3
  <2>4. CASE ~(Said(t) = {} /\ c = "newline")
    <3>1. Said(Append(t, c)) # {}
      <4>1. CASE c = "newline"
        BY <2>4, <4>1, SaidGrows
      <4>2. CASE c # "newline"
        BY <4>2, SaidGrows
      <4> QED
        BY <4>1, <4>2
    <3>2. Begun(Append(t, c)) = Append(Begun(t), c)
      BY <2>4, BegunGrows
    <3>3. Append(Begun(t), c) \in Seq(Tokens)
      BY <2>2
    <3>4. ASSUME SparkReads(Append(t, c)).plain
          PROVE  Agree(SparkReads(Append(t, c)), SparkReads(Append(Begun(t), c)))
      <4>1. SparkReads(t).plain
        BY <3>4, PlainTextGoesOn
      <4>2. Agree(SparkReads(t), SparkReads(Begun(t)))
        BY <2>1, <4>1 DEF BegunAgrees
      <4> QED
        BY <2>2, <3>4, <4>2, AgreeGoesOn
    <3>5. BegunAgrees(Append(t, c))
      BY <3>1, <3>2, <3>3, <3>4 DEF BegunAgrees
    <3> QED
      BY <2>0, <3>5
  <2> QED
    BY <2>3, <2>4
<1> HIDE DEF S
<1>3. Seq(Tokens) \subseteq S
  BY <1>1, <1>2, SeqSets
<1> QED
  BY <1>3 DEF S

\* Newlines at the end say nothing, unless a literal is open.
Closed(s) == s.mode \in {"", "--"}

TrimAgrees(t) ==
    /\ Trim(t) \in Seq(Tokens)
    /\ SparkReads(t).plain /\ Closed(SparkReads(t)) =>
          /\ SparkReads(Trim(t)).plain
          /\ Closed(SparkReads(Trim(t)))
          /\ SparkReads(Trim(t)).kept = SparkReads(t).kept
          /\ SparkReads(t).statements = <<>> => SparkReads(Trim(t)).statements = <<>>

\* Trimming a text whose literals are closed changes nothing that is said.
LEMMA TrimTexts == \A t \in Seq(Tokens) : TrimAgrees(t)
<1> DEFINE S == {t \in Seq(Tokens) : TrimAgrees(t)}
<1>0. <<>> \in Seq(Tokens)
  OBVIOUS
<1>1. <<>> \in S
  <2>1. Trim(<<>>) = <<>>
    BY DEF Trim
  <2>2. TrimAgrees(<<>>)
    BY <1>0, <2>1 DEF TrimAgrees
  <2> QED
    BY <1>0, <2>2
<1>2. ASSUME NEW t \in Seq(Tokens), NEW c \in Tokens, t \in S PROVE Append(t, c) \in S
  <2>0. Append(t, c) \in Seq(Tokens)
    OBVIOUS
  <2>1. TrimAgrees(t)
    BY <1>2
  <2>2. CASE c # "newline"
    <3>1. Trim(Append(t, c)) = Begun(Append(t, c))
      BY <2>2, TrimGrows
    <3>2. BegunAgrees(Append(t, c))
      BY <2>0, BegunTexts
    <3>3. TrimAgrees(Append(t, c))
      BY <3>1, <3>2 DEF BegunAgrees, TrimAgrees, Agree, Closed
    <3> QED
      BY <2>0, <3>3
  <2>3. CASE c = "newline"
    <3>1. Trim(Append(t, c)) = Trim(t)
      BY <2>3, TrimGrows
    <3> DEFINE l == SparkReads(t)
               next == SparkReads(Append(t, c))
    <3>2. ASSUME next.plain, Closed(next)
          PROVE  l.plain /\ Closed(l) /\ next.kept = l.kept /\ next.statements = l.statements
      <4>1. l.plain /\ PlainStep(l, c, next)
        BY <3>2, PlainTextGoesOn
      <4>2. l \in LexStates
        BY SparkReadsStepwise
      <4> HIDE DEF l, next
      <4>3. l.mode \in Quotes \cup {"", "--", "/*"}
        BY <4>2 DEF LexStates
      <4>4. next.mode = SparkMode(l.mode, c)
        BY <4>1 DEF PlainStep
      <4>5. l.mode \in {"", "--"}
        BY <2>3, <3>2, <4>3, <4>4 DEF Closed, SparkMode, Quotes
      <4>6. next.kept = l.kept /\ next.statements = l.statements
        BY <2>3, <4>1, <4>5 DEF PlainStep, Silent
      <4> QED
        BY <4>1, <4>5, <4>6 DEF Closed
    <3> HIDE DEF l, next
    <3>3. TrimAgrees(Append(t, c))
      BY <2>1, <3>1, <3>2 DEF TrimAgrees, l, next
    <3> QED
      BY <2>0, <3>3
  <2> QED
    BY <2>2, <2>3
<1> HIDE DEF S
<1>3. Seq(Tokens) \subseteq S
  BY <1>1, <1>2, SeqSets
<1> QED
  BY <1>3 DEF S

\* Trimming adds no bracket.
LEMMA TrimBracketless ==
    ASSUME NEW t \in Seq(Tokens), Bracketless(t)
    PROVE  Bracketless(Trim(t))
<1>1. PICK n \in Nat : n = Len(t)
  OBVIOUS
<1>2. DOMAIN t = 1..n
  BY <1>1
<1>3. CASE Said(t) = {}
  <2>1. Trim(t) = <<>> /\ DOMAIN <<>> = {}
    BY <1>3 DEF Trim, Said
  <2> QED
    BY <2>1 DEF Bracketless
<1>4. CASE Said(t) # {}
  <2>1. Said(t) \in SUBSET (1..n)
    BY <1>2 DEF Said
  <2>2. PICK a \in 1..n : a = Min(Said(t))
    BY <1>4, <2>1, MinStays
  <2>3. PICK z \in 1..n : z = Max(Said(t))
    BY <1>4, <2>1, MaxIsThere
  <2>4. Trim(t) = SubSeq(t, a, z)
    BY <1>4, <2>2, <2>3 DEF Trim, Said
  <2>5. \A i \in DOMAIN SubSeq(t, a, z) : \E j \in 1..n : SubSeq(t, a, z)[i] = t[j]
    BY <1>1
  <2> QED
    BY <1>2, <2>4, <2>5 DEF Bracketless
<1> QED
  BY <1>3, <1>4

\* The code that runSQL submits says what the piece said.
LEMMA RunSQLKeeps ==
    ASSUME NEW t, Piece(t)
    PROVE  /\ RunSQL(t) \in Seq(Tokens) /\ SparkReads(RunSQL(t)).plain
           /\ SparkReads(RunSQL(t)).kept = SparkReads(t).kept
           /\ Bracketless(RunSQL(t))
<1> DEFINE e == SanitizeSQL(t)
           code == Trim(e)
<1>1. Piece(e) /\ SparkReads(e).kept = SparkReads(t).kept /\ Bracketless(e)
  BY SanitizeKeeps
<1>2. e \in Seq(Tokens)
  BY <1>1 DEF Piece
<1> HIDE DEF e
<1>3. TrimAgrees(e) /\ Bracketless(code)
  BY <1>1, <1>2, TrimTexts, TrimBracketless
<1>4. /\ code \in Seq(Tokens) /\ SparkReads(code).plain /\ Closed(SparkReads(code))
      /\ SparkReads(code).kept = SparkReads(e).kept /\ SparkReads(code).statements = <<>>
  BY <1>1, <1>3 DEF TrimAgrees, Piece, Closed
<1>5. RunSQL(t) = IF code # <<>> /\ Last(code) = ";" THEN Front(code) ELSE code
  BY DEF RunSQL, e
<1> HIDE DEF code
<1>6. CASE ~(code # <<>> /\ Last(code) = ";")
  BY <1>1, <1>3, <1>4, <1>5, <1>6
<1>7. CASE code # <<>> /\ Last(code) = ";"
  <2> DEFINE f == Front(code)
             l == SparkReads(f)
             next == SparkReads(code)
  <2>1. /\ f \in Seq(Tokens) /\ ";" \in Tokens /\ code = Append(f, ";")
        /\ \A i \in DOMAIN f : i \in DOMAIN code /\ f[i] = code[i]
    BY <1>4, <1>7, LastOfText
  <2> HIDE DEF f
  <2>2. l.plain /\ PlainStep(l, ";", next)
    BY <1>4, <2>1, PlainTextGoesOn
  <2>3. l \in LexStates
    BY <2>1, SparkReadsStepwise
  <2>4. l.mode \in Quotes \cup {"", "--", "/*"}
    BY <2>3 DEF LexStates
  <2>5. l.statements \in Seq(Seq(Tokens)) /\ l.current \in Seq(Tokens)
    BY <2>3 DEF LexStates
  <2>6. Append(l.statements, l.current) # <<>>
    BY <2>5, AppendIsSomething
  <2> HIDE DEF l, next
  <2>7. l.mode # ""
    BY <1>4, <2>2, <2>6 DEF PlainStep, next
  <2>8. next.mode \in {"", "--"}
    BY <1>4 DEF Closed, next
  <2>9. l.mode = "--"
    BY <2>2, <2>4, <2>7, <2>8 DEF PlainStep, SparkMode, Quotes
  <2>10. next.kept = l.kept
    BY <2>2, <2>9 DEF PlainStep, Silent
  <2>11. Bracketless(f)
    BY <1>3, <2>1 DEF Bracketless
  <2> QED
    BY <1>1, <1>4, <1>5, <1>7, <2>1, <2>2, <2>10, <2>11 DEF f, l, next
<1> QED
  BY <1>6, <1>7

-----------------------------------------------------------------------------
(* Lists of texts *)

Kepts(texts) == [i \in DOMAIN texts |-> SparkReads(texts[i]).kept]
Runs(texts) == [i \in DOMAIN texts |-> RunSQL(texts[i])]
Plains == {t \in Seq(Tokens) : SparkReads(t).plain}
Pieces == {t \in Plains : Piece(t)}
Codes == {t \in Plains : Bracketless(t)}

\* Leaving out texts leaves a list of the same kind.
LEMMA NonBlankStays ==
    ASSUME NEW S \in SUBSET Texts
    PROVE  \A texts \in Seq(S) : NonBlank(texts) \in Seq(S)
<1> DEFINE P == {texts \in Seq(S) : NonBlank(texts) \in Seq(S)}
<1>0. Seq(S) \subseteq Seq(Texts)
  OBVIOUS
<1>1. <<>> \in P
  <2>1. <<>> \in Seq(S)
    OBVIOUS
  <2> QED
    BY <2>1, NonBlankStepwise
<1>2. ASSUME NEW texts \in Seq(S), NEW t \in S, texts \in P PROVE Append(texts, t) \in P
  <2>1. NonBlank(texts) \in Seq(S)
    BY <1>2
  <2>2. texts \in Seq(Texts) /\ t \in Texts
    BY <1>0
  <2>3. NonBlank(Append(texts, t)) = Keep(NonBlank(texts), t)
    BY <2>2, NonBlankStepwise
  <2>4. Append(NonBlank(texts), t) \in Seq(S) /\ Append(texts, t) \in Seq(S)
    BY <2>1
  <2>5. Keep(NonBlank(texts), t) \in Seq(S)
    BY <2>1, <2>4 DEF Keep
  <2> QED
    BY <2>3, <2>4, <2>5
<1> HIDE DEF P
<1>3. Seq(S) \subseteq P
  BY <1>1, <1>2, SeqSets
<1> QED
  BY <1>3 DEF P

\* A blank plain text says nothing.
LEMMA BlankSaysNothing ==
    ASSUME NEW t \in Plains, Blank(t)
    PROVE  SparkReads(t).kept = <<>>
<1>1. Said(t) = {}
  BY DEF Said, Blank
<1>2. t \in Seq(Tokens) /\ SparkReads(t).plain
  BY DEF Plains
<1> QED
  BY <1>1, <1>2, BegunTexts DEF BegunAgrees

\* What the texts of a list say is a list of texts.
LEMMA KeptsTyped ==
    ASSUME NEW texts \in Seq(Texts)
    PROVE  Kepts(texts) \in Seq(Texts)
<1>1. \A t \in Texts : SparkReads(t).kept \in Texts
  BY SparkReadsStepwise DEF Texts, LexStates
<1>2. PICK n \in Nat : DOMAIN texts = 1..n
  OBVIOUS
<1>3. \A i \in 1..n : texts[i] \in Texts
  BY <1>2
<1>4. Kepts(texts) \in [1..n -> Texts]
  BY <1>1, <1>2, <1>3 DEF Kepts
<1> QED
  BY <1>4

\* What a longer list says.
LEMMA KeptsGrow ==
    ASSUME NEW texts \in Seq(Texts), NEW t \in Texts
    PROVE  Kepts(Append(texts, t)) = Append(Kepts(texts), SparkReads(t).kept)
<1> DEFINE u == Append(texts, t)
           k == Kepts(texts)
           ku == Kepts(u)
           kt == SparkReads(t).kept
<1>1. PICK n \in Nat : n = Len(texts)
  OBVIOUS
<1>2. /\ DOMAIN texts = 1..n /\ DOMAIN u = 1..(n + 1) /\ u \in Seq(Texts)
      /\ u[n + 1] = t /\ \A i \in 1..n : u[i] = texts[i]
  BY <1>1
<1>3. k \in Seq(Texts) /\ ku \in Seq(Texts) /\ kt \in Texts
  BY <1>2, KeptsTyped, SparkReadsStepwise DEF Texts, LexStates
<1>4. DOMAIN k = 1..n /\ DOMAIN ku = 1..(n + 1)
  BY <1>2 DEF Kepts
<1>5. \A i \in 1..n : k[i] = SparkReads(texts[i]).kept
  BY <1>2 DEF Kepts
<1>6. \A i \in 1..(n + 1) : ku[i] = SparkReads(u[i]).kept
  BY <1>2 DEF Kepts
<1>7. \A i \in 1..n : i \in 1..(n + 1)
  OBVIOUS
<1>8. n + 1 \in 1..(n + 1)
  OBVIOUS
<1>9. ku[n + 1] = kt /\ \A i \in 1..n : ku[i] = k[i]
  BY <1>2, <1>5, <1>6, <1>7, <1>8
<1> HIDE DEF u, k, ku, kt
<1>10. Len(k) = n /\ Len(ku) = n + 1
  BY <1>3, <1>4
<1>11. ku = Append(k, kt)
  <2> DEFINE a == Append(k, kt)
  <2>1. /\ a \in Seq(Texts) /\ Len(a) = n + 1
        /\ a[n + 1] = kt /\ \A i \in 1..n : a[i] = k[i]
    BY <1>3, <1>10
  <2> HIDE DEF a
  <2>2. \A i \in 1..(n + 1) : i = n + 1 \/ i \in 1..n
    OBVIOUS
  <2>3. \A i \in 1..(n + 1) : a[i] = ku[i]
    BY <1>9, <2>1, <2>2
  <2>4. a = ku
    BY <1>3, <1>10, <2>1, <2>3
  <2> QED
    BY <2>4 DEF a
<1> QED
  BY <1>11 DEF u, k, ku, kt

\* Leaving out blank texts leaves out nothing that is said.
SaysTheSame(texts) == NonBlank(Kepts(NonBlank(texts))) = NonBlank(Kepts(texts))

\* Leaving out the blank texts of a list, for every list.
LEMMA BlanksSayNothing == \A texts \in Seq(Plains) : SaysTheSame(texts)
<1> DEFINE P == {texts \in Seq(Plains) : SaysTheSame(texts)}
<1>0. Plains \in SUBSET Texts /\ Seq(Plains) \subseteq Seq(Texts)
  BY DEF Plains, Texts
<1>1. <<>> \in P
  <2>1. <<>> \in Seq(Plains)
    OBVIOUS
  <2>2. NonBlank(<<>>) = <<>>
    BY NonBlankStepwise
  <2>3. SaysTheSame(<<>>)
    BY <2>2 DEF SaysTheSame
  <2> QED
    BY <2>1, <2>3
<1>2. ASSUME NEW texts \in Seq(Plains), NEW t \in Plains, texts \in P
      PROVE  Append(texts, t) \in P
  <2> DEFINE left == NonBlank(texts)
             kt == SparkReads(t).kept
  <2>1. NonBlank(Kepts(left)) = NonBlank(Kepts(texts))
    BY <1>2 DEF SaysTheSame
  <2>2. texts \in Seq(Texts) /\ t \in Texts /\ Append(texts, t) \in Seq(Plains)
    BY <1>0
  <2>3. left \in Seq(Texts)
    BY <1>0, <2>2, NonBlankStays
  <2>4. kt \in Texts /\ Kepts(left) \in Seq(Texts) /\ Kepts(texts) \in Seq(Texts)
    BY <2>2, <2>3, KeptsTyped, SparkReadsStepwise DEF Texts, LexStates
  <2>5. NonBlank(Append(texts, t)) = Keep(left, t)
    BY <2>2, NonBlankStepwise
  <2>6. Kepts(Append(texts, t)) = Append(Kepts(texts), kt)
    BY <2>2, KeptsGrow
  <2>7. Kepts(Append(left, t)) = Append(Kepts(left), kt)
    BY <2>2, <2>3, KeptsGrow
  <2>8. /\ NonBlank(Append(Kepts(texts), kt)) = Keep(NonBlank(Kepts(texts)), kt)
        /\ NonBlank(Append(Kepts(left), kt)) = Keep(NonBlank(Kepts(left)), kt)
    BY <2>4, NonBlankStepwise
  <2>9. CASE Blank(t)
    <3>1. kt = <<>>
      BY <2>9, BlankSaysNothing
    <3>2. Blank(kt)
      BY <3>1 DEF Blank
    <3>3. Keep(left, t) = left /\ Keep(NonBlank(Kepts(texts)), kt) = NonBlank(Kepts(texts))
      BY <2>9, <3>2 DEF Keep
    <3>4. SaysTheSame(Append(texts, t))
      BY <2>1, <2>5, <2>6, <2>8, <3>3 DEF SaysTheSame
    <3> QED
      BY <2>2, <3>4
  <2>10. CASE ~Blank(t)
    <3>1. Keep(left, t) = Append(left, t)
      BY <2>10 DEF Keep
    <3>2. SaysTheSame(Append(texts, t))
      BY <2>1, <2>5, <2>6, <2>7, <2>8, <3>1 DEF SaysTheSame
    <3> QED
      BY <2>2, <3>2
  <2> QED
    BY <2>9, <2>10
<1> HIDE DEF P
<1>3. Seq(Plains) \subseteq P
  BY <1>1, <1>2, SeqSets
<1> QED
  BY <1>3 DEF P

\* RunQueryWithoutResult, on the pieces of a script.
LEMMA RunsSayTheSame ==
    ASSUME NEW texts \in Seq(Pieces)
    PROVE  /\ Runs(texts) \in Seq(Codes)
           /\ Kepts(Runs(texts)) = Kepts(texts)
<1>1. PICK n \in Nat : DOMAIN texts = 1..n
  OBVIOUS
<1>2. \A i \in 1..n : texts[i] \in Pieces
  BY <1>1
<1>3. \A i \in 1..n : /\ RunSQL(texts[i]) \in Codes
                      /\ SparkReads(RunSQL(texts[i])).kept = SparkReads(texts[i]).kept
  BY <1>2, RunSQLKeeps DEF Pieces, Codes, Plains
<1>4. Runs(texts) = [i \in 1..n |-> RunSQL(texts[i])]
  BY <1>1 DEF Runs
<1>5. Runs(texts) \in [1..n -> Codes]
  BY <1>3, <1>4
<1>6. Kepts(Runs(texts)) = [i \in 1..n |-> SparkReads(RunSQL(texts[i])).kept]
  BY <1>4 DEF Kepts
<1>7. Kepts(texts) = [i \in 1..n |-> SparkReads(texts[i]).kept]
  BY <1>1 DEF Kepts
<1>8. Kepts(Runs(texts)) = Kepts(texts)
  BY <1>3, <1>6, <1>7
<1> QED
  BY <1>5, <1>8

\* RunQueryWithoutResult says what the pieces say, without brackets.
LEMMA SubmittedCodes ==
    ASSUME NEW texts \in Seq(Pieces)
    PROVE  /\ NonBlank(Runs(NonBlank(texts))) \in Seq(Codes)
           /\ NonBlank(Kepts(NonBlank(Runs(NonBlank(texts))))) = NonBlank(Kepts(texts))
<1> DEFINE left == NonBlank(texts)
<1>1. /\ Pieces \in SUBSET Texts /\ Codes \in SUBSET Texts
      /\ Seq(Pieces) \subseteq Seq(Plains) /\ Seq(Codes) \subseteq Seq(Plains)
  <2>1. Pieces \subseteq Plains /\ Codes \subseteq Plains /\ Plains \subseteq Texts
    BY DEF Pieces, Codes, Plains, Texts
  <2> QED
    BY <2>1
<1>2. left \in Seq(Pieces)
  BY <1>1, NonBlankStays
<1>3. Runs(left) \in Seq(Codes) /\ Kepts(Runs(left)) = Kepts(left)
  BY <1>2, RunsSayTheSame
<1>4. NonBlank(Runs(left)) \in Seq(Codes)
  BY <1>1, <1>3, NonBlankStays
<1>5. NonBlank(Kepts(NonBlank(Runs(left)))) = NonBlank(Kepts(Runs(left)))
  BY <1>1, <1>3, BlanksSayNothing DEF SaysTheSame
<1>6. NonBlank(Kepts(left)) = NonBlank(Kepts(texts))
  BY <1>1, BlanksSayNothing DEF SaysTheSame
<1> QED
  BY <1>3, <1>4, <1>5, <1>6

-----------------------------------------------------------------------------
(* What becomes of a script *)

\* The statements that Spark finds in a plain script, and the one it is in.
FoundPieces(s) ==
    s.plain =>
        /\ s.statements \in Seq(Pieces)
        /\ s.current \in Seq(Tokens)
        /\ SparkReads(s.current).plain
        /\ SparkReads(s.current).statements = <<>>
        /\ SparkReads(s.current).mode = s.mode

\* The statements found after one more token.
LEMMA FoundPiecesStep ==
    ASSUME NEW t \in Seq(Tokens), NEW c \in Tokens, FoundPieces(SparkReads(t))
    PROVE  FoundPieces(SparkReads(Append(t, c)))
<1> DEFINE s == SparkReads(t)
           next == SparkReads(Append(t, c))
           p == s.current
<1> SUFFICES ASSUME next.plain
             PROVE  /\ next.statements \in Seq(Pieces)
                    /\ next.current \in Seq(Tokens)
                    /\ SparkReads(next.current).plain
                    /\ SparkReads(next.current).statements = <<>>
                    /\ SparkReads(next.current).mode = next.mode
  BY DEF FoundPieces
<1>1. s.plain /\ ~Misread(s.mode, c) /\ PlainStep(s, c, next)
  BY PlainTextGoesOn
<1>2. /\ s.statements \in Seq(Pieces) /\ p \in Seq(Tokens)
      /\ SparkReads(p).plain /\ SparkReads(p).statements = <<>> /\ SparkReads(p).mode = s.mode
  BY <1>1 DEF FoundPieces
<1> HIDE DEF s, next
<1>3. CASE s.mode = "" /\ c = ";"
  <2>1. next.statements = Append(s.statements, p) /\ next.current = <<>> /\ next.mode = ""
    BY <1>1, <1>3 DEF PlainStep, SparkMode, Quotes
  <2> HIDE DEF p
  <2>2. p \in Pieces
    BY <1>2, <1>3 DEF Pieces, Plains, Piece
  <2>3. Append(s.statements, p) \in Seq(Pieces) /\ <<>> \in Seq(Tokens)
    BY <1>2, <2>2
  <2>4. SparkReads(<<>>).plain /\ SparkReads(<<>>).statements = <<>> /\ SparkReads(<<>>).mode = ""
    <3>1. NothingRead.plain
      BY DEF NothingRead
    <3>2. NothingRead.statements = <<>> /\ NothingRead.mode = ""
      BY DEF NothingRead
    <3> QED
      BY <3>1, <3>2, SparkReadsStepwise
  <2> QED
    BY <2>1, <2>3, <2>4
<1>4. CASE ~(s.mode = "" /\ c = ";")
  <2>1. next.statements = s.statements /\ next.current = Append(p, c) /\ next.mode = SparkMode(s.mode, c)
    BY <1>1, <1>4 DEF PlainStep
  <2> HIDE DEF p
  <2>2. ~Misread(SparkReads(p).mode, c)
    BY <1>1, <1>2
  <2>3. PlainStep(SparkReads(p), c, SparkReads(Append(p, c)))
    BY <1>2, <2>2, PlainTextExtends
  <2>4. /\ SparkReads(Append(p, c)).plain /\ SparkReads(Append(p, c)).statements = <<>>
        /\ SparkReads(Append(p, c)).mode = SparkMode(s.mode, c)
    BY <1>2, <1>4, <2>3 DEF PlainStep, PlainState
  <2>5. Append(p, c) \in Seq(Tokens)
    BY <1>2
  <2> QED
    BY <1>2, <2>1, <2>4, <2>5
<1> QED
  BY <1>3, <1>4

\* What Spark finds in a plain script are pieces.
LEMMA ScriptsArePieces == \A t \in Seq(Tokens) : FoundPieces(SparkReads(t))
<1> DEFINE S == {t \in Seq(Tokens) : FoundPieces(SparkReads(t))}
<1>1. <<>> \in S
  <2>1. <<>> \in Seq(Tokens) /\ <<>> \in Seq(Pieces)
    OBVIOUS
  <2>2. /\ NothingRead.statements = <<>> /\ NothingRead.current = <<>> /\ NothingRead.mode = ""
    BY DEF NothingRead
  <2>3. NothingRead.plain
    BY DEF NothingRead
  <2>4. FoundPieces(SparkReads(<<>>))
    BY <2>1, <2>2, <2>3, SparkReadsStepwise DEF FoundPieces
  <2> QED
    BY <2>1, <2>4
<1>2. ASSUME NEW t \in Seq(Tokens), NEW c \in Tokens, t \in S PROVE Append(t, c) \in S
  BY <1>2, FoundPiecesStep
<1> HIDE DEF S
<1>3. Seq(Tokens) \subseteq S
  BY <1>1, <1>2, SeqSets
<1> QED
  BY <1>3 DEF S

\* Scanner and lexer are where the script that was read takes them.
InStep ==
    /\ script \in Seq(Tokens)
    /\ go = Scanned(script)
    /\ spark = SparkReads(script)

\* The variables hold what the functions compute.
LEMMA AlwaysInStep == TextSpec => []InStep
<1>1. TextInit => InStep
  <2>1. <<>> \in Seq(Tokens)
    OBVIOUS
  <2> QED
    BY <2>1, ScannedStepwise, SparkReadsStepwise DEF TextInit, InStep
<1>2. InStep /\ [TextNext]_textVars => InStep'
  <2> SUFFICES ASSUME InStep, [TextNext]_textVars PROVE InStep'
    OBVIOUS
  <2>1. CASE NewCell
    BY <2>1 DEF NewCell, InStep
  <2>2. ASSUME NEW c \in Tokens, Read(c) PROVE InStep'
    <3>1. Append(script, c) \in Seq(Tokens)
      BY DEF InStep
    <3> QED
      BY <2>2, <3>1, ScannedStepwise, SparkReadsStepwise DEF Read, InStep
  <2>3. ASSUME NEW c \in Tokens, Extend(c) PROVE InStep'
    BY <2>3 DEF Extend, InStep
  <2>4. CASE UNCHANGED textVars
    BY <2>4 DEF textVars, InStep
  <2> QED
    BY <2>1, <2>2, <2>3, <2>4 DEF TextNext
<1> QED
  BY <1>1, <1>2, PTL DEF TextSpec

\* SubmittedAsWritten, from the lemmas on pieces.
LEMMA SubmittedInStep ==
    ASSUME InStep, SplitsWhereStatementsEnd
    PROVE  SubmittedAsWritten
<1> DEFINE texts == Append(spark.statements, spark.current)
           codes == RunQueryWithoutResult(script)
<1> SUFFICES ASSUME spark.plain, spark.mode \in {"", "--"}
             PROVE  /\ NonBlank(Kepts(codes)) = NonBlank(Kepts(texts))
                    /\ \A i \in DOMAIN codes : "/*" \notin Range(codes[i])
  BY DEF SubmittedAsWritten, Kepts
<1>1. texts \in Seq(Pieces)
  <2>1. /\ spark.statements \in Seq(Pieces) /\ spark.current \in Seq(Tokens)
        /\ SparkReads(spark.current).plain /\ SparkReads(spark.current).statements = <<>>
        /\ SparkReads(spark.current).mode = spark.mode
    BY ScriptsArePieces DEF InStep, FoundPieces
  <2>2. spark.current \in Pieces
    BY <2>1 DEF Pieces, Plains, Piece
  <2>3. spark.statements \in Seq(Pieces)
    BY <2>1
  <2> QED
    BY <2>2, <2>3, AppendStays
<1>2. codes = NonBlank(Runs(NonBlank(texts)))
  <2>1. SplitStatements(script) = NonBlank(Append(go.statements, go.current))
    BY DEF SplitStatements, Scanned, InStep
  <2>2. Append(go.statements, go.current) = texts
    BY DEF SplitsWhereStatementsEnd
  <2> QED
    BY <2>1, <2>2 DEF RunQueryWithoutResult, Runs
<1>3. codes \in Seq(Codes) /\ NonBlank(Kepts(codes)) = NonBlank(Kepts(texts))
  BY <1>1, <1>2, SubmittedCodes
<1> HIDE DEF codes, texts
<1>4. \A i \in DOMAIN codes : codes[i] \in Codes
  BY <1>3, MembersAreTyped
<1>5. \A i \in DOMAIN codes : "/*" \notin Range(codes[i])
  BY <1>4 DEF Codes, Bracketless, Range
<1> QED
  BY <1>3, <1>5

\* Nothing of a plain script is lost on its way through splitStatements
\* (db.go:490) and runSQL (db.go:341), and no block comment is submitted.
THEOREM ScriptsAreSubmitted == TextSpec => []SubmittedAsWritten
BY AlwaysInStep, SplitsAreStatements, SubmittedInStep, PTL

-----------------------------------------------------------------------------
(* Concatenations *)

\* What FlattenSeq computes: every prefix's concatenation, from the one before.
FlatUpTo(g, n, texts) ==
    \A i \in 1..n : g[i] = IF i = 1 THEN texts[i] ELSE g[i - 1] \o texts[i]

FlatAt(g, texts) == FlatUpTo(g, Len(texts), texts)

IsFlat(g, texts) ==
    g = [i \in 1..Len(texts) |-> IF i = 1 THEN texts[i] ELSE g[i - 1] \o texts[i]]

FlatExists(texts) == \E g \in [1..Len(texts) -> Texts] : FlatAt(g, texts)

\* There is such a function for every list.
LEMMA FlatsExist == \A texts \in Seq(Texts) : FlatExists(texts)
<1> DEFINE S == {texts \in Seq(Texts) : FlatExists(texts)}
<1>1. <<>> \in S
  <2>1. Len(<<>>) = 0 /\ 1..0 = {} /\ <<>> \in Seq(Texts)
    OBVIOUS
  <2> DEFINE g == [i \in 1..Len(<<>>) |-> <<>>]
  <2>2. g \in [1..Len(<<>>) -> Texts] /\ FlatAt(g, <<>>)
    BY <2>1 DEF FlatAt, FlatUpTo
  <2>3. FlatExists(<<>>)
    BY <2>2 DEF FlatExists
  <2> QED
    BY <2>1, <2>3
<1>2. ASSUME NEW texts \in Seq(Texts), NEW t \in Texts, texts \in S
      PROVE  Append(texts, t) \in S
  <2> DEFINE u == Append(texts, t)
  <2>1. PICK n \in Nat : n = Len(texts)
    OBVIOUS
  <2>2. /\ u \in Seq(Texts) /\ Len(u) = n + 1 /\ u[n + 1] = t
        /\ \A i \in 1..n : u[i] = texts[i] /\ texts[i] \in Texts
    BY <2>1
  <2>3. PICK g \in [1..n -> Texts] : FlatAt(g, texts)
    BY <1>2, <2>1 DEF FlatExists
  <2> HIDE DEF u
  <2> DEFINE h == [i \in 1..(n + 1) |-> IF i = n + 1 THEN IF n = 0 THEN t ELSE g[n] \o t ELSE g[i]]
  <2>4. n # 0 => g[n] \in Texts /\ g[n] \o t \in Texts
    <3> SUFFICES ASSUME n # 0 PROVE g[n] \in Texts /\ g[n] \o t \in Texts
      OBVIOUS
    <3>1. n \in 1..n
      OBVIOUS
    <3>2. g[n] \in Texts
      BY <3>1
    <3> QED
      BY <3>2 DEF Texts
  <2>5. \A i \in 1..(n + 1) : i # n + 1 => i \in 1..n /\ g[i] \in Texts
    OBVIOUS
  <2>6. h \in [1..(n + 1) -> Texts]
    BY <2>4, <2>5
  <2>7. \A i \in 1..n : g[i] = IF i = 1 THEN texts[i] ELSE g[i - 1] \o texts[i]
    BY <2>1, <2>3 DEF FlatAt, FlatUpTo
  <2>8. ASSUME NEW i \in 1..(n + 1)
        PROVE  h[i] = IF i = 1 THEN u[i] ELSE h[i - 1] \o u[i]
    <3>1. CASE i = n + 1 /\ n = 0
      BY <2>2, <3>1
    <3>2. CASE i = n + 1 /\ n # 0
      <4>1. i - 1 = n /\ n \in 1..(n + 1) /\ n # n + 1 /\ i # 1
        BY <3>2
      <4>2. h[n] = g[n] /\ h[i] = g[n] \o t
        BY <3>2, <4>1
      <4> QED
        BY <2>2, <3>2, <4>1, <4>2
    <3>3. CASE i # n + 1
      <4>1. i \in 1..n /\ h[i] = g[i]
        BY <3>3
      <4>2. CASE i = 1
        BY <2>2, <2>7, <4>1, <4>2
      <4>3. CASE i # 1
        <5>1. i - 1 \in 1..(n + 1) /\ i - 1 # n + 1
          BY <4>1, <4>3
        <5>2. h[i - 1] = g[i - 1]
          BY <5>1
        <5> QED
          BY <2>2, <2>7, <4>1, <4>3, <5>2
      <4> QED
        BY <4>2, <4>3
    <3> QED
      BY <3>1, <3>2, <3>3
  <2> HIDE DEF h
  <2>9. FlatExists(u)
    BY <2>2, <2>6, <2>8 DEF FlatExists, FlatAt, FlatUpTo
  <2> QED
    BY <2>2, <2>9 DEF u
<1> HIDE DEF S
<1>3. Seq(Texts) \subseteq S
  BY <1>1, <1>2, SeqSets
<1> QED
  BY <1>3 DEF S

\* It is the only one.
LEMMA FlatsAreUnique ==
    ASSUME NEW texts \in Seq(Texts), NEW g, NEW h,
           NEW n \in Nat, FlatUpTo(g, n, texts), FlatUpTo(h, n, texts)
    PROVE  \A i \in 1..n : g[i] = h[i]
<1>0. /\ \A i \in 1..n : g[i] = IF i = 1 THEN texts[i] ELSE g[i - 1] \o texts[i]
      /\ \A i \in 1..n : h[i] = IF i = 1 THEN texts[i] ELSE h[i - 1] \o texts[i]
  BY DEF FlatUpTo
<1> DEFINE S == {k \in Nat : k \in 1..n => g[k] = h[k]}
<1>1. 0 \in S
  OBVIOUS
<1>2. ASSUME NEW k \in Nat, k \in S PROVE k + 1 \in S
  <2> SUFFICES ASSUME k + 1 \in 1..n PROVE g[k + 1] = h[k + 1]
    OBVIOUS
  <2>1. CASE k = 0
    BY <1>0, <2>1
  <2>2. CASE k # 0
    <3>1. k \in 1..n /\ k + 1 # 1 /\ (k + 1) - 1 = k
      BY <2>2
    <3>2. g[k] = h[k]
      BY <1>2, <3>1
    <3>3. g[k + 1] = g[k] \o texts[k + 1] /\ h[k + 1] = h[k] \o texts[k + 1]
      BY <1>0, <3>1
    <3> QED
      BY <3>2, <3>3
  <2> QED
    BY <2>1, <2>2
<1> HIDE DEF S
<1>3. Nat \subseteq S
  BY <1>1, <1>2, NatSets
<1> QED
  BY <1>3 DEF S

\* FlattenSeq takes its last value.
LEMMA FlattenIs ==
    ASSUME NEW texts \in Seq(Texts), texts # <<>>
    PROVE  \E g \in [1..Len(texts) -> Texts] :
              FlatAt(g, texts) /\ FlattenSeq(texts) = g[Len(texts)]
<1>1. PICK n \in Nat : n = Len(texts)
  OBVIOUS
<1>2. n # 0
  BY <1>1
<1>3. FlattenSeq(texts) = (CHOOSE g : IsFlat(g, texts))[n]
  BY <1>1, <1>2 DEF FlattenSeq, IsFlat
<1>4. PICK h \in [1..n -> Texts] : FlatAt(h, texts)
  BY <1>1, FlatsExist DEF FlatExists
<1>5. IsFlat(h, texts)
  <2>1. h = [i \in 1..n |-> h[i]]
    OBVIOUS
  <2>2. \A i \in 1..n : h[i] = IF i = 1 THEN texts[i] ELSE h[i - 1] \o texts[i]
    BY <1>1, <1>4 DEF FlatAt, FlatUpTo
  <2>3. [i \in 1..n |-> h[i]] = [i \in 1..n |-> IF i = 1 THEN texts[i] ELSE h[i - 1] \o texts[i]]
    BY <2>2
  <2> QED
    BY <1>1, <2>1, <2>3 DEF IsFlat
<1>6. PICK g : IsFlat(g, texts) /\ FlattenSeq(texts) = g[n]
  BY <1>3, <1>5
<1>7. \A i \in 1..n : g[i] = IF i = 1 THEN texts[i] ELSE g[i - 1] \o texts[i]
  BY <1>1, <1>6 DEF IsFlat
<1>8. g[n] = h[n]
  <2>1. n \in 1..n
    BY <1>2
  <2>2. FlatUpTo(h, n, texts) /\ FlatUpTo(g, n, texts)
    BY <1>1, <1>4, <1>7 DEF FlatAt, FlatUpTo
  <2>3. \A i \in 1..n : g[i] = h[i]
    BY <2>2, FlatsAreUnique
  <2> QED
    BY <2>1, <2>3
<1> QED
  BY <1>1, <1>4, <1>6, <1>8

\* The concatenation of a longer list.
LEMMA FlattenStepwise ==
    /\ FlattenSeq(<<>>) = <<>>
    /\ \A texts \in Seq(Texts) : FlattenSeq(texts) \in Texts
    /\ \A texts \in Seq(Texts), t \in Texts :
          FlattenSeq(Append(texts, t)) = FlattenSeq(texts) \o t
<1>1. FlattenSeq(<<>>) = <<>>
  BY DEF FlattenSeq
<1>2. ASSUME NEW texts \in Seq(Texts) PROVE FlattenSeq(texts) \in Texts
  <2>1. CASE texts = <<>>
    <3>1. <<>> \in Texts
      BY DEF Texts
    <3> QED
      BY <1>1, <2>1, <3>1, Zenon
  <2>2. CASE texts # <<>>
    <3>1. Len(texts) \in 1..Len(texts)
      BY <2>2
    <3> QED
      BY <2>2, <3>1, FlattenIs
  <2> QED
    BY <2>1, <2>2
<1>3. ASSUME NEW texts \in Seq(Texts), NEW t \in Texts
      PROVE  FlattenSeq(Append(texts, t)) = FlattenSeq(texts) \o t
  <2> DEFINE u == Append(texts, t)
  <2>1. PICK n \in Nat : n = Len(texts)
    OBVIOUS
  <2>2. u \in Seq(Texts) /\ Len(u) = n + 1 /\ u[n + 1] = t /\ \A i \in 1..n : u[i] = texts[i]
    BY <2>1
  <2>3. u # <<>>
    BY AppendIsSomething
  <2> HIDE DEF u
  <2>4. PICK g : /\ \A i \in 1..(n + 1) : g[i] = IF i = 1 THEN u[i] ELSE g[i - 1] \o u[i]
                 /\ FlattenSeq(u) = g[n + 1]
    BY <2>2, <2>3, FlattenIs DEF FlatAt, FlatUpTo
  <2>4a. n + 1 \in 1..(n + 1) /\ (n + 1) - 1 = n
    OBVIOUS
  <2>5. CASE n = 0
    <3>1. texts = <<>>
      BY <2>1, <2>5, NoLength
    <3>2. FlattenSeq(texts) = <<>> /\ <<>> \o t = t
      BY <1>1, <3>1 DEF Texts
    <3>3. g[n + 1] = t
      BY <2>2, <2>4, <2>4a, <2>5
    <3> QED
      BY <2>4, <3>2, <3>3 DEF u
  <2>6. CASE n # 0
    <3>1. texts # <<>>
      BY <2>1, <2>6
    <3>2. PICK h : /\ \A i \in 1..n : h[i] = IF i = 1 THEN texts[i] ELSE h[i - 1] \o texts[i]
                   /\ FlattenSeq(texts) = h[n]
      BY <2>1, <3>1, FlattenIs DEF FlatAt, FlatUpTo
    <3>3. \A i \in 1..n : i \in 1..(n + 1)
      OBVIOUS
    <3>4. FlatUpTo(g, n, texts) /\ FlatUpTo(h, n, texts)
      BY <2>2, <2>4, <3>2, <3>3 DEF FlatUpTo
    <3>5. n \in 1..n
      BY <2>6
    <3>6. \A i \in 1..n : g[i] = h[i]
      BY <3>4, FlatsAreUnique
    <3>7. g[n + 1] = g[n] \o t
      <4>1. n + 1 # 1
        BY <2>6
      <4>2. g[n + 1] = g[(n + 1) - 1] \o u[n + 1]
        BY <2>4, <2>4a, <4>1
      <4> QED
        BY <2>2, <2>4a, <4>2
    <3> QED
      BY <2>4, <3>2, <3>5, <3>6, <3>7 DEF u
  <2> QED
    BY <2>5, <2>6
<1> QED
  BY <1>1, <1>2, <1>3

-----------------------------------------------------------------------------
(* The queries that hold values *)

\* A value in quotes, and the word after it.
Framed(a, e) == Append(Append(Append(a, "single") \o e, "single"), "x")

\* A literal and the word after it, token by token.
LEMMA FramedIs ==
    ASSUME NEW a \in Seq(Tokens), NEW e \in Seq(Tokens)
    PROVE  /\ Quoted(e) \o <<"x">> \in Seq(Tokens)
           /\ Framed(a, e) \in Seq(Tokens)
           /\ a \o (Quoted(e) \o <<"x">>) = Framed(a, e)
           /\ a \o Quoted(e) = Append(Append(a, "single") \o e, "single")
<1>1. PICK q \in Tokens : q = "single"
  BY TextNames
<1>2. PICK x \in Tokens : x = "x"
  BY TextNames
<1>3. PICK u \in Seq(Tokens) : u = <<q>>
  BY OneToken
<1>3a. u \o e \in Seq(Tokens)
  OBVIOUS
<1>4. PICK f \in Seq(Tokens) : f = u \o e
  BY <1>3a
<1>5. u \o e \o <<q>> = Append(f, q)
  BY <1>4, Concatenations
<1>6. Append(f, q) \o <<x>> = Append(Append(f, q), x) /\ Append(f, q) \in Seq(Tokens)
  BY Concatenations
<1>7. a \o Append(Append(f, q), x) = Append(Append(a \o f, q), x)
  BY <1>6, Concatenations
<1>8. a \o Append(f, q) = Append(a \o f, q)
  BY Concatenations
<1>9. a \o f = Append(a, q) \o e
  <2>1. a \o f = (a \o u) \o e
    BY <1>4, Associates
  <2>2. a \o u = Append(a, q)
    BY <1>3, Concatenations
  <2> QED
    BY <2>1, <2>2
<1>10. Quoted(e) = Append(f, q) /\ Framed(a, e) = Append(Append(a \o f, q), x)
  BY <1>1, <1>2, <1>3, <1>5, <1>9 DEF Quoted, Framed
<1>11. a \o f \in Seq(Tokens) /\ Append(Append(f, q), x) \in Seq(Tokens)
  OBVIOUS
<1>12. Append(Append(a \o f, q), x) \in Seq(Tokens)
  BY <1>11
<1> QED
  BY <1>1, <1>2, <1>6, <1>7, <1>8, <1>9, <1>10, <1>11, <1>12

-----------------------------------------------------------------------------

\* What strings.ReplaceAll makes of a longer value.
LEMMA EscapeStepwise ==
    ASSUME NEW q \in Tokens
    PROVE  /\ Escape(<<>>, q) = <<>>
           /\ \A t \in Seq(Tokens) : Escape(t, q) \in Seq(Tokens)
           /\ \A t \in Seq(Tokens), c \in Tokens :
                 Escape(Append(t, c), q) = IF c = q THEN Append(Append(Escape(t, q), "backslash"), q)
                                           ELSE Append(Escape(t, q), c)
<1> DEFINE F == [c \in Tokens |-> IF c = q THEN <<"backslash", q>> ELSE <<c>>]
           map(t) == [i \in DOMAIN t |-> F[t[i]]]
<1>1. F \in [Tokens -> Texts]
  <2>1. "backslash" \in Tokens
    BY TextNames
  <2>2. \A c \in Tokens : (IF c = q THEN <<"backslash", q>> ELSE <<c>>) \in Texts
    BY <2>1, OneToken DEF Texts
  <2> QED
    BY <2>2
<1>2. \A c \in Tokens : F[c] = IF c = q THEN <<"backslash", q>> ELSE <<c>>
  OBVIOUS
<1> HIDE DEF F
<1>3. ASSUME NEW t \in Seq(Tokens) PROVE Escape(t, q) = FlattenSeq(map(t))
  <2>1. \A i \in DOMAIN t : t[i] \in Tokens
    OBVIOUS
  <2>2. map(t) = [i \in DOMAIN t |-> IF t[i] = q THEN <<"backslash", q>> ELSE <<t[i]>>]
    BY <1>2, <2>1
  <2> HIDE DEF map
  <2> QED
    BY <2>2 DEF Escape
<1>4. map(<<>>) = <<>>
  OBVIOUS
<1>5. ASSUME NEW t \in Seq(Tokens), NEW c \in Tokens
      PROVE  map(t) \in Seq(Texts) /\ map(Append(t, c)) = Append(map(t), F[c])
  BY <1>1, MapGrows
<1> HIDE DEF map
<1>6. ASSUME NEW t \in Seq(Tokens) PROVE Escape(t, q) \in Seq(Tokens)
  <2>1. map(t) \in Seq(Texts)
    BY <1>5
  <2> QED
    BY <1>3, <2>1, FlattenStepwise DEF Texts
<1>7. ASSUME NEW t \in Seq(Tokens), NEW c \in Tokens
      PROVE  Escape(Append(t, c), q) = IF c = q THEN Append(Append(Escape(t, q), "backslash"), q)
                                       ELSE Append(Escape(t, q), c)
  <2>1. Append(t, c) \in Seq(Tokens) /\ F[c] \in Texts
    BY <1>1
  <2>2. map(t) \in Seq(Texts) /\ map(Append(t, c)) = Append(map(t), F[c])
    BY <1>5
  <2>3. Escape(Append(t, c), q) = Escape(t, q) \o F[c]
    BY <1>3, <2>1, <2>2, FlattenStepwise
  <2>4. PICK e \in Seq(Tokens) : e = Escape(t, q)
    BY <1>6
  <2>5. e \o F[c] = IF c = q THEN Append(Append(e, "backslash"), q) ELSE Append(e, c)
    <3>1. PICK b \in Tokens : b = "backslash"
      BY TextNames
    <3>2. e \o <<b, q>> = Append(Append(e, b), q) /\ e \o <<c>> = Append(e, c)
      BY Concatenations
    <3>3. F[c] = IF c = q THEN <<b, q>> ELSE <<c>>
      BY <1>2, <3>1
    <3> QED
      BY <3>1, <3>2, <3>3
  <2> QED
    BY <2>3, <2>4, <2>5
<1>8. <<>> \in Seq(Tokens) /\ FlattenSeq(<<>>) = <<>>
  BY FlattenStepwise
<1>9. Escape(<<>>, q) = <<>>
  BY <1>3, <1>4, <1>8
<1> QED
  BY <1>6, <1>7, <1>9

\* The inside of a seed's literal.
SeedEscape(v) == Escape(Escape(v, "backslash"), "single")

\* What a seed makes of a longer value.
LEMMA SeedEscapeStepwise ==
    /\ SeedEscape(<<>>) = <<>>
    /\ \A t \in Seq(Tokens) : SeedEscape(t) \in Seq(Tokens)
    /\ \A t \in Seq(Tokens), c \in Tokens :
          SeedEscape(Append(t, c)) = IF c \in {"backslash", "single"}
                                     THEN Append(Append(SeedEscape(t), "backslash"), c)
                                     ELSE Append(SeedEscape(t), c)
<1>1. "backslash" \in Tokens /\ "single" \in Tokens
  BY TextNames
<1>2. SeedEscape(<<>>) = <<>>
  BY <1>1, EscapeStepwise DEF SeedEscape
<1>3. ASSUME NEW t \in Seq(Tokens)
      PROVE  Escape(t, "backslash") \in Seq(Tokens) /\ SeedEscape(t) \in Seq(Tokens)
  BY <1>1, EscapeStepwise DEF SeedEscape
<1>4. ASSUME NEW t \in Seq(Tokens), NEW c \in Tokens
      PROVE  SeedEscape(Append(t, c)) = IF c \in {"backslash", "single"}
                                        THEN Append(Append(SeedEscape(t), "backslash"), c)
                                        ELSE Append(SeedEscape(t), c)
  <2>1. PICK e \in Seq(Tokens) : e = Escape(t, "backslash")
    BY <1>3
  <2>2. Append(e, "backslash") \in Seq(Tokens)
    BY <1>1
  <2>3. \A d \in Tokens : Escape(Append(e, d), "single")
                             = IF d = "single" THEN Append(Append(Escape(e, "single"), "backslash"), d)
                               ELSE Append(Escape(e, "single"), d)
    BY <1>1, EscapeStepwise
  <2>4. Escape(Append(t, c), "backslash")
           = IF c = "backslash" THEN Append(Append(e, "backslash"), c) ELSE Append(e, c)
    BY <1>1, <2>1, EscapeStepwise
  <2>5. CASE c = "backslash"
    <3>1. Escape(Append(Append(e, "backslash"), c), "single")
             = Append(Escape(Append(e, "backslash"), "single"), c)
      BY <1>1, <2>2, <2>5, EscapeStepwise
    <3>2. Escape(Append(e, "backslash"), "single") = Append(Escape(e, "single"), "backslash")
      BY <1>1, <2>3
    <3> QED
      BY <2>1, <2>4, <2>5, <3>1, <3>2 DEF SeedEscape
  <2>6. CASE c # "backslash"
    <3>1. SeedEscape(Append(t, c)) = Escape(Append(e, c), "single") /\ SeedEscape(t) = Escape(e, "single")
      BY <2>1, <2>4, <2>6 DEF SeedEscape
    <3> QED
      BY <2>3, <2>6, <3>1
  <2> QED
    BY <2>5, <2>6
<1> QED
  BY <1>2, <1>3, <1>4

\* A query that holds a literal for each value, F[v] with the inside E[v].
Query(F, values) == <<"x">> \o FlattenSeq([i \in DOMAIN values |-> F[values[i]]])

\* The literals of a longer list.
LEMMA MappedTextsGrow ==
    ASSUME NEW F \in [Texts -> Texts], NEW values \in Seq(Texts), NEW v \in Texts
    PROVE  /\ [i \in DOMAIN values |-> F[values[i]]] \in Seq(Texts)
           /\ [i \in DOMAIN Append(values, v) |-> F[Append(values, v)[i]]]
                 = Append([i \in DOMAIN values |-> F[values[i]]], F[v])
BY MapGrows

\* A query with one more value.
LEMMA QueryStepwise ==
    ASSUME NEW E \in [Texts -> Texts], NEW F \in [Texts -> Texts],
           \A v \in Texts : F[v] = Quoted(E[v]) \o <<"x">>
    PROVE  /\ Query(F, <<>>) = <<"x">>
           /\ \A values \in Seq(Texts) : Query(F, values) \in Seq(Tokens)
           /\ \A values \in Seq(Texts), v \in Texts :
                 Query(F, Append(values, v)) = Framed(Query(F, values), E[v])
<1> DEFINE map(values) == [i \in DOMAIN values |-> F[values[i]]]
<1>1. PICK x \in Tokens : x = "x"
  BY TextNames
<1>2. PICK w \in Seq(Tokens) : w = <<x>>
  BY OneToken
<1>3. ASSUME NEW v \in Texts PROVE F[v] \in Seq(Tokens) /\ E[v] \in Seq(Tokens)
  BY DEF Texts
<1>4. \A values : Query(F, values) = w \o FlattenSeq(map(values))
  BY <1>1, <1>2 DEF Query
<1>5. map(<<>>) = <<>>
  OBVIOUS
<1>6. ASSUME NEW values \in Seq(Texts), NEW v \in Texts
      PROVE  map(values) \in Seq(Texts) /\ map(Append(values, v)) = Append(map(values), F[v])
  BY MappedTextsGrow
<1> HIDE DEF map
<1>7. ASSUME NEW values \in Seq(Texts)
      PROVE  FlattenSeq(map(values)) \in Seq(Tokens) /\ Query(F, values) \in Seq(Tokens)
  <2>1. <<>> \in Texts
    BY DEF Texts
  <2>2. map(values) \in Seq(Texts)
    BY <1>6, <2>1
  <2>3. PICK f \in Seq(Tokens) : f = FlattenSeq(map(values))
    BY <2>2, FlattenStepwise DEF Texts
  <2>4. w \o f \in Seq(Tokens)
    OBVIOUS
  <2> QED
    BY <1>4, <2>3, <2>4
<1>8. ASSUME NEW values \in Seq(Texts), NEW v \in Texts
      PROVE  Query(F, Append(values, v)) = Framed(Query(F, values), E[v])
  <2>1. PICK f \in Seq(Tokens) : f = FlattenSeq(map(values))
    BY <1>7
  <2>2. PICK p \in Seq(Tokens) : p = F[v]
    BY <1>3
  <2>3. FlattenSeq(map(Append(values, v))) = f \o p
    <3>1. map(values) \in Seq(Texts) /\ F[v] \in Texts
      BY <1>6
    <3> QED
      BY <1>6, <2>1, <2>2, <3>1, FlattenStepwise
  <2>4. w \o (f \o p) = (w \o f) \o p
    BY Associates
  <2>5. PICK q \in Seq(Tokens) : q = Query(F, values)
    BY <1>7
  <2>6. q = w \o f
    BY <1>4, <2>1, <2>5
  <2>7. q \o p = Framed(q, E[v])
    BY <1>3, <2>2, FramedIs
  <2> QED
    BY <1>4, <2>3, <2>4, <2>5, <2>6, <2>7
<1>9. Query(F, <<>>) = <<"x">>
  <2>1. w \o <<>> = w
    OBVIOUS
  <2> QED
    BY <1>1, <1>2, <1>4, <1>5, <2>1, FlattenStepwise
<1> QED
  BY <1>7, <1>8, <1>9

\* A seed's INSERT with one more value.
LEMMA SeedInsertStepwise ==
    /\ SeedInsert(<<>>) = <<"x">>
    /\ \A values \in Seq(Texts) : SeedInsert(values) \in Seq(Tokens)
    /\ \A values \in Seq(Texts), v \in Texts :
          SeedInsert(Append(values, v)) = Framed(SeedInsert(values), SeedEscape(v))
<1> DEFINE E == [v \in Texts |-> SeedEscape(v)]
           F == [v \in Texts |-> SeedValueLiteral(v) \o <<"x">>]
<1>1. \A v \in Texts : E[v] = SeedEscape(v) /\ F[v] = SeedValueLiteral(v) \o <<"x">>
  OBVIOUS
<1>2. \A v \in Texts : F[v] = Quoted(E[v]) \o <<"x">>
  BY <1>1 DEF SeedValueLiteral, SeedEscape
<1>3. \A v \in Texts : SeedEscape(v) \in Texts
  BY SeedEscapeStepwise DEF Texts
<1>4. E \in [Texts -> Texts]
  BY <1>3
<1>5. \A v \in Texts : SeedValueLiteral(v) \o <<"x">> \in Texts
  <2>1. \A e \in Texts, a \in Texts : Quoted(e) \o <<"x">> \in Texts
    BY FramedIs DEF Texts
  <2> QED
    BY <1>1, <1>2, <1>3, <2>1
<1>6. F \in [Texts -> Texts]
  BY <1>5
<1> HIDE DEF E, F
<1>7. ASSUME NEW values \in Seq(Texts) PROVE SeedInsert(values) = Query(F, values)
  <2>1. \A i \in DOMAIN values : values[i] \in Texts
    OBVIOUS
  <2>2. [i \in DOMAIN values |-> F[values[i]]]
           = [i \in DOMAIN values |-> SeedValueLiteral(values[i]) \o <<"x">>]
    BY <1>1, <2>1
  <2> QED
    BY <2>2 DEF SeedInsert, Query
<1>8. /\ Query(F, <<>>) = <<"x">>
      /\ \A values \in Seq(Texts) : Query(F, values) \in Seq(Tokens)
      /\ \A values \in Seq(Texts), v \in Texts :
            Query(F, Append(values, v)) = Framed(Query(F, values), E[v])
  BY <1>2, <1>4, <1>6, QueryStepwise
<1>9. <<>> \in Seq(Texts) /\ \A values \in Seq(Texts), v \in Texts : Append(values, v) \in Seq(Texts)
  OBVIOUS
<1> QED
  BY <1>1, <1>7, <1>8, <1>9

\* A check's query with one more value.
LEMMA CheckQueryStepwise ==
    /\ CheckQuery(<<>>) = <<"x">>
    /\ \A values \in Seq(Texts) : CheckQuery(values) \in Seq(Tokens)
    /\ \A values \in Seq(Texts), v \in Texts :
          CheckQuery(Append(values, v)) = Framed(CheckQuery(values), v)
<1> DEFINE E == [v \in Texts |-> v]
           F == [v \in Texts |-> Quoted(v) \o <<"x">>]
<1>1. \A v \in Texts : E[v] = v /\ F[v] = Quoted(v) \o <<"x">>
  OBVIOUS
<1>2. \A v \in Texts : F[v] = Quoted(E[v]) \o <<"x">>
  BY <1>1
<1>4. E \in [Texts -> Texts]
  OBVIOUS
<1>5. \A v \in Texts : Quoted(v) \o <<"x">> \in Texts
  BY FramedIs DEF Texts
<1>6. F \in [Texts -> Texts]
  BY <1>5
<1> HIDE DEF E, F
<1>7. ASSUME NEW values \in Seq(Texts) PROVE CheckQuery(values) = Query(F, values)
  <2>1. \A i \in DOMAIN values : values[i] \in Texts
    OBVIOUS
  <2>2. [i \in DOMAIN values |-> F[values[i]]]
           = [i \in DOMAIN values |-> Quoted(values[i]) \o <<"x">>]
    BY <1>1, <2>1
  <2> QED
    BY <2>2 DEF CheckQuery, Query
<1>8. /\ Query(F, <<>>) = <<"x">>
      /\ \A values \in Seq(Texts) : Query(F, values) \in Seq(Tokens)
      /\ \A values \in Seq(Texts), v \in Texts :
            Query(F, Append(values, v)) = Framed(Query(F, values), E[v])
  BY <1>2, <1>4, <1>6, QueryStepwise
<1>9. <<>> \in Seq(Texts) /\ \A values \in Seq(Texts), v \in Texts : Append(values, v) \in Seq(Texts)
  OBVIOUS
<1> QED
  BY <1>1, <1>7, <1>8, <1>9

-----------------------------------------------------------------------------
(* Comments in brackets *)

Opens(t) == \E i \in DOMAIN t : t[i] = "/*"
NoComment(t) == \A i, j \in DOMAIN t : i < j /\ t[i] = "/*" => t[j] # "*/"

\* A text with one more token.
LEMMA CommentsGrow ==
    ASSUME NEW t \in Seq(Tokens), NEW c \in Tokens
    PROVE  /\ Opens(Append(t, c)) <=> Opens(t) \/ c = "/*"
           /\ NoComment(Append(t, c)) <=> NoComment(t) /\ (c = "*/" => ~Opens(t))
<1>1. PICK n \in Nat : n = Len(t)
  OBVIOUS
<1>2. PICK u : u = Append(t, c)
  OBVIOUS
<1>3. /\ DOMAIN t = 1..n /\ DOMAIN u = 1..(n + 1)
      /\ u[n + 1] = c /\ \A i \in 1..n : u[i] = t[i]
  BY <1>1, <1>2
<1>4. /\ \A i \in 1..(n + 1) : i = n + 1 \/ i \in 1..n
      /\ \A i \in 1..n : i \in 1..(n + 1) /\ i < n + 1
      /\ n + 1 \in 1..(n + 1) /\ ~(n + 1 < n + 1)
      /\ \A i \in 1..n : ~(n + 1 < i)
  OBVIOUS
<1>5. Opens(u) <=> Opens(t) \/ c = "/*"
  BY <1>3, <1>4 DEF Opens
<1>6. ASSUME NoComment(u) PROVE NoComment(t) /\ (c = "*/" => ~Opens(t))
  BY <1>3, <1>4, <1>6 DEF NoComment, Opens
<1>7. ASSUME NoComment(t), c = "*/" => ~Opens(t) PROVE NoComment(u)
  <2> SUFFICES ASSUME NEW i \in 1..(n + 1), NEW j \in 1..(n + 1), i < j, u[i] = "/*", u[j] = "*/"
               PROVE  FALSE
    BY <1>3 DEF NoComment
  <2>1. i \in 1..n
    BY <1>4
  <2>2. CASE j = n + 1
    BY <1>3, <1>7, <2>1, <2>2 DEF Opens
  <2>3. CASE j # n + 1
    BY <1>3, <1>4, <1>7, <2>1, <2>3 DEF NoComment
  <2> QED
    BY <2>2, <2>3
<1> QED
  BY <1>2, <1>5, <1>6, <1>7

\* The empty text.
LEMMA NothingIsCommented == ~Opens(<<>>) /\ NoComment(<<>>)
BY DEF Opens, NoComment

-----------------------------------------------------------------------------
(* sanitizeSQL leaves no comment, and leaves a text without one alone. *)

Left(t) ==
    /\ ~Opens(Dropped(t).text)
    /\ \A i \in DOMAIN Dropped(t).comment : Dropped(t).comment[i] # "*/"

Untouched(t) ==
    NoComment(t) =>
        /\ Dropped(t).text \o Dropped(t).comment = t
        /\ Dropped(t).comment = <<>> <=> ~Opens(t)

\* One token at the sanitizer.
LEMMA DropCases ==
    ASSUME NEW t \in Seq(Tokens), NEW c \in Tokens, NEW d, d = Dropped(t), NEW e, e = Dropped(Append(t, c))
    PROVE  /\ d.text \in Seq(Tokens) /\ d.comment \in Seq(Tokens)
           /\ \/ /\ d.comment = <<>> /\ c = "/*"
                 /\ e.text = d.text /\ e.comment = <<c>>
              \/ /\ d.comment = <<>> /\ c # "/*"
                 /\ e.text = Append(d.text, c) /\ e.comment = <<>>
              \/ /\ d.comment # <<>> /\ c = "*/"
                 /\ e.text = Append(d.text, "newline") /\ e.comment = <<>>
              \/ /\ d.comment # <<>> /\ c # "*/"
                 /\ e.text = d.text /\ e.comment = Append(d.comment, c)
<1>1. d \in DropStates /\ e = Drop(d, c)
  BY DroppedStepwise
<1>2. d.text \in Seq(Tokens) /\ d.comment \in Seq(Tokens)
  BY <1>1 DEF DropStates
<1>3. CASE d.comment = <<>> /\ c = "/*"
  BY <1>1, <1>2, <1>3 DEF Drop, DropStates
<1>4. CASE d.comment = <<>> /\ c # "/*"
  BY <1>1, <1>2, <1>4 DEF Drop, DropStates
<1>5. CASE d.comment # <<>> /\ c = "*/"
  BY <1>1, <1>2, <1>5 DEF Drop, DropStates
<1>6. CASE d.comment # <<>> /\ c # "*/"
  BY <1>1, <1>2, <1>6 DEF Drop, DropStates
<1> QED
  BY <1>2, <1>3, <1>4, <1>5, <1>6

\* What the sanitizer leaves holds no opening bracket before a closing one.
LEMMA LeftTexts == \A t \in Seq(Tokens) : Left(t)
<1> DEFINE S == {t \in Seq(Tokens) : Left(t)}
<1>1. <<>> \in S
  <2>1. Dropped(<<>>).text = <<>> /\ Dropped(<<>>).comment = <<>> /\ DOMAIN <<>> = {}
    BY DroppedStepwise DEF NothingDropped
  <2>2. Left(<<>>)
    BY <2>1, NothingIsCommented DEF Left
  <2> QED
    BY <2>2
<1>2. ASSUME NEW t \in Seq(Tokens), NEW c \in Tokens, t \in S PROVE Append(t, c) \in S
  <2>1. PICK d : d = Dropped(t)
    OBVIOUS
  <2>2. PICK e : e = Dropped(Append(t, c))
    OBVIOUS
  <2>3. /\ d.text \in Seq(Tokens) /\ d.comment \in Seq(Tokens)
        /\ \/ /\ d.comment = <<>> /\ c = "/*"
              /\ e.text = d.text /\ e.comment = <<c>>
           \/ /\ d.comment = <<>> /\ c # "/*"
              /\ e.text = Append(d.text, c) /\ e.comment = <<>>
           \/ /\ d.comment # <<>> /\ c = "*/"
              /\ e.text = Append(d.text, "newline") /\ e.comment = <<>>
           \/ /\ d.comment # <<>> /\ c # "*/"
              /\ e.text = d.text /\ e.comment = Append(d.comment, c)
    BY <2>1, <2>2, DropCases
  <2>4. ~Opens(d.text) /\ \A i \in DOMAIN d.comment : d.comment[i] # "*/"
    BY <1>2, <2>1 DEF Left
  <2>5. "newline" \in Tokens
    BY TextNames
  <2>6. ~Opens(e.text)
    <3>1. \A x \in Tokens : x # "/*" => ~Opens(Append(d.text, x))
      BY <2>3, <2>4, CommentsGrow
    <3>2. CASE e.text = d.text
      BY <2>4, <3>2
    <3>3. CASE e.text # d.text
      BY <2>3, <2>5, <3>1, <3>3
    <3> QED
      BY <3>2, <3>3
  <2>7. \A i \in DOMAIN e.comment : e.comment[i] # "*/"
    <3>1. CASE e.comment = <<>>
      BY <3>1
    <3>2. CASE e.comment = <<c>> /\ c = "/*"
      BY <3>2
    <3>3. CASE e.comment = Append(d.comment, c) /\ c # "*/"
      <4>1. PICK b \in Seq(Tokens) : b = d.comment
        BY <2>3
      <4>2. \A i \in DOMAIN Append(b, c) :
                 (i \in DOMAIN b /\ Append(b, c)[i] = b[i]) \/ Append(b, c)[i] = c
        OBVIOUS
      <4> QED
        BY <2>4, <3>3, <4>1, <4>2
    <3> QED
      BY <2>3, <3>1, <3>2, <3>3
  <2>8. Left(Append(t, c))
    BY <2>2, <2>6, <2>7 DEF Left
  <2> QED
    BY <2>8
<1> HIDE DEF S
<1>3. Seq(Tokens) \subseteq S
  BY <1>1, <1>2, SeqSets
<1> QED
  BY <1>3 DEF S

\* After sanitizeSQL no comment is left.
LEMMA SanitizedHasNone ==
    ASSUME NEW t \in Seq(Tokens)
    PROVE  SanitizeSQL(t) \in Seq(Tokens) /\ NoComment(SanitizeSQL(t))
<1>0. Dropped(t) \in DropStates
  BY DroppedStepwise
<1>1. PICK a \in Seq(Tokens) : a = Dropped(t).text
  BY <1>0 DEF DropStates
<1>2. PICK b \in Seq(Tokens) : b = Dropped(t).comment
  BY <1>0 DEF DropStates
<1>3. SanitizeSQL(t) = a \o b
  BY <1>1, <1>2 DEF SanitizeSQL, Dropped
<1>4. (\A i \in DOMAIN a : a[i] # "/*") /\ (\A i \in DOMAIN b : b[i] # "*/")
  BY <1>1, <1>2, LeftTexts DEF Left, Opens
<1>4a. a \o b \in Seq(Tokens)
  OBVIOUS
<1>5. PICK u \in Seq(Tokens) : u = a \o b
  BY <1>4a
<1>6. PICK m \in Nat : m = Len(a)
  OBVIOUS
<1>7. \A i \in DOMAIN u : \/ i =< m /\ i \in DOMAIN a /\ u[i] = a[i]
                          \/ i > m /\ i - m \in DOMAIN b /\ u[i] = b[i - m]
  BY <1>5, <1>6
<1>8. NoComment(u)
  <2> SUFFICES ASSUME NEW i \in DOMAIN u, NEW j \in DOMAIN u, i < j, u[i] = "/*"
               PROVE  u[j] # "*/"
    BY DEF NoComment
  <2>1. i \in Int /\ j \in Int
    OBVIOUS
  <2>2. i > m
    BY <1>4, <1>7
  <2>3. j > m
    BY <2>1, <2>2
  <2>4. j - m \in DOMAIN b /\ u[j] = b[j - m]
    <3>1. ~(j =< m)
      BY <2>1, <2>3
    <3> QED
      BY <1>7, <3>1
  <2> QED
    BY <1>4, <2>4
<1> QED
  BY <1>3, <1>5, <1>8

\* A text without a comment is left as it is.
LEMMA UntouchedTexts == \A t \in Seq(Tokens) : Untouched(t)
<1> DEFINE S == {t \in Seq(Tokens) : Untouched(t)}
<1>1. <<>> \in S
  <2>1. Dropped(<<>>).text = <<>> /\ Dropped(<<>>).comment = <<>> /\ <<>> \o <<>> = <<>>
    BY DroppedStepwise DEF NothingDropped
  <2>2. Untouched(<<>>)
    BY <2>1, NothingIsCommented DEF Untouched
  <2> QED
    BY <2>2
<1>2. ASSUME NEW t \in Seq(Tokens), NEW c \in Tokens, t \in S PROVE Append(t, c) \in S
  <2>1. PICK d : d = Dropped(t)
    OBVIOUS
  <2>2. PICK e : e = Dropped(Append(t, c))
    OBVIOUS
  <2>3. /\ d.text \in Seq(Tokens) /\ d.comment \in Seq(Tokens)
        /\ \/ /\ d.comment = <<>> /\ c = "/*"
              /\ e.text = d.text /\ e.comment = <<c>>
           \/ /\ d.comment = <<>> /\ c # "/*"
              /\ e.text = Append(d.text, c) /\ e.comment = <<>>
           \/ /\ d.comment # <<>> /\ c = "*/"
              /\ e.text = Append(d.text, "newline") /\ e.comment = <<>>
           \/ /\ d.comment # <<>> /\ c # "*/"
              /\ e.text = d.text /\ e.comment = Append(d.comment, c)
    BY <2>1, <2>2, DropCases
  <2>4. ASSUME NoComment(Append(t, c))
        PROVE  e.text \o e.comment = Append(t, c) /\ (e.comment = <<>> <=> ~Opens(Append(t, c)))
    <3>1. NoComment(t) /\ (c = "*/" => ~Opens(t)) /\ (Opens(Append(t, c)) <=> Opens(t) \/ c = "/*")
      BY <2>4, CommentsGrow
    <3>2. d.text \o d.comment = t /\ (d.comment = <<>> <=> ~Opens(t))
      BY <1>2, <2>1, <3>1 DEF Untouched
    <3>3. d.comment = <<>> => d.text = t
      BY <2>3, <3>2, Concatenations
    <3>4. CASE d.comment = <<>> /\ c = "/*"
      <4>1. e.text = t /\ e.comment = <<c>>
        BY <2>3, <3>3, <3>4
      <4>2. t \o <<c>> = Append(t, c)
        BY Concatenations
      <4>3. <<c>> # <<>>
        OBVIOUS
      <4> QED
        BY <3>1, <3>4, <4>1, <4>2, <4>3
    <3>5. CASE d.comment = <<>> /\ c # "/*"
      <4>1. e.text = Append(t, c) /\ e.comment = <<>>
        BY <2>3, <3>3, <3>5
      <4>2. Append(t, c) \in Seq(Tokens)
        OBVIOUS
      <4> QED
        BY <3>1, <3>2, <3>5, <4>1, <4>2, Concatenations
    <3>6. CASE d.comment # <<>> /\ c = "*/"
      BY <3>1, <3>2, <3>6
    <3>7. CASE d.comment # <<>> /\ c # "*/"
      <4>1. e.text = d.text /\ e.comment = Append(d.comment, c)
        BY <2>3, <3>7
      <4>2. d.text \o Append(d.comment, c) = Append(d.text \o d.comment, c)
        BY <2>3, Concatenations
      <4>3. Append(d.comment, c) # <<>>
        BY <2>3, AppendIsSomething
      <4> QED
        BY <3>1, <3>2, <3>7, <4>1, <4>2, <4>3
    <3> QED
      BY <3>4, <3>5, <3>6, <3>7
  <2>5. Untouched(Append(t, c))
    BY <2>2, <2>4 DEF Untouched
  <2> QED
    BY <2>5
<1> HIDE DEF S
<1>3. Seq(Tokens) \subseteq S
  BY <1>1, <1>2, SeqSets
<1> QED
  BY <1>3 DEF S

\* sanitizeSQL changes exactly the texts that hold a comment.
LEMMA SanitizeChanges ==
    ASSUME NEW t \in Seq(Tokens)
    PROVE  SanitizeSQL(t) = t <=> NoComment(t)
<1>1. NoComment(t) => SanitizeSQL(t) = t
  BY UntouchedTexts DEF Untouched, SanitizeSQL, Dropped
<1>2. NoComment(SanitizeSQL(t))
  BY SanitizedHasNone
<1> QED
  BY <1>1, <1>2, Zenon

-----------------------------------------------------------------------------
(* What the literals of a text say is part of it. *)

InLiterals(s) == FlattenSeq(s.values) \o s.value

SaysLess(t) ==
    /\ SparkReads(t).mode # "single" => SparkReads(t).value = <<>>
    /\ Opens(InLiterals(SparkReads(t))) => Opens(t)
    /\ NoComment(t) => NoComment(InLiterals(SparkReads(t)))

\* One token adds at most itself to what is said, and a wildcard the backslash
\* before it.
LEMMA LiteralsGrow ==
    ASSUME NEW s \in LexStates, NEW c \in Tokens, s.mode # "single" => s.value = <<>>,
           NEW next, next = Lex(s, c)
    PROVE  /\ InLiterals(s) \in Seq(Tokens)
           /\ next.mode # "single" => next.value = <<>>
           /\ \/ InLiterals(next) = InLiterals(s)
              \/ InLiterals(next) = Append(InLiterals(s), c)
              \/ c = "wildcard" /\ InLiterals(next) = Append(Append(InLiterals(s), "backslash"), c)
<1>1. s.values \in Seq(Texts) /\ s.value \in Seq(Tokens)
  BY DEF LexStates, Texts
<1>2. PICK f \in Seq(Tokens) : f = FlattenSeq(s.values)
  BY <1>1, FlattenStepwise DEF Texts
<1>3. PICK v \in Seq(Tokens) : v = s.value
  BY <1>1
<1>4. InLiterals(s) = f \o v /\ f \o v \in Seq(Tokens)
  BY <1>2, <1>3, Concatenations DEF InLiterals
<1> DEFINE escapes == s.mode \in {"single", "double", "--"} /\ c = "backslash" /\ ~s.escaped
           mode == IF s.escaped \/ escapes THEN s.mode ELSE SparkMode(s.mode, c)
<1>5. /\ next.mode = mode
      /\ next.value = IF s.mode # "single" \/ mode # "single" THEN <<>>
                      ELSE IF escapes THEN v
                      ELSE Append(IF s.escaped /\ c = "wildcard" THEN Append(v, "backslash") ELSE v, c)
      /\ next.values = IF s.mode = "single" /\ mode = "" THEN Append(s.values, v) ELSE s.values
  BY <1>3 DEF Lex
<1>6. s.mode = "single" => mode \in {"single", ""}
  BY DEF SparkMode, Quotes
<1> HIDE DEF mode, escapes
<1>7. CASE s.mode # "single"
  <2>1. next.value = <<>> /\ next.values = s.values /\ v = <<>>
    BY <1>3, <1>5, <1>7
  <2> QED
    BY <1>2, <1>4, <2>1 DEF InLiterals
<1>8. CASE s.mode = "single" /\ mode = ""
  <2>1. next.value = <<>> /\ next.values = Append(s.values, v) /\ v \in Texts
    BY <1>5, <1>8 DEF Texts
  <2>2. FlattenSeq(next.values) = f \o v
    BY <1>1, <1>2, <2>1, FlattenStepwise
  <2>3. (f \o v) \o <<>> = f \o v
    BY <1>4, Concatenations
  <2> QED
    BY <1>4, <1>5, <2>1, <2>2, <2>3 DEF InLiterals
<1>9. CASE s.mode = "single" /\ mode = "single"
  <2>0. PICK b \in Tokens : b = "backslash"
    BY TextNames
  <2>1. /\ next.values = s.values
        /\ \/ next.value = v
           \/ next.value = Append(v, c)
           \/ c = "wildcard" /\ next.value = Append(Append(v, b), c)
    BY <1>5, <1>9, <2>0
  <2>2. f \o Append(v, c) = Append(f \o v, c) /\ f \o Append(v, b) = Append(f \o v, b)
    BY Concatenations
  <2>3. f \o Append(Append(v, b), c) = Append(Append(f \o v, b), c)
    <3>1. PICK g \in Seq(Tokens) : g = Append(v, b)
      BY AppendStays
    <3>2. f \o Append(g, c) = Append(f \o g, c)
      BY Concatenations
    <3> QED
      BY <2>2, <3>1, <3>2
  <2>4. InLiterals(next) = f \o next.value
    BY <1>2, <2>1 DEF InLiterals
  <2> QED
    BY <1>4, <1>5, <1>9, <2>0, <2>1, <2>2, <2>3, <2>4
<1> QED
  BY <1>6, <1>7, <1>8, <1>9

\* Literals hold no comment unless the text does.
LEMMA LiteralsSayLess == \A t \in Seq(Tokens) : SaysLess(t)
<1> DEFINE S == {t \in Seq(Tokens) : SaysLess(t)}
<1>1. <<>> \in S
  <2>1. SparkReads(<<>>).value = <<>> /\ SparkReads(<<>>).values = <<>>
    <3>1. NothingRead.value = <<>> /\ NothingRead.values = <<>>
      BY DEF NothingRead
    <3> QED
      BY <3>1, SparkReadsStepwise
  <2>2. InLiterals(SparkReads(<<>>)) = <<>>
    <3>1. <<>> \o <<>> = <<>>
      OBVIOUS
    <3> QED
      BY <2>1, <3>1, FlattenStepwise DEF InLiterals
  <2>3. SaysLess(<<>>)
    BY <2>1, <2>2 DEF SaysLess
  <2> QED
    BY <2>3
<1>2. ASSUME NEW t \in Seq(Tokens), NEW c \in Tokens, t \in S PROVE Append(t, c) \in S
  <2>1. PICK s \in LexStates : s = SparkReads(t)
    BY SparkReadsStepwise
  <2>2. PICK next : next = SparkReads(Append(t, c)) /\ next = Lex(s, c)
    BY <2>1, SparkReadsStepwise
  <2>3. /\ s.mode # "single" => s.value = <<>>
        /\ Opens(InLiterals(s)) => Opens(t)
        /\ NoComment(t) => NoComment(InLiterals(s))
    BY <1>2, <2>1 DEF SaysLess
  <2>4. /\ InLiterals(s) \in Seq(Tokens)
        /\ next.mode # "single" => next.value = <<>>
        /\ \/ InLiterals(next) = InLiterals(s)
           \/ InLiterals(next) = Append(InLiterals(s), c)
           \/ c = "wildcard" /\ InLiterals(next) = Append(Append(InLiterals(s), "backslash"), c)
    BY <2>2, <2>3, LiteralsGrow
  <2>5. /\ Opens(Append(t, c)) <=> Opens(t) \/ c = "/*"
        /\ NoComment(Append(t, c)) <=> NoComment(t) /\ (c = "*/" => ~Opens(t))
    BY CommentsGrow
  <2>6. PICK v \in Seq(Tokens) : v = InLiterals(s)
    BY <2>4
  <2>7. /\ Opens(Append(v, c)) <=> Opens(v) \/ c = "/*"
        /\ NoComment(Append(v, c)) <=> NoComment(v) /\ (c = "*/" => ~Opens(v))
    BY CommentsGrow
  <2>8. CASE InLiterals(next) = v
    <3>1. SaysLess(Append(t, c))
      BY <2>2, <2>3, <2>4, <2>5, <2>6, <2>8 DEF SaysLess
    <3> QED
      BY <3>1
  <2>9. CASE InLiterals(next) = Append(v, c)
    <3>1. SaysLess(Append(t, c))
      BY <2>2, <2>3, <2>4, <2>5, <2>6, <2>7, <2>9 DEF SaysLess
    <3> QED
      BY <3>1
  <2>10. CASE c = "wildcard" /\ InLiterals(next) = Append(Append(v, "backslash"), c)
    <3>1. PICK b \in Tokens : b = "backslash"
      BY TextNames
    <3>2. PICK w \in Seq(Tokens) : w = Append(v, b)
      BY AppendStays
    <3>3. (Opens(w) <=> Opens(v)) /\ (NoComment(w) <=> NoComment(v))
      BY <3>1, <3>2, CommentsGrow
    <3>4. (Opens(Append(w, c)) <=> Opens(w)) /\ (NoComment(Append(w, c)) <=> NoComment(w))
      BY <2>10, CommentsGrow
    <3>5. SaysLess(Append(t, c))
      BY <2>2, <2>3, <2>4, <2>5, <2>6, <2>10, <3>1, <3>2, <3>3, <3>4 DEF SaysLess
    <3> QED
      BY <3>5
  <2> QED
    BY <2>4, <2>6, <2>8, <2>9, <2>10
<1> HIDE DEF S
<1>3. Seq(Tokens) \subseteq S
  BY <1>1, <1>2, SeqSets
<1> QED
  BY <1>3 DEF S

\* Trimming makes no comment.
LEMMA TrimHasNone ==
    ASSUME NEW t \in Seq(Tokens), NoComment(t)
    PROVE  NoComment(Trim(t))
<1>1. PICK n \in Nat : n = Len(t)
  OBVIOUS
<1>2. DOMAIN t = 1..n
  BY <1>1
<1>3. CASE Said(t) = {}
  <2>1. Trim(t) = <<>>
    BY <1>3 DEF Trim, Said
  <2> QED
    BY <2>1, NothingIsCommented
<1>4. CASE Said(t) # {}
  <2>1. Said(t) \in SUBSET (1..n)
    BY <1>2 DEF Said
  <2>2. PICK a \in 1..n : a = Min(Said(t))
    BY <1>4, <2>1, MinStays
  <2>3. PICK z \in 1..n : z = Max(Said(t))
    BY <1>4, <2>1, MaxIsThere
  <2>4. PICK u : u = SubSeq(t, a, z)
    BY <1>4
  <2>5. Trim(t) = u
    BY <1>4, <2>2, <2>3, <2>4 DEF Trim, Said
  <2>6. \A i \in DOMAIN u : i \in Int /\ (a - 1) + i \in 1..n /\ u[i] = t[(a - 1) + i]
    BY <1>1, <2>4
  <2>7. NoComment(u)
    <3> SUFFICES ASSUME NEW i \in DOMAIN u, NEW j \in DOMAIN u, i < j, u[i] = "/*"
                 PROVE  u[j] # "*/"
      BY DEF NoComment
    <3>1. PICK p \in 1..n : p = (a - 1) + i /\ u[i] = t[p]
      BY <2>6
    <3>2. PICK r \in 1..n : r = (a - 1) + j /\ u[j] = t[r]
      BY <2>6
    <3>3. i \in Int /\ j \in Int
      BY <2>6
    <3>4. p < r
      BY <3>1, <3>2, <3>3
    <3> QED
      BY <1>2, <3>1, <3>2, <3>4 DEF NoComment
  <2> QED
    BY <2>5, <2>7
<1> QED
  BY <1>3, <1>4

\* What runSQL submits holds no comment.
LEMMA RunSQLHasNone ==
    ASSUME NEW t \in Seq(Tokens)
    PROVE  RunSQL(t) \in Seq(Tokens) /\ NoComment(RunSQL(t))
<1>1. PICK e \in Seq(Tokens) : e = SanitizeSQL(t) /\ NoComment(e)
  BY SanitizedHasNone
<1>2. PICK code \in Seq(Tokens) : code = Trim(e) /\ NoComment(code)
  BY <1>1, TrimTexts, TrimHasNone DEF TrimAgrees
<1>3. RunSQL(t) = IF code # <<>> /\ Last(code) = ";" THEN Front(code) ELSE code
  BY <1>1, <1>2 DEF RunSQL
<1>4. CASE ~(code # <<>> /\ Last(code) = ";")
  BY <1>2, <1>3, <1>4
<1>5. CASE code # <<>> /\ Last(code) = ";"
  <2>1. /\ Front(code) \in Seq(Tokens) /\ Last(code) \in Tokens
        /\ code = Append(Front(code), Last(code))
    BY <1>5, LastOfText
  <2>2. NoComment(Front(code))
    BY <1>2, <2>1, CommentsGrow
  <2> QED
    BY <1>3, <1>5, <2>1, <2>2
<1> QED
  BY <1>4, <1>5

\* The beginning of a text without a comment.
LEMMA PrefixHasNone ==
    ASSUME NEW a \in Seq(Tokens), NEW b \in Seq(Tokens), NoComment(a \o b)
    PROVE  NoComment(a)
<1>1. \A i \in DOMAIN a : i \in DOMAIN (a \o b) /\ (a \o b)[i] = a[i]
  OBVIOUS
<1> QED
  BY <1>1 DEF NoComment

\* So values that hold a comment never arrive.
LEMMA ReadValuesHaveNone ==
    ASSUME NEW t \in Seq(Tokens), NEW values \in Seq(Texts),
           SparkReads(RunSQL(t)).values = values
    PROVE  NoComment(FlattenSeq(values))
<1>1. PICK code \in Seq(Tokens) : code = RunSQL(t) /\ NoComment(code)
  BY RunSQLHasNone
<1>2. PICK s \in LexStates : s = SparkReads(code)
  BY SparkReadsStepwise
<1>3. NoComment(InLiterals(s))
  BY <1>1, <1>2, LiteralsSayLess DEF SaysLess
<1>4. InLiterals(s) = FlattenSeq(values) \o s.value /\ s.value \in Seq(Tokens)
  BY <1>1, <1>2 DEF InLiterals, LexStates
<1>5. FlattenSeq(values) \in Seq(Tokens)
  BY FlattenStepwise DEF Texts
<1> QED
  BY <1>3, <1>4, <1>5, PrefixHasNone

\* A query that begins and ends with a word goes to Spark as it is.
LEMMA RunSQLUnchanged ==
    ASSUME NEW q \in Seq(Tokens), NoComment(q), NEW k \in Nat, Len(q) = k + 1,
           q[1] # "newline", q[k + 1] \notin {"newline", ";"}
    PROVE  RunSQL(q) = q
<1>1. SanitizeSQL(q) = q
  BY SanitizeChanges
<1>2. /\ DOMAIN q = 1..(k + 1) /\ 1 \in 1..(k + 1) /\ k + 1 \in 1..(k + 1)
      /\ SubSeq(q, 1, k + 1) = q
      /\ Last(q) = q[k + 1]
  BY WholeText
<1>3. Said(q) \in SUBSET (1..(k + 1)) /\ 1 \in Said(q) /\ k + 1 \in Said(q)
  BY <1>2 DEF Said
<1>4. Min(Said(q)) = 1 /\ Max(Said(q)) = k + 1
  BY <1>3, EndsAreMinAndMax
<1>6. Trim(q) = q
  BY <1>2, <1>3, <1>4 DEF Trim, Said
<1> QED
  BY <1>1, <1>2, <1>6 DEF RunSQL

-----------------------------------------------------------------------------
(* Quotes, escapes and words between values comment out nothing. *)

Same(t, u) == (Opens(t) <=> Opens(u)) /\ (NoComment(t) <=> NoComment(u))

\* The same token after both, or a token that is no bracket after one.
LEMMA SameGrows ==
    ASSUME NEW t \in Seq(Tokens), NEW u \in Seq(Tokens), Same(t, u), NEW c \in Tokens
    PROVE  /\ Same(Append(t, c), Append(u, c))
           /\ c \notin {"/*", "*/"} => Same(t, Append(u, c))
<1>1. /\ Opens(Append(t, c)) <=> Opens(t) \/ c = "/*"
      /\ NoComment(Append(t, c)) <=> NoComment(t) /\ (c = "*/" => ~Opens(t))
  BY CommentsGrow
<1>2. /\ Opens(Append(u, c)) <=> Opens(u) \/ c = "/*"
      /\ NoComment(Append(u, c)) <=> NoComment(u) /\ (c = "*/" => ~Opens(u))
  BY CommentsGrow
<1>3. (Opens(t) <=> Opens(u)) /\ (NoComment(t) <=> NoComment(u))
  BY DEF Same
<1>4. Same(Append(t, c), Append(u, c))
  BY <1>1, <1>2, <1>3 DEF Same
<1>5. c \notin {"/*", "*/"} => Same(t, Append(u, c))
  BY <1>2, <1>3 DEF Same
<1> QED
  BY <1>4, <1>5

\* The same text after both, as it is or escaped.
SameAfter(t, u, v) ==
    /\ Same(t \o v, u \o v)
    /\ Same(t \o v, u \o SeedEscape(v))
    /\ Same(t \o v, u \o Escape(v, "single"))

\* The same value after both, escaped or not.
LEMMA SameConcatenated ==
    ASSUME NEW t \in Seq(Tokens), NEW u \in Seq(Tokens), Same(t, u)
    PROVE  \A v \in Seq(Tokens) : SameAfter(t, u, v)
<1> DEFINE S == {v \in Seq(Tokens) : SameAfter(t, u, v)}
<1>0. "single" \in Tokens /\ "backslash" \in Tokens
  BY TextNames
<1>1. <<>> \in S
  <2>1. t \o <<>> = t /\ u \o <<>> = u
    OBVIOUS
  <2>2. SeedEscape(<<>>) = <<>> /\ Escape(<<>>, "single") = <<>>
    BY <1>0, SeedEscapeStepwise, EscapeStepwise
  <2>3. SameAfter(t, u, <<>>)
    BY <2>1, <2>2 DEF SameAfter
  <2> QED
    BY <2>3
<1>2. ASSUME NEW v \in Seq(Tokens), NEW c \in Tokens, v \in S PROVE Append(v, c) \in S
  <2>1. PICK a \in Seq(Tokens) : a = t \o v
    BY <1>0, Concatenations
  <2>2. t \o Append(v, c) = Append(a, c)
    BY <2>1, Concatenations
  <2>3. SameAfter(t, u, v)
    BY <1>2
  <2>4. ASSUME NEW e \in Seq(Tokens), Same(a, u \o e)
        PROVE  /\ Same(Append(a, c), u \o Append(e, c))
               /\ Same(Append(a, c), u \o Append(Append(e, "backslash"), c))
    <3>1. PICK b \in Seq(Tokens) : b = u \o e
      BY <1>0, Concatenations
    <3>2. u \o Append(e, c) = Append(b, c)
      BY <3>1, Concatenations
    <3>3. PICK x \in Tokens : x = "backslash"
      BY <1>0
    <3>4. Append(e, x) \in Seq(Tokens) /\ Append(b, x) \in Seq(Tokens)
      OBVIOUS
    <3>5. u \o Append(e, x) = Append(b, x)
      BY <3>1, Concatenations
    <3>6. u \o Append(Append(e, x), c) = Append(Append(b, x), c)
      BY <3>4, <3>5, Concatenations
    <3>7. Same(a, Append(b, x))
      BY <2>4, <3>1, <3>3, SameGrows
    <3> QED
      BY <2>4, <3>1, <3>2, <3>3, <3>4, <3>6, <3>7, SameGrows
  <2>5. SeedEscape(v) \in Seq(Tokens) /\ Escape(v, "single") \in Seq(Tokens)
    BY <1>0, SeedEscapeStepwise, EscapeStepwise
  <2>6. Same(Append(a, c), u \o Append(v, c))
    BY <2>1, <2>3, <2>4 DEF SameAfter
  <2>7. Same(Append(a, c), u \o SeedEscape(Append(v, c)))
    <3>1. Same(a, u \o SeedEscape(v))
      BY <2>1, <2>3 DEF SameAfter
    <3>2. SeedEscape(Append(v, c)) = IF c \in {"backslash", "single"}
                                     THEN Append(Append(SeedEscape(v), "backslash"), c)
                                     ELSE Append(SeedEscape(v), c)
      BY SeedEscapeStepwise
    <3> QED
      BY <2>4, <2>5, <3>1, <3>2
  <2>8. Same(Append(a, c), u \o Escape(Append(v, c), "single"))
    <3>1. Same(a, u \o Escape(v, "single"))
      BY <2>1, <2>3 DEF SameAfter
    <3>2. Escape(Append(v, c), "single")
             = IF c = "single" THEN Append(Append(Escape(v, "single"), "backslash"), "single")
               ELSE Append(Escape(v, "single"), c)
      BY <1>0, EscapeStepwise
    <3> QED
      BY <2>4, <2>5, <3>1, <3>2
  <2>9. SameAfter(t, u, Append(v, c))
    BY <2>2, <2>6, <2>7, <2>8 DEF SameAfter
  <2> QED
    BY <2>9
<1> HIDE DEF S
<1>3. Seq(Tokens) \subseteq S
  BY <1>1, <1>2, SeqSets
<1> QED
  BY <1>3 DEF S

\* A value in a frame.
LEMMA SameFramed ==
    ASSUME NEW t \in Seq(Tokens), NEW u \in Seq(Tokens), Same(t, u), NEW v \in Seq(Tokens)
    PROVE  /\ Same(t \o v, Framed(u, v))
           /\ Same(t \o v, Framed(u, SeedEscape(v)))
<1>1. PICK q \in Tokens : q = "single"
  BY TextNames
<1>2. PICK x \in Tokens : x = "x"
  BY TextNames
<1>2a. Append(u, q) \in Seq(Tokens)
  BY AppendStays
<1>3. PICK w \in Seq(Tokens) : w = Append(u, q)
  BY <1>2a
<1>4. Same(t, w)
  BY <1>1, <1>3, SameGrows
<1>5. SameAfter(t, w, v)
  BY <1>4, SameConcatenated
<1>6. PICK a \in Seq(Tokens) : a = t \o v
  BY <1>1, Concatenations
<1>7. ASSUME NEW e \in Seq(Tokens), Same(a, w \o e) PROVE Same(a, Framed(u, e))
  <2>1. PICK b \in Seq(Tokens) : b = w \o e
    BY <1>1, Concatenations
  <2>2. Append(b, q) \in Seq(Tokens)
    OBVIOUS
  <2>3. Same(a, Append(b, q))
    BY <1>1, <1>7, <2>1, SameGrows
  <2>4. Same(a, Append(Append(b, q), x))
    BY <1>2, <2>2, <2>3, SameGrows
  <2> QED
    BY <1>1, <1>2, <1>3, <2>1, <2>4 DEF Framed
<1>8. SeedEscape(v) \in Seq(Tokens)
  BY SeedEscapeStepwise
<1> QED
  BY <1>5, <1>6, <1>7, <1>8 DEF SameAfter

\* A query holds a comment exactly if its values do.
LEMMA QueriesCommentTheSame ==
    \A values \in Seq(Texts) :
        /\ Same(FlattenSeq(values), SeedInsert(values))
        /\ Same(FlattenSeq(values), CheckQuery(values))
<1> DEFINE Both(values) == /\ Same(FlattenSeq(values), SeedInsert(values))
                           /\ Same(FlattenSeq(values), CheckQuery(values))
           S == {values \in Seq(Texts) : Both(values)}
<1> HIDE DEF Both
<1>1. <<>> \in S
  <2>1. PICK x \in Tokens : x = "x"
    BY TextNames
  <2>2. <<>> \in Seq(Tokens) /\ <<>> \in Seq(Texts) /\ <<x>> = Append(<<>>, x)
    OBVIOUS
  <2>3. Same(<<>>, <<>>)
    BY DEF Same
  <2>4. Same(<<>>, <<x>>)
    BY <2>1, <2>2, <2>3, SameGrows
  <2>5. FlattenSeq(<<>>) = <<>> /\ SeedInsert(<<>>) = <<x>> /\ CheckQuery(<<>>) = <<x>>
    BY <2>1, FlattenStepwise, SeedInsertStepwise, CheckQueryStepwise
  <2> QED
    BY <2>2, <2>4, <2>5 DEF Both
<1>2. ASSUME NEW values \in Seq(Texts), NEW v \in Texts, values \in S
      PROVE  Append(values, v) \in S
  <2>1. Both(values)
    BY <1>2
  <2>2. v \in Seq(Tokens) /\ FlattenSeq(values) \in Seq(Tokens)
    BY FlattenStepwise DEF Texts
  <2>3. SeedInsert(values) \in Seq(Tokens) /\ CheckQuery(values) \in Seq(Tokens)
    BY SeedInsertStepwise, CheckQueryStepwise
  <2>4. FlattenSeq(Append(values, v)) = FlattenSeq(values) \o v
    BY FlattenStepwise
  <2>5. SeedInsert(Append(values, v)) = Framed(SeedInsert(values), SeedEscape(v))
    BY SeedInsertStepwise
  <2>6. CheckQuery(Append(values, v)) = Framed(CheckQuery(values), v)
    BY CheckQueryStepwise
  <2>7. Both(Append(values, v))
    BY <2>1, <2>2, <2>3, <2>4, <2>5, <2>6, SameFramed DEF Both
  <2>8. Append(values, v) \in Seq(Texts)
    OBVIOUS
  <2> QED
    BY <2>7, <2>8
<1> HIDE DEF S
<1>3. Seq(Texts) \subseteq S
  BY <1>1, <1>2, SeqSets
<1> QED
  BY <1>3 DEF S, Both

\* And so does the sensor's.
LEMMA ShowQueryCommentsTheSame ==
    ASSUME NEW v \in Seq(Tokens)
    PROVE  /\ TableExistsShowQuery(v)
                 = Append(Append(<<"x">>, "single") \o Escape(v, "single"), "single")
           /\ Same(v, TableExistsShowQuery(v))
<1>1. PICK q \in Tokens : q = "single"
  BY TextNames
<1>2. PICK x \in Tokens : x = "x"
  BY TextNames
<1>3. PICK w \in Seq(Tokens) : w = <<x>>
  BY OneToken
<1>4. PICK e \in Seq(Tokens) : e = Escape(v, "single")
  BY <1>1, EscapeStepwise
<1>5. TableExistsShowQuery(v) = Append(Append(w, q) \o e, q)
  BY <1>1, <1>2, <1>3, <1>4, FramedIs DEF TableExistsShowQuery
<1>6. Same(<<>>, <<>>) /\ <<>> \in Seq(Tokens) /\ <<x>> = Append(<<>>, x)
  BY DEF Same
<1>7. Same(<<>>, w)
  BY <1>2, <1>3, <1>6, SameGrows
<1>7a. Append(w, q) \in Seq(Tokens)
  BY AppendStays
<1>8. Same(<<>>, Append(w, q)) /\ Append(w, q) \in Seq(Tokens)
  BY <1>1, <1>6, <1>7, <1>7a, SameGrows
<1>9. SameAfter(<<>>, Append(w, q), v)
  BY <1>6, <1>8, SameConcatenated
<1>10. <<>> \o v = v
  OBVIOUS
<1>11. PICK b \in Seq(Tokens) : b = Append(w, q) \o e
  BY <1>1, <1>8, Concatenations
<1>12. Same(v, b)
  BY <1>4, <1>9, <1>10, <1>11 DEF SameAfter
<1>13. Same(v, Append(b, q))
  BY <1>1, <1>12, SameGrows
<1> QED
  BY <1>1, <1>2, <1>3, <1>4, <1>5, <1>11, <1>13

-----------------------------------------------------------------------------
(* What literals say *)

\* How many tokens of t are among C.
Count(t, C) == Cardinality({i \in DOMAIN t : t[i] \in C})

\* Counting in a text with one more token.
LEMMA CountGrows ==
    ASSUME NEW t \in Seq(Tokens), NEW c \in Tokens, NEW C
    PROVE  /\ Count(t, C) \in Nat
           /\ Count(t, C) = 0 <=> \A i \in DOMAIN t : t[i] \notin C
           /\ Count(Append(t, c), C) = IF c \in C THEN Count(t, C) + 1 ELSE Count(t, C)
<1>1. PICK n \in Nat : n = Len(t)
  OBVIOUS
<1>2. PICK u : u = Append(t, c)
  OBVIOUS
<1>3. /\ DOMAIN t = 1..n /\ DOMAIN u = 1..(n + 1)
      /\ u[n + 1] = c /\ \A i \in 1..n : u[i] = t[i]
  BY <1>1, <1>2
<1> DEFINE A == {i \in 1..n : t[i] \in C}
           B == {i \in 1..(n + 1) : u[i] \in C}
<1>4. Count(t, C) = Cardinality(A) /\ Count(u, C) = Cardinality(B)
  BY <1>3 DEF Count
<1>5. /\ \A i \in 1..(n + 1) : i = n + 1 \/ i \in 1..n
      /\ \A i \in 1..n : i \in 1..(n + 1)
      /\ n + 1 \in 1..(n + 1) /\ n + 1 \notin 1..n
  OBVIOUS
<1>6. IsFiniteSet(A)
  <2>1. IsFiniteSet(1..n) /\ A \in SUBSET (1..n)
    BY FS_Interval
  <2> HIDE DEF A
  <2> QED
    BY <2>1, FS_Subset
<1>7. Cardinality(A) \in Nat /\ (Cardinality(A) = 0 <=> A = {})
  <2> HIDE DEF A
  <2> QED
    BY <1>6, FS_CardinalityType, FS_EmptySet
<1>8. A = {} <=> \A i \in 1..n : t[i] \notin C
  OBVIOUS
<1>9. B = IF c \in C THEN A \cup {n + 1} ELSE A
  BY <1>3, <1>5
<1>10. n + 1 \notin A
  BY <1>5
<1> HIDE DEF A, B
<1>11. Cardinality(A \cup {n + 1}) = Cardinality(A) + 1
  BY <1>6, <1>10, FS_AddElement
<1>12. Count(u, C) = IF c \in C THEN Count(t, C) + 1 ELSE Count(t, C)
  BY <1>4, <1>9, <1>11
<1>13. Count(t, C) \in Nat /\ (Count(t, C) = 0 <=> \A i \in DOMAIN t : t[i] \notin C)
  BY <1>3, <1>4, <1>7, <1>8
<1> QED
  BY <1>2, <1>12, <1>13

\* In the empty text there is nothing to count.
LEMMA CountNothing == \A C : Count(<<>>, C) = 0
<1>0. "x" \in Tokens
  BY TextNames
<1>1. <<>> \in Seq(Tokens)
  OBVIOUS
<1>2. \A i \in DOMAIN <<>> : FALSE
  OBVIOUS
<1> QED
  BY <1>0, <1>1, <1>2, CountGrows

\* A longer text without a token of C.
LEMMA CountsNone ==
    ASSUME NEW v \in Seq(Tokens), NEW c \in Tokens, NEW C, Count(Append(v, c), C) = 0
    PROVE  Count(v, C) = 0 /\ c \notin C
<1>1. PICK n \in Nat : n = Count(v, C)
  BY CountGrows
<1>2. Count(Append(v, c), C) = IF c \in C THEN n + 1 ELSE n
  BY <1>1, CountGrows
<1>3. n + 1 # 0
  OBVIOUS
<1> QED
  BY <1>1, <1>2, <1>3

Counts(a, b) == \A C : Count(a \o b, C) = Count(a, C) + Count(b, C)

\* Counting in a concatenation.
LEMMA CountsAdd ==
    ASSUME NEW a \in Seq(Tokens)
    PROVE  \A b \in Seq(Tokens) : Counts(a, b)
<1> DEFINE S == {b \in Seq(Tokens) : Counts(a, b)}
<1>0. "x" \in Tokens
  BY TextNames
<1>1. <<>> \in S
  <2>1. a \o <<>> = a /\ <<>> \in Seq(Tokens)
    OBVIOUS
  <2>2. \A C : Count(a, C) \in Nat
    BY <1>0, CountGrows
  <2>3. Counts(a, <<>>)
    BY <2>1, <2>2, CountNothing DEF Counts
  <2> QED
    BY <2>1, <2>3
<1>2. ASSUME NEW b \in Seq(Tokens), NEW c \in Tokens, b \in S PROVE Append(b, c) \in S
  <2>1. Counts(a, b)
    BY <1>2
  <2>2. a \o b \in Seq(Tokens) /\ a \o Append(b, c) = Append(a \o b, c)
    BY Concatenations
  <2>3. ASSUME NEW C PROVE Count(a \o Append(b, c), C) = Count(a, C) + Count(Append(b, c), C)
    <3>1. Count(a \o b, C) = Count(a, C) + Count(b, C)
      BY <2>1 DEF Counts
    <3>2. Count(a, C) \in Nat /\ Count(b, C) \in Nat
      BY CountGrows
    <3>3. Count(Append(b, c), C) = IF c \in C THEN Count(b, C) + 1 ELSE Count(b, C)
      BY CountGrows
    <3>4. Count(Append(a \o b, c), C) = IF c \in C THEN Count(a \o b, C) + 1 ELSE Count(a \o b, C)
      BY <2>2, CountGrows
    <3> QED
      BY <2>2, <3>1, <3>2, <3>3, <3>4
  <2>4. Counts(a, Append(b, c))
    BY <2>3 DEF Counts
  <2> QED
    BY <2>4, AppendStays
<1> HIDE DEF S
<1>3. Seq(Tokens) \subseteq S
  BY <1>1, <1>2, SeqSets
<1> QED
  BY <1>3 DEF S

-----------------------------------------------------------------------------
(* A backslash or an apostrophe that a literal says took a backslash to say, *)
(* and a backslash that no wildcard follows took two.                        *)

Hiders == {"backslash"}
Special == {"backslash", "single"}

\* A special token is either of the two.
LEMMA SpecialCounts ==
    \A t \in Seq(Tokens) : Count(t, Special) = Count(t, Hiders) + Count(t, {"single"})
<1> DEFINE S == {t \in Seq(Tokens) : Count(t, Special) = Count(t, Hiders) + Count(t, {"single"})}
<1>1. <<>> \in S
  <2>1. <<>> \in Seq(Tokens)
    OBVIOUS
  <2>2. Count(<<>>, Special) = Count(<<>>, Hiders) + Count(<<>>, {"single"})
    BY CountNothing
  <2> QED
    BY <2>1, <2>2
<1>2. ASSUME NEW t \in Seq(Tokens), NEW c \in Tokens, t \in S PROVE Append(t, c) \in S
  <2>1. Count(t, Special) = Count(t, Hiders) + Count(t, {"single"})
    BY <1>2
  <2>2. /\ Count(t, Hiders) \in Nat /\ Count(t, {"single"}) \in Nat
        /\ Count(Append(t, c), Special)
              = IF c \in {"backslash", "single"} THEN Count(t, Special) + 1 ELSE Count(t, Special)
        /\ Count(Append(t, c), Hiders) = IF c = "backslash" THEN Count(t, Hiders) + 1 ELSE Count(t, Hiders)
        /\ Count(Append(t, c), {"single"})
              = IF c = "single" THEN Count(t, {"single"}) + 1 ELSE Count(t, {"single"})
    BY CountGrows DEF Special, Hiders
  <2>3. Count(Append(t, c), Special) = Count(Append(t, c), Hiders) + Count(Append(t, c), {"single"})
    BY <2>1, <2>2
  <2> QED
    BY <2>3, AppendStays
<1> HIDE DEF S
<1>3. Seq(Tokens) \subseteq S
  BY <1>1, <1>2, SeqSets
<1> QED
  BY <1>3 DEF S

\* The backslashes that no wildcard follows.
LooseAt(t) ==
    {i \in DOMAIN t : t[i] = "backslash" /\ ~(i < Len(t) /\ t[i + 1] = "wildcard")}
Loose(t) == Cardinality(LooseAt(t))
EndsLoose(t) == t # <<>> /\ t[Len(t)] = "backslash"

\* They are counted, and there is none in a value that keeps its backslashes.
LEMMA LooseIsCounted ==
    ASSUME NEW t \in Seq(Tokens)
    PROVE  /\ IsFiniteSet(LooseAt(t)) /\ Loose(t) \in Nat
           /\ Loose(t) = 0 <=> KeepsBackslashes(t)
<1>1. PICK n \in Nat : n = Len(t)
  OBVIOUS
<1>2. LooseAt(t) \in SUBSET (1..n)
  BY <1>1 DEF LooseAt
<1>3. IsFiniteSet(1..n)
  BY FS_Interval
<1>4. IsFiniteSet(LooseAt(t))
  BY <1>2, <1>3, FS_Subset
<1>5. Loose(t) \in Nat /\ (Loose(t) = 0 <=> LooseAt(t) = {})
  BY <1>4, FS_CardinalityType, FS_EmptySet DEF Loose
<1>6. LooseAt(t) = {} <=> KeepsBackslashes(t)
  BY DEF LooseAt, KeepsBackslashes
<1> QED
  BY <1>4, <1>5, <1>6

\* A text with one more token.
LEMMA LooseGrows ==
    ASSUME NEW t \in Seq(Tokens), NEW c \in Tokens
    PROVE  /\ EndsLoose(Append(t, c)) <=> c = "backslash"
           /\ c \notin {"backslash", "wildcard"} => Loose(Append(t, c)) = Loose(t)
           /\ c = "backslash" => Loose(Append(t, c)) = Loose(t) + 1
           /\ c = "wildcard" => Loose(t) = Loose(Append(t, c)) + IF EndsLoose(t) THEN 1 ELSE 0
<1>1. PICK n \in Nat : n = Len(t)
  OBVIOUS
<1>2. PICK u : u = Append(t, c)
  OBVIOUS
<1>3. /\ DOMAIN t = 1..n /\ DOMAIN u = 1..(n + 1) /\ Len(u) = n + 1
      /\ u[n + 1] = c /\ \A i \in 1..n : u[i] = t[i]
  BY <1>1, <1>2
<1>4. /\ \A i \in 1..(n + 1) : i = n + 1 \/ i \in 1..n
      /\ \A i \in 1..n : i \in 1..(n + 1) /\ i < n + 1 /\ i # n + 1
      /\ \A i \in 1..n : i < n => i + 1 \in 1..n
      /\ \A i \in 1..n : ~(i < n) => i = n
      /\ n + 1 \in 1..(n + 1) /\ ~(n + 1 < n + 1) /\ ~(n < n)
  OBVIOUS
<1>5. t = <<>> <=> n = 0
  BY <1>1
<1>6. n # 0 => n \in 1..n
  OBVIOUS
<1>7. EndsLoose(t) <=> n # 0 /\ t[n] = "backslash"
  BY <1>1, <1>5 DEF EndsLoose
<1>8. EndsLoose(u) <=> c = "backslash"
  <2>1. u # <<>>
    BY <1>2, AppendIsSomething
  <2> QED
    BY <1>3, <2>1 DEF EndsLoose
<1> DEFINE A == LooseAt(t)
           B == LooseAt(u)
<1>9. A = {i \in 1..n : t[i] = "backslash" /\ ~(i < n /\ t[i + 1] = "wildcard")}
  BY <1>1, <1>3 DEF LooseAt
<1>10. B = {i \in 1..(n + 1) : u[i] = "backslash" /\ ~(i < n + 1 /\ u[i + 1] = "wildcard")}
  BY <1>3 DEF LooseAt
<1>11. IsFiniteSet(A) /\ Cardinality(A) \in Nat /\ u \in Seq(Tokens)
  <2>1. u \in Seq(Tokens)
    BY <1>2, AppendStays
  <2> QED
    BY <2>1, LooseIsCounted DEF Loose
<1>12. IsFiniteSet(B) /\ Cardinality(B) \in Nat
  BY <1>11, LooseIsCounted DEF Loose
<1>13. ASSUME NEW i \in 1..n
       PROVE  i \in B <=> /\ t[i] = "backslash"
                          /\ ~(i < n /\ t[i + 1] = "wildcard")
                          /\ ~(i = n /\ c = "wildcard")
  <2>1. i \in B <=> t[i] = "backslash" /\ u[i + 1] # "wildcard"
    BY <1>3, <1>4, <1>10
  <2>2. CASE i < n
    BY <1>3, <1>4, <2>1, <2>2
  <2>3. CASE i = n
    BY <1>3, <1>4, <2>1, <2>3
  <2> QED
    BY <1>4, <2>2, <2>3
<1>14. n + 1 \in B <=> c = "backslash"
  BY <1>3, <1>4, <1>10
<1>15. A \subseteq 1..n /\ B \subseteq 1..(n + 1) /\ n + 1 \notin A
  BY <1>4, <1>9, <1>10
<1>16. \A i \in 1..n : i \in A <=> t[i] = "backslash" /\ ~(i < n /\ t[i + 1] = "wildcard")
  BY <1>9
<1> HIDE DEF A, B
<1>17. CASE c \notin {"backslash", "wildcard"}
  <2>1. B = A
    BY <1>4, <1>13, <1>14, <1>15, <1>16, <1>17
  <2> QED
    BY <1>2, <1>8, <1>17, <2>1 DEF A, B, Loose
<1>18. CASE c = "backslash"
  <2>1. B = A \cup {n + 1}
    BY <1>4, <1>13, <1>14, <1>15, <1>16, <1>18
  <2>2. Cardinality(B) = Cardinality(A) + 1
    BY <1>11, <1>15, <2>1, FS_AddElement
  <2> QED
    BY <1>2, <1>8, <1>18, <2>2 DEF A, B, Loose
<1>19. CASE c = "wildcard" /\ EndsLoose(t)
  <2>1. n \in 1..n /\ n \in A /\ n \notin B
    BY <1>4, <1>6, <1>7, <1>13, <1>16, <1>19
  <2>2. A = B \cup {n}
    BY <1>4, <1>13, <1>14, <1>15, <1>16, <1>19, <2>1
  <2>3. Cardinality(A) = Cardinality(B) + 1
    BY <1>12, <2>1, <2>2, FS_AddElement
  <2> QED
    BY <1>2, <1>8, <1>19, <2>3 DEF A, B, Loose
<1>20. CASE c = "wildcard" /\ ~EndsLoose(t)
  <2>1. \A i \in 1..n : i = n => t[i] # "backslash"
    BY <1>7, <1>20
  <2>2. B = A
    BY <1>4, <1>13, <1>14, <1>15, <1>16, <1>20, <2>1
  <2> QED
    BY <1>2, <1>8, <1>12, <1>20, <2>2 DEF A, B, Loose
<1> QED
  BY <1>17, <1>18, <1>19, <1>20

\* There is none in the empty text.
LEMMA NothingIsLoose == Loose(<<>>) = 0 /\ ~EndsLoose(<<>>)
<1>1. <<>> \in Seq(Tokens)
  OBVIOUS
<1>2. KeepsBackslashes(<<>>)
  BY DEF KeepsBackslashes
<1> QED
  BY <1>1, <1>2, LooseIsCounted DEF EndsLoose

LooseSum(b, v) == Loose(b \o v) = Loose(b) + Loose(v) /\ (EndsLoose(b \o v) <=> EndsLoose(v))

\* A value after a text that does not end in a backslash.
LEMMA LooseAdds ==
    ASSUME NEW b \in Seq(Tokens), ~EndsLoose(b)
    PROVE  \A v \in Seq(Tokens) : LooseSum(b, v)
<1> DEFINE S == {v \in Seq(Tokens) : LooseSum(b, v)}
<1>0. Loose(b) \in Nat
  BY LooseIsCounted
<1>1. <<>> \in S
  <2>1. <<>> \in Seq(Tokens) /\ b \o <<>> = b
    OBVIOUS
  <2>2. LooseSum(b, <<>>)
    BY <1>0, <2>1, NothingIsLoose DEF LooseSum
  <2> QED
    BY <2>1, <2>2
<1>2. ASSUME NEW v \in Seq(Tokens), NEW c \in Tokens, v \in S PROVE Append(v, c) \in S
  <2>1. PICK d \in Seq(Tokens) : d = b \o v
    BY Concatenations
  <2>2. Loose(d) = Loose(b) + Loose(v) /\ (EndsLoose(d) <=> EndsLoose(v))
    BY <1>2, <2>1 DEF LooseSum
  <2>3. b \o Append(v, c) = Append(d, c)
    BY <2>1, Concatenations
  <2>4. Loose(v) \in Nat /\ Loose(Append(v, c)) \in Nat /\ Loose(Append(d, c)) \in Nat
    BY AppendStays, LooseIsCounted
  <2>5. EndsLoose(Append(d, c)) <=> EndsLoose(Append(v, c))
    BY LooseGrows
  <2>6. Loose(Append(d, c)) = Loose(b) + Loose(Append(v, c))
    <3>1. CASE c = "backslash"
      BY <1>0, <2>2, <2>4, <3>1, LooseGrows
    <3>2. CASE c = "wildcard"
      <4>1. Loose(d) = Loose(Append(d, c)) + IF EndsLoose(d) THEN 1 ELSE 0
        BY <3>2, LooseGrows
      <4>2. Loose(v) = Loose(Append(v, c)) + IF EndsLoose(v) THEN 1 ELSE 0
        BY <3>2, LooseGrows
      <4>3. CASE EndsLoose(v)
        BY <1>0, <2>2, <2>4, <4>1, <4>2, <4>3
      <4>4. CASE ~EndsLoose(v)
        BY <1>0, <2>2, <2>4, <4>1, <4>2, <4>4
      <4> QED
        BY <4>3, <4>4
    <3>3. CASE c \notin {"backslash", "wildcard"}
      BY <2>2, <3>3, LooseGrows
    <3> QED
      BY <3>1, <3>2, <3>3
  <2>7. LooseSum(b, Append(v, c))
    BY <2>3, <2>5, <2>6 DEF LooseSum
  <2> QED
    BY <2>7, AppendStays
<1> HIDE DEF S
<1>3. Seq(Tokens) \subseteq S
  BY <1>1, <1>2, SeqSets
<1> QED
  BY <1>3 DEF S

\* A value in its quotes.
LEMMA LooseFramed ==
    ASSUME NEW a \in Seq(Tokens), NEW v \in Seq(Tokens)
    PROVE  Loose(Framed(a, v)) = Loose(a) + Loose(v)
<1>1. PICK q \in Tokens : q = "single"
  BY TextNames
<1>2. PICK x \in Tokens : x = "x"
  BY TextNames
<1>3. PICK b \in Seq(Tokens) : b = Append(a, q)
  BY AppendStays
<1>4. Loose(b) = Loose(a) /\ ~EndsLoose(b)
  BY <1>1, <1>3, LooseGrows
<1>5. PICK d \in Seq(Tokens) : d = b \o v
  BY <1>1, Concatenations
<1>6. Loose(d) = Loose(b) + Loose(v)
  BY <1>4, <1>5, LooseAdds DEF LooseSum
<1>7. PICK e \in Seq(Tokens) : e = Append(d, q)
  BY AppendStays
<1>8. Loose(e) = Loose(d) /\ Loose(Append(e, x)) = Loose(e)
  BY <1>1, <1>2, <1>7, LooseGrows
<1> QED
  BY <1>1, <1>2, <1>3, <1>4, <1>5, <1>6, <1>7, <1>8 DEF Framed

LooseHere(values) ==
    Loose(CheckQuery(values)) = 0 <=> \A i \in DOMAIN values : KeepsBackslashes(values[i])

\* The values of a list, each in its quotes, as a check writes them.
LEMMA LooseValues == \A values \in Seq(Texts) : LooseHere(values)
<1> DEFINE S == {values \in Seq(Texts) : LooseHere(values)}
<1>1. <<>> \in S
  <2>1. PICK x \in Tokens : x = "x"
    BY TextNames
  <2>2. <<>> \in Seq(Tokens) /\ <<x>> = Append(<<>>, x) /\ <<>> \in Seq(Texts)
    OBVIOUS
  <2>3. Loose(<<x>>) = 0
    <3>1. Loose(Append(<<>>, x)) = Loose(<<>>)
      BY <2>1, <2>2, LooseGrows
    <3> QED
      BY <2>2, <3>1, NothingIsLoose
  <2>4. CheckQuery(<<>>) = <<x>>
    BY <2>1, CheckQueryStepwise
  <2>5. \A i \in DOMAIN <<>> : FALSE
    OBVIOUS
  <2>6. LooseHere(<<>>)
    BY <2>3, <2>4, <2>5 DEF LooseHere
  <2> QED
    BY <2>2, <2>6
<1>2. ASSUME NEW values \in Seq(Texts), NEW v \in Texts, values \in S
      PROVE  Append(values, v) \in S
  <2>1. PICK a \in Seq(Tokens) : a = CheckQuery(values)
    BY CheckQueryStepwise
  <2>2. v \in Seq(Tokens)
    BY DEF Texts
  <2>3. CheckQuery(Append(values, v)) = Framed(a, v)
    BY <2>1, CheckQueryStepwise
  <2>4. Loose(Framed(a, v)) = Loose(a) + Loose(v)
    BY <2>2, LooseFramed
  <2>5. Loose(a) \in Nat /\ Loose(v) \in Nat /\ (Loose(v) = 0 <=> KeepsBackslashes(v))
    BY <2>2, LooseIsCounted
  <2>6. Loose(a) = 0 <=> \A i \in DOMAIN values : KeepsBackslashes(values[i])
    BY <1>2, <2>1 DEF LooseHere
  <2>7. PICK more \in Seq(Texts) : more = Append(values, v)
    BY AppendStays
  <2>8. (\A i \in DOMAIN more : KeepsBackslashes(more[i]))
           <=> (\A i \in DOMAIN values : KeepsBackslashes(values[i])) /\ KeepsBackslashes(v)
    <3>1. PICK n \in Nat : n = Len(values)
      OBVIOUS
    <3>2. /\ DOMAIN values = 1..n /\ DOMAIN more = 1..(n + 1)
          /\ more[n + 1] = v /\ \A i \in 1..n : more[i] = values[i]
      BY <2>7, <3>1
    <3>3. /\ \A i \in 1..(n + 1) : i = n + 1 \/ i \in 1..n
          /\ \A i \in 1..n : i \in 1..(n + 1)
          /\ n + 1 \in 1..(n + 1)
      OBVIOUS
    <3> QED
      BY <3>2, <3>3
  <2>9. LooseHere(more)
    BY <2>3, <2>4, <2>5, <2>6, <2>7, <2>8 DEF LooseHere
  <2> QED
    BY <2>7, <2>9
<1> HIDE DEF S
<1>3. Seq(Texts) \subseteq S
  BY <1>1, <1>2, SeqSets
<1> QED
  BY <1>3 DEF S

\* The backslash that hides the next token of a literal.
Hiding(s) == IF s.mode = "single" /\ s.escaped THEN 1 ELSE 0

\* What the literals say, as a check would write it, up to the value being read.
Written(s) == Append(CheckQuery(s.values), "single") \o s.value

Costs(s, t) ==
    Count(t, Hiders) >= Count(InLiterals(s), Special) + Loose(Written(s)) + Hiding(s)

\* The ways of a token through the lexer, as to escapes.
LEMMA HidingGrows ==
    ASSUME NEW s \in LexStates, NEW c \in Tokens, NEW next, next = Lex(s, c)
    PROVE  \/ /\ s.mode = "single" /\ c = "backslash" /\ ~s.escaped
              /\ next.mode = "single" /\ next.escaped /\ next.value = s.value /\ next.values = s.values
           \/ /\ s.mode = "single" /\ c # "wildcard" /\ s.escaped
              /\ ~next.escaped /\ next.value = Append(s.value, c) /\ next.values = s.values
           \/ /\ s.mode = "single" /\ c = "wildcard" /\ s.escaped
              /\ ~next.escaped /\ next.values = s.values
              /\ next.value = Append(Append(s.value, "backslash"), c)
           \/ /\ s.mode = "single" /\ c = "single" /\ ~s.escaped
              /\ ~next.escaped /\ next.value = <<>> /\ next.values = Append(s.values, s.value)
           \/ /\ s.mode = "single" /\ c \notin Special /\ ~s.escaped
              /\ ~next.escaped /\ next.value = Append(s.value, c) /\ next.values = s.values
           \/ /\ s.mode # "single" /\ (next.mode = "single" => ~next.escaped)
              /\ next.value = <<>> /\ next.values = s.values
<1> DEFINE escapes == s.mode \in {"single", "double", "--"} /\ c = "backslash" /\ ~s.escaped
           mode == IF s.escaped \/ escapes THEN s.mode ELSE SparkMode(s.mode, c)
<1>1. /\ next.mode = mode /\ next.escaped = escapes
      /\ next.value = IF s.mode # "single" \/ mode # "single" THEN <<>>
                      ELSE IF escapes THEN s.value
                      ELSE Append(IF s.escaped /\ c = "wildcard" THEN Append(s.value, "backslash")
                                  ELSE s.value, c)
      /\ next.values = IF s.mode = "single" /\ mode = "" THEN Append(s.values, s.value) ELSE s.values
  BY DEF Lex
<1>2. CASE s.mode = "single"
  <2>1. CASE c = "backslash" /\ ~s.escaped
    BY <1>1, <1>2, <2>1
  <2>2. CASE c = "single" /\ ~s.escaped
    BY <1>1, <1>2, <2>2 DEF SparkMode, Quotes
  <2>3. CASE c # "wildcard" /\ s.escaped
    BY <1>1, <1>2, <2>3
  <2>4. CASE c = "wildcard" /\ s.escaped
    BY <1>1, <1>2, <2>4
  <2>5. CASE c \notin Special /\ ~s.escaped
    <3>1. c # "backslash" /\ c # "single"
      BY <2>5 DEF Special
    <3>2. mode = "single" /\ ~escapes
      BY <1>2, <2>5, <3>1 DEF SparkMode, Quotes
    <3> QED
      BY <1>1, <1>2, <2>5, <3>2
  <2> QED
    BY <2>1, <2>2, <2>3, <2>4, <2>5 DEF Special
<1>3. CASE s.mode # "single"
  <2>1. escapes => mode = s.mode
    OBVIOUS
  <2> HIDE DEF mode, escapes
  <2> QED
    BY <1>1, <1>3, <2>1
<1> QED
  BY <1>2, <1>3

\* What is said and written, with one token more in the value, and with its end.
LEMMA SayingGrows ==
    ASSUME NEW s \in LexStates
    PROVE  /\ InLiterals(s) \in Seq(Tokens) /\ Written(s) \in Seq(Tokens)
           /\ \A next : next.values = s.values =>
                 /\ next.value = s.value =>
                       InLiterals(next) = InLiterals(s) /\ Written(next) = Written(s)
                 /\ \A c \in Tokens : next.value = Append(s.value, c) =>
                       /\ InLiterals(next) = Append(InLiterals(s), c)
                       /\ Written(next) = Append(Written(s), c)
           /\ \A next : next.value = <<>> /\ next.values = Append(s.values, s.value) =>
                 /\ InLiterals(next) = InLiterals(s)
                 /\ Written(next) = Append(Append(Append(Written(s), "single"), "x"), "single")
<1>1. s.values \in Seq(Texts) /\ s.value \in Seq(Tokens) /\ s.value \in Texts
  BY DEF LexStates, Texts
<1>2. PICK f \in Seq(Tokens) : f = FlattenSeq(s.values)
  BY <1>1, FlattenStepwise DEF Texts
<1>3. PICK v \in Seq(Tokens) : v = s.value
  BY <1>1
<1>4. PICK q \in Tokens : q = "single"
  BY TextNames
<1>5. PICK a \in Seq(Tokens) : a = CheckQuery(s.values)
  BY <1>1, CheckQueryStepwise
<1>6. PICK b \in Seq(Tokens) : b = Append(a, q)
  BY AppendStays
<1>7. InLiterals(s) = f \o v /\ Written(s) = b \o v
  BY <1>2, <1>3, <1>4, <1>5, <1>6 DEF InLiterals, Written
<1>8. f \o v \in Seq(Tokens) /\ b \o v \in Seq(Tokens)
  BY <1>4, Concatenations
<1>9. ASSUME NEW next, next.values = s.values
      PROVE  InLiterals(next) = f \o next.value /\ Written(next) = b \o next.value
  BY <1>2, <1>4, <1>5, <1>6, <1>9 DEF InLiterals, Written
<1>10. ASSUME NEW next, next.value = <<>>, next.values = Append(s.values, s.value)
       PROVE  /\ InLiterals(next) = f \o v
              /\ Written(next) = Append(Append(Append(b \o v, "single"), "x"), "single")
  <2>1. FlattenSeq(next.values) = f \o v
    BY <1>1, <1>2, <1>3, <1>10, FlattenStepwise
  <2>2. (f \o v) \o <<>> = f \o v
    BY <1>4, <1>8, Concatenations
  <2>3. CheckQuery(next.values) = Append(Append(b \o v, "single"), "x")
    BY <1>1, <1>3, <1>4, <1>5, <1>6, <1>10, CheckQueryStepwise DEF Framed
  <2>4. Append(Append(Append(b \o v, "single"), "x"), "single") \in Seq(Tokens)
    <3>1. PICK x \in Tokens : x = "x"
      BY TextNames
    <3>2. Append(b \o v, q) \in Seq(Tokens)
      BY <1>8, AppendStays
    <3>3. Append(Append(b \o v, q), x) \in Seq(Tokens)
      BY <3>2, AppendStays
    <3>4. Append(Append(Append(b \o v, q), x), q) \in Seq(Tokens)
      BY <3>3, AppendStays
    <3> QED
      BY <1>4, <3>1, <3>4
  <2>5. \A e \in Seq(Tokens) : e \o <<>> = e
    BY <1>4, Concatenations
  <2> QED
    BY <1>10, <2>1, <2>2, <2>3, <2>4, <2>5 DEF InLiterals, Written
<1>11. ASSUME NEW next, next.values = s.values, next.value = s.value
       PROVE  InLiterals(next) = InLiterals(s) /\ Written(next) = Written(s)
  BY <1>3, <1>7, <1>9, <1>11
<1>12. ASSUME NEW next, next.values = s.values, NEW c \in Tokens, next.value = Append(s.value, c)
       PROVE  /\ InLiterals(next) = Append(InLiterals(s), c)
              /\ Written(next) = Append(Written(s), c)
  <2>1. f \o Append(v, c) = Append(f \o v, c) /\ b \o Append(v, c) = Append(b \o v, c)
    BY Concatenations
  <2> QED
    BY <1>3, <1>7, <1>9, <1>12, <2>1
<1>13. ASSUME NEW next, next.value = <<>>, next.values = Append(s.values, s.value)
       PROVE  /\ InLiterals(next) = InLiterals(s)
              /\ Written(next) = Append(Append(Append(Written(s), "single"), "x"), "single")
  BY <1>7, <1>10, <1>13
<1>14. InLiterals(s) \in Seq(Tokens) /\ Written(s) \in Seq(Tokens)
  BY <1>7, <1>8
<1> QED
  BY <1>11, <1>12, <1>13, <1>14

\* The account over one token.
LEMMA CostsGrow ==
    ASSUME NEW s \in LexStates, NEW t \in Seq(Tokens), NEW c \in Tokens,
           s.mode # "single" => s.value = <<>>, Costs(s, t), NEW next, next = Lex(s, c)
    PROVE  Costs(next, Append(t, c))
<1>1. PICK u \in Seq(Tokens) : u = InLiterals(s)
  BY SayingGrows
<1>2. PICK w \in Seq(Tokens) : w = Written(s)
  BY SayingGrows
<1>3. PICK b \in Tokens : b = "backslash"
  BY TextNames
<1>4. /\ Count(u, Special) \in Nat /\ Count(t, Hiders) \in Nat
      /\ Count(Append(t, c), Hiders) = IF c = "backslash" THEN Count(t, Hiders) + 1 ELSE Count(t, Hiders)
      /\ Count(Append(u, c), Special) = IF c \in Special THEN Count(u, Special) + 1 ELSE Count(u, Special)
  BY CountGrows DEF Hiders
<1>5. Loose(w) \in Nat /\ Loose(Append(w, c)) \in Nat
  BY AppendStays, LooseIsCounted
<1>6. Count(t, Hiders) >= Count(u, Special) + Loose(w) + Hiding(s)
  BY <1>1, <1>2 DEF Costs
<1> DEFINE v == InLiterals(next)
           y == Written(next)
<1>7. /\ c = "backslash" => Loose(Append(w, c)) = Loose(w) + 1
      /\ c # "backslash" => Loose(Append(w, c)) <= Loose(w)
  <2>1. CASE c = "wildcard"
    <3>1. Loose(w) = Loose(Append(w, c)) + IF EndsLoose(w) THEN 1 ELSE 0
      BY <2>1, LooseGrows
    <3> QED
      BY <1>5, <2>1, <3>1
  <2>2. CASE c # "wildcard"
    BY <1>5, <2>2, LooseGrows
  <2> QED
    BY <2>1, <2>2
<1> HIDE DEF v, y
<1> SUFFICES Count(Append(t, c), Hiders) >= Count(v, Special) + Loose(y) + Hiding(next)
  BY DEF Costs, v, y
<1>9. CASE /\ s.mode = "single" /\ c = "backslash" /\ ~s.escaped
           /\ next.mode = "single" /\ next.escaped /\ next.value = s.value /\ next.values = s.values
  <2>1. v = u /\ y = w
    BY <1>1, <1>2, <1>9, SayingGrows DEF v, y
  <2>2. Hiding(next) = 1 /\ Hiding(s) = 0
    BY <1>9 DEF Hiding
  <2> QED
    BY <1>4, <1>5, <1>6, <1>9, <2>1, <2>2
<1>10. CASE /\ s.mode = "single" /\ c # "wildcard" /\ s.escaped
            /\ ~next.escaped /\ next.value = Append(s.value, c) /\ next.values = s.values
  <2>1. Hiding(next) = 0 /\ Hiding(s) = 1
    BY <1>10 DEF Hiding
  <2>2. v = Append(u, c) /\ y = Append(w, c)
    BY <1>1, <1>2, <1>10, SayingGrows DEF v, y
  <2>3. CASE c = "backslash"
    <3>1. c \in Special
      BY <2>3 DEF Special
    <3> QED
      BY <1>4, <1>5, <1>6, <1>7, <2>1, <2>2, <2>3, <3>1
  <2>4. CASE c # "backslash"
    <3>1. Count(v, Special) <= Count(u, Special) + 1
      BY <1>4, <2>2
    <3> QED
      BY <1>4, <1>5, <1>6, <1>7, <2>1, <2>2, <2>4, <3>1
  <2> QED
    BY <2>3, <2>4
<1>11. CASE /\ s.mode = "single" /\ c = "wildcard" /\ s.escaped
            /\ ~next.escaped /\ next.values = s.values
            /\ next.value = Append(Append(s.value, "backslash"), c)
  <2>1. Hiding(next) = 0 /\ Hiding(s) = 1
    BY <1>11 DEF Hiding
  <2>2. PICK d \in Seq(Tokens) : d = Append(u, b)
    BY AppendStays
  <2>3. PICK z \in Seq(Tokens) : z = Append(w, b)
    BY AppendStays
  <2>4. v = Append(d, c) /\ y = Append(z, c)
    <3>1. PICK m \in LexStates : m.values = s.values /\ m.value = Append(s.value, b)
      <4>1. s.value \in Seq(Tokens)
        BY DEF LexStates
      <4>2. Append(s.value, b) \in Seq(Tokens)
        BY <4>1, AppendStays
      <4>3. [s EXCEPT !.value = Append(@, b)] \in LexStates
        BY <4>2 DEF LexStates
      <4> QED
        BY <4>3 DEF LexStates
    <3>2. InLiterals(m) = d /\ Written(m) = z
      BY <1>1, <1>2, <2>2, <2>3, <3>1, SayingGrows
    <3>3. next.values = m.values /\ next.value = Append(m.value, c)
      BY <1>3, <1>11, <3>1
    <3> QED
      BY <3>2, <3>3, SayingGrows DEF v, y
  <2>5. Count(d, Special) = Count(u, Special) + 1 /\ Count(Append(d, c), Special) = Count(d, Special)
    <3>1. b \in Special /\ c \notin Special
      BY <1>3, <1>11 DEF Special
    <3> QED
      BY <2>2, <3>1, CountGrows
  <2>6. Loose(z) = Loose(w) + 1 /\ EndsLoose(z)
    BY <1>3, <2>3, LooseGrows
  <2>7. Loose(z) = Loose(Append(z, c)) + IF EndsLoose(z) THEN 1 ELSE 0
    BY <1>11, LooseGrows
  <2>8. Loose(Append(z, c)) \in Nat
    BY AppendStays, LooseIsCounted
  <2> QED
    BY <1>4, <1>5, <1>6, <1>11, <2>1, <2>4, <2>5, <2>6, <2>7, <2>8
<1>12. CASE /\ s.mode = "single" /\ c = "single" /\ ~s.escaped
            /\ ~next.escaped /\ next.value = <<>> /\ next.values = Append(s.values, s.value)
  <2>1. Hiding(next) = 0 /\ Hiding(s) = 0
    BY <1>12 DEF Hiding
  <2>2. v = u /\ y = Append(Append(Append(w, "single"), "x"), "single")
    BY <1>1, <1>2, <1>12, SayingGrows DEF v, y
  <2>3. Loose(y) = Loose(w)
    <3>1. PICK q \in Tokens : q = "single"
      BY TextNames
    <3>2. PICK x \in Tokens : x = "x"
      BY TextNames
    <3>3. Append(w, q) \in Seq(Tokens) /\ Append(Append(w, q), x) \in Seq(Tokens)
      BY AppendStays
    <3>4. Loose(Append(w, q)) = Loose(w)
      BY <3>1, LooseGrows
    <3>5. Loose(Append(Append(w, q), x)) = Loose(Append(w, q))
      BY <3>2, <3>3, LooseGrows
    <3>6. Loose(Append(Append(Append(w, q), x), q)) = Loose(Append(Append(w, q), x))
      BY <3>1, <3>3, LooseGrows
    <3> QED
      BY <2>2, <3>1, <3>2, <3>4, <3>5, <3>6
  <2> QED
    BY <1>4, <1>5, <1>6, <1>12, <2>1, <2>2, <2>3
<1>13. CASE /\ s.mode = "single" /\ c \notin Special /\ ~s.escaped
            /\ ~next.escaped /\ next.value = Append(s.value, c) /\ next.values = s.values
  <2>1. Hiding(next) = 0 /\ Hiding(s) = 0
    BY <1>13 DEF Hiding
  <2>2. v = Append(u, c) /\ y = Append(w, c)
    BY <1>1, <1>2, <1>13, SayingGrows DEF v, y
  <2>3. c # "backslash" /\ c \notin Special
    BY <1>13 DEF Special
  <2> QED
    BY <1>4, <1>5, <1>6, <1>7, <2>1, <2>2, <2>3
<1>14. CASE /\ s.mode # "single" /\ (next.mode = "single" => ~next.escaped)
            /\ next.value = <<>> /\ next.values = s.values
  <2>1. Hiding(next) = 0 /\ Hiding(s) = 0
    BY <1>14 DEF Hiding
  <2>2. v = u /\ y = w
    BY <1>1, <1>2, <1>14, SayingGrows DEF v, y
  <2> QED
    BY <1>4, <1>5, <1>6, <2>1, <2>2
<1> QED
  BY <1>9, <1>10, <1>11, <1>12, <1>13, <1>14, HidingGrows

SayingCosts(t) ==
    /\ SparkReads(t).mode # "single" => SparkReads(t).value = <<>>
    /\ Costs(SparkReads(t), t)

\* The account holds for every text.
LEMMA LiteralsCost == \A t \in Seq(Tokens) : SayingCosts(t)
<1> DEFINE S == {t \in Seq(Tokens) : SayingCosts(t)}
<1>1. <<>> \in S
  <2>1. SparkReads(<<>>).value = <<>> /\ SparkReads(<<>>).values = <<>> /\ SparkReads(<<>>).mode = ""
    <3>1. NothingRead.value = <<>> /\ NothingRead.values = <<>> /\ NothingRead.mode = ""
      BY DEF NothingRead
    <3> QED
      BY <3>1, SparkReadsStepwise
  <2>2. InLiterals(SparkReads(<<>>)) = <<>>
    <3>1. <<>> \o <<>> = <<>>
      OBVIOUS
    <3> QED
      BY <2>1, <3>1, FlattenStepwise DEF InLiterals
  <2>3. Hiding(SparkReads(<<>>)) = 0
    BY <2>1 DEF Hiding
  <2>4. Loose(Written(SparkReads(<<>>))) = 0
    <3>1. PICK q \in Tokens : q = "single"
      BY TextNames
    <3>2. PICK x \in Tokens : x = "x"
      BY TextNames
    <3>3. <<x>> = Append(<<>>, x) /\ <<>> \in Seq(Tokens)
      OBVIOUS
    <3>4. PICK a \in Seq(Tokens) : a = Append(<<>>, x)
      BY <3>3, AppendStays
    <3>5. Append(a, q) \o <<>> = Append(a, q)
      BY <3>2, AppendStays, Concatenations
    <3>6. Written(SparkReads(<<>>)) = Append(a, q)
      BY <2>1, <3>1, <3>2, <3>3, <3>4, <3>5, CheckQueryStepwise DEF Written
    <3>7. Loose(a) = 0
      BY <3>2, <3>3, <3>4, NothingIsLoose, LooseGrows
    <3> QED
      BY <3>1, <3>6, <3>7, LooseGrows
  <2>5. Costs(SparkReads(<<>>), <<>>)
    BY <2>2, <2>3, <2>4, CountNothing DEF Costs
  <2>6. SayingCosts(<<>>)
    BY <2>1, <2>5 DEF SayingCosts
  <2> QED
    BY <2>6
<1>2. ASSUME NEW t \in Seq(Tokens), NEW c \in Tokens, t \in S PROVE Append(t, c) \in S
  <2>1. PICK s \in LexStates : s = SparkReads(t)
    BY SparkReadsStepwise
  <2>2. PICK next : next = SparkReads(Append(t, c)) /\ next = Lex(s, c)
    BY <2>1, SparkReadsStepwise
  <2>3. (s.mode # "single" => s.value = <<>>) /\ Costs(s, t)
    BY <1>2, <2>1 DEF SayingCosts
  <2>4. next.mode # "single" => next.value = <<>>
    BY <2>2, <2>3, LiteralsGrow
  <2>5. Costs(next, Append(t, c))
    BY <2>2, <2>3, CostsGrow
  <2>6. SayingCosts(Append(t, c))
    BY <2>2, <2>4, <2>5 DEF SayingCosts
  <2> QED
    BY <2>6, AppendStays
<1> HIDE DEF S
<1>3. Seq(Tokens) \subseteq S
  BY <1>1, <1>2, SeqSets
<1> QED
  BY <1>3 DEF S

\* The values that a text's literals say, and the backslashes of that text.
LEMMA ValuesCost ==
    ASSUME NEW t \in Seq(Tokens), NEW values \in Seq(Texts), SparkReads(t).values = values
    PROVE  Count(t, Hiders) >= Count(FlattenSeq(values), Special) + Loose(CheckQuery(values))
<1>1. PICK s \in LexStates : s = SparkReads(t)
  BY SparkReadsStepwise
<1>2. PICK all \in Seq(Tokens) : all = FlattenSeq(values)
  BY FlattenStepwise DEF Texts
<1>3. PICK v \in Seq(Tokens) : v = s.value
  BY DEF LexStates
<1>4. PICK q \in Tokens : q = "single"
  BY TextNames
<1>5. PICK a \in Seq(Tokens) : a = CheckQuery(values)
  BY CheckQueryStepwise
<1>6. PICK b \in Seq(Tokens) : b = Append(a, q)
  BY AppendStays
<1>7. InLiterals(s) = all \o v /\ Written(s) = b \o v
  BY <1>1, <1>2, <1>3, <1>4, <1>5, <1>6 DEF InLiterals, Written
<1>8. Count(t, Hiders) >= Count(all \o v, Special) + Loose(b \o v) + Hiding(s)
  BY <1>1, <1>7, LiteralsCost DEF SayingCosts, Costs
<1>9. Count(all \o v, Special) = Count(all, Special) + Count(v, Special)
  BY CountsAdd DEF Counts
<1>10. Loose(b) = Loose(a) /\ ~EndsLoose(b)
  BY <1>4, <1>6, LooseGrows
<1>11. Loose(b \o v) = Loose(a) + Loose(v)
  BY <1>10, LooseAdds DEF LooseSum
<1>12. /\ Count(v, Special) \in Nat /\ Count(t, Hiders) \in Nat /\ Count(all, Special) \in Nat
       /\ Loose(a) \in Nat /\ Loose(v) \in Nat
  BY <1>4, CountGrows, LooseIsCounted
<1>13. Hiding(s) \in {0, 1}
  BY DEF Hiding
<1> QED
  BY <1>2, <1>5, <1>8, <1>9, <1>11, <1>12, <1>13

-----------------------------------------------------------------------------
(* Values that are escaped *)

\* Spark's lexer between literals, and inside one.
Outside(s, values) == s.mode = "" /\ ~s.escaped /\ s.values = values
Inside(s, values, v) == s.mode = "single" /\ ~s.escaped /\ s.values = values /\ s.value = v
Hidden(s, values, v) == s.mode = "single" /\ s.escaped /\ s.values = values /\ s.value = v

\* An apostrophe opens a literal, a word changes nothing.
LEMMA LiteralOpens ==
    ASSUME NEW s, NEW values, Outside(s, values)
    PROVE  Inside(Lex(s, "single"), values, <<>>) /\ Outside(Lex(s, "x"), values)
<1>1. s.mode = "" /\ ~s.escaped /\ s.values = values
  BY DEF Outside
<1>2. SparkMode("", "single") = "single" /\ SparkMode("", "x") = ""
  BY DEF SparkMode, Quotes
<1>3. Inside(Lex(s, "single"), values, <<>>)
  BY <1>1, <1>2 DEF Inside, Lex
<1>4. Outside(Lex(s, "x"), values)
  BY <1>1, <1>2 DEF Outside, Lex
<1> QED
  BY <1>3, <1>4

\* A token in a literal.
LEMMA LiteralGoesOn ==
    ASSUME NEW s, NEW values, NEW v, Inside(s, values, v)
    PROVE  /\ Outside(Lex(s, "single"), Append(values, v))
           /\ Hidden(Lex(s, "backslash"), values, v)
           /\ \A c \in Tokens \ {"single", "backslash"} : Inside(Lex(s, c), values, Append(v, c))
<1>1. s.mode = "single" /\ ~s.escaped /\ s.values = values /\ s.value = v
  BY DEF Inside
<1>2. /\ SparkMode("single", "single") = ""
      /\ \A c \in Tokens \ {"single", "backslash"} : SparkMode("single", c) = "single"
  BY DEF SparkMode, Quotes
<1>3. Outside(Lex(s, "single"), Append(values, v))
  BY <1>1, <1>2 DEF Outside, Lex
<1>4. Hidden(Lex(s, "backslash"), values, v)
  BY <1>1, <1>2 DEF Hidden, Lex
<1>5. ASSUME NEW c \in Tokens \ {"single", "backslash"} PROVE Inside(Lex(s, c), values, Append(v, c))
  BY <1>1, <1>2 DEF Inside, Lex
<1> QED
  BY <1>3, <1>4, <1>5

\* A token behind a backslash, which stays before a wildcard.
LEMMA HiddenIsSaid ==
    ASSUME NEW s, NEW values, NEW v, Hidden(s, values, v), NEW c
    PROVE  Inside(Lex(s, c), values,
                  Append(IF c = "wildcard" THEN Append(v, "backslash") ELSE v, c))
<1>1. s.mode = "single" /\ s.escaped /\ s.values = values /\ s.value = v
  BY DEF Hidden
<1> QED
  BY <1>1 DEF Inside, Lex

\* A value that a seed has escaped, read inside a literal.
LEMMA SeedLiteralReads ==
    ASSUME NEW a \in Seq(Tokens), NEW values, Inside(SparkReads(a), values, <<>>)
    PROVE  \A v \in Seq(Tokens) : Inside(SparkReads(a \o SeedEscape(v)), values, v)
<1> DEFINE S == {v \in Seq(Tokens) : Inside(SparkReads(a \o SeedEscape(v)), values, v)}
<1>0. "backslash" \in Tokens
  BY TextNames
<1>1. <<>> \in S
  <2>1. a \o <<>> = a /\ SeedEscape(<<>>) = <<>>
    BY <1>0, Concatenations, SeedEscapeStepwise
  <2>2. Inside(SparkReads(a \o SeedEscape(<<>>)), values, <<>>)
    BY <2>1
  <2> QED
    BY <2>2
<1>2. ASSUME NEW v \in Seq(Tokens), NEW c \in Tokens, v \in S PROVE Append(v, c) \in S
  <2>1. PICK e \in Seq(Tokens) : e = SeedEscape(v)
    BY SeedEscapeStepwise
  <2>2. PICK b \in Seq(Tokens) : b = a \o e
    BY <1>0, Concatenations
  <2>3. Inside(SparkReads(b), values, v)
    BY <1>2, <2>1, <2>2
  <2>4. SeedEscape(Append(v, c)) = IF c \in {"backslash", "single"}
                                   THEN Append(Append(e, "backslash"), c)
                                   ELSE Append(e, c)
    BY <2>1, SeedEscapeStepwise
  <2>5. CASE c \in {"backslash", "single"}
    <3>1. PICK x \in Tokens : x = "backslash"
      BY <1>0
    <3>2. Append(e, x) \in Seq(Tokens) /\ Append(b, x) \in Seq(Tokens)
      BY AppendStays
    <3>3. a \o Append(e, x) = Append(b, x)
      BY <2>2, Concatenations
    <3>4. a \o Append(Append(e, x), c) = Append(Append(b, x), c)
      <4>1. PICK f \in Seq(Tokens) : f = Append(e, x)
        BY <3>2
      <4>2. a \o Append(f, c) = Append(a \o f, c)
        BY Concatenations
      <4> QED
        BY <3>3, <4>1, <4>2
    <3>5. SparkReads(Append(Append(b, x), c)) = Lex(Lex(SparkReads(b), x), c)
      BY <3>2, SparkReadsStepwise
    <3>6. Inside(Lex(Lex(SparkReads(b), x), c), values, Append(v, c))
      <4>1. Hidden(Lex(SparkReads(b), x), values, v)
        BY <2>3, <3>1, LiteralGoesOn
      <4>2. c # "wildcard"
        BY <2>5
      <4> QED
        BY <4>1, <4>2, HiddenIsSaid
    <3>7. Inside(SparkReads(a \o SeedEscape(Append(v, c))), values, Append(v, c))
      BY <2>4, <2>5, <3>1, <3>4, <3>5, <3>6
    <3> QED
      BY <3>7, AppendStays
  <2>6. CASE c \notin {"backslash", "single"}
    <3>1. a \o Append(e, c) = Append(b, c)
      BY <2>2, Concatenations
    <3>2. SparkReads(Append(b, c)) = Lex(SparkReads(b), c)
      BY SparkReadsStepwise
    <3>3. Inside(Lex(SparkReads(b), c), values, Append(v, c))
      BY <2>3, <2>6, LiteralGoesOn
    <3>4. Inside(SparkReads(a \o SeedEscape(Append(v, c))), values, Append(v, c))
      BY <2>4, <2>6, <3>1, <3>2, <3>3
    <3> QED
      BY <3>4, AppendStays
  <2> QED
    BY <2>5, <2>6
<1> HIDE DEF S
<1>3. Seq(Tokens) \subseteq S
  BY <1>1, <1>2, SeqSets
<1> QED
  BY <1>3 DEF S

\* The literal of a seed, in a text and closed.
LEMMA SeedLiteralArrives ==
    ASSUME NEW a \in Seq(Tokens), NEW values, Outside(SparkReads(a), values), NEW v \in Seq(Tokens)
    PROVE  /\ Outside(SparkReads(Append(Append(a, "single") \o SeedEscape(v), "single")), Append(values, v))
           /\ Outside(SparkReads(Framed(a, SeedEscape(v))), Append(values, v))
<1>1. PICK q \in Tokens : q = "single"
  BY TextNames
<1>2. PICK x \in Tokens : x = "x"
  BY TextNames
<1>3. Append(a, q) \in Seq(Tokens)
  BY AppendStays
<1>4. PICK e \in Seq(Tokens) : e = SeedEscape(v)
  BY SeedEscapeStepwise
<1>5. PICK b \in Seq(Tokens) : b = Append(a, q) \o e
  BY <1>1, <1>3, Concatenations
<1>6. Append(b, q) \in Seq(Tokens)
  BY AppendStays
<1>7. /\ SparkReads(Append(a, q)) = Lex(SparkReads(a), q)
      /\ SparkReads(Append(b, q)) = Lex(SparkReads(b), q)
      /\ SparkReads(Append(Append(b, q), x)) = Lex(SparkReads(Append(b, q)), x)
  BY <1>6, SparkReadsStepwise
<1>8. Inside(SparkReads(Append(a, q)), values, <<>>)
  BY <1>1, <1>7, LiteralOpens
<1>9. Inside(SparkReads(b), values, v)
  BY <1>3, <1>4, <1>5, <1>8, SeedLiteralReads
<1>10. Outside(SparkReads(Append(b, q)), Append(values, v))
  BY <1>1, <1>7, <1>9, LiteralGoesOn
<1>11. Outside(SparkReads(Append(Append(b, q), x)), Append(values, v))
  BY <1>2, <1>7, <1>10, LiteralOpens
<1> QED
  BY <1>1, <1>2, <1>4, <1>5, <1>10, <1>11 DEF Framed

\* After its first word a query is outside every literal.
LEMMA WordIsOutside == Outside(SparkReads(<<"x">>), <<>>)
<1>1. PICK x \in Tokens : x = "x"
  BY TextNames
<1>2. <<>> \in Seq(Tokens) /\ <<x>> = Append(<<>>, x)
  OBVIOUS
<1>3. SparkReads(<<x>>) = Lex(NothingRead, x)
  BY <1>2, SparkReadsStepwise
<1>4. Outside(NothingRead, <<>>)
  BY DEF NothingRead, Outside
<1> QED
  BY <1>1, <1>3, <1>4, LiteralOpens

\* Spark reads the values of a seed's INSERT, whatever they are.
LEMMA SeedValuesArrive ==
    \A values \in Seq(Texts) : Outside(SparkReads(SeedInsert(values)), values)
<1> DEFINE S == {values \in Seq(Texts) : Outside(SparkReads(SeedInsert(values)), values)}
<1>1. <<>> \in S
  <2>1. <<>> \in Seq(Texts)
    OBVIOUS
  <2>2. Outside(SparkReads(SeedInsert(<<>>)), <<>>)
    BY SeedInsertStepwise, WordIsOutside
  <2> QED
    BY <2>1, <2>2
<1>2. ASSUME NEW values \in Seq(Texts), NEW v \in Texts, values \in S
      PROVE  Append(values, v) \in S
  <2>1. SeedInsert(values) \in Seq(Tokens) /\ v \in Seq(Tokens)
    BY SeedInsertStepwise DEF Texts
  <2>2. SeedInsert(Append(values, v)) = Framed(SeedInsert(values), SeedEscape(v))
    BY SeedInsertStepwise
  <2>3. Outside(SparkReads(SeedInsert(Append(values, v))), Append(values, v))
    BY <1>2, <2>1, <2>2, SeedLiteralArrives
  <2>4. Append(values, v) \in Seq(Texts)
    OBVIOUS
  <2> QED
    BY <2>3, <2>4
<1> HIDE DEF S
<1>3. Seq(Texts) \subseteq S
  BY <1>1, <1>2, SeqSets
<1> QED
  BY <1>3 DEF S

\* Without an apostrophe the sensor writes a value as it is, like a check.
Escapes(v) ==
    /\ Count(v, {"single"}) = 0 => Escape(v, "single") = v
    /\ Count(Escape(v, "single"), Hiders) = Count(v, Special)

\* For every value.
LEMMA EscapesAgree == \A v \in Seq(Tokens) : Escapes(v)
<1> DEFINE S == {v \in Seq(Tokens) : Escapes(v)}
<1>0. "single" \in Tokens /\ "backslash" \in Tokens
  BY TextNames
<1>1. <<>> \in S
  <2>1. Escapes(<<>>)
    BY <1>0, EscapeStepwise, CountNothing DEF Escapes
  <2> QED
    BY <2>1
<1>2. ASSUME NEW v \in Seq(Tokens), NEW c \in Tokens, v \in S PROVE Append(v, c) \in S
  <2>1. Escapes(v)
    BY <1>2
  <2>2. PICK e \in Seq(Tokens) : e = Escape(v, "single")
    BY <1>0, EscapeStepwise
  <2>3. Escape(Append(v, c), "single") = IF c = "single" THEN Append(Append(e, "backslash"), c)
                                         ELSE Append(e, c)
    BY <1>0, <2>2, EscapeStepwise
  <2>4. Count(Append(v, c), Special)
           = IF c \in {"backslash", "single"} THEN Count(v, Special) + 1 ELSE Count(v, Special)
    BY CountGrows DEF Special
  <2>5. /\ Count(v, {"single"}) = 0 => e = v
        /\ Count(e, Hiders) = Count(v, Special)
    BY <2>1, <2>2 DEF Escapes
  <2>6. ASSUME Count(Append(v, c), {"single"}) = 0 PROVE Escape(Append(v, c), "single") = Append(v, c)
    <3>1. Count(v, {"single"}) = 0 /\ c # "single"
      BY <2>6, CountsNone
    <3> QED
      BY <2>3, <2>5, <3>1
  <2>7. Count(Escape(Append(v, c), "single"), Hiders) = Count(Append(v, c), Special)
    <3>1. PICK x \in Tokens : x = "backslash"
      BY <1>0
    <3>2. PICK g \in Seq(Tokens) : g = Append(e, x)
      BY AppendStays
    <3>3. Count(g, Hiders) = Count(e, Hiders) + 1
      BY <3>1, <3>2, CountGrows DEF Hiders
    <3>4. CASE c = "single"
      <4>1. Count(Append(g, c), Hiders) = Count(g, Hiders)
        BY <3>4, CountGrows DEF Hiders
      <4> QED
        BY <2>3, <2>4, <2>5, <3>1, <3>2, <3>3, <3>4, <4>1
    <3>5. CASE c # "single"
      <4>1. Count(Append(e, c), Hiders) = IF c = "backslash" THEN Count(e, Hiders) + 1 ELSE Count(e, Hiders)
        BY CountGrows DEF Hiders
      <4>2. Escape(Append(v, c), "single") = Append(e, c)
        BY <2>3, <3>5
      <4>3. Count(Append(v, c), Special)
               = IF c = "backslash" THEN Count(v, Special) + 1 ELSE Count(v, Special)
        BY <2>4, <3>5
      <4>4. Count(e, Hiders) = Count(v, Special)
        BY <2>5
      <4>5. Count(Append(e, c), Hiders) = Count(Append(v, c), Special)
        BY <4>1, <4>3, <4>4
      <4> QED
        BY <4>2, <4>5
    <3> QED
      BY <3>4, <3>5
  <2>8. Escapes(Append(v, c))
    BY <2>6, <2>7 DEF Escapes
  <2> QED
    BY <2>8, AppendStays
<1> HIDE DEF S
<1>3. Seq(Tokens) \subseteq S
  BY <1>1, <1>2, SeqSets
<1> QED
  BY <1>3 DEF S

Reading(a, values, v) ==
    /\ Loose(v) = 0 => Inside(SparkReads(a \o Escape(v, "single")), values, v)
    /\ \A u \in Seq(Tokens) : v = Append(u, "backslash") /\ Loose(u) = 0 =>
          Hidden(SparkReads(a \o Escape(v, "single")), values, u)

\* A value that the sensor has escaped, read inside a literal, if its backslashes
\* precede wildcards: after such a backslash the literal says what came before it.
LEMMA SensorLiteralReads ==
    ASSUME NEW a \in Seq(Tokens), NEW values, Inside(SparkReads(a), values, <<>>)
    PROVE  \A v \in Seq(Tokens) : Reading(a, values, v)
<1> DEFINE S == {v \in Seq(Tokens) : Reading(a, values, v)}
<1>0. "backslash" \in Tokens /\ "single" \in Tokens
  BY TextNames
<1>1. <<>> \in S
  <2>1. a \o <<>> = a /\ Escape(<<>>, "single") = <<>>
    BY <1>0, Concatenations, EscapeStepwise
  <2>2. \A u \in Seq(Tokens) : <<>> # Append(u, "backslash")
    BY <1>0, AppendIsSomething
  <2>3. Reading(a, values, <<>>)
    BY <2>1, <2>2 DEF Reading
  <2> QED
    BY <2>3
<1>2. ASSUME NEW v \in Seq(Tokens), NEW c \in Tokens, v \in S PROVE Append(v, c) \in S
  <2>1. PICK e \in Seq(Tokens) : e = Escape(v, "single")
    BY <1>0, EscapeStepwise
  <2>2. PICK b \in Seq(Tokens) : b = a \o e
    BY <1>0, Concatenations
  <2>3. PICK x \in Tokens : x = "backslash"
    BY <1>0
  <2>4. /\ Loose(v) = 0 => Inside(SparkReads(b), values, v)
        /\ \A u \in Seq(Tokens) : v = Append(u, x) /\ Loose(u) = 0 => Hidden(SparkReads(b), values, u)
    BY <1>2, <2>1, <2>2, <2>3 DEF Reading
  <2>5. PICK d : d = Escape(Append(v, c), "single")
    OBVIOUS
  <2>6. d = IF c = "single" THEN Append(Append(e, x), c) ELSE Append(e, c)
    BY <1>0, <2>1, <2>3, <2>5, EscapeStepwise
  <2>7. Append(b, x) \in Seq(Tokens) /\ Append(e, x) \in Seq(Tokens)
    BY AppendStays
  <2>8. a \o Append(e, c) = Append(b, c) /\ a \o Append(e, x) = Append(b, x)
    BY <2>2, Concatenations
  <2>9. a \o Append(Append(e, x), c) = Append(Append(b, x), c)
    <3>1. PICK f \in Seq(Tokens) : f = Append(e, x)
      BY <2>7
    <3>2. a \o Append(f, c) = Append(a \o f, c)
      BY Concatenations
    <3> QED
      BY <2>8, <3>1, <3>2
  <2>10. /\ SparkReads(Append(b, c)) = Lex(SparkReads(b), c)
         /\ SparkReads(Append(Append(b, x), c)) = Lex(Lex(SparkReads(b), x), c)
    BY <2>7, SparkReadsStepwise
  <2>11. Loose(v) \in Nat /\ Loose(Append(v, c)) \in Nat
    BY AppendStays, LooseIsCounted
  <2>12. ASSUME Loose(Append(v, c)) = 0 PROVE Inside(SparkReads(a \o d), values, Append(v, c))
    <3>1. c # "backslash"
      BY <2>11, <2>12, LooseGrows
    <3>2. CASE c = "wildcard" /\ EndsLoose(v)
      <4>1. PICK u \in Seq(Tokens) : v = Append(u, x)
        <5>1. v # <<>> /\ v[Len(v)] = "backslash"
          BY <3>2 DEF EndsLoose
        <5>2. Front(v) \in Seq(Tokens) /\ v = Append(Front(v), Last(v)) /\ Last(v) = v[Len(v)]
          BY <5>1, LastOfText DEF Last
        <5> QED
          BY <2>3, <5>1, <5>2
      <4>2. Loose(v) = 1
        BY <2>12, <3>2, LooseGrows
      <4>3. Loose(u) = 0
        <5>1. Loose(v) = Loose(u) + 1 /\ Loose(u) \in Nat
          BY <2>3, <4>1, LooseGrows, LooseIsCounted
        <5> QED
          BY <4>2, <5>1
      <4>4. Hidden(SparkReads(b), values, u)
        BY <2>4, <4>1, <4>3
      <4>5. Inside(Lex(SparkReads(b), c), values, Append(Append(u, "backslash"), c))
        BY <3>2, <4>4, HiddenIsSaid
      <4> QED
        BY <2>3, <2>6, <2>8, <2>10, <3>2, <4>1, <4>5
    <3>3. CASE ~(c = "wildcard" /\ EndsLoose(v))
      <4>1. Loose(v) = 0
        BY <2>11, <2>12, <3>1, <3>3, LooseGrows
      <4>2. Inside(SparkReads(b), values, v)
        BY <2>4, <4>1
      <4>3. CASE c = "single"
        <5>1. Hidden(Lex(SparkReads(b), x), values, v)
          BY <2>3, <4>2, LiteralGoesOn
        <5>2. Inside(Lex(Lex(SparkReads(b), x), c), values, Append(v, c))
          BY <4>3, <5>1, HiddenIsSaid
        <5> QED
          BY <2>6, <2>9, <2>10, <4>3, <5>2
      <4>4. CASE c # "single"
        <5>1. Inside(Lex(SparkReads(b), c), values, Append(v, c))
          BY <3>1, <4>2, <4>4, LiteralGoesOn
        <5> QED
          BY <2>6, <2>8, <2>10, <4>4, <5>1
      <4> QED
        BY <4>3, <4>4
    <3> QED
      BY <3>2, <3>3
  <2>13. ASSUME NEW u \in Seq(Tokens), Append(v, c) = Append(u, "backslash"), Loose(u) = 0
         PROVE  Hidden(SparkReads(a \o d), values, u)
    <3>1. v = u /\ c = x
      BY <2>3, <2>13, SameEnds
    <3>2. Inside(SparkReads(b), values, v)
      BY <2>4, <2>13, <3>1
    <3>3. Hidden(Lex(SparkReads(b), c), values, v)
      BY <2>3, <3>1, <3>2, LiteralGoesOn
    <3>4. c # "single"
      BY <2>3, <3>1
    <3> QED
      BY <2>6, <2>8, <2>10, <3>1, <3>3, <3>4
  <2>14. Reading(a, values, Append(v, c))
    BY <2>5, <2>12, <2>13 DEF Reading
  <2> QED
    BY <2>14, AppendStays
<1> HIDE DEF S
<1>3. Seq(Tokens) \subseteq S
  BY <1>1, <1>2, SeqSets
<1> QED
  BY <1>3 DEF S

\* The literal of the sensor or of a check, in a text and closed.
LEMMA SensorLiteralArrives ==
    ASSUME NEW a \in Seq(Tokens), NEW values, Outside(SparkReads(a), values),
           NEW v \in Seq(Tokens), Loose(v) = 0
    PROVE  /\ Outside(SparkReads(Append(Append(a, "single") \o Escape(v, "single"), "single")),
                      Append(values, v))
           /\ Outside(SparkReads(Framed(a, Escape(v, "single"))), Append(values, v))
<1>1. PICK q \in Tokens : q = "single"
  BY TextNames
<1>2. PICK x \in Tokens : x = "x"
  BY TextNames
<1>3. Append(a, q) \in Seq(Tokens)
  BY AppendStays
<1>4. PICK e \in Seq(Tokens) : e = Escape(v, "single")
  BY <1>1, EscapeStepwise
<1>5. PICK b \in Seq(Tokens) : b = Append(a, q) \o e
  BY <1>1, <1>3, Concatenations
<1>6. Append(b, q) \in Seq(Tokens)
  BY AppendStays
<1>7. /\ SparkReads(Append(a, q)) = Lex(SparkReads(a), q)
      /\ SparkReads(Append(b, q)) = Lex(SparkReads(b), q)
      /\ SparkReads(Append(Append(b, q), x)) = Lex(SparkReads(Append(b, q)), x)
  BY <1>6, SparkReadsStepwise
<1>8. Inside(SparkReads(Append(a, q)), values, <<>>)
  BY <1>1, <1>7, LiteralOpens
<1>9. Inside(SparkReads(b), values, v)
  BY <1>3, <1>4, <1>5, <1>8, SensorLiteralReads DEF Reading
<1>10. Outside(SparkReads(Append(b, q)), Append(values, v))
  BY <1>1, <1>7, <1>9, LiteralGoesOn
<1>11. Outside(SparkReads(Append(Append(b, q), x)), Append(values, v))
  BY <1>2, <1>7, <1>10, LiteralOpens
<1> QED
  BY <1>1, <1>2, <1>4, <1>5, <1>10, <1>11 DEF Framed

-----------------------------------------------------------------------------

\* Backslashes in a framed value.
LEMMA CountFramed ==
    ASSUME NEW a \in Seq(Tokens), NEW e \in Seq(Tokens)
    PROVE  /\ Count(Append(Append(a, "single") \o e, "single"), Hiders)
                 = Count(a, Hiders) + Count(e, Hiders)
           /\ Count(Framed(a, e), Hiders) = Count(a, Hiders) + Count(e, Hiders)
<1>1. PICK q \in Tokens : q = "single"
  BY TextNames
<1>2. PICK x \in Tokens : x = "x"
  BY TextNames
<1>3. PICK f \in Seq(Tokens) : f = Append(a, q)
  BY AppendStays
<1>4. PICK b \in Seq(Tokens) : b = f \o e
  BY <1>1, Concatenations
<1>5. PICK d \in Seq(Tokens) : d = Append(b, q)
  BY AppendStays
<1>6. q \notin Hiders /\ x \notin Hiders
  BY <1>1, <1>2 DEF Hiders
<1>7. Count(f, Hiders) = Count(a, Hiders)
  BY <1>3, <1>6, CountGrows
<1>8. Count(b, Hiders) = Count(f, Hiders) + Count(e, Hiders)
  BY <1>4, CountsAdd DEF Counts
<1>9. Count(d, Hiders) = Count(b, Hiders) /\ Count(Append(d, x), Hiders) = Count(d, Hiders)
  BY <1>5, <1>6, CountGrows
<1> QED
  BY <1>1, <1>2, <1>3, <1>4, <1>5, <1>7, <1>8, <1>9 DEF Framed

\* None in a word.
LEMMA WordIsPlain == Count(<<"x">>, Hiders) = 0
<1>1. PICK x \in Tokens : x = "x"
  BY TextNames
<1>2. <<>> \in Seq(Tokens) /\ <<x>> = Append(<<>>, x)
  OBVIOUS
<1>3. x \notin Hiders
  BY <1>1 DEF Hiders
<1>4. Count(Append(<<>>, x), Hiders) = Count(<<>>, Hiders)
  BY <1>2, <1>3, CountGrows
<1> QED
  BY <1>1, <1>2, <1>4, CountNothing

CheckIsPlain(values) ==
    /\ Count(CheckQuery(values), Hiders) = Count(FlattenSeq(values), Hiders)
    /\ Count(FlattenSeq(values), {"single"}) = 0 /\ Loose(CheckQuery(values)) = 0 =>
           Outside(SparkReads(CheckQuery(values)), values)

\* For every list of values.
LEMMA ChecksArePlain == \A values \in Seq(Texts) : CheckIsPlain(values)
<1> DEFINE S == {values \in Seq(Texts) : CheckIsPlain(values)}
<1>1. <<>> \in S
  <2>1. <<>> \in Seq(Texts)
    OBVIOUS
  <2>2. Count(<<"x">>, Hiders) = 0
    BY WordIsPlain
  <2>3. CheckIsPlain(<<>>)
    BY <2>2, CheckQueryStepwise, FlattenStepwise, CountNothing, WordIsOutside DEF CheckIsPlain
  <2> QED
    BY <2>1, <2>3
<1>2. ASSUME NEW values \in Seq(Texts), NEW v \in Texts, values \in S
      PROVE  Append(values, v) \in S
  <2>1. CheckIsPlain(values)
    BY <1>2
  <2>2. v \in Seq(Tokens)
    BY DEF Texts
  <2>3. PICK all \in Seq(Tokens) : all = FlattenSeq(values)
    BY FlattenStepwise DEF Texts
  <2>4. PICK q \in Seq(Tokens) : q = CheckQuery(values)
    BY CheckQueryStepwise
  <2>5. FlattenSeq(Append(values, v)) = all \o v
    BY <2>3, FlattenStepwise
  <2>6. CheckQuery(Append(values, v)) = Framed(q, v)
    BY <2>4, CheckQueryStepwise
  <2>7. Count(Framed(q, v), Hiders) = Count(q, Hiders) + Count(v, Hiders)
    BY <2>2, CountFramed
  <2>8. \A C : Count(all \o v, C) = Count(all, C) + Count(v, C)
    BY <2>2, CountsAdd DEF Counts
  <2>9. \A C : Count(all, C) \in Nat /\ Count(v, C) \in Nat
    <3>1. "x" \in Tokens
      BY TextNames
    <3> QED
      BY <2>2, <3>1, CountGrows
  <2>10. /\ Count(q, Hiders) = Count(all, Hiders)
         /\ Count(all, {"single"}) = 0 /\ Loose(q) = 0 => Outside(SparkReads(q), values)
    BY <2>1, <2>3, <2>4 DEF CheckIsPlain
  <2>11. ASSUME Count(all \o v, {"single"}) = 0, Loose(Framed(q, v)) = 0
         PROVE  Outside(SparkReads(Framed(q, v)), Append(values, v))
    <3>1. Count(all, {"single"}) = 0 /\ Count(v, {"single"}) = 0
      BY <2>8, <2>9, <2>11
    <3>2. Loose(q) = 0 /\ Loose(v) = 0
      <4>1. Loose(Framed(q, v)) = Loose(q) + Loose(v) /\ Loose(q) \in Nat /\ Loose(v) \in Nat
        BY <2>2, LooseFramed, LooseIsCounted
      <4> QED
        BY <2>11, <4>1
    <3>3. Escape(v, "single") = v
      BY <2>2, <3>1, EscapesAgree DEF Escapes
    <3>4. Outside(SparkReads(q), values)
      BY <2>10, <3>1, <3>2
    <3>5. Outside(SparkReads(Framed(q, Escape(v, "single"))), Append(values, v))
      BY <2>2, <3>2, <3>4, SensorLiteralArrives
    <3> QED
      BY <3>3, <3>5
  <2>12. CheckIsPlain(Append(values, v))
    BY <2>5, <2>6, <2>7, <2>8, <2>10, <2>11 DEF CheckIsPlain
  <2>13. Append(values, v) \in Seq(Texts)
    OBVIOUS
  <2> QED
    BY <2>12, <2>13
<1> HIDE DEF S
<1>3. Seq(Texts) \subseteq S
  BY <1>1, <1>2, SeqSets
<1> QED
  BY <1>3 DEF S

-----------------------------------------------------------------------------
(* A query begins and ends with a word. *)

Bounded(q, ends) ==
    q \in Seq(Tokens) /\ \E k \in Nat : Len(q) = k + 1 /\ q[1] = "x" /\ q[k + 1] \in ends

\* One more token.
LEMMA BoundedGrows ==
    ASSUME NEW a, NEW ends, Bounded(a, ends), NEW c \in Tokens
    PROVE  Bounded(Append(a, c), {c})
<1>1. PICK k \in Nat : a \in Seq(Tokens) /\ Len(a) = k + 1 /\ a[1] = "x"
  BY DEF Bounded
<1>2. PICK b : b = Append(a, c)
  OBVIOUS
<1>3. b \in Seq(Tokens) /\ Len(b) = (k + 1) + 1 /\ b[1] = a[1] /\ b[(k + 1) + 1] = c
  BY <1>1, <1>2
<1>4. k + 1 \in Nat
  OBVIOUS
<1> QED
  BY <1>1, <1>2, <1>3, <1>4 DEF Bounded

\* Any text after it.
LEMMA BoundedConcatenated ==
    ASSUME NEW a, NEW ends, Bounded(a, ends)
    PROVE  \A e \in Seq(Tokens) : Bounded(a \o e, Tokens)
<1> DEFINE S == {e \in Seq(Tokens) : Bounded(a \o e, Tokens)}
<1>0. a \in Seq(Tokens)
  BY DEF Bounded
<1>1. <<>> \in S
  <2>1. PICK k \in Nat : Len(a) = k + 1 /\ a[1] = "x"
    BY DEF Bounded
  <2>2. a[k + 1] \in Tokens
    BY <1>0, <2>1
  <2>3. a \o <<>> = a
    BY <1>0
  <2>4. Bounded(a \o <<>>, Tokens)
    BY <1>0, <2>1, <2>2, <2>3 DEF Bounded
  <2> QED
    BY <2>4
<1>2. ASSUME NEW e \in Seq(Tokens), NEW c \in Tokens, e \in S PROVE Append(e, c) \in S
  <2>1. a \o Append(e, c) = Append(a \o e, c)
    BY <1>0, Concatenations
  <2>2. Bounded(Append(a \o e, c), {c})
    BY <1>2, BoundedGrows
  <2>3. Bounded(a \o Append(e, c), Tokens)
    BY <2>1, <2>2 DEF Bounded
  <2> QED
    BY <2>3, AppendStays
<1> HIDE DEF S
<1>3. Seq(Tokens) \subseteq S
  BY <1>1, <1>2, SeqSets
<1> QED
  BY <1>3 DEF S

\* One more literal.
LEMMA BoundedFramed ==
    ASSUME NEW a, NEW ends, Bounded(a, ends), NEW e \in Seq(Tokens)
    PROVE  /\ Bounded(Append(Append(a, "single") \o e, "single"), {"single"})
           /\ Bounded(Framed(a, e), {"x"})
<1>1. "single" \in Tokens /\ "x" \in Tokens
  BY TextNames
<1>2. Bounded(Append(a, "single"), {"single"})
  BY <1>1, BoundedGrows
<1>3. Bounded(Append(a, "single") \o e, Tokens)
  BY <1>2, BoundedConcatenated
<1>4. Bounded(Append(Append(a, "single") \o e, "single"), {"single"})
  BY <1>1, <1>3, BoundedGrows
<1>5. Bounded(Framed(a, e), {"x"})
  BY <1>1, <1>4, BoundedGrows DEF Framed
<1> QED
  BY <1>4, <1>5

\* A query without values.
LEMMA WordIsBounded == Bounded(<<"x">>, {"x"})
<1>1. "x" \in Tokens
  BY TextNames
<1>2. <<"x">> \in Seq(Tokens)
  BY <1>1
<1>3. Len(<<"x">>) = 0 + 1 /\ <<"x">>[1] = "x" /\ <<"x">>[0 + 1] = "x" /\ 0 \in Nat
  OBVIOUS
<1> QED
  BY <1>2, <1>3 DEF Bounded

\* The queries of seeds and checks.
LEMMA QueriesAreBounded ==
    \A values \in Seq(Texts) : Bounded(SeedInsert(values), {"x"}) /\ Bounded(CheckQuery(values), {"x"})
<1> DEFINE Both(values) == Bounded(SeedInsert(values), {"x"}) /\ Bounded(CheckQuery(values), {"x"})
           S == {values \in Seq(Texts) : Both(values)}
<1> HIDE DEF Both
<1>1. <<>> \in S
  <2>1. <<>> \in Seq(Texts)
    OBVIOUS
  <2>2. Both(<<>>)
    BY SeedInsertStepwise, CheckQueryStepwise, WordIsBounded DEF Both
  <2> QED
    BY <2>1, <2>2
<1>2. ASSUME NEW values \in Seq(Texts), NEW v \in Texts, values \in S
      PROVE  Append(values, v) \in S
  <2>1. Both(values)
    BY <1>2
  <2>2. v \in Seq(Tokens) /\ SeedEscape(v) \in Seq(Tokens)
    BY SeedEscapeStepwise DEF Texts
  <2>3. /\ SeedInsert(Append(values, v)) = Framed(SeedInsert(values), SeedEscape(v))
        /\ CheckQuery(Append(values, v)) = Framed(CheckQuery(values), v)
    BY SeedInsertStepwise, CheckQueryStepwise
  <2>4. Both(Append(values, v))
    BY <2>1, <2>2, <2>3, BoundedFramed DEF Both
  <2>5. Append(values, v) \in Seq(Texts)
    OBVIOUS
  <2> QED
    BY <2>4, <2>5
<1> HIDE DEF S
<1>3. Seq(Texts) \subseteq S
  BY <1>1, <1>2, SeqSets
<1> QED
  BY <1>3 DEF S, Both

\* runSQL sends such a query as it is, unless it holds a comment.
LEMMA QueriesGoAsTheyAre ==
    ASSUME NEW q, Bounded(q, {"x", "single"}), NoComment(q)
    PROVE  RunSQL(q) = q
<1>1. q \in Seq(Tokens)
  BY DEF Bounded
<1>2. PICK k \in Nat : Len(q) = k + 1 /\ q[1] = "x" /\ q[k + 1] \in {"x", "single"}
  BY DEF Bounded
<1>3. q[1] # "newline" /\ q[k + 1] \notin {"newline", ";"}
  BY <1>2
<1> QED
  BY <1>1, <1>2, <1>3, RunSQLUnchanged

-----------------------------------------------------------------------------
(* Inserts in one piece *)

\* The scanner has made one piece of the text.
Unsplit(q) == Scanned(q).statements = <<>> /\ Scanned(q).current = q

\* The piece goes on unless a semicolon ends it.
LEMMA UnsplitGrows ==
    ASSUME NEW q \in Seq(Tokens), Unsplit(q), NEW c \in Tokens, c # ";" \/ Scanned(q).mode # ""
    PROVE  /\ Unsplit(Append(q, c))
           /\ Scanned(Append(q, c)).mode = GoMode(Scanned(q).mode, c)
<1>1. PICK s \in ScanStates : s = Scanned(q)
  BY ScannedStepwise
<1>2. PICK next : next = Scanned(Append(q, c)) /\ next = Scan(s, c)
  BY <1>1, ScannedStepwise
<1>3. s.statements = <<>> /\ s.current = q /\ ~(s.mode = "" /\ c = ";")
  BY <1>1 DEF Unsplit
<1>4. next = [s EXCEPT !.mode = GoMode(@, c), !.current = Append(@, c)]
  BY <1>2, <1>3 DEF Scan
<1>5. next.statements = <<>> /\ next.current = Append(q, c) /\ next.mode = GoMode(s.mode, c)
  BY <1>3, <1>4 DEF ScanStates
<1> QED
  BY <1>1, <1>2, <1>5 DEF Unsplit

\* An escaped value without semicolons, and one without apostrophes in a literal.
LEMMA SemicolonlessIsUnsplit ==
    ASSUME NEW a \in Seq(Tokens), Unsplit(a)
    PROVE  \A v \in Seq(Tokens) : Count(v, {";"}) = 0 => Unsplit(a \o SeedEscape(v))
<1> DEFINE Fine(v) == Count(v, {";"}) = 0 => Unsplit(a \o SeedEscape(v))
           S == {v \in Seq(Tokens) : Fine(v)}
<1> HIDE DEF Fine
<1>0. "backslash" \in Tokens
  BY TextNames
<1>1. <<>> \in S
  <2>1. a \o <<>> = a /\ SeedEscape(<<>>) = <<>>
    BY <1>0, Concatenations, SeedEscapeStepwise
  <2>2. Fine(<<>>)
    BY <2>1 DEF Fine
  <2> QED
    BY <2>2
<1>2. ASSUME NEW v \in Seq(Tokens), NEW c \in Tokens, v \in S PROVE Append(v, c) \in S
  <2>1. PICK e \in Seq(Tokens) : e = SeedEscape(v)
    BY SeedEscapeStepwise
  <2>2. PICK b \in Seq(Tokens) : b = a \o e
    BY <1>0, Concatenations
  <2>3. PICK x \in Tokens : x = "backslash"
    BY <1>0
  <2>4. PICK f \in Seq(Tokens) : f = Append(e, x)
    BY AppendStays
  <2>5. PICK g \in Seq(Tokens) : g = Append(b, x)
    BY AppendStays
  <2>6. a \o f = g /\ a \o Append(e, c) = Append(b, c)
    BY <2>2, <2>4, <2>5, Concatenations
  <2>7. a \o Append(f, c) = Append(g, c)
    BY <2>6, Concatenations
  <2>8. ASSUME Count(Append(v, c), {";"}) = 0 PROVE Unsplit(a \o SeedEscape(Append(v, c)))
    <3>1. Count(v, {";"}) = 0 /\ c # ";"
      BY <2>8, CountsNone
    <3>2. Unsplit(b)
      BY <1>2, <2>1, <2>2, <3>1 DEF Fine
    <3>3. Unsplit(g)
      BY <2>3, <2>5, <3>2, UnsplitGrows
    <3>4. Unsplit(Append(b, c)) /\ Unsplit(Append(g, c))
      BY <3>1, <3>2, <3>3, UnsplitGrows
    <3>5. SeedEscape(Append(v, c)) \in {Append(f, c), Append(e, c)}
      BY <2>1, <2>3, <2>4, SeedEscapeStepwise
    <3> QED
      BY <2>6, <2>7, <3>4, <3>5
  <2>9. Fine(Append(v, c))
    BY <2>8 DEF Fine
  <2> QED
    BY <2>9, AppendStays
<1> HIDE DEF S
<1>3. Seq(Tokens) \subseteq S
  BY <1>1, <1>2, SeqSets
<1> QED
  BY <1>3 DEF S, Fine

UnsplitInside(q) == Unsplit(q) /\ Scanned(q).mode = "single"

\* And one without apostrophes, in a literal.
LEMMA QuotelessIsUnsplit ==
    ASSUME NEW a \in Seq(Tokens), UnsplitInside(a)
    PROVE  \A v \in Seq(Tokens) : Count(v, {"single"}) = 0 => UnsplitInside(a \o SeedEscape(v))
<1> DEFINE Fine(v) == Count(v, {"single"}) = 0 => UnsplitInside(a \o SeedEscape(v))
           S == {v \in Seq(Tokens) : Fine(v)}
<1> HIDE DEF Fine
<1>0. "backslash" \in Tokens
  BY TextNames
<1>1. <<>> \in S
  <2>1. a \o <<>> = a /\ SeedEscape(<<>>) = <<>>
    BY <1>0, Concatenations, SeedEscapeStepwise
  <2>2. Fine(<<>>)
    BY <2>1 DEF Fine
  <2> QED
    BY <2>2
<1>2. ASSUME NEW v \in Seq(Tokens), NEW c \in Tokens, v \in S PROVE Append(v, c) \in S
  <2>1. PICK e \in Seq(Tokens) : e = SeedEscape(v)
    BY SeedEscapeStepwise
  <2>2. PICK b \in Seq(Tokens) : b = a \o e
    BY <1>0, Concatenations
  <2>3. PICK x \in Tokens : x = "backslash"
    BY <1>0
  <2>4. PICK f \in Seq(Tokens) : f = Append(e, x)
    BY AppendStays
  <2>5. PICK g \in Seq(Tokens) : g = Append(b, x)
    BY AppendStays
  <2>6. a \o f = g /\ a \o Append(e, c) = Append(b, c)
    BY <2>2, <2>4, <2>5, Concatenations
  <2>7. a \o Append(f, c) = Append(g, c)
    BY <2>6, Concatenations
  <2>8. ASSUME NEW q \in Seq(Tokens), UnsplitInside(q), NEW d \in Tokens, d # "single"
        PROVE  UnsplitInside(Append(q, d))
    <3>1. GoMode("single", d) = "single"
      BY <2>8 DEF GoMode, Quotes
    <3> QED
      BY <2>8, <3>1, UnsplitGrows DEF UnsplitInside
  <2>9. ASSUME Count(Append(v, c), {"single"}) = 0 PROVE UnsplitInside(a \o SeedEscape(Append(v, c)))
    <3>1. Count(v, {"single"}) = 0 /\ c # "single"
      BY <2>9, CountsNone
    <3>2. UnsplitInside(b)
      BY <1>2, <2>1, <2>2, <3>1 DEF Fine
    <3>3. UnsplitInside(g)
      BY <2>3, <2>5, <2>8, <3>2
    <3>4. UnsplitInside(Append(b, c)) /\ UnsplitInside(Append(g, c))
      BY <2>8, <3>1, <3>2, <3>3
    <3>5. SeedEscape(Append(v, c)) \in {Append(f, c), Append(e, c)}
      BY <2>1, <2>3, <2>4, SeedEscapeStepwise
    <3> QED
      BY <2>6, <2>7, <3>4, <3>5
  <2>10. Fine(Append(v, c))
    BY <2>9 DEF Fine
  <2> QED
    BY <2>10, AppendStays
<1> HIDE DEF S
<1>3. Seq(Tokens) \subseteq S
  BY <1>1, <1>2, SeqSets
<1> QED
  BY <1>3 DEF S, Fine

\* A seed's INSERT is one piece, unless values hold an apostrophe and a semicolon.
InOnePiece(values) ==
    /\ Count(FlattenSeq(values), {";"}) = 0 => Unsplit(SeedInsert(values))
    /\ Count(FlattenSeq(values), {"single"}) = 0 =>
           Unsplit(SeedInsert(values)) /\ Scanned(SeedInsert(values)).mode = ""

\* For every list of values.
LEMMA SeedsAreInOnePiece == \A values \in Seq(Texts) : InOnePiece(values)
<1> DEFINE S == {values \in Seq(Texts) : InOnePiece(values)}
<1>1. <<>> \in S
  <2>1. <<>> \in Seq(Texts) /\ <<>> \in Seq(Tokens)
    OBVIOUS
  <2>2. PICK x \in Tokens : x = "x"
    BY TextNames
  <2>3. <<x>> = Append(<<>>, x)
    OBVIOUS
  <2>4. Scanned(<<>>).statements = <<>> /\ Scanned(<<>>).current = <<>> /\ Scanned(<<>>).mode = ""
    <3>1. NoStatement.statements = <<>> /\ NoStatement.current = <<>> /\ NoStatement.mode = ""
      BY DEF NoStatement
    <3> QED
      BY <3>1, ScannedStepwise
  <2>5. Unsplit(<<>>)
    BY <2>4 DEF Unsplit
  <2>6. GoMode("", x) = ""
    BY <2>2 DEF GoMode, Quotes
  <2>7. Unsplit(<<x>>) /\ Scanned(<<x>>).mode = ""
    BY <2>1, <2>2, <2>3, <2>4, <2>5, <2>6, UnsplitGrows
  <2>8. InOnePiece(<<>>)
    BY <2>2, <2>7, SeedInsertStepwise DEF InOnePiece
  <2> QED
    BY <2>1, <2>8
<1>2. ASSUME NEW values \in Seq(Texts), NEW v \in Texts, values \in S
      PROVE  Append(values, v) \in S
  <2>1. InOnePiece(values)
    BY <1>2
  <2>2. v \in Seq(Tokens)
    BY DEF Texts
  <2>3. PICK all \in Seq(Tokens) : all = FlattenSeq(values)
    BY FlattenStepwise DEF Texts
  <2>4. PICK a \in Seq(Tokens) : a = SeedInsert(values)
    BY SeedInsertStepwise
  <2>5. PICK e \in Seq(Tokens) : e = SeedEscape(v)
    BY <2>2, SeedEscapeStepwise
  <2>6. FlattenSeq(Append(values, v)) = all \o v
    BY <2>3, FlattenStepwise
  <2>7. PICK q \in Tokens : q = "single"
    BY TextNames
  <2>8. PICK x \in Tokens : x = "x"
    BY TextNames
  <2>9. PICK f \in Seq(Tokens) : f = Append(a, q)
    BY AppendStays
  <2>10. PICK g \in Seq(Tokens) : g = f \o e
    BY <2>7, Concatenations
  <2>11. PICK h \in Seq(Tokens) : h = Append(g, q)
    BY AppendStays
  <2>12. SeedInsert(Append(values, v)) = Append(h, x)
    BY <2>4, <2>5, <2>7, <2>8, <2>9, <2>10, <2>11, SeedInsertStepwise DEF Framed
  <2>13. \A C : Count(all \o v, C) = 0 => Count(all, C) = 0 /\ Count(v, C) = 0
    <3> TAKE C
    <3>1. Count(all \o v, C) = Count(all, C) + Count(v, C)
      BY <2>2, CountsAdd DEF Counts
    <3>2. Count(all, C) \in Nat /\ Count(v, C) \in Nat
      BY <2>2, <2>7, CountGrows
    <3> QED
      BY <3>1, <3>2
  <2>14. ASSUME Count(all \o v, {";"}) = 0 PROVE Unsplit(Append(h, x))
    <3>1. Count(all, {";"}) = 0 /\ Count(v, {";"}) = 0
      BY <2>13, <2>14
    <3>2. Unsplit(a)
      BY <2>1, <2>3, <2>4, <3>1 DEF InOnePiece
    <3>3. Unsplit(f)
      BY <2>7, <2>9, <3>2, UnsplitGrows
    <3>4. Unsplit(g)
      BY <2>2, <2>5, <2>10, <3>1, <3>3, SemicolonlessIsUnsplit
    <3>5. Unsplit(h)
      BY <2>7, <2>11, <3>4, UnsplitGrows
    <3> QED
      BY <2>8, <3>5, UnsplitGrows
  <2>15. ASSUME Count(all \o v, {"single"}) = 0
         PROVE  Unsplit(Append(h, x)) /\ Scanned(Append(h, x)).mode = ""
    <3>1. Count(all, {"single"}) = 0 /\ Count(v, {"single"}) = 0
      BY <2>13, <2>15
    <3>2. Unsplit(a) /\ Scanned(a).mode = ""
      BY <2>1, <2>3, <2>4, <3>1 DEF InOnePiece
    <3>3. GoMode("", q) = "single" /\ GoMode("single", q) = "" /\ GoMode("", x) = ""
      BY <2>7, <2>8 DEF GoMode, Quotes
    <3>4. UnsplitInside(f)
      BY <2>7, <2>9, <3>2, <3>3, UnsplitGrows DEF UnsplitInside
    <3>5. Unsplit(g) /\ Scanned(g).mode = "single"
      BY <2>2, <2>5, <2>10, <3>1, <3>4, QuotelessIsUnsplit DEF UnsplitInside
    <3>6. Unsplit(h) /\ Scanned(h).mode = ""
      BY <2>7, <2>11, <3>3, <3>5, UnsplitGrows
    <3> QED
      BY <2>8, <3>3, <3>6, UnsplitGrows
  <2>16. InOnePiece(Append(values, v))
    BY <2>6, <2>12, <2>14, <2>15 DEF InOnePiece
  <2>17. Append(values, v) \in Seq(Texts)
    OBVIOUS
  <2> QED
    BY <2>16, <2>17
<1> HIDE DEF S
<1>3. Seq(Texts) \subseteq S
  BY <1>1, <1>2, SeqSets
<1> QED
  BY <1>3 DEF S

\* A text in one piece is submitted whole.
LEMMA OnePieceGoesAsItIs ==
    ASSUME NEW q, Bounded(q, {"x"}), NoComment(q), Unsplit(q)
    PROVE  RunQueryWithoutResult(q) = <<q>>
<1>1. q \in Texts
  BY DEF Bounded, Texts
<1>2. RunSQL(q) = q
  <2>1. Bounded(q, {"x", "single"})
    BY DEF Bounded
  <2> QED
    BY <2>1, QueriesGoAsTheyAre
<1>3. ~Blank(q)
  <2>1. PICK k \in Nat : Len(q) = k + 1 /\ q[1] = "x"
    BY DEF Bounded
  <2>2. 1 \in DOMAIN q
    BY <1>1, <2>1 DEF Texts
  <2> QED
    BY <2>1, <2>2 DEF Blank
<1>4. <<>> \in Seq(Texts) /\ <<q>> = Append(<<>>, q)
  BY <1>1
<1>5. NonBlank(<<q>>) = <<q>>
  <2>1. NonBlank(Append(<<>>, q)) = Keep(<<>>, q)
    BY <1>1, <1>4, NonBlankStepwise
  <2>2. Keep(<<>>, q) = Append(<<>>, q)
    BY <1>3 DEF Keep
  <2> QED
    BY <1>4, <2>1, <2>2
<1>6. SplitStatements(q) = <<q>>
  <2>1. SplitStatements(q) = NonBlank(Append(Scanned(q).statements, Scanned(q).current))
    BY DEF SplitStatements, Scanned
  <2> QED
    BY <1>4, <1>5, <2>1 DEF Unsplit
<1>7. [i \in DOMAIN <<q>> |-> RunSQL(<<q>>[i])] = <<q>>
  <2>1. \A i \in DOMAIN <<q>> : <<q>>[i] = q
    OBVIOUS
  <2>2. [i \in DOMAIN <<q>> |-> RunSQL(<<q>>[i])] = [i \in DOMAIN <<q>> |-> <<q>>[i]]
    BY <1>2, <2>1
  <2>3. [i \in DOMAIN <<q>> |-> <<q>>[i]] = <<q>>
    OBVIOUS
  <2> QED
    BY <2>2, <2>3
<1> QED
  BY <1>5, <1>6, <1>7 DEF RunQueryWithoutResult

-----------------------------------------------------------------------------
(* What becomes of values *)

\* Values arrive from a check exactly when they have no apostrophe, their backslashes
\* precede wildcards and no comment is lost: what a literal says of any other
\* backslash or of an apostrophe took one more backslash than the query holds.
LEMMA CheckArrives ==
    ASSUME NEW values \in Seq(Texts)
    PROVE  SparkReads(RunSQL(CheckQuery(values))).values = values
              <=> /\ NoComment(FlattenSeq(values))
                  /\ Loose(CheckQuery(values)) = 0
                  /\ Count(FlattenSeq(values), {"single"}) = 0
<1>1. PICK all \in Seq(Tokens) : all = FlattenSeq(values)
  BY FlattenStepwise DEF Texts
<1>2. PICK q \in Seq(Tokens) : q = CheckQuery(values)
  BY CheckQueryStepwise
<1>3. NoComment(q) <=> NoComment(all)
  BY <1>1, <1>2, QueriesCommentTheSame DEF Same
<1>4. NoComment(q) => RunSQL(q) = q
  <2>1. Bounded(q, {"x"})
    BY <1>2, QueriesAreBounded
  <2>2. Bounded(q, {"x", "single"})
    BY <2>1 DEF Bounded
  <2> QED
    BY <2>2, QueriesGoAsTheyAre
<1>5. /\ Count(q, Hiders) = Count(all, Hiders)
      /\ Count(all, {"single"}) = 0 /\ Loose(q) = 0 => Outside(SparkReads(q), values)
  BY <1>1, <1>2, ChecksArePlain DEF CheckIsPlain
<1>6. /\ Count(all, Hiders) \in Nat /\ Count(all, {"single"}) \in Nat /\ Loose(q) \in Nat
      /\ Count(all, Special) = Count(all, Hiders) + Count(all, {"single"})
  <2>1. "x" \in Tokens
    BY TextNames
  <2> QED
    BY <2>1, CountGrows, LooseIsCounted, SpecialCounts
<1>7. ASSUME SparkReads(RunSQL(q)).values = values
      PROVE  NoComment(all) /\ Loose(q) = 0 /\ Count(all, {"single"}) = 0
  <2>1. NoComment(all)
    BY <1>1, <1>7, ReadValuesHaveNone
  <2>2. SparkReads(q).values = values
    BY <1>3, <1>4, <1>7, <2>1
  <2>3. Count(q, Hiders) >= Count(all, Special) + Loose(q)
    BY <1>1, <1>2, <2>2, ValuesCost
  <2>4. Loose(q) = 0 /\ Count(all, {"single"}) = 0
    BY <1>5, <1>6, <2>3
  <2> QED
    BY <2>1, <2>4
<1>8. ASSUME NoComment(all), Loose(q) = 0, Count(all, {"single"}) = 0
      PROVE  SparkReads(RunSQL(q)).values = values
  BY <1>3, <1>4, <1>5, <1>8 DEF Outside
<1> QED
  BY <1>1, <1>2, <1>7, <1>8

\* A value arrives from the sensor exactly when its backslashes precede wildcards and
\* it has no comment.
LEMMA SensorArrives ==
    ASSUME NEW v \in Seq(Tokens)
    PROVE  SparkReads(RunSQL(TableExistsShowQuery(v))).values = <<v>>
              <=> NoComment(v) /\ Loose(CheckQuery(<<v>>)) = 0
<1>0. "x" \in Tokens /\ "single" \in Tokens
  BY TextNames
<1>1. PICK a \in Seq(Tokens) : a = <<"x">>
  BY <1>0, OneToken
<1>2. PICK e \in Seq(Tokens) : e = Escape(v, "single")
  BY <1>0, EscapeStepwise
<1>3. TableExistsShowQuery(v) = Append(Append(a, "single") \o e, "single")
  BY <1>1, <1>2, ShowQueryCommentsTheSame
<1>4. Bounded(TableExistsShowQuery(v), {"single"})
  BY <1>1, <1>3, WordIsBounded, BoundedFramed
<1>5. PICK q \in Seq(Tokens) : q = TableExistsShowQuery(v)
  BY <1>4 DEF Bounded
<1>6. NoComment(q) <=> NoComment(v)
  BY <1>5, ShowQueryCommentsTheSame DEF Same
<1>7. NoComment(q) => RunSQL(q) = q
  <2>1. Bounded(q, {"x", "single"})
    BY <1>4, <1>5 DEF Bounded
  <2> QED
    BY <2>1, QueriesGoAsTheyAre
<1>8. Count(q, Hiders) = Count(v, Special)
  <2>1. Count(q, Hiders) = Count(a, Hiders) + Count(e, Hiders)
    BY <1>3, <1>5, CountFramed
  <2>2. Count(e, Hiders) = Count(v, Special)
    BY <1>2, EscapesAgree DEF Escapes
  <2>3. Count(a, Hiders) = 0
    BY <1>0, <1>1, WordIsPlain
  <2>4. Count(v, Special) \in Nat
    BY <1>0, CountGrows
  <2> QED
    BY <2>1, <2>2, <2>3, <2>4
<1>9. PICK values \in Seq(Texts) :
         values = <<v>> /\ values = Append(<<>>, v) /\ FlattenSeq(values) = v
  <2>1. <<>> \in Seq(Texts) /\ v \in Texts /\ <<v>> \in Seq(Texts) /\ <<v>> = Append(<<>>, v)
    BY DEF Texts
  <2>2. FlattenSeq(<<v>>) = <<>> \o v
    BY <2>1, FlattenStepwise
  <2>3. <<>> \o v = v
    OBVIOUS
  <2> QED
    BY <2>1, <2>2, <2>3
<1>10. PICK k \in Nat : k = Loose(CheckQuery(values))
  <2>1. CheckQuery(values) \in Seq(Tokens)
    BY CheckQueryStepwise
  <2> QED
    BY <2>1, LooseIsCounted
<1>11. k = 0 <=> Loose(v) = 0
  <2>1. \A i \in DOMAIN <<v>> : i = 1 /\ <<v>>[i] = v
    OBVIOUS
  <2>2. 1 \in DOMAIN <<v>> /\ <<v>>[1] = v
    OBVIOUS
  <2>3. Loose(v) = 0 <=> KeepsBackslashes(v)
    BY LooseIsCounted
  <2> QED
    BY <1>9, <1>10, <2>1, <2>2, <2>3, LooseValues DEF LooseHere
<1>12. ASSUME SparkReads(RunSQL(q)).values = values
       PROVE  NoComment(v) /\ k = 0
  <2>1. NoComment(v)
    BY <1>9, <1>12, ReadValuesHaveNone
  <2>2. SparkReads(q).values = values
    BY <1>6, <1>7, <1>12, <2>1
  <2>3. Count(q, Hiders) >= Count(v, Special) + k
    BY <1>9, <1>10, <2>2, ValuesCost
  <2>4. Count(v, Special) \in Nat
    BY <1>0, CountGrows
  <2> QED
    BY <1>8, <2>1, <2>3, <2>4
<1>13. ASSUME NoComment(v), k = 0
       PROVE  SparkReads(RunSQL(q)).values = values
  <2>1. Outside(SparkReads(a), <<>>)
    BY <1>1, WordIsOutside
  <2>2. Outside(SparkReads(q), Append(<<>>, v))
    BY <1>2, <1>3, <1>5, <1>11, <1>13, <2>1, SensorLiteralArrives
  <2> QED
    BY <1>6, <1>7, <1>9, <1>13, <2>2 DEF Outside
<1> QED
  BY <1>5, <1>9, <1>10, <1>12, <1>13

\* Values arrive from a seed unless one has an apostrophe and one a semicolon.
LEMMA SeedArrives ==
    ASSUME NEW values \in Seq(Texts), NoComment(FlattenSeq(values)),
           Count(FlattenSeq(values), {";"}) = 0 \/ Count(FlattenSeq(values), {"single"}) = 0
    PROVE  /\ RunQueryWithoutResult(SeedInsert(values)) = <<SeedInsert(values)>>
           /\ SparkReads(SeedInsert(values)).values = values
<1>1. Unsplit(SeedInsert(values))
  BY SeedsAreInOnePiece DEF InOnePiece
<1>2. NoComment(SeedInsert(values))
  BY QueriesCommentTheSame DEF Same
<1>3. Bounded(SeedInsert(values), {"x"})
  BY QueriesAreBounded
<1>4. RunQueryWithoutResult(SeedInsert(values)) = <<SeedInsert(values)>>
  BY <1>1, <1>2, <1>3, OnePieceGoesAsItIs
<1>5. SparkReads(SeedInsert(values)).values = values
  BY SeedValuesArrive DEF Outside
<1> QED
  BY <1>4, <1>5

-----------------------------------------------------------------------------

\* ValuesArrive, from the lemmas on the three kinds of queries.
LEMMA TypedValuesArrive ==
    ASSUME cells \in Seq(Seq(Tokens))
    PROVE  ValuesArrive
<1>1. PICK values \in Seq(Texts) : values = cells
  BY DEF Texts
<1>2. PICK all \in Seq(Tokens) : all = FlattenSeq(cells)
  BY <1>1, FlattenStepwise DEF Texts
<1>3. SanitizeSQL(all) = all <=> NoComment(all)
  BY SanitizeChanges
<1>4. \A C : Count(all, C) = 0 <=> \A i \in DOMAIN all : all[i] \notin C
  <2>1. "x" \in Tokens
    BY TextNames
  <2> QED
    BY <2>1, CountGrows
<1>5. \A c : c \notin Range(all) <=> Count(all, {c}) = 0
  BY <1>4 DEF Range
<1>6. Loose(CheckQuery(cells)) = 0 <=> \A i \in DOMAIN cells : KeepsBackslashes(cells[i])
  BY <1>1, LooseValues DEF LooseHere
<1>8. ASSUME NoComment(all), ~({"single", ";"} \subseteq Range(all))
      PROVE  /\ Len(RunQueryWithoutResult(SeedInsert(cells))) = 1
             /\ SparkReads(RunQueryWithoutResult(SeedInsert(cells))[1]).values = cells
  <2>1. Count(all, {";"}) = 0 \/ Count(all, {"single"}) = 0
    BY <1>5, <1>8
  <2>2. /\ RunQueryWithoutResult(SeedInsert(cells)) = <<SeedInsert(cells)>>
        /\ SparkReads(SeedInsert(cells)).values = cells
    BY <1>1, <1>2, <1>8, <2>1, SeedArrives
  <2> QED
    BY <2>2
<1>9. ASSUME Len(cells) = 1
      PROVE  SparkReads(RunSQL(TableExistsShowQuery(cells[1]))).values = cells
                <=> NoComment(all) /\ Loose(CheckQuery(cells)) = 0
  <2>1. PICK v \in Seq(Tokens) : v = cells[1] /\ cells = <<v>>
    BY <1>9, OnlyOne
  <2>3. all = v
    <3>1. <<>> \in Seq(Texts) /\ v \in Texts /\ <<v>> = Append(<<>>, v)
      BY DEF Texts
    <3>2. FlattenSeq(<<v>>) = <<>> \o v
      BY <3>1, FlattenStepwise
    <3>3. <<>> \o v = v
      OBVIOUS
    <3> QED
      BY <1>2, <2>1, <3>2, <3>3
  <2> QED
    BY <2>1, <2>3, SensorArrives
<1>10. SparkReads(RunSQL(CheckQuery(cells))).values = cells
          <=> NoComment(all) /\ Loose(CheckQuery(cells)) = 0 /\ Count(all, {"single"}) = 0
  BY <1>1, <1>2, CheckArrives
<1>11. \A q : Len(<<q>>) = 1 /\ <<q>>[1] = q
  OBVIOUS
<1> QED
  BY <1>2, <1>3, <1>5, <1>6, <1>8, <1>9, <1>10, <1>11 DEF ValuesArrive

\* What becomes of the values that seeds, checks and the sensor write into SQL
\* (seed.go, checks.go, sensor.go), for values of every number and length.
THEOREM ValuesReachSpark == TextSpec => []ValuesArrive
<1>1. TextTypeOK => ValuesArrive
  BY TypedValuesArrive DEF TextTypeOK
<1> QED
  BY <1>1, TextTypeCorrect, PTL

-----------------------------------------------------------------------------
(* Batches *)

LEMMA DivisionBounds ==
    ASSUME NEW a \in Nat, NEW b \in Nat \ {0}
    PROVE  /\ a \div b \in Nat
           /\ b * (a \div b) <= a
           /\ a < b * (a \div b) + b
OBVIOUS

LEMMA DivisionIsMonotone ==
    ASSUME NEW b \in Nat \ {0}, NEW i \in Nat, NEW j \in Nat, i <= j
    PROVE  i \div b <= j \div b
OBVIOUS

LEMMA ProductIsMonotone ==
    ASSUME NEW b \in Nat, NEW i \in Nat, NEW j \in Nat, i <= j
    PROVE  i * b <= j * b
OBVIOUS

LEMMA MinOfTwo ==
    ASSUME NEW a \in Nat, NEW b \in Nat, NEW x \in Nat
    PROVE  x <= Min({a, b}) <=> x <= a /\ x <= b
<1> DEFINE m == Min({a, b})
<1>1. \E y \in {a, b} : \A z \in {a, b} : y <= z
  OBVIOUS
<1>2. m \in {a, b} /\ \A z \in {a, b} : m <= z
  BY <1>1 DEF Min
<1> HIDE DEF m
<1>3. x <= m <=> x <= a /\ x <= b
  BY <1>2
<1> QED
  BY <1>3 DEF m

LEMMA StepsAreNat ==
    ASSUME NEW v \in DOMAIN Sizes
    PROVE  LastStep(v) \in Nat /\ Sizes[v] \in Nat
<1>1. Sizes[v] \in Nat /\ BatchSize \in Nat \ {0}
  BY SeedAssumption
<1>2. Sizes[v] + BatchSize - 1 \in Nat
  BY <1>1
<1> QED
  BY <1>1, <1>2, DivisionBounds DEF LastStep

LEMMA RowsAre ==
    ASSUME NEW r
    PROVE  r \in Rows <=> \E v \in DOMAIN Sizes : \E i \in 1..Sizes[v] : r = <<v, i>>
BY DEF Rows

LEMMA BatchIs ==
    ASSUME NEW v \in DOMAIN Sizes, NEW k \in Nat
    PROVE  Batch(v, k + 1) =
               {r \in Rows : r[1] = v /\ k * BatchSize < r[2] /\ r[2] <= (k + 1) * BatchSize}
<1>1. ASSUME NEW r \in Rows, r[1] = v
      PROVE  r[2] <= Min({(k + 1) * BatchSize, Sizes[v]}) <=> r[2] <= (k + 1) * BatchSize
  <2>1. r[2] \in Nat /\ r[2] <= Sizes[v] /\ Sizes[v] \in Nat
    BY <1>1, RowsAre, StepsAreNat
  <2>2. (k + 1) * BatchSize \in Nat
    BY SeedAssumption
  <2> QED
    BY <2>1, <2>2, MinOfTwo
<1>2. \A r \in Rows : r[1] = v =>
          (r[2] > ((k + 1) - 1) * BatchSize <=> k * BatchSize < r[2])
  <2>1. (k + 1) - 1 = k
    OBVIOUS
  <2>2. k * BatchSize \in Nat
    BY SeedAssumption
  <2>3. \A r \in Rows : r[1] = v => r[2] \in Nat
    BY RowsAre
  <2> QED
    BY <2>1, <2>2, <2>3
<1> QED
  BY <1>1, <1>2 DEF Batch

\* The first k batches are the first k times BatchSize rows of the version.
LEMMA BatchesAre ==
    ASSUME NEW v \in DOMAIN Sizes, NEW k \in Nat
    PROVE  Batches(v, k) = {r \in Rows : r[1] = v /\ r[2] <= k * BatchSize}
<1> BatchSize \in Nat \ {0}
  BY SeedAssumption
<1>1. ASSUME NEW r \in Batches(v, k)
      PROVE  r \in Rows /\ r[1] = v /\ r[2] <= k * BatchSize
  <2>1. PICK j \in 1..k : r \in Batch(v, j)
    BY <1>1 DEF Batches
  <2>2. j - 1 \in Nat /\ (j - 1) + 1 = j
    OBVIOUS
  <2>3. r \in Rows /\ r[1] = v /\ r[2] <= j * BatchSize
    BY <2>1, <2>2, BatchIs
  <2>4. r[2] \in Nat
    BY <2>3, RowsAre
  <2>5. j * BatchSize <= k * BatchSize
    BY ProductIsMonotone
  <2>6. j * BatchSize \in Nat /\ k * BatchSize \in Nat
    OBVIOUS
  <2> QED
    BY <2>3, <2>4, <2>5, <2>6
<1>2. ASSUME NEW r \in Rows, r[1] = v, r[2] <= k * BatchSize
      PROVE  r \in Batches(v, k)
  <2>1. r[2] \in Nat \ {0}
    BY RowsAre
  <2> DEFINE i == r[2] - 1
             j == i \div BatchSize
  <2>a. i \in Nat
    BY <2>1
  <2> HIDE DEF i
  <2>b. j \in Nat /\ BatchSize * j <= i /\ i < BatchSize * j + BatchSize
    BY <2>a, DivisionBounds
  <2>2. j \in Nat /\ BatchSize * j <= r[2] - 1 /\ r[2] - 1 < BatchSize * j + BatchSize
    BY <2>b DEF i
  <2> HIDE DEF j
  <2>3. BatchSize * j = j * BatchSize /\ BatchSize * j + BatchSize = (j + 1) * BatchSize
    BY <2>2
  <2>4. j * BatchSize < r[2] /\ r[2] <= (j + 1) * BatchSize
    BY <2>1, <2>2, <2>3
  <2>5. j + 1 <= k
    <3>1. ~(k <= j)
      <4> SUFFICES ASSUME k <= j PROVE FALSE
        OBVIOUS
      <4>1. k * BatchSize <= j * BatchSize
        BY <2>2, ProductIsMonotone
      <4>2. k * BatchSize \in Nat /\ j * BatchSize \in Nat
        BY <2>2
      <4> QED
        BY <1>2, <2>1, <2>4, <4>1, <4>2
    <3> QED
      BY <2>2, <3>1
  <2>6. r \in Batch(v, j + 1)
    BY <1>2, <2>2, <2>4, BatchIs
  <2> QED
    BY <2>2, <2>5, <2>6 DEF Batches
<1>3. Batches(v, k) \subseteq {r \in Rows : r[1] = v /\ r[2] <= k * BatchSize}
  BY <1>1
<1>4. {r \in Rows : r[1] = v /\ r[2] <= k * BatchSize} \subseteq Batches(v, k)
  BY <1>2
<1> QED
  BY <1>3, <1>4

\* Batches do not overlap, and the last one ends with the file.
LEMMA NextBatch ==
    ASSUME NEW v \in DOMAIN Sizes, NEW k \in Nat
    PROVE  /\ Batches(v, k + 1) = Batches(v, k) \cup Batch(v, k + 1)
           /\ Batches(v, k) \cap Batch(v, k + 1) = {}
<1>1. BatchSize \in Nat /\ k * BatchSize \in Nat /\ (k + 1) * BatchSize \in Nat
      /\ k * BatchSize <= (k + 1) * BatchSize
  BY SeedAssumption, ProductIsMonotone
<1>2. \A r \in Rows : r[2] \in Nat
  BY RowsAre
<1>3. /\ Batches(v, k) = {r \in Rows : r[1] = v /\ r[2] <= k * BatchSize}
      /\ Batches(v, k + 1) = {r \in Rows : r[1] = v /\ r[2] <= (k + 1) * BatchSize}
      /\ Batch(v, k + 1) = {r \in Rows : /\ r[1] = v
                                         /\ k * BatchSize < r[2]
                                         /\ r[2] <= (k + 1) * BatchSize}
  BY BatchesAre, BatchIs
<1> QED
  BY <1>1, <1>2, <1>3

LEMMA AllBatches ==
    ASSUME NEW v \in DOMAIN Sizes
    PROVE  Batches(v, LastStep(v)) = {r \in Rows : r[1] = v}
<1> DEFINE n == LastStep(v)
<1>1. BatchSize \in Nat \ {0} /\ n \in Nat /\ Sizes[v] \in Nat
  BY SeedAssumption, StepsAreNat
<1>2. Sizes[v] <= n * BatchSize
  <2>1. Sizes[v] + BatchSize - 1 \in Nat
    BY <1>1
  <2>2. Sizes[v] + BatchSize - 1 < BatchSize * n + BatchSize
    BY <1>1, <2>1, DivisionBounds DEF LastStep
  <2> HIDE DEF n
  <2>3. BatchSize * n = n * BatchSize /\ n * BatchSize \in Nat
    BY <1>1
  <2> QED
    BY <1>1, <2>2, <2>3
<1> HIDE DEF n
<1>3. n * BatchSize \in Nat
  BY <1>1
<1>4. \A r \in Rows : r[1] = v => r[2] \in Nat /\ r[2] <= Sizes[v]
  BY RowsAre
<1>5. \A r \in Rows : r[1] = v => r[2] <= n * BatchSize
  BY <1>1, <1>2, <1>3, <1>4
<1>6. Batches(v, n) = {r \in Rows : r[1] = v /\ r[2] <= n * BatchSize}
  BY <1>1, BatchesAre
<1> QED
  BY <1>5, <1>6 DEF n

LEMMA NoBatches ==
    ASSUME NEW v
    PROVE  Batches(v, 0) = {}
BY DEF Batches

-----------------------------------------------------------------------------
(* The seed's table *)

LateStatement ==
    [run : 1..runs, version : DOMAIN Sizes, step : Nat, copy : BOOLEAN]

SeedTyped ==
    /\ file \in DOMAIN Sizes /\ loading \in DOMAIN Sizes
    /\ table \in [Rows -> Nat]
    /\ phase \in {"idle", "running", "ok", "failed"}
    /\ step \in Nat /\ runs \in 0..MaxRuns /\ owner \in 0..runs
    /\ doubled \in BOOLEAN /\ strayed \in BOOLEAN
    /\ late \subseteq LateStatement

\* A run submits the statements of its version in turn.  It ends with the one it
\* gives up; of those that succeeded a copy may be left.
RunInv ==
    /\ phase = "running" => runs > 0 /\ step <= LastStep(loading)
    /\ phase = "ok" => step = LastStep(loading) + 1
    /\ phase \in {"running", "ok"} /\ step > 0 => owner = runs
    /\ \A s \in late : /\ s.step <= LastStep(s.version)
                       /\ s.step > 0 => s.run <= owner
                       /\ s.run = runs => phase = "failed" \/ (s.copy /\ s.step < step)
    /\ \A s, t \in late : s.run = t.run /\ ~s.copy /\ ~t.copy => s = t

\* The table holds the first k batches of version v, twice only if a copy was
\* executed.  Of its run's statements the next batch comes next, if one does, and
\* the copies are of batches that it has.
Contents(v, k) ==
    /\ Loaded = Batches(v, k)
    /\ ~doubled => \A r \in Rows : table[r] <= 1

Coming(v, k) ==
    /\ \A s \in late : s.run = owner /\ s.step > 0 =>
           s.version = v /\ IF s.copy THEN s.step <= k ELSE s.step = k + 1
    /\ phase \in {"running", "ok"} /\ step > 0 => loading = v /\ step = k + 1

TableInv ==
    Exists /\ ~strayed =>
        \E v \in DOMAIN Sizes : \E k \in 0..LastStep(v) : Contents(v, k) /\ Coming(v, k)

SeedInv == SeedTyped /\ RunInv /\ TableInv

LEMMA StatementIs ==
    ASSUME SeedTyped, runs > 0
    PROVE  /\ Statement \in LateStatement
           /\ Statement.run = runs /\ Statement.version = loading
           /\ Statement.step = step /\ ~Statement.copy
BY SeedAssumption DEF SeedTyped, Statement, LateStatement

\* What is left to come once a statement has been executed.
LEMMA ExecutedLeaves ==
    ASSUME NEW s \in LateStatement, Execute(s), NEW t \in late'
    PROVE  \/ t \in late /\ t # s
           \/ /\ t \in LateStatement /\ t.run = s.run /\ t.version = s.version
              /\ t.step = s.step /\ t.copy /\ ~s.copy
<1>1. \/ late' = late \ {s}
      \/ late' = (late \ {s}) \cup {CopyOf(s)} /\ ~s.copy
  BY DEF Execute
<1>2. /\ CopyOf(s) \in LateStatement /\ CopyOf(s).run = s.run
      /\ CopyOf(s).version = s.version /\ CopyOf(s).step = s.step /\ CopyOf(s).copy
  BY DEF CopyOf, LateStatement
<1> QED
  BY <1>1, <1>2

\* What an executed CREATE OR REPLACE leaves.
LEMMA CreateEmpties ==
    ASSUME NEW s, s.step = 0, s.run \in Nat, owner \in Nat, Execute(s)
    PROVE  /\ table' \in [Rows -> Nat]
           /\ owner' = (IF owner <= s.run THEN s.run ELSE owner)
           /\ strayed' \in BOOLEAN /\ (strayed' <=> s.run <= owner)
           /\ doubled' \in BOOLEAN
           /\ \A v : Contents(v, 0)'
<1>1. table' = [r \in Rows |-> 0] /\ owner' = Max({owner, s.run})
      /\ strayed' = (s.run <= owner) /\ doubled' = FALSE
  BY DEF Execute
<1>2. Max({owner, s.run}) = IF owner <= s.run THEN s.run ELSE owner
  <2> DEFINE m == Max({owner, s.run})
  <2>1. \E x \in {owner, s.run} : \A y \in {owner, s.run} : x >= y
    OBVIOUS
  <2>2. m \in {owner, s.run} /\ \A y \in {owner, s.run} : m >= y
    BY <2>1 DEF Max
  <2> HIDE DEF m
  <2>3. m = IF owner <= s.run THEN s.run ELSE owner
    BY <2>2
  <2> QED
    BY <2>3 DEF m
<1>3. ASSUME NEW v PROVE Contents(v, 0)'
  <2>1. Loaded' = {}
    BY <1>1 DEF Loaded
  <2>2. Batches(v, 0)' = {}
    BY NoBatches DEF Batches
  <2>3. \A r \in Rows : table'[r] <= 1
    BY <1>1
  <2> QED
    BY <2>1, <2>2, <2>3 DEF Contents
<1>4. strayed' \in BOOLEAN /\ (strayed' <=> s.run <= owner)
  <2> DEFINE again == s.run <= owner
  <2>1. again \in BOOLEAN /\ strayed' = again
    BY <1>1
  <2> HIDE DEF again
  <2>2. strayed' \in BOOLEAN /\ (strayed' <=> again)
    BY <2>1, Zenon
  <2> QED
    BY <2>2 DEF again
<1>5. doubled' \in BOOLEAN
  BY <1>1, Zenon
<1> QED
  BY <1>1, <1>2, <1>3, <1>4, <1>5

\* What an executed INSERT leaves: one batch more, and nothing new when it is a
\* copy of one that is there.
LEMMA InsertAdds ==
    ASSUME table \in [Rows -> Nat], doubled \in BOOLEAN, strayed \in BOOLEAN,
           NEW s, s.step \in Nat \ {0}, s.copy \in BOOLEAN, Execute(s)
    PROVE  /\ table' \in [Rows -> Nat]
           /\ owner' = owner /\ doubled' \in BOOLEAN
           /\ strayed' \in BOOLEAN /\ (strayed' <=> strayed \/ s.run # owner)
           /\ \A v \in DOMAIN Sizes, k \in Nat :
                  Contents(v, k) /\ s.version = v =>
                      /\ s.step = k + 1 => Contents(v, k + 1)'
                      /\ s.copy /\ s.step <= k => Contents(v, k)'
<1>1. table' = [r \in Rows |-> table[r] + IF r \in Batch(s.version, s.step) THEN 1 ELSE 0]
      /\ doubled' = (doubled \/ s.copy) /\ strayed' = (strayed \/ s.run # owner)
      /\ owner' = owner
  BY DEF Execute
<1>2. table' \in [Rows -> Nat]
  BY <1>1
<1>3. ASSUME NEW v \in DOMAIN Sizes, NEW k \in Nat, Contents(v, k),
             s.version = v, s.step = k + 1
      PROVE  Contents(v, k + 1)'
  <2> DEFINE new == Batch(v, k + 1)
  <2>1. /\ Batches(v, k + 1) = Batches(v, k) \cup new
        /\ Batches(v, k) \cap new = {}
        /\ Batches(v, k + 1)' = Batches(v, k + 1)
    BY NextBatch DEF Batches, Batch, Rows
  <2>2. new \subseteq Rows
    BY DEF Batch
  <2>3. \A r \in Rows : table'[r] = table[r] + IF r \in new THEN 1 ELSE 0
    BY <1>1, <1>3
  <2> HIDE DEF new
  <2>4. \A r \in Rows : table'[r] > 0 <=> table[r] > 0 \/ r \in new
    BY <2>3
  <2>5. Loaded' = Loaded \cup new
    BY <2>2, <2>4 DEF Loaded
  <2>6. Loaded' = Batches(v, k + 1)'
    BY <1>3, <2>1, <2>5 DEF Contents
  <2>7. ASSUME ~doubled', NEW r \in Rows PROVE table'[r] <= 1
    <3>1. ~doubled /\ table[r] <= 1 /\ table[r] \in Nat
      BY <1>1, <1>3, <2>7 DEF Contents
    <3>2. r \in new => table[r] = 0
      BY <1>3, <2>1 DEF Contents, Loaded
    <3> QED
      BY <2>3, <3>1, <3>2
  <2> QED
    BY <2>6, <2>7 DEF Contents
<1>4. ASSUME NEW v \in DOMAIN Sizes, NEW k \in Nat, Contents(v, k),
             s.version = v, s.copy, s.step <= k
      PROVE  Contents(v, k)'
  <2> DEFINE again == Batch(v, s.step)
  <2>1. again \subseteq Batches(v, k) /\ Batches(v, k)' = Batches(v, k)
    <3>1. s.step \in 1..k
      BY <1>4
    <3> HIDE DEF again
    <3>2. Batch(v, s.step) \subseteq Batches(v, k)
      BY <3>1 DEF Batches
    <3> QED
      BY <3>2 DEF again, Batches, Batch, Rows
  <2>2. \A r \in Rows : table'[r] = table[r] + IF r \in again THEN 1 ELSE 0
    BY <1>1, <1>4
  <2> HIDE DEF again
  <2>3. Loaded = Batches(v, k)
    BY <1>4 DEF Contents
  <2>4. \A r \in Rows : table'[r] > 0 <=> table[r] > 0
    BY <2>1, <2>2, <2>3 DEF Loaded
  <2>5. Loaded' = Loaded
    BY <2>4 DEF Loaded
  <2>6. doubled'
    BY <1>1, <1>4
  <2> QED
    BY <2>1, <2>3, <2>5, <2>6 DEF Contents
<1>5. strayed' \in BOOLEAN /\ (strayed' <=> strayed \/ s.run # owner)
  BY <1>1
<1>6. doubled' \in BOOLEAN
  BY <1>1
<1> QED
  BY <1>1, <1>2, <1>3, <1>4, <1>5, <1>6

LEMMA ContentsStay ==
    ASSUME UNCHANGED <<table, doubled>>, NEW v, NEW k
    PROVE  Contents(v, k)' = Contents(v, k)
BY DEF Contents, Loaded, Batches, Batch, Rows

\* Nothing of the invariant is about the file that is read next, and a run that
\* ends or a statement that is lost takes from what may come.
LEMMA LessMayCome ==
    ASSUME SeedInv, UNCHANGED <<table, loading, step, runs, owner, doubled, strayed>>,
           phase' \in {phase, "failed"}, late' \subseteq late, file' \in DOMAIN Sizes
    PROVE  SeedInv'
<1>1. SeedTyped'
  BY DEF SeedInv, SeedTyped, LateStatement
<1>2. RunInv'
  BY DEF SeedInv, RunInv, LastStep
<1>3. \A v, k : Contents(v, k) /\ Coming(v, k) => Contents(v, k)' /\ Coming(v, k)'
  <2> TAKE v, k
  <2>1. Coming(v, k) => Coming(v, k)'
    BY DEF Coming
  <2> QED
    BY <2>1, ContentsStay
<1>4. TableInv'
  BY <1>3 DEF SeedInv, TableInv, Exists, LastStep
<1> QED
  BY <1>1, <1>2, <1>4 DEF SeedInv

LEMMA StartKeepsSeedInv ==
    ASSUME SeedInv, StartRun
    PROVE  SeedInv'
<1>1. /\ phase # "running" /\ runs < MaxRuns /\ runs' = runs + 1 /\ phase' = "running"
      /\ loading' = file /\ step' = 0
      /\ UNCHANGED <<file, late, table, owner, doubled, strayed>>
  BY DEF StartRun, content
<1>2. SeedTyped /\ runs \in Nat /\ MaxRuns \in Nat
  BY SeedAssumption DEF SeedInv, SeedTyped
<1>3. SeedTyped'
  <2>1. runs' \in 0..MaxRuns /\ owner' \in 0..runs'
    BY <1>1, <1>2 DEF SeedTyped
  <2>2. LateStatement \subseteq LateStatement'
    BY <1>1, <1>2 DEF LateStatement
  <2> QED
    BY <1>1, <1>2, <2>1, <2>2 DEF SeedTyped
<1>4. RunInv'
  <2>1. LastStep(file) \in Nat
    BY <1>2, StepsAreNat DEF SeedTyped
  <2>2. runs' > 0 /\ step' <= LastStep(loading')
    BY <1>1, <1>2, <2>1
  <2>3. \A s \in late : s.run # runs'
    BY <1>1, <1>2 DEF SeedTyped, LateStatement
  <2> QED
    BY <1>1, <2>2, <2>3 DEF SeedInv, RunInv, LastStep
<1>5. TableInv'
  <2>1. \A v, k : Contents(v, k) /\ Coming(v, k) => Contents(v, k)' /\ Coming(v, k)'
    <3> TAKE v, k
    <3>1. Coming(v, k) => Coming(v, k)'
      BY <1>1 DEF Coming
    <3> QED
      BY <1>1, <3>1, ContentsStay
  <2> QED
    BY <1>1, <2>1 DEF SeedInv, TableInv, Exists, LastStep
<1> QED
  BY <1>3, <1>4, <1>5 DEF SeedInv

LEMMA SuccessKeepsSeedInv ==
    ASSUME SeedInv, StatementSucceeds
    PROVE  SeedInv'
<1>1. /\ phase = "running" /\ step' = step + 1 /\ Execute(Statement)
      /\ phase' = (IF step = LastStep(loading) THEN "ok" ELSE "running")
      /\ UNCHANGED <<file, loading, runs>>
  BY DEF StatementSucceeds
<1>2. SeedTyped /\ runs \in Nat /\ owner \in Nat /\ owner <= runs /\ step \in Nat
  BY SeedAssumption DEF SeedInv, SeedTyped
<1>3. LastStep(loading) \in Nat
  BY <1>2, StepsAreNat DEF SeedTyped
<1>4. runs > 0 /\ step <= LastStep(loading)
  BY <1>1 DEF SeedInv, RunInv
<1>5. /\ Statement \in LateStatement /\ Statement.run = runs /\ Statement.version = loading
      /\ Statement.step = step /\ ~Statement.copy
  BY <1>2, <1>4, StatementIs
<1> DEFINE new == Statement
<1>6. new \in LateStatement /\ Execute(new)
  BY <1>1, <1>5
<1>7. \A s \in late : s.run = runs => s.copy /\ s.step < step
  BY <1>1 DEF SeedInv, RunInv
<1>8. ASSUME NEW t \in late'
      PROVE  \/ t \in late
             \/ /\ t \in LateStatement /\ t.run = runs /\ t.version = loading
                /\ t.step = step /\ t.copy
  BY <1>5, <1>6, ExecutedLeaves
<1> HIDE DEF new
<1>9. /\ table' \in [Rows -> Nat] /\ owner' = runs
      /\ strayed' \in BOOLEAN /\ doubled' \in BOOLEAN
      /\ ~strayed' => \E v \in DOMAIN Sizes : \E k \in 0..LastStep(v) :
                         /\ v = loading /\ k = step /\ Contents(v, k)'
                         /\ \A t \in late : t.run = runs /\ t.step > 0 =>
                                t.version = v /\ t.step <= k
  <2>1. CASE step = 0
    <3>1. /\ table' \in [Rows -> Nat] /\ owner' = (IF owner <= runs THEN runs ELSE owner)
          /\ strayed' \in BOOLEAN /\ doubled' \in BOOLEAN
          /\ \A v : Contents(v, 0)'
      BY <1>1, <1>2, <1>5, <2>1, CreateEmpties
    <3>2. PICK v \in DOMAIN Sizes : v = loading
      BY <1>2 DEF SeedTyped
    <3>3. 0 \in 0..LastStep(v) /\ Contents(v, 0)'
      BY <1>3, <3>1, <3>2
    <3>4. \A t \in late : ~(t.run = runs /\ t.step > 0)
      <4>1. \A t \in late : t.step \in Nat
        BY <1>2 DEF SeedTyped, LateStatement
      <4> QED
        BY <1>7, <2>1, <4>1
    <3>5. \E k \in 0..LastStep(v) :
              /\ v = loading /\ k = step /\ Contents(v, k)'
              /\ \A t \in late : t.run = runs /\ t.step > 0 => t.version = v /\ t.step <= k
      BY <2>1, <3>2, <3>3, <3>4
    <3> QED
      BY <1>2, <3>1, <3>5
  <2>2. CASE step # 0
    <3>1. step > 0 /\ step - 1 \in Nat /\ (step - 1) + 1 = step /\ step \in Nat \ {0}
      BY <1>2, <2>2
    <3>2. owner = runs
      BY <1>1, <3>1 DEF SeedInv, RunInv
    <3>3. /\ table' \in [Rows -> Nat] /\ owner' = owner /\ doubled' \in BOOLEAN
          /\ strayed' \in BOOLEAN /\ (strayed' <=> strayed \/ runs # owner)
          /\ \A v \in DOMAIN Sizes, k \in Nat :
                 Contents(v, k) /\ loading = v /\ step = k + 1 => Contents(v, k + 1)'
      BY <1>1, <1>2, <1>5, <3>1, InsertAdds DEF SeedTyped, LateStatement
    <3>4. ASSUME ~strayed'
          PROVE  \E v \in DOMAIN Sizes : \E k \in 0..LastStep(v) :
                     /\ v = loading /\ k = step /\ Contents(v, k)'
                     /\ \A t \in late : t.run = runs /\ t.step > 0 =>
                            t.version = v /\ t.step <= k
      <4>1. Exists /\ ~strayed
        BY <1>4, <3>2, <3>3, <3>4 DEF Exists
      <4>2. PICK v \in DOMAIN Sizes : \E k \in 0..LastStep(v) : Contents(v, k) /\ Coming(v, k)
        BY <4>1 DEF SeedInv, TableInv
      <4>3. PICK k \in 0..LastStep(v) : Contents(v, k) /\ Coming(v, k)
        BY <4>2
      <4>4. loading = v /\ step = k + 1
        BY <1>1, <3>1, <4>3 DEF Coming
      <4>5. k \in Nat
        BY <4>3
      <4>6. Contents(v, k + 1)'
        BY <3>3, <4>3, <4>4, <4>5
      <4>7. k + 1 \in 0..LastStep(v)
        BY <1>3, <1>4, <4>3, <4>4
      <4>8. \A t \in late : t.run = runs /\ t.step > 0 => t.version = v /\ t.step < step
        BY <1>7, <3>2, <4>3 DEF Coming
      <4>9. \A t \in late : t.step \in Nat
        BY <1>2 DEF SeedTyped, LateStatement
      <4>10. \A t \in late : t.run = runs /\ t.step > 0 => t.version = v /\ t.step <= k + 1
        BY <1>2, <4>4, <4>5, <4>8, <4>9
      <4> QED
        BY <4>4, <4>6, <4>7, <4>10
    <3> QED
      BY <3>2, <3>3, <3>4
  <2> QED
    BY <2>1, <2>2
<1>10. SeedTyped'
  <2>1. step' \in Nat /\ owner' \in 0..runs /\ phase' \in {"idle", "running", "ok", "failed"}
    BY <1>1, <1>2, <1>9
  <2>2. late' \subseteq LateStatement'
    BY <1>1, <1>2, <1>8 DEF SeedTyped, LateStatement
  <2> QED
    BY <1>1, <1>2, <1>9, <2>1, <2>2 DEF SeedTyped
<1>11. RunInv'
  <2>1. /\ phase' = "running" => step' <= LastStep(loading)
        /\ phase' = "ok" => step' = LastStep(loading) + 1
    BY <1>1, <1>2, <1>3, <1>4
  <2>2. ASSUME NEW t \in late'
        PROVE  /\ t.step <= LastStep(t.version)
               /\ t.step > 0 => t.run <= owner'
               /\ t.run = runs => t.copy /\ t.step < step'
    <3>1. CASE t \in late
      <4>1. t.run \in Nat /\ t.run <= runs /\ t.step \in Nat
        BY <1>2, <3>1 DEF SeedTyped, LateStatement
      <4>2. t.step <= LastStep(t.version)
        BY <3>1 DEF SeedInv, RunInv
      <4> QED
        BY <1>1, <1>2, <1>7, <1>9, <3>1, <4>1, <4>2
    <3>2. CASE t.run = runs /\ t.version = loading /\ t.step = step /\ t.copy
      BY <1>1, <1>2, <1>4, <1>9, <3>2
    <3> QED
      BY <1>8, <3>1, <3>2
  <2>3. \A s, t \in late' : s.run = t.run /\ ~s.copy /\ ~t.copy => s = t
    BY <1>8 DEF SeedInv, RunInv
  <2> QED
    BY <1>1, <1>4, <1>9, <2>1, <2>2, <2>3 DEF RunInv, LastStep
<1>12. TableInv'
  <2> SUFFICES ASSUME ~strayed'
               PROVE  \E v \in DOMAIN Sizes : \E k \in 0..LastStep(v) :
                          Contents(v, k)' /\ Coming(v, k)'
    BY DEF TableInv, LastStep
  <2>1. PICK v \in DOMAIN Sizes : \E k \in 0..LastStep(v) :
                         /\ v = loading /\ k = step /\ Contents(v, k)'
                         /\ \A t \in late : t.run = runs /\ t.step > 0 =>
                                t.version = v /\ t.step <= k
    BY <1>9
  <2>2. PICK k \in 0..LastStep(v) :
                         /\ v = loading /\ k = step /\ Contents(v, k)'
                         /\ \A t \in late : t.run = runs /\ t.step > 0 =>
                                t.version = v /\ t.step <= k
    BY <2>1
  <2>3. \A t \in late' : t.run = owner' /\ t.step > 0 => t.version = v /\ t.copy /\ t.step <= k
    BY <1>2, <1>7, <1>8, <1>9, <2>2
  <2>4. loading' = v /\ step' = k + 1
    BY <1>1, <2>2
  <2>5. Coming(v, k)'
    BY <2>3, <2>4 DEF Coming
  <2> QED
    BY <2>2, <2>5
<1> QED
  BY <1>10, <1>11, <1>12 DEF SeedInv

LEMMA AbandonKeepsSeedInv ==
    ASSUME SeedInv, StatementAbandoned
    PROVE  SeedInv'
<1>1. /\ phase = "running" /\ phase' = "failed" /\ late' = late \cup {Statement}
      /\ UNCHANGED <<file, loading, step, runs, table, owner, doubled, strayed>>
  BY DEF StatementAbandoned, content
<1>2. SeedTyped /\ runs \in Nat /\ owner \in Nat /\ owner <= runs /\ step \in Nat
  BY SeedAssumption DEF SeedInv, SeedTyped
<1>3. runs > 0 /\ step <= LastStep(loading) /\ (step > 0 => owner = runs)
      /\ \A s \in late : s.run = runs => s.copy
  BY <1>1 DEF SeedInv, RunInv
<1>4. /\ Statement \in LateStatement /\ Statement.run = runs /\ Statement.version = loading
      /\ Statement.step = step /\ ~Statement.copy
  BY <1>2, <1>3, StatementIs
<1> HIDE DEF Statement
<1>5. SeedTyped'
  BY <1>1, <1>2, <1>4 DEF SeedTyped, LateStatement
<1>6. RunInv'
  <2>1. \A s \in late' : s.step <= LastStep(s.version) /\ (s.step > 0 => s.run <= owner)
    BY <1>1, <1>2, <1>3, <1>4 DEF SeedInv, RunInv
  <2>2. \A s, t \in late' : s.run = t.run /\ ~s.copy /\ ~t.copy => s = t
    BY <1>1, <1>3, <1>4 DEF SeedInv, RunInv
  <2> QED
    BY <1>1, <2>1, <2>2 DEF RunInv, LastStep
<1>7. TableInv'
  <2>1. \A v, k : Contents(v, k) /\ Coming(v, k) => Contents(v, k)' /\ Coming(v, k)'
    <3> TAKE v, k
    <3>1. Coming(v, k) => Coming(v, k)'
      BY <1>1, <1>4 DEF Coming
    <3> QED
      BY <1>1, <3>1, ContentsStay
  <2> QED
    BY <1>1, <2>1 DEF SeedInv, TableInv, Exists, LastStep
<1> QED
  BY <1>5, <1>6, <1>7 DEF SeedInv

\* A late CREATE OR REPLACE makes an older run, or its own a second time, the
\* table's, or begins a new table of which nothing else may come.
LEMMA LateCreateKeepsSeedInv ==
    ASSUME SeedInv, NEW s \in late, LateExecuted(s), s.step = 0
    PROVE  SeedInv'
<1>1. UNCHANGED <<file, phase, loading, step, runs>> /\ Execute(s)
  BY DEF LateExecuted, seed
<1>2. /\ SeedTyped /\ runs \in Nat /\ owner \in Nat /\ owner <= runs
      /\ s \in LateStatement /\ s.run \in Nat /\ 0 < s.run /\ s.run <= runs
  <2>1. SeedTyped /\ runs \in Nat /\ owner \in Nat /\ owner <= runs /\ s \in LateStatement
    BY SeedAssumption DEF SeedInv, SeedTyped
  <2>2. s.run \in 1..runs
    BY <2>1 DEF LateStatement
  <2> QED
    BY <2>1, <2>2
<1>3. /\ table' \in [Rows -> Nat] /\ owner' = (IF owner <= s.run THEN s.run ELSE owner)
      /\ strayed' \in BOOLEAN /\ (strayed' <=> s.run <= owner)
      /\ doubled' \in BOOLEAN
      /\ \A v : Contents(v, 0)'
  BY <1>1, <1>2, CreateEmpties
<1>4. ASSUME NEW t \in late'
      PROVE  \/ t \in late /\ t # s
             \/ /\ t \in LateStatement /\ t.run = s.run /\ t.version = s.version
                /\ t.step = 0 /\ t.copy /\ ~s.copy
  BY <1>1, <1>2, ExecutedLeaves
<1>5. SeedTyped'
  <2>1. owner' \in 0..runs
    BY <1>2, <1>3
  <2>2. late' \subseteq LateStatement'
    BY <1>1, <1>2, <1>4 DEF SeedTyped, LateStatement
  <2> QED
    BY <1>1, <1>2, <1>3, <2>1, <2>2 DEF SeedTyped
<1>6. RunInv'
  <2>1. phase \in {"running", "ok"} /\ step > 0 => owner' = runs
    BY <1>2, <1>3 DEF SeedInv, RunInv
  <2>2. ASSUME NEW t \in late'
        PROVE  /\ t.step <= LastStep(t.version)
               /\ t.step > 0 => t.run <= owner'
               /\ t.run = runs => phase = "failed" \/ (t.copy /\ t.step < step)
    <3>1. CASE t \in late
      <4>1. /\ t.step <= LastStep(t.version) /\ (t.step > 0 => t.run <= owner)
            /\ t.run = runs => phase = "failed" \/ (t.copy /\ t.step < step)
        BY <3>1 DEF SeedInv, RunInv
      <4>2. t.run \in Nat
        BY <1>2, <3>1 DEF SeedTyped, LateStatement
      <4> QED
        BY <1>2, <1>3, <4>1, <4>2
    <3>2. CASE t.run = s.run /\ t.version = s.version /\ t.step = 0 /\ ~s.copy
      BY <3>2 DEF SeedInv, RunInv
    <3> QED
      BY <1>4, <3>1, <3>2
  <2>3. \A t, u \in late' : t.run = u.run /\ ~t.copy /\ ~u.copy => t = u
    BY <1>4 DEF SeedInv, RunInv
  <2> QED
    BY <1>1, <2>1, <2>2, <2>3 DEF SeedInv, RunInv, LastStep
<1>7. TableInv'
  <2> SUFFICES ASSUME ~strayed'
               PROVE  \E v \in DOMAIN Sizes : \E k \in 0..LastStep(v) :
                          Contents(v, k)' /\ Coming(v, k)'
    BY DEF TableInv, LastStep
  <2>1. owner < s.run /\ owner' = s.run
    BY <1>2, <1>3
  <2>2. PICK v \in DOMAIN Sizes : v = loading
    BY <1>2 DEF SeedTyped
  <2>3. ~(phase \in {"running", "ok"} /\ step > 0)
    BY <1>2, <2>1 DEF SeedInv, RunInv
  <2>4. \A t \in late' : ~(t.run = owner' /\ t.step > 0)
    <3>1. \A t \in late : t.step > 0 => t.run <= owner
      BY DEF SeedInv, RunInv
    <3> QED
      BY <1>2, <1>4, <2>1, <3>1
  <2>5. Coming(v, 0)'
    BY <1>1, <2>3, <2>4 DEF Coming
  <2>6. 0 \in 0..LastStep(v)
    BY StepsAreNat
  <2> QED
    BY <1>3, <2>5, <2>6
<1> QED
  BY <1>5, <1>6, <1>7 DEF SeedInv

\* A late INSERT adds the next batch of its run's table, or, as a copy, one that the
\* table has.
LEMMA LateInsertKeepsSeedInv ==
    ASSUME SeedInv, NEW s \in late, LateExecuted(s), s.step # 0
    PROVE  SeedInv'
<1>1. UNCHANGED <<file, phase, loading, step, runs>> /\ Execute(s)
  BY DEF LateExecuted, seed
<1>2. SeedTyped /\ runs \in Nat /\ s \in LateStatement /\ s.run \in 1..runs
      /\ s.step \in Nat \ {0} /\ s.copy \in BOOLEAN
  BY SeedAssumption DEF SeedInv, SeedTyped, LateStatement
<1>3. /\ table' \in [Rows -> Nat] /\ owner' = owner /\ doubled' \in BOOLEAN
      /\ strayed' \in BOOLEAN /\ (strayed' <=> strayed \/ s.run # owner)
      /\ \A v \in DOMAIN Sizes, k \in Nat :
             Contents(v, k) /\ s.version = v =>
                 /\ s.step = k + 1 => Contents(v, k + 1)'
                 /\ s.copy /\ s.step <= k => Contents(v, k)'
  BY <1>1, <1>2, InsertAdds DEF SeedTyped
<1>4. ASSUME NEW t \in late'
      PROVE  \/ t \in late /\ t # s
             \/ /\ t \in LateStatement /\ t.run = s.run /\ t.version = s.version
                /\ t.step = s.step /\ t.copy /\ ~s.copy
  BY <1>1, <1>2, ExecutedLeaves
<1>5. s.step > 0
  BY <1>2
<1>6. SeedTyped'
  <2>1. late' \subseteq LateStatement'
    BY <1>1, <1>2, <1>4 DEF SeedTyped, LateStatement
  <2> QED
    BY <1>1, <1>2, <1>3, <2>1 DEF SeedTyped
<1>7. RunInv'
  <2>1. ASSUME NEW t \in late'
        PROVE  /\ t.step <= LastStep(t.version)
               /\ t.step > 0 => t.run <= owner
               /\ t.run = runs => phase = "failed" \/ (t.copy /\ t.step < step)
    BY <1>4, <1>5 DEF SeedInv, RunInv
  <2>2. \A t, u \in late' : t.run = u.run /\ ~t.copy /\ ~u.copy => t = u
    BY <1>4 DEF SeedInv, RunInv
  <2> QED
    BY <1>1, <1>3, <2>1, <2>2 DEF SeedInv, RunInv, LastStep
<1>8. TableInv'
  <2> SUFFICES ASSUME ~strayed'
               PROVE  \E v \in DOMAIN Sizes : \E k \in 0..LastStep(v) :
                          Contents(v, k)' /\ Coming(v, k)'
    BY DEF TableInv, LastStep
  <2>1. s.run = owner /\ ~strayed /\ Exists
    BY <1>2, <1>3 DEF Exists
  <2>2. PICK v \in DOMAIN Sizes : \E k \in 0..LastStep(v) : Contents(v, k) /\ Coming(v, k)
    BY <2>1 DEF SeedInv, TableInv
  <2>3. PICK k \in 0..LastStep(v) : Contents(v, k) /\ Coming(v, k)
    BY <2>2
  <2>4. s.version = v /\ (IF s.copy THEN s.step <= k ELSE s.step = k + 1) /\ k \in Nat
    BY <1>5, <2>1, <2>3 DEF Coming
  <2>5. CASE s.copy
    <3>1. Contents(v, k)'
      BY <1>3, <2>3, <2>4, <2>5
    <3>2. late' \subseteq late
      BY <1>4, <2>5
    <3>3. Coming(v, k)'
      BY <1>1, <1>3, <2>3, <3>2 DEF Coming
    <3> QED
      BY <3>1, <3>3
  <2>6. CASE ~s.copy
    <3>1. s.step = k + 1 /\ Contents(v, k + 1)'
      BY <1>3, <2>3, <2>4, <2>6
    <3>2. k + 1 \in 0..LastStep(v)
      <4>1. s.step <= LastStep(v) /\ LastStep(v) \in Nat
        BY <2>4, StepsAreNat DEF SeedInv, RunInv
      <4> QED
        BY <2>4, <3>1, <4>1
    <3>3. ~(phase \in {"running", "ok"} /\ step > 0)
      BY <2>1, <2>6 DEF SeedInv, RunInv
    <3>4. PICK n \in Nat : n = k + 1
      BY <2>4
    <3>5. ASSUME NEW t \in late', t.run = owner, t.step > 0
          PROVE  t.version = v /\ t.copy /\ t.step <= n
      <4>1. CASE t \in late /\ t # s
        <5>1. t.copy
          BY <2>1, <2>6, <3>5, <4>1 DEF SeedInv, RunInv
        <5>2. t.version = v /\ t.step <= k /\ t.step \in Nat
          BY <1>2, <2>3, <3>5, <4>1, <5>1 DEF Coming, SeedTyped, LateStatement
        <5> QED
          BY <2>4, <3>4, <5>1, <5>2
      <4>2. CASE t.version = s.version /\ t.step = s.step /\ t.copy
        BY <2>4, <3>1, <3>4, <4>2
      <4> QED
        BY <1>4, <4>1, <4>2
    <3>6. Coming(v, n)'
      BY <1>1, <1>3, <3>3, <3>5 DEF Coming
    <3>7. n \in 0..LastStep(v) /\ Contents(v, n)'
      BY <3>1, <3>2, <3>4 DEF Contents
    <3> QED
      BY <3>6, <3>7
  <2> QED
    BY <2>5, <2>6
<1> QED
  BY <1>6, <1>7, <1>8 DEF SeedInv

LEMMA InitSeedInv == ASSUME Init PROVE SeedInv
<1>1. 1 \in DOMAIN Sizes
  BY SeedAssumption
<1>2. SeedTyped
  <2>1. table \in [Rows -> Nat] /\ runs \in 0..MaxRuns /\ owner \in 0..runs
    BY SeedAssumption DEF Init
  <2>2. doubled \in BOOLEAN /\ strayed \in BOOLEAN /\ late = {}
    BY DEF Init
  <2> QED
    BY <1>1, <2>1, <2>2 DEF Init, SeedTyped
<1>3. RunInv
  BY DEF Init, RunInv
<1>4. TableInv
  BY DEF Init, TableInv, Exists
<1> QED
  BY <1>2, <1>3, <1>4 DEF SeedInv

LEMMA NextSeedInv == ASSUME SeedInv, [Next]_vars PROVE SeedInv'
<1>1. CASE StartRun
  BY <1>1, StartKeepsSeedInv
<1>2. CASE StatementSucceeds
  BY <1>2, SuccessKeepsSeedInv
<1>3. CASE StatementFails
  <2>1. /\ phase' = "failed" /\ late' \subseteq late
        /\ UNCHANGED <<file, loading, step, runs, table, owner, doubled, strayed>>
    BY <1>3 DEF StatementFails, content
  <2>2. file \in DOMAIN Sizes
    BY DEF SeedInv, SeedTyped
  <2> QED
    BY <2>1, <2>2, LessMayCome
<1>4. CASE StatementAbandoned
  BY <1>4, AbandonKeepsSeedInv
<1>5. ASSUME NEW s \in late, LateExecuted(s) PROVE SeedInv'
  BY <1>5, LateCreateKeepsSeedInv, LateInsertKeepsSeedInv
<1>6. ASSUME NEW s \in late, LateLost(s) PROVE SeedInv'
  <2>1. /\ UNCHANGED <<file, phase, loading, step, runs, table, owner, doubled, strayed>>
        /\ late' \subseteq late
    BY <1>6 DEF LateLost, seed, content
  <2>2. file \in DOMAIN Sizes
    BY DEF SeedInv, SeedTyped
  <2> QED
    BY <2>1, <2>2, LessMayCome
<1>7. CASE FileChanges
  <2>1. UNCHANGED <<table, phase, loading, step, runs, owner, doubled, strayed, late>>
        /\ file' \in DOMAIN Sizes
    BY <1>7 DEF FileChanges, content
  <2> QED
    BY <2>1, LessMayCome
<1>8. CASE UNCHANGED <<seed, late, content>>
  <2>1. UNCHANGED <<table, phase, loading, step, runs, owner, doubled, strayed, late>>
        /\ file' \in DOMAIN Sizes
    BY <1>8 DEF seed, content, SeedInv, SeedTyped
  <2> QED
    BY <2>1, LessMayCome
<1>9. ASSUME \/ StartSensor \/ Timeout \/ Poke \/ PokeExecuted \/ PokeReturns \/ PokeFails
             \/ WakeUp \/ Cancel \/ Tick \/ UNCHANGED vars
      PROVE  UNCHANGED <<seed, late, content>>
  BY <1>9 DEF StartSensor, Timeout, Poke, PokeExecuted, PokeReturns, PokeFails, WakeUp, Cancel,
              Tick, vars
<1> QED
  BY <1>1, <1>2, <1>3, <1>4, <1>5, <1>6, <1>7, <1>8, <1>9 DEF Next

LEMMA SeedInvariance == Spec => []SeedInv
<1>1. Init => SeedInv
  BY InitSeedInv
<1>2. SeedInv /\ [Next]_vars => SeedInv'
  BY NextSeedInv
<1> QED
  BY <1>1, <1>2, PTL DEF Spec

\* RunTask of seed.go: however runs, batches, failures, given-up statements, second
\* copies and changes of the file interleave, from the CREATE OR REPLACE of a run on
\* the table is the first batches of one version of the file, all of them once the
\* run has succeeded, each row once if no copy of an INSERT was executed; until a
\* statement of an older run, or that CREATE OR REPLACE again, is executed on it.
THEOREM SeedsReplace == Spec => []SeedReplacesTable
<1>1. SeedInv => SeedReplacesTable
  <2> SUFFICES ASSUME SeedInv, Exists, ~strayed
               PROVE  /\ \E v \in DOMAIN Sizes : \E k \in 0..LastStep(v) : Loaded = Batches(v, k)
                      /\ phase = "ok" => Loaded = {r \in Rows : r[1] = loading}
                      /\ ~doubled => \A r \in Rows : table[r] <= 1
    BY DEF SeedReplacesTable
  <2>1. PICK v \in DOMAIN Sizes : \E k \in 0..LastStep(v) : Contents(v, k) /\ Coming(v, k)
    BY DEF SeedInv, TableInv
  <2>2. PICK k \in 0..LastStep(v) : Contents(v, k) /\ Coming(v, k)
    BY <2>1
  <2>3. Loaded = Batches(v, k) /\ (~doubled => \A r \in Rows : table[r] <= 1)
    BY <2>2 DEF Contents
  <2>4. ASSUME phase = "ok" PROVE Loaded = {r \in Rows : r[1] = loading}
    <3>1. step = LastStep(loading) + 1 /\ LastStep(loading) \in Nat
      BY <2>4, StepsAreNat DEF SeedInv, SeedTyped, RunInv
    <3>2. loading = v /\ step = k + 1
      BY <2>2, <2>4, <3>1 DEF Coming
    <3>3. k = LastStep(v)
      BY <2>2, <3>1, <3>2
    <3> QED
      BY <2>3, <3>2, <3>3, AllBatches
  <2> QED
    BY <2>3, <2>4
<1> QED
  BY <1>1, SeedInvariance, PTL

-----------------------------------------------------------------------------
(* The sensor *)

SensorTyped ==
    /\ sensorMode \in {"skip", "once", "wait"}
    /\ pc \in {"start", "top", "poking", "sleeping", "done"}
    /\ answer \in {"none", "found", "missing"}
    /\ owner \in Nat /\ clock \in Nat /\ began \in 0..clock /\ since \in 0..clock

\* The loop's condition bounds the start of a poke, PokeMax the poke, and so the
\* start of a sleep, and PokeInterval its end.
TimeInv ==
    /\ sensorMode = "skip" => pc \in {"start", "done"} /\ clock = 0
    /\ pc = "start" => clock = 0
    /\ pc # "done" => outcome = "none"
    /\ pc = "top" /\ sensorMode = "once" => clock = 0
    /\ pc = "poking" => clock <= began + PokeMax /\ began <= SensorTimeout
    /\ pc = "poking" /\ sensorMode = "once" => began = 0
    /\ pc = "sleeping" => /\ sensorMode = "wait"
                          /\ clock <= began + PokeInterval
                          /\ began <= SensorTimeout + PokeMax
    /\ SensorReturnsInTime

\* A poke that missed the table began before it appeared; the sleep and the end of
\* the sleep remember when that was.
NoticeInv ==
    /\ answer = "found" => Exists
    /\ Exists /\ pc = "poking" /\ answer = "missing" => began <= since
    /\ Exists /\ pc = "sleeping" => began <= since + PokeMax
    /\ Exists /\ pc = "top" => clock <= since + PokeInterval + PokeMax
    /\ TableIsNoticed

SensorInv == SensorTyped /\ TimeInv /\ NoticeInv

LEMMA SensorConstants ==
    {SensorTimeout, PokeInterval, PokeMax, Horizon} \subseteq Nat
BY SeedAssumption

\* What the seed does to the table, seen by the sensor.
LEMMA TableAppears ==
    ASSUME SensorInv, UNCHANGED sensor, owner' \in Nat, Exists => Exists',
           since' = IF Exists \/ ~Exists' THEN since ELSE clock
    PROVE  SensorInv'
<1>1. UNCHANGED <<sensorMode, pc, outcome, answer, clock, began>>
  BY DEF sensor
<1>2. SensorTyped
  BY DEF SensorInv
<1>3. SensorTyped' /\ (Exists /\ Exists' => since' = since) /\ (~Exists /\ Exists' => since' = clock)
  BY <1>1, <1>2 DEF SensorTyped
<1>4. TimeInv'
  BY <1>1 DEF SensorInv, TimeInv, SensorReturnsInTime
<1>5. NoticeInv'
  <2>1. clock \in Nat /\ began \in Nat /\ began <= clock /\ PokeMax \in Nat /\ PokeInterval \in Nat
    BY <1>2, SensorConstants DEF SensorTyped
  <2>2. CASE ~Exists'
    BY <1>1, <2>2 DEF SensorInv, NoticeInv, TableIsNoticed
  <2>3. CASE Exists /\ Exists'
    BY <1>1, <1>3, <2>3 DEF SensorInv, NoticeInv, TableIsNoticed
  <2>4. CASE ~Exists /\ Exists'
    BY <1>1, <1>3, <2>1, <2>4 DEF NoticeInv, TableIsNoticed
  <2> QED
    BY <2>2, <2>3, <2>4
<1> QED
  BY <1>3, <1>4, <1>5 DEF SensorInv

LEMMA ExecuteShowsTable ==
    ASSUME NEW s, s.run \in Nat \ {0}, owner \in Nat, Execute(s)
    PROVE  /\ owner' \in Nat /\ (Exists => Exists')
           /\ since' = IF Exists \/ ~Exists' THEN since ELSE clock
<1>1. CASE s.step = 0
  <2>1. owner' = IF owner <= s.run THEN s.run ELSE owner
    BY <1>1, CreateEmpties
  <2>2. owner' \in Nat \ {0}
    BY <2>1
  <2> QED
    BY <1>1, <2>2 DEF Execute, Exists
<1>2. CASE s.step # 0
  BY <1>2 DEF Execute, Exists
<1> QED
  BY <1>1, <1>2

LEMMA InitSensorInv == ASSUME Init PROVE SensorInv
<1>1. SensorTyped
  BY DEF Init, SensorTyped
<1>2. TimeInv
  <2>1. 0 <= SensorTimeout + PokeMax + PokeInterval /\ 0 <= PokeMax
    BY SensorConstants
  <2> QED
    BY <2>1 DEF Init, TimeInv, SensorReturnsInTime
<1>3. NoticeInv
  BY DEF Init, NoticeInv, TableIsNoticed, Exists
<1> QED
  BY <1>1, <1>2, <1>3 DEF SensorInv

LEMMA NextSensorInv == ASSUME SensorInv, SeedInv, [Next]_vars PROVE SensorInv'
<1>1. /\ SensorTyped /\ TimeInv /\ NoticeInv
      /\ SensorReturnsInTime /\ TableIsNoticed
  BY DEF SensorInv, TimeInv, NoticeInv
<1>2. /\ clock \in Nat /\ began \in Nat /\ began <= clock /\ since \in Nat /\ since <= clock
      /\ SensorTimeout \in Nat /\ PokeInterval \in Nat /\ PokeMax \in Nat
  BY <1>1, SensorConstants DEF SensorTyped
<1> USE DEF SensorTyped
<1>3. CASE StatementSucceeds
  <2>1. phase = "running" /\ UNCHANGED sensor /\ Execute(Statement)
    BY <1>3 DEF StatementSucceeds
  <2>2. runs \in Nat \ {0} /\ owner \in Nat
    BY <2>1, SeedAssumption DEF SeedInv, SeedTyped, RunInv
  <2>3. Statement.run = runs
    BY DEF Statement
  <2>4. owner' \in Nat /\ (Exists => Exists')
        /\ since' = IF Exists \/ ~Exists' THEN since ELSE clock
    BY <2>1, <2>2, <2>3, ExecuteShowsTable
  <2> QED
    BY <2>1, <2>4, TableAppears
<1>4. ASSUME NEW s \in late, LateExecuted(s)
      PROVE  SensorInv'
  <2>1. UNCHANGED sensor /\ Execute(s)
    BY <1>4 DEF LateExecuted
  <2>2. s.run \in Nat \ {0} /\ owner \in Nat
    BY SeedAssumption DEF SeedInv, SeedTyped, LateStatement
  <2>3. owner' \in Nat /\ (Exists => Exists')
        /\ since' = IF Exists \/ ~Exists' THEN since ELSE clock
    BY <2>1, <2>2, ExecuteShowsTable
  <2> QED
    BY <2>1, <2>3, TableAppears
<1>5. CASE StartSensor
  <2>1. /\ pc = "start" /\ clock = 0
        /\ UNCHANGED <<owner, since, sensorMode, answer, clock, began>>
        /\ \/ sensorMode = "skip" /\ pc' = "done" /\ outcome' = "ok"
           \/ sensorMode # "skip" /\ pc' = "top" /\ UNCHANGED outcome
    BY <1>1, <1>5 DEF StartSensor, Return, content, TimeInv
  <2>2. SensorTyped'
    BY <1>1, <2>1
  <2>3. TimeInv'
    BY <1>1, <2>1 DEF TimeInv, SensorReturnsInTime
  <2>4. NoticeInv'
    BY <1>1, <1>2, <2>1 DEF NoticeInv, TableIsNoticed, Exists
  <2> QED
    BY <2>2, <2>3, <2>4 DEF SensorInv
<1>6. CASE Timeout
  <2>1. /\ pc = "top" /\ clock >= SensorTimeout /\ pc' = "done" /\ outcome' = "timeout"
        /\ UNCHANGED <<owner, since, sensorMode, answer, clock, began>>
    BY <1>6 DEF Timeout, TimerFired, Return, content
  <2>2. SensorTyped'
    BY <1>1, <2>1
  <2>3. TimeInv'
    BY <1>1, <2>1 DEF TimeInv, SensorReturnsInTime
  <2>4. NoticeInv'
    BY <1>1, <1>2, <2>1 DEF NoticeInv, TableIsNoticed, Exists
  <2> QED
    BY <2>2, <2>3, <2>4 DEF SensorInv
<1>7. CASE Poke
  <2>1. /\ pc = "top" /\ clock <= SensorTimeout /\ pc' = "poking" /\ answer' = "none"
        /\ began' = clock /\ UNCHANGED <<owner, since, sensorMode, outcome, clock>>
    BY <1>7 DEF Poke, TimerPending, content
  <2>2. SensorTyped'
    BY <1>1, <1>2, <2>1
  <2>3. TimeInv'
    BY <1>1, <1>2, <2>1 DEF TimeInv, SensorReturnsInTime
  <2>4. NoticeInv'
    BY <1>1, <2>1 DEF NoticeInv, TableIsNoticed, Exists, TimeInv
  <2> QED
    BY <2>2, <2>3, <2>4 DEF SensorInv
<1>8. CASE PokeExecuted
  <2>1. /\ pc = "poking" /\ answer' = (IF Exists THEN "found" ELSE "missing")
        /\ UNCHANGED <<owner, since, sensorMode, pc, outcome, clock, began>>
    BY <1>8 DEF PokeExecuted, content
  <2>2. SensorTyped'
    BY <1>1, <2>1
  <2>3. TimeInv'
    BY <1>1, <2>1 DEF TimeInv, SensorReturnsInTime
  <2>4. NoticeInv'
    BY <1>1, <2>1 DEF NoticeInv, TableIsNoticed, Exists
  <2> QED
    BY <2>2, <2>3, <2>4 DEF SensorInv
<1>9. CASE PokeReturns
  <2>1. /\ pc = "poking" /\ answer # "none"
        /\ UNCHANGED <<owner, since, sensorMode, answer, clock>>
        /\ \/ /\ answer = "found" /\ pc' = "done" /\ outcome' = "ok" /\ UNCHANGED began
           \/ /\ answer = "missing" /\ pc' = "done" /\ outcome' = "missing" /\ UNCHANGED began
           \/ /\ answer = "missing" /\ sensorMode # "once"
              /\ pc' = "sleeping" /\ began' = clock /\ UNCHANGED outcome
    BY <1>1, <1>9 DEF PokeReturns, Return, content
  <2>2. SensorTyped'
    BY <1>1, <1>2, <2>1
  <2>3. TimeInv'
    BY <1>1, <1>2, <2>1 DEF TimeInv, SensorReturnsInTime
  <2>4. NoticeInv'
    <3>1. Exists /\ answer = "missing" => clock <= since + PokeMax
      BY <1>1, <1>2, <2>1 DEF NoticeInv, TimeInv
    <3> QED
      BY <1>1, <2>1, <3>1 DEF NoticeInv, TableIsNoticed, Exists, TimeInv
  <2> QED
    BY <2>2, <2>3, <2>4 DEF SensorInv
<1>10. CASE PokeFails \/ Cancel
  <2>1. /\ pc' = "done" /\ outcome' \in {"error", "cancelled"} /\ sensorMode' = sensorMode
        /\ UNCHANGED <<owner, since, answer, clock, began>> /\ pc # "start"
    BY <1>10 DEF PokeFails, Cancel, Return, content
  <2>2. SensorTyped'
    BY <1>1, <2>1
  <2>3. TimeInv'
    BY <1>1, <2>1 DEF TimeInv, SensorReturnsInTime
  <2>4. NoticeInv'
    BY <1>1, <2>1 DEF NoticeInv, TableIsNoticed, Exists
  <2> QED
    BY <2>2, <2>3, <2>4 DEF SensorInv
<1>11. CASE WakeUp
  <2>1. /\ pc = "sleeping" /\ clock >= began + PokeInterval /\ pc' = "top"
        /\ UNCHANGED <<owner, since, sensorMode, outcome, answer, clock, began>>
    BY <1>11 DEF WakeUp, Wakes, content
  <2>2. SensorTyped'
    BY <1>1, <2>1
  <2>3. TimeInv'
    BY <1>1, <2>1 DEF TimeInv, SensorReturnsInTime
  <2>4. NoticeInv'
    <3>1. clock <= began + PokeInterval /\ (Exists => began <= since + PokeMax)
      BY <1>1, <2>1 DEF NoticeInv, TimeInv
    <3>2. Exists => clock <= since + PokeInterval + PokeMax
      BY <1>2, <3>1
    <3> QED
      BY <1>1, <2>1, <3>2 DEF NoticeInv, TableIsNoticed, Exists
  <2> QED
    BY <2>2, <2>3, <2>4 DEF SensorInv
<1>12. CASE Tick
  <2>1. /\ clock' = clock + 1
        /\ UNCHANGED <<owner, since, sensorMode, pc, outcome, answer, began>>
        /\ \/ pc = "poking" /\ clock < began + PokeMax
           \/ pc = "sleeping" /\ clock < began + PokeInterval
    BY <1>2, <1>12 DEF Tick, Wakes, content
  <2>2. SensorTyped'
    BY <1>1, <1>2, <2>1
  <2>3. TimeInv'
    <3>1. CASE pc = "poking" /\ clock < began + PokeMax
      BY <1>1, <1>2, <2>1, <3>1 DEF TimeInv, SensorReturnsInTime
    <3>2. CASE pc = "sleeping" /\ clock < began + PokeInterval
      BY <1>1, <1>2, <2>1, <3>2 DEF TimeInv, SensorReturnsInTime
    <3> QED
      BY <2>1, <3>1, <3>2
  <2>4. NoticeInv'
    BY <1>1, <2>1 DEF NoticeInv, TableIsNoticed, Exists, TimeInv
  <2> QED
    BY <2>2, <2>3, <2>4 DEF SensorInv
<1>13. CASE UNCHANGED <<content, sensor>>
  BY <1>1, <1>2, <1>13, TableAppears DEF content, Exists
<1>14. ASSUME \/ StartRun \/ StatementFails \/ StatementAbandoned
              \/ (\E s \in late : LateLost(s)) \/ FileChanges \/ UNCHANGED vars
       PROVE  UNCHANGED <<content, sensor>>
  BY <1>14 DEF StartRun, StatementFails, StatementAbandoned, LateLost, FileChanges, vars
<1> QED
  BY <1>3, <1>4, <1>5, <1>6, <1>7, <1>8, <1>9, <1>10, <1>11, <1>12, <1>13, <1>14 DEF Next

LEMMA SensorInvariance == Spec => []SensorInv
<1>1. Init => SensorInv
  BY InitSensorInv
<1>2. SensorInv /\ SeedInv /\ [Next]_vars => SensorInv'
  BY NextSensorInv
<1> QED
  BY <1>1, <1>2, SeedInvariance, PTL DEF Spec

\* RunTask of sensor.go overruns the timeout by one poke and one sleep at most, and
\* never times out before it.
THEOREM SensorsReturn == Spec => []SensorReturnsInTime
<1>1. SensorInv => SensorReturnsInTime
  BY DEF SensorInv, TimeInv
<1> QED
  BY <1>1, SensorInvariance, PTL

\* A table that a seed creates while RunTask of sensor.go pokes and sleeps is missed
\* for one sleep and one poke at most, and is there when the sensor says so.
THEOREM TablesAreNoticed == Spec => []TableIsNoticed
<1>1. SensorInv => TableIsNoticed
  BY DEF SensorInv, NoticeInv
<1> QED
  BY <1>1, SensorInvariance, PTL
=============================================================================
