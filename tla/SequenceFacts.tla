----------------------------- MODULE SequenceFacts -----------------------------
(***************************************************************************)
(* Subsequences, as the models use them, and the facts about numbers and   *)
(* sequences that the proofs share.  Induction is stated with a set in     *)
(* place of a predicate.                                                   *)
(***************************************************************************)
EXTENDS Integers, Sequences, SequenceTheorems, WellFoundedInduction, TLAPS

\* s without the elements of a set.
Without(s, X) ==
  LET kept[n \in 0 .. Len(s)] == IF n = 0 THEN <<>>
                                 ELSE IF s[n] \in X THEN kept[n - 1] ELSE Append(kept[n - 1], s[n])
  IN  kept[Len(s)]

\* Every set of natural numbers that is not empty has a least element.
LEMMA Least ==
  ASSUME NEW T, T \subseteq Nat, T # {}
  PROVE  \E x \in T : \A y \in T : x <= y
<1> DEFINE R == OpToRel(<, Nat)
<1>1. IsWellFoundedOn(R, Nat)
  BY NatLessThanWellFounded
<1>2. R = {z \in Nat \X Nat : z[1] < z[2]}
  BY DEF OpToRel
<1> HIDE DEF R
<1>3. PICK x \in T : \A y \in T : ~(<<y, x>> \in R)
  BY <1>1, WFMin
<1>4. \A m, n \in Nat : m < n => <<m, n>> \in R
  BY <1>2
<1>5. \A y \in T : ~(y < x)
  BY <1>3, <1>4
<1>6. \A y \in T : x <= y
  BY <1>5
<1> QED BY <1>6

\* Multiplication keeps the order of numbers.
LEMMA Products ==
  ASSUME NEW a \in Nat, NEW b \in Nat, NEW c \in Nat
  PROVE  /\ a * c \in Nat
         /\ (a + 1) * c = a * c + c
         /\ a <= b => a * c <= b * c
<1>1. a * c \in Nat /\ (a + 1) * c = a * c + c
  OBVIOUS
<1>2. ASSUME a <= b PROVE a * c <= b * c
  <2>1. PICK d \in Nat : b = a + d
    <3>1. b - a \in Nat /\ b = a + (b - a)
      BY <1>2
    <3> QED BY <3>1
  <2>2. b * c = a * c + d * c /\ d * c \in Nat
    BY <2>1
  <2> QED BY <1>1, <2>2
<1> QED BY <1>1, <1>2

\* Induction from 0 up to a bound.
LEMMA InductionUpTo ==
  ASSUME NEW T, NEW b \in Nat, 0 \in T, \A n \in 0 .. b - 1 : n \in T => n + 1 \in T
  PROVE  0 .. b \subseteq T
<1> SUFFICES ASSUME (0 .. b) \ T # {} PROVE FALSE
  OBVIOUS
<1> DEFINE L == (0 .. b) \ T
<1>0. L \subseteq Nat /\ L # {}
  OBVIOUS
<1>1. PICK x \in L : \A y \in L : x <= y
  <2> HIDE DEF L
  <2> QED BY <1>0, Least
<1>2. x - 1 \in 0 .. b - 1 /\ x - 1 \notin (0 .. b) \ T
  BY <1>1
<1> QED BY <1>1, <1>2

-------------------------------------------------------------------------------
(* What is left of a sequence without the elements of a set.               *)

\* The function that Without is defined by exists: it is built up from its values
\* on 0 .. m.
LEMMA WithoutIs ==
  ASSUME NEW s, NEW X, Len(s) \in Nat
  PROVE  \E f : /\ f[0] = <<>>
                /\ \A n \in 0 .. Len(s) - 1 :
                     f[n + 1] = IF s[n + 1] \in X THEN f[n] ELSE Append(f[n], s[n + 1])
                /\ Without(s, X) = f[Len(s)]
<1> DEFINE Up(f, m) == f = [n \in 0 .. m |->
                              IF n = 0 THEN <<>>
                              ELSE IF s[n] \in X THEN f[n - 1] ELSE Append(f[n - 1], s[n])]
           T == {m \in 0 .. Len(s) : \E f : Up(f, m)}
<1>1. 0 \in T
  <2>1. Up([n \in 0 .. 0 |-> <<>>], 0)
    OBVIOUS
  <2> HIDE DEF Up
  <2> QED BY <2>1
<1>2. ASSUME NEW m \in 0 .. Len(s) - 1, m \in T
      PROVE  m + 1 \in T
  <2>1. PICK f : Up(f, m)
    BY <1>2
  <2> DEFINE g == [n \in 0 .. m + 1 |->
                     IF n <= m THEN f[n]
                     ELSE IF s[n] \in X THEN f[n - 1] ELSE Append(f[n - 1], s[n])]
  <2>2. \A n \in 0 .. m + 1 : n # 0 => n - 1 \in 0 .. m /\ g[n - 1] = f[n - 1]
    OBVIOUS
  <2>3. ASSUME NEW n \in 0 .. m + 1
        PROVE  g[n] = IF n = 0 THEN <<>>
                      ELSE IF s[n] \in X THEN g[n - 1] ELSE Append(g[n - 1], s[n])
    <3>1. CASE n <= m
      <4>1. n \in 0 .. m /\ g[n] = f[n]
        BY <3>1
      <4> QED BY <2>1, <2>2, <4>1
    <3>2. CASE n = m + 1
      <4>1. g[n] = IF s[n] \in X THEN f[n - 1] ELSE Append(f[n - 1], s[n])
        BY <3>2
      <4> QED BY <2>2, <3>2, <4>1
    <3> QED BY <3>1, <3>2
  <2>4. g = [n \in 0 .. m + 1 |-> g[n]]
    OBVIOUS
  <2> HIDE DEF g
  <2>5. Up(g, m + 1)
    BY <2>3, <2>4
  <2> HIDE DEF Up
  <2> QED BY <2>5
<1>3. \E f : Up(f, Len(s))
  <2> HIDE DEF T
  <2>1. 0 .. Len(s) \subseteq T
    BY <1>1, <1>2, InductionUpTo
  <2> USE DEF T
  <2> HIDE DEF Up
  <2> QED BY <2>1
<1> DEFINE f == CHOOSE f : Up(f, Len(s))
<1>4. Up(f, Len(s))
  BY <1>3
<1>5. Without(s, X) = f[Len(s)]
  BY DEF Without
<1> HIDE DEF f
<1>6. f[0] = <<>>
  BY <1>4
<1>7. ASSUME NEW n \in 0 .. Len(s) - 1
      PROVE  f[n + 1] = IF s[n + 1] \in X THEN f[n] ELSE Append(f[n], s[n + 1])
  <2>1. n + 1 \in 0 .. Len(s) /\ n + 1 # 0 /\ (n + 1) - 1 = n
    OBVIOUS
  <2> QED BY <1>4, <2>1
<1> QED BY <1>5, <1>6, <1>7

LEMMA WithoutFacts ==
  ASSUME NEW S, NEW s \in Seq(S), NEW X
  PROVE  /\ Without(s, X) \in Seq(S)
         /\ Len(Without(s, X)) <= Len(s)
         /\ X = {} => Without(s, X) = s
<1>1. Len(s) \in Nat
  OBVIOUS
<1>2. PICK f : /\ f[0] = <<>>
               /\ \A n \in 0 .. Len(s) - 1 :
                    f[n + 1] = IF s[n + 1] \in X THEN f[n] ELSE Append(f[n], s[n + 1])
               /\ Without(s, X) = f[Len(s)]
  BY <1>1, WithoutIs
<1> DEFINE T == {m \in 0 .. Len(s) :
                   /\ f[m] \in Seq(S) /\ Len(f[m]) <= m
                   /\ X = {} => Len(f[m]) = m /\ \A i \in 1 .. m : f[m][i] = s[i]}
<1>4. 0 \in T
  <2>1. f[0] \in Seq(S) /\ Len(f[0]) = 0
    BY <1>2
  <2> QED BY <1>1, <2>1
<1>5. ASSUME NEW m \in 0 .. Len(s) - 1, m \in T
      PROVE  m + 1 \in T
  <2>1. s[m + 1] \in S
    OBVIOUS
  <2>2. f[m] \in Seq(S) /\ Len(f[m]) <= m
    BY <1>5
  <2>3. CASE s[m + 1] \in X
    BY <1>2, <1>5, <2>2, <2>3
  <2>4. CASE s[m + 1] \notin X
    <3>1. f[m + 1] = Append(f[m], s[m + 1])
      BY <1>2, <2>4
    <3>2. f[m + 1] \in Seq(S) /\ Len(f[m + 1]) = Len(f[m]) + 1
      BY <2>1, <2>2, <3>1
    <3>3. ASSUME X = {}
          PROVE  \A i \in 1 .. m + 1 : f[m + 1][i] = s[i]
      BY <1>5, <2>1, <2>2, <3>1, <3>3
    <3> QED BY <1>5, <2>2, <3>2, <3>3
  <2> QED BY <2>3, <2>4
<1>6. Len(s) \in T
  <2> HIDE DEF T
  <2>1. 0 .. Len(s) \subseteq T
    BY <1>4, <1>5, InductionUpTo
  <2> QED BY <2>1
<1>7. X = {} => f[Len(s)] = s
  BY <1>6
<1> QED BY <1>2, <1>6, <1>7

LEMMA WithoutEmpty == \A X : Without(<<>>, X) = <<>>
<1> TAKE X
<1>1. Len(<<>>) = 0 /\ Len(<<>>) \in Nat
  OBVIOUS
<1> QED BY <1>1, WithoutIs

LEMMA WithoutAppend ==
  ASSUME NEW S, NEW s \in Seq(S), NEW e \in S, NEW X
  PROVE  Without(Append(s, e), X) = IF e \in X THEN Without(s, X) ELSE Append(Without(s, X), e)
<1> DEFINE t == Append(s, e)
<1>1. Len(s) \in Nat /\ Len(t) = Len(s) + 1 /\ t[Len(s) + 1] = e /\ \A i \in 1 .. Len(s) : t[i] = s[i]
  OBVIOUS
<1> HIDE DEF t
<1>2. PICK f : /\ f[0] = <<>>
               /\ \A n \in 0 .. Len(s) - 1 :
                    f[n + 1] = IF s[n + 1] \in X THEN f[n] ELSE Append(f[n], s[n + 1])
               /\ Without(s, X) = f[Len(s)]
  BY <1>1, WithoutIs
<1>3. PICK g : /\ g[0] = <<>>
               /\ \A n \in 0 .. Len(t) - 1 :
                    g[n + 1] = IF t[n + 1] \in X THEN g[n] ELSE Append(g[n], t[n + 1])
               /\ Without(t, X) = g[Len(t)]
  BY <1>1, WithoutIs
<1> DEFINE T == {n \in 0 .. Len(s) : f[n] = g[n]}
<1>4. 0 \in T
  BY <1>1, <1>2, <1>3
<1>5. ASSUME NEW n \in 0 .. Len(s) - 1, n \in T
      PROVE  n + 1 \in T
  <2>1. n \in 0 .. Len(t) - 1 /\ n + 1 \in 0 .. Len(s) /\ t[n + 1] = s[n + 1] /\ f[n] = g[n]
    BY <1>1, <1>5
  <2>2. f[n + 1] = g[n + 1]
    BY <1>2, <1>3, <2>1
  <2> QED BY <2>1, <2>2
<1>6. f[Len(s)] = g[Len(s)]
  <2> HIDE DEF T
  <2>1. 0 .. Len(s) \subseteq T
    BY <1>1, <1>4, <1>5, InductionUpTo
  <2> QED BY <1>1, <2>1 DEF T
<1>7. Len(s) \in 0 .. Len(t) - 1
  BY <1>1
<1>8. Without(t, X) = IF e \in X THEN g[Len(s)] ELSE Append(g[Len(s)], e)
  BY <1>1, <1>3, <1>7
<1> QED BY <1>2, <1>6, <1>8 DEF t


\* What is in a sequence, that it has nothing twice, and that one is the beginning of another.
Entries(s) == {s[i] : i \in DOMAIN s}
Distinct(s) == \A i, j \in DOMAIN s : s[i] = s[j] => i = j
Begins(s, t) == Len(s) <= Len(t) /\ \A i \in 1 .. Len(s) : s[i] = t[i]

LEMMA AppendEntries ==
  ASSUME NEW S, NEW s \in Seq(S), NEW e \in S
  PROVE  /\ Entries(Append(s, e)) = Entries(s) \cup {e}
         /\ Distinct(s) /\ e \notin Entries(s) => Distinct(Append(s, e))
         /\ Begins(s, Append(s, e))
<1>1. /\ Append(s, e) \in Seq(S) /\ Len(Append(s, e)) = Len(s) + 1 /\ Len(s) \in Nat
      /\ Append(s, e)[Len(s) + 1] = e /\ \A i \in 1 .. Len(s) : Append(s, e)[i] = s[i]
      /\ DOMAIN s = 1 .. Len(s) /\ DOMAIN Append(s, e) = 1 .. Len(s) + 1
  OBVIOUS
<1> DEFINE t == Append(s, e)
<1> HIDE DEF t
<1>2. Entries(t) = Entries(s) \cup {e}
  <2>1. ASSUME NEW x \in Entries(t) PROVE x \in Entries(s) \cup {e}
    BY <1>1, <2>1 DEF Entries, t
  <2>2. ASSUME NEW x \in Entries(s) PROVE x \in Entries(t)
    <3>1. PICK i \in 1 .. Len(s) : x = s[i]
      BY <1>1 DEF Entries
    <3>2. i \in 1 .. Len(s) + 1 /\ x = t[i]
      BY <1>1, <3>1 DEF t
    <3> QED BY <1>1, <3>2 DEF Entries, t
  <2>3. e \in Entries(t)
    <3>1. Len(s) + 1 \in 1 .. Len(s) + 1
      BY <1>1
    <3> QED BY <1>1, <3>1 DEF Entries, t
  <2> QED BY <2>1, <2>2, <2>3
<1>3. ASSUME Distinct(s), e \notin Entries(s), NEW i \in 1 .. Len(s) + 1, NEW j \in 1 .. Len(s) + 1,
             t[i] = t[j]
      PROVE  i = j
  <2>1. \A k \in 1 .. Len(s) : s[k] # e
    BY <1>1, <1>3 DEF Entries
  <2>2. (i \in 1 .. Len(s) \/ i = Len(s) + 1) /\ (j \in 1 .. Len(s) \/ j = Len(s) + 1)
    BY <1>1
  <2> QED BY <1>1, <1>3, <2>1, <2>2 DEF Distinct, t
<1>4. Begins(s, t)
  BY <1>1 DEF Begins, t
<1> QED BY <1>1, <1>2, <1>3, <1>4 DEF Distinct, t

LEMMA WithoutEntries ==
  ASSUME NEW S, NEW s \in Seq(S), NEW X
  PROVE  /\ Entries(Without(s, X)) = Entries(s) \ X
         /\ Distinct(s) => Distinct(Without(s, X))
<1>1. Len(s) \in Nat /\ DOMAIN s = 1 .. Len(s) /\ \A i \in 1 .. Len(s) : s[i] \in S
  OBVIOUS
<1>2. PICK f : /\ f[0] = <<>>
               /\ \A n \in 0 .. Len(s) - 1 :
                    f[n + 1] = IF s[n + 1] \in X THEN f[n] ELSE Append(f[n], s[n + 1])
               /\ Without(s, X) = f[Len(s)]
  BY <1>1, WithoutIs
<1> DEFINE First(m) == {s[i] : i \in 1 .. m}
           T == {m \in 0 .. Len(s) :
                   /\ f[m] \in Seq(S) /\ Entries(f[m]) = First(m) \ X
                   /\ Distinct(s) => Distinct(f[m])}
<1>3. 0 \in T
  <2>1. f[0] \in Seq(S) /\ DOMAIN f[0] = {}
    BY <1>2
  <2> QED BY <1>1, <2>1 DEF Entries, Distinct
<1>4. ASSUME NEW m \in 0 .. Len(s) - 1, m \in T
      PROVE  m + 1 \in T
  <2>1. s[m + 1] \in S /\ m + 1 \in 0 .. Len(s) /\ m \in Nat
    BY <1>1
  <2>2. f[m] \in Seq(S) /\ Entries(f[m]) = First(m) \ X /\ (Distinct(s) => Distinct(f[m]))
    BY <1>4
  <2>3. First(m + 1) = First(m) \cup {s[m + 1]}
    <3>1. 1 .. m + 1 = (1 .. m) \cup {m + 1}
      BY <2>1
    <3> QED BY <3>1
  <2>4. CASE s[m + 1] \in X
    <3>1. f[m + 1] = f[m]
      BY <1>2, <2>4
    <3> QED BY <2>1, <2>2, <2>3, <2>4, <3>1
  <2>5. CASE s[m + 1] \notin X
    <3>1. f[m + 1] = Append(f[m], s[m + 1])
      BY <1>2, <2>5
    <3>2. /\ f[m + 1] \in Seq(S) /\ Entries(f[m + 1]) = Entries(f[m]) \cup {s[m + 1]}
          /\ Distinct(f[m]) /\ s[m + 1] \notin Entries(f[m]) => Distinct(f[m + 1])
      BY <2>1, <2>2, <3>1, AppendEntries
    <3>3. Distinct(s) => s[m + 1] \notin First(m)
      BY <1>1 DEF Distinct
    <3> HIDE DEF First
    <3>4. Entries(f[m + 1]) = First(m + 1) \ X
      BY <2>2, <2>3, <2>5, <3>2
    <3> QED BY <2>1, <2>2, <3>2, <3>3, <3>4
  <2> QED BY <2>4, <2>5
<1>5. Len(s) \in T
  <2> HIDE DEF T
  <2>1. 0 .. Len(s) \subseteq T
    BY <1>1, <1>3, <1>4, InductionUpTo
  <2> QED BY <1>1, <2>1
<1>6. First(Len(s)) = Entries(s)
  BY <1>1 DEF Entries
<1> QED BY <1>2, <1>5, <1>6

LEMMA WithoutBegins ==
  ASSUME NEW S, NEW s \in Seq(S), NEW t \in Seq(S), Begins(s, t), NEW X
  PROVE  Begins(Without(s, X), Without(t, X))
<1>1. /\ Len(s) \in Nat /\ Len(t) \in Nat /\ Len(s) <= Len(t)
      /\ \A i \in 1 .. Len(s) : s[i] = t[i]
      /\ \A i \in 1 .. Len(t) : t[i] \in S
  BY DEF Begins
<1>2. PICK f : /\ f[0] = <<>>
               /\ \A n \in 0 .. Len(s) - 1 :
                    f[n + 1] = IF s[n + 1] \in X THEN f[n] ELSE Append(f[n], s[n + 1])
               /\ Without(s, X) = f[Len(s)]
  BY <1>1, WithoutIs
<1>3. PICK g : /\ g[0] = <<>>
               /\ \A n \in 0 .. Len(t) - 1 :
                    g[n + 1] = IF t[n + 1] \in X THEN g[n] ELSE Append(g[n], t[n + 1])
               /\ Without(t, X) = g[Len(t)]
  BY <1>1, WithoutIs
<1> DEFINE T == {n \in 0 .. Len(s) : f[n] = g[n]}
<1>4. 0 \in T
  BY <1>1, <1>2, <1>3
<1>5. ASSUME NEW n \in 0 .. Len(s) - 1, n \in T
      PROVE  n + 1 \in T
  <2>1. n \in 0 .. Len(t) - 1 /\ n + 1 \in 0 .. Len(s) /\ t[n + 1] = s[n + 1] /\ f[n] = g[n]
    BY <1>1, <1>5
  <2>2. f[n + 1] = g[n + 1]
    BY <1>2, <1>3, <2>1
  <2> QED BY <2>1, <2>2
<1>6. f[Len(s)] = g[Len(s)]
  <2> HIDE DEF T
  <2>1. 0 .. Len(s) \subseteq T
    BY <1>1, <1>4, <1>5, InductionUpTo
  <2> QED BY <1>1, <2>1 DEF T
<1>7. g[Len(s)] \in Seq(S)
  BY <1>2, <1>6, WithoutFacts
<1> DEFINE d == Len(t) - Len(s)
           h == g[Len(s)]
           U == {n \in 0 .. d : g[Len(s) + n] \in Seq(S) /\ Begins(h, g[Len(s) + n])}
<1>8. 0 \in U
  BY <1>1, <1>7 DEF Begins
<1>9. ASSUME NEW n \in 0 .. d - 1, n \in U
      PROVE  n + 1 \in U
  <2> DEFINE m == Len(s) + n
  <2>0. m \in 0 .. Len(t) - 1 /\ Len(s) + (n + 1) = m + 1 /\ n + 1 \in 0 .. d
    BY <1>1
  <2>1. t[m + 1] \in S /\ g[m] \in Seq(S) /\ Begins(h, g[m])
    <3>1. m + 1 \in 1 .. Len(t)
      BY <1>1, <2>0
    <3> QED BY <1>1, <1>9, <3>1
  <2>2. g[m + 1] = IF t[m + 1] \in X THEN g[m] ELSE Append(g[m], t[m + 1])
    BY <1>3, <2>0
  <2> HIDE DEF m, h
  <2>3. h \in Seq(S)
    BY <1>7 DEF h
  <2>4. g[m + 1] \in Seq(S) /\ Begins(h, g[m + 1])
    <3>1. CASE t[m + 1] \in X
      BY <2>1, <2>2, <3>1
    <3>2. CASE t[m + 1] \notin X
      <4>1. g[m + 1] = Append(g[m], t[m + 1])
        BY <2>2, <3>2
      <4>2. Len(h) \in Nat /\ Len(g[m]) \in Nat
        BY <2>1, <2>3
      <4> QED BY <2>1, <2>3, <4>1, <4>2 DEF Begins
    <3> QED BY <3>1, <3>2
  <2> QED BY <2>0, <2>4
<1>10. d \in U
  <2> HIDE DEF U
  <2>1. d \in Nat
    BY <1>1
  <2> HIDE DEF d
  <2>2. 0 .. d \subseteq U
    BY <1>8, <1>9, <2>1, InductionUpTo
  <2> QED BY <2>1, <2>2
<1>11. Len(s) + d = Len(t)
  BY <1>1
<1>12. g[Len(s) + d] = g[Len(t)]
  BY <1>11
<1> QED BY <1>2, <1>3, <1>6, <1>10, <1>12

Increasing(s) == \A i, j \in DOMAIN s : i < j => s[i] < s[j]

\* What is left of an increasing sequence of numbers increases.
LEMMA WithoutIncreasing ==
  ASSUME NEW s \in Seq(Nat), Increasing(s), NEW X
  PROVE  Increasing(Without(s, X))
<1>1. Len(s) \in Nat /\ DOMAIN s = 1 .. Len(s) /\ \A i \in 1 .. Len(s) : s[i] \in Nat
  OBVIOUS
<1>2. PICK f : /\ f[0] = <<>>
               /\ \A n \in 0 .. Len(s) - 1 :
                    f[n + 1] = IF s[n + 1] \in X THEN f[n] ELSE Append(f[n], s[n + 1])
               /\ Without(s, X) = f[Len(s)]
  BY <1>1, WithoutIs
<1> DEFINE T == {m \in 0 .. Len(s) :
                   /\ f[m] \in Seq(Nat) /\ Increasing(f[m])
                   /\ \A i \in DOMAIN f[m] : \A k \in m + 1 .. Len(s) : f[m][i] < s[k]}
<1>3. 0 \in T
  <2>1. f[0] \in Seq(Nat) /\ DOMAIN f[0] = {}
    BY <1>2
  <2> QED BY <1>1, <2>1 DEF Increasing
<1>4. ASSUME NEW m \in 0 .. Len(s) - 1, m \in T PROVE m + 1 \in T
  <2>1. m + 1 \in 1 .. Len(s) /\ s[m + 1] \in Nat /\ m + 1 \in 0 .. Len(s) /\ m \in Nat
    BY <1>1
  <2>2. /\ f[m] \in Seq(Nat) /\ Increasing(f[m])
        /\ \A i \in DOMAIN f[m] : \A k \in m + 1 .. Len(s) : f[m][i] < s[k]
    BY <1>4
  <2>3. CASE s[m + 1] \in X
    <3>1. f[m + 1] = f[m]
      BY <1>2, <2>3
    <3>2. \A k \in (m + 1) + 1 .. Len(s) : k \in m + 1 .. Len(s)
      BY <1>1, <2>1
    <3>3. \A i \in DOMAIN f[m] : \A k \in (m + 1) + 1 .. Len(s) : f[m][i] < s[k]
      BY <2>2, <3>2
    <3> QED BY <2>1, <2>2, <3>1, <3>3
  <2>4. CASE s[m + 1] \notin X
    <3> DEFINE e == s[m + 1]
               u == f[m]
               t == Append(u, e)
    <3>1. f[m + 1] = t
      BY <1>2, <2>4
    <3>2. u \in Seq(Nat) /\ e \in Nat /\ \A i \in DOMAIN u : u[i] < e
      <4>1. m + 1 \in m + 1 .. Len(s)
        BY <1>1, <2>1
      <4> QED BY <2>1, <2>2, <4>1
    <3>3. \A k \in m + 2 .. Len(s) : e < s[k] /\ k \in m + 1 .. Len(s)
      BY <1>1, <2>1 DEF Increasing
    <3>4. \A i \in DOMAIN u : \A k \in m + 2 .. Len(s) : u[i] < s[k]
      BY <2>2, <3>3
    <3>5. Increasing(u)
      BY <2>2
    <3> HIDE DEF e, u
    <3>6. /\ t \in Seq(Nat) /\ Len(u) \in Nat /\ DOMAIN u = 1 .. Len(u) /\ DOMAIN t = 1 .. Len(u) + 1
          /\ t[Len(u) + 1] = e /\ \A i \in 1 .. Len(u) : t[i] = u[i]
      BY <3>2
    <3> HIDE DEF t
    <3>7. ASSUME NEW i \in DOMAIN t, NEW j \in DOMAIN t, i < j PROVE t[i] < t[j]
      <4>1. i \in 1 .. Len(u) /\ (j \in 1 .. Len(u) \/ j = Len(u) + 1)
        BY <3>6, <3>7
      <4> QED BY <3>2, <3>5, <3>6, <3>7, <4>1 DEF Increasing
    <3>8. ASSUME NEW i \in DOMAIN t, NEW k \in m + 2 .. Len(s) PROVE t[i] < s[k]
      <4>1. i \in 1 .. Len(u) \/ i = Len(u) + 1
        BY <3>6
      <4> QED BY <3>3, <3>4, <3>6, <4>1
    <3>9. t \in Seq(Nat) /\ Increasing(t) /\ \A i \in DOMAIN t : \A k \in m + 2 .. Len(s) : t[i] < s[k]
      BY <3>6, <3>7, <3>8 DEF Increasing
    <3>10. m + 2 = (m + 1) + 1
      BY <2>1
    <3> QED BY <2>1, <3>1, <3>9, <3>10
  <2> QED BY <2>3, <2>4
<1> HIDE DEF T
<1>5. 0 .. Len(s) \subseteq T
  BY <1>1, <1>3, <1>4, InductionUpTo
<1>6. Len(s) \in T
  BY <1>1, <1>5
<1> QED BY <1>2, <1>6 DEF T

\* A set of positions that is not empty has a last one.
LEMMA LastOne ==
  ASSUME NEW n \in Nat, NEW S, S \subseteq 1 .. n, S # {}
  PROVE  \E k \in S : \A j \in S : j <= k
<1> DEFINE T == {n - k : k \in S}
<1>1. T \subseteq Nat /\ T # {}
  <2>1. PICK k \in S : TRUE
    OBVIOUS
  <2>2. n - k \in T
    BY <2>1
  <2>3. T \subseteq Nat
    OBVIOUS
  <2> QED BY <2>2, <2>3
<1> HIDE DEF T
<1>2. PICK x \in T : \A y \in T : x <= y
  BY <1>1, Least
<1>3. PICK k \in S : x = n - k
  BY <1>2 DEF T
<1>4. ASSUME NEW j \in S PROVE j <= k
  <2>1. n - j \in T
    BY DEF T
  <2>2. n - k <= n - j
    BY <1>2, <1>3, <2>1
  <2> QED BY <2>2
<1> QED BY <1>4
===============================================================================
