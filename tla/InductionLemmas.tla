--------------------------- MODULE InductionLemmas ---------------------------
(***************************************************************************)
(* Induction up to a bound, and with it what the recursive functions of    *)
(* the models compute for data of any length: Joined, for runs of records, *)
(* and the Base32 coder, for serial numbers.  Last, what each step of the  *)
(* event feed does to the order of the packets in it.                      *)
(***************************************************************************)
EXTENDS Records, IdProm, TLAPS, SequenceTheorems, WellFoundedInduction

(* Induction stated over a set: a least number missed would have a         *)
(* predecessor that is not.                                                *)
LEMMA UpTo ==
  ASSUME NEW n \in Nat, NEW S, 0 \in S, \A i \in 1 .. n : i - 1 \in S => i \in S
  PROVE  0 .. n \subseteq S
<1> DEFINE Missed == (0 .. n) \ S
<1> SUFFICES ASSUME Missed # {} PROVE FALSE
  OBVIOUS
<1>1. Missed \subseteq Nat
  OBVIOUS
<1>2. PICK m \in Missed : \A k \in Missed : <<k, m>> \notin OpToRel(<, Nat)
  BY <1>1, NatLessThanWellFounded, WFMin
<1>3. m \in 1 .. n /\ m \notin S
  OBVIOUS
<1>4. m - 1 \in Missed
  BY <1>3
<1>5. m - 1 < m /\ m \in Nat /\ m - 1 \in Nat
  BY <1>3
<1> QED BY <1>2, <1>4, <1>5 DEF OpToRel

(* A recursion over 0 .. n that stays in a set has a function.             *)
Iterates(f, n, x0, step) ==
  f = [i \in 0 .. n |-> IF i = 0 THEN x0 ELSE step[i][f[i - 1]]]

LEMMA IteratesValues ==
  ASSUME NEW n \in Nat, NEW x0, NEW step, NEW f, Iterates(f, n, x0, step)
  PROVE  /\ f[0] = x0
         /\ \A i \in 1 .. n : f[i] = step[i][f[i - 1]]
<1>1. 0 \in 0 .. n /\ \A i \in 1 .. n : i \in 0 .. n /\ i # 0
  OBVIOUS
<1>2. f[0] = x0
  BY <1>1 DEF Iterates
<1>3. ASSUME NEW i \in 1 .. n PROVE f[i] = step[i][f[i - 1]]
  BY <1>1 DEF Iterates
<1> QED BY <1>2, <1>3

LEMMA IteratesExists ==
  ASSUME NEW n \in Nat, NEW x0, NEW step
  PROVE  \E f : Iterates(f, n, x0, step)
<1> DEFINE Reached == {k \in 0 .. n : \E f : Iterates(f, k, x0, step)}
<1>1. 0 \in Reached
  <2> DEFINE f == [i \in 0 .. 0 |-> x0]
  <2>1. \A i \in 0 .. 0 : i = 0
    OBVIOUS
  <2>2. Iterates(f, 0, x0, step)
    BY <2>1, Zenon DEF Iterates
  <2> QED BY <2>2
<1>2. ASSUME NEW k \in 1 .. n, k - 1 \in Reached PROVE k \in Reached
  <2>1. PICK f : Iterates(f, k - 1, x0, step)
    BY <1>2
  <2>2. k # 0 /\ k \in Nat /\ k - 1 \in Nat /\ k - 1 \in 0 .. k /\ k - 1 # k
    OBVIOUS
  <2> DEFINE g == [i \in 0 .. k |-> IF i = k THEN step[k][f[k - 1]] ELSE f[i]]
             h == [i \in 0 .. k |-> IF i = 0 THEN x0 ELSE step[i][g[i - 1]]]
  <2>3. ASSUME NEW i \in 0 .. k PROVE g[i] = h[i]
    <3>1. CASE i = k
      <4>1. h[i] = step[k][g[k - 1]]
        BY <2>2, <3>1
      <4>2. g[k - 1] = f[k - 1]
        BY <2>2
      <4>3. g[i] = step[k][f[k - 1]]
        BY <2>2, <3>1
      <4> QED BY <4>1, <4>2, <4>3
    <3>2. CASE i # k /\ i = 0
      <4>1. g[i] = f[0] /\ h[i] = x0
        BY <3>2
      <4> QED BY <4>1, <2>1, <2>2, IteratesValues
    <3>3. CASE i # k /\ i # 0
      <4>1. i \in 1 .. k - 1 /\ i - 1 \in 0 .. k /\ i - 1 # k
        BY <2>2, <3>3
      <4>2. g[i] = f[i] /\ g[i - 1] = f[i - 1]
        BY <3>3, <4>1
      <4>3. h[i] = step[i][g[i - 1]]
        BY <3>3
      <4>4. f[i] = step[i][f[i - 1]]
        BY <2>1, <2>2, <4>1, IteratesValues
      <4> QED BY <4>2, <4>3, <4>4
    <3> QED BY <3>1, <3>2, <3>3
  <2>4. g = h
    BY <2>3
  <2>5. Iterates(g, k, x0, step)
    BY <2>4 DEF Iterates
  <2> QED BY <2>5
<1> HIDE DEF Reached
<1>3. 0 .. n \subseteq Reached
  BY <1>1, <1>2, UpTo
<1>4. n \in Reached
  BY <1>3
<1> QED BY <1>4 DEF Reached

LEMMA Iteration ==
  ASSUME NEW n \in Nat, NEW X, NEW x0 \in X, NEW step,
         \A i \in 1 .. n, x \in X : step[i][x] \in X
  PROVE  \E f : Iterates(f, n, x0, step) /\ \A i \in 0 .. n : f[i] \in X
<1>1. PICK f : Iterates(f, n, x0, step)
  BY IteratesExists
<1>2. f[0] = x0 /\ \A i \in 1 .. n : f[i] = step[i][f[i - 1]]
  BY <1>1, IteratesValues
<1> DEFINE Typed == {i \in 0 .. n : f[i] \in X}
<1>3. 0 \in Typed
  BY <1>2
<1>4. ASSUME NEW i \in 1 .. n, i - 1 \in Typed PROVE i \in Typed
  BY <1>2, <1>4
<1> HIDE DEF Typed
<1>5. 0 .. n \subseteq Typed
  BY <1>3, <1>4, UpTo
<1> QED BY <1>1, <1>5 DEF Typed


(* A prefix, and the element after it.                                     *)
LEMMA OneMore ==
  ASSUME NEW S, NEW s \in Seq(S), NEW m \in Nat, m + 1 <= Len(s)
  PROVE  SubSeq(s, 1, m + 1) = Append(SubSeq(s, 1, m), s[m + 1])
<1>1. Len(s) \in Nat /\ \A i \in 1 .. Len(s) : s[i] \in S
  BY LenProperties, ElementOfSeq
<1>2. \A i \in 1 .. m + 1 : s[i] \in S
  BY <1>1
<1>3. /\ SubSeq(s, 1, m + 1) \in Seq(S) /\ Len(SubSeq(s, 1, m + 1)) = m + 1
      /\ \A i \in 1 .. m + 1 : SubSeq(s, 1, m + 1)[i] = s[i]
  BY <1>1, <1>2, SubSeqProperties
<1>4. /\ SubSeq(s, 1, m) \in Seq(S) /\ Len(SubSeq(s, 1, m)) = m
      /\ \A i \in 1 .. m : SubSeq(s, 1, m)[i] = s[i]
  BY <1>1, <1>2, SubSeqProperties
<1> DEFINE t == Append(SubSeq(s, 1, m), s[m + 1])
<1>5. s[m + 1] \in S
  BY <1>2
<1>6. /\ t \in Seq(S) /\ Len(t) = m + 1 /\ t[m + 1] = s[m + 1]
      /\ \A i \in 1 .. m : t[i] = s[i]
  BY <1>4, <1>5, AppendProperties
<1> HIDE DEF t
<1>7. \A i \in 1 .. m + 1 : t[i] = s[i]
  <2> TAKE i \in 1 .. m + 1
  <2>1. i = m + 1 \/ i \in 1 .. m
    OBVIOUS
  <2> QED BY <1>6, <2>1
<1>8. SubSeq(s, 1, m + 1) = t
  BY <1>3, <1>6, <1>7, SeqEqual
<1> QED BY <1>8 DEF t

(***************************************************************************)
(* Runs of records                                                         *)
(***************************************************************************)
(* What Joined computes with: the packets up to each record.               *)
Joins(f, n, ss) ==
  f = [i \in 0 .. n |-> IF i = 0 THEN << >> ELSE f[i - 1] \o ss[i]]

LEMMA JoinsValues ==
  ASSUME NEW n \in Nat, NEW ss, NEW f, Joins(f, n, ss)
  PROVE  /\ f[0] = << >>
         /\ \A i \in 1 .. n : f[i] = f[i - 1] \o ss[i]
<1>1. 0 \in 0 .. n /\ \A i \in 1 .. n : i \in 0 .. n /\ i # 0
  OBVIOUS
<1>2. f[0] = << >>
  BY <1>1 DEF Joins
<1>3. ASSUME NEW i \in 1 .. n PROVE f[i] = f[i - 1] \o ss[i]
  BY <1>1 DEF Joins
<1> QED BY <1>2, <1>3

LEMMA JoinsExists ==
  ASSUME NEW n \in Nat, NEW ss
  PROVE  \E f : Joins(f, n, ss)
<1> DEFINE Reached == {k \in 0 .. n : \E f : Joins(f, k, ss)}
<1>1. 0 \in Reached
  <2> DEFINE f == [i \in 0 .. 0 |-> << >>]
  <2>1. \A i \in 0 .. 0 : i = 0
    OBVIOUS
  <2>2. Joins(f, 0, ss)
    BY <2>1, Zenon DEF Joins
  <2> QED BY <2>2
<1>2. ASSUME NEW k \in 1 .. n, k - 1 \in Reached PROVE k \in Reached
  <2>1. PICK f : Joins(f, k - 1, ss)
    BY <1>2
  <2>2. k # 0 /\ k \in Nat /\ k - 1 \in Nat /\ k - 1 \in 0 .. k /\ k - 1 # k
    OBVIOUS
  <2>6. f[0] = << >> /\ \A j \in 1 .. k - 1 : f[j] = f[j - 1] \o ss[j]
    <3>1. k - 1 \in Nat
      OBVIOUS
    <3> HIDE DEF Reached
    <3> QED BY <2>1, <3>1, JoinsValues
  <2> DEFINE g == [i \in 0 .. k |-> IF i = k THEN f[k - 1] \o ss[k] ELSE f[i]]
             h == [i \in 0 .. k |-> IF i = 0 THEN << >> ELSE g[i - 1] \o ss[i]]
  <2>3. ASSUME NEW i \in 0 .. k PROVE g[i] = h[i]
    <3>1. CASE i = k
      <4>1. h[i] = g[k - 1] \o ss[k]
        BY <2>2, <3>1
      <4>2. g[k - 1] = f[k - 1]
        BY <2>2
      <4>3. g[i] = f[k - 1] \o ss[k]
        BY <2>2, <3>1
      <4> QED BY <4>1, <4>2, <4>3
    <3>2. CASE i # k /\ i = 0
      <4>1. g[i] = f[0] /\ h[i] = << >>
        BY <3>2
      <4> QED BY <2>6, <4>1
    <3>3. CASE i # k /\ i # 0
      <4>1. i \in 1 .. k - 1 /\ i - 1 \in 0 .. k /\ i - 1 # k
        BY <2>2, <3>3
      <4>2. g[i] = f[i] /\ g[i - 1] = f[i - 1]
        BY <3>3, <4>1
      <4>3. h[i] = g[i - 1] \o ss[i]
        BY <3>3
      <4>4. f[i] = f[i - 1] \o ss[i]
        BY <2>6, <4>1, Zenon
      <4> HIDE DEF g, h
      <4> QED BY <4>2, <4>3, <4>4
    <3> QED BY <3>1, <3>2, <3>3
  <2>4. g = h
    BY <2>3
  <2>5. Joins(g, k, ss)
    BY <2>4 DEF Joins
  <2> QED BY <2>5
<1> HIDE DEF Reached
<1>3. 0 .. n \subseteq Reached
  BY <1>1, <1>2, UpTo
<1>4. n \in Reached
  BY <1>3
<1> QED BY <1>4 DEF Reached

(* Joined adds the records up: a typed account of it, for the proofs.      *)
AddsUp(f, S, ss) ==
  /\ f[0] = << >>
  /\ \A i \in 1 .. Len(ss) : f[i] = f[i - 1] \o ss[i]
  /\ \A i \in 0 .. Len(ss) : f[i] \in Seq(S)
  /\ Joined(ss) = f[Len(ss)]

LEMMA JoinedIs ==
  ASSUME NEW S, NEW ss \in Seq(Seq(S))
  PROVE  \E f : AddsUp(f, S, ss)
<1> DEFINE n == Len(ss)
           f == CHOOSE f : Joins(f, n, ss)
<1>1. n \in Nat
  BY LenProperties
<1>2. Joins(f, n, ss)
  BY <1>1, JoinsExists
<1>3. Joined(ss) = f[Len(ss)]
  BY DEF Joined, Joins
<1>4. \A i \in 1 .. n : ss[i] \in Seq(S)
  BY ElementOfSeq
<1> HIDE DEF f, n
<1>5. f[0] = << >> /\ \A i \in 1 .. n : f[i] = f[i - 1] \o ss[i]
  BY <1>1, <1>2, JoinsValues
<1> DEFINE Typed == {i \in 0 .. n : f[i] \in Seq(S)}
<1>6. 0 \in Typed
  <2>1. 0 \in 0 .. n
    BY <1>1
  <2>2. f[0] \in Seq(S)
    BY <1>5, EmptySeq
  <2> QED BY <2>1, <2>2
<1>7. ASSUME NEW i \in 1 .. n, i - 1 \in Typed PROVE i \in Typed
  <2>1. f[i - 1] \in Seq(S) /\ ss[i] \in Seq(S) /\ f[i] = f[i - 1] \o ss[i]
    BY <1>4, <1>5, <1>7
  <2>2. f[i] \in Seq(S)
    BY <2>1, ConcatProperties
  <2> QED BY <1>1, <2>2
<1> HIDE DEF Typed
<1>8. 0 .. n \subseteq Typed
  BY <1>1, <1>6, <1>7, UpTo
<1>9. \A i \in 0 .. n : f[i] \in Seq(S)
  BY <1>8 DEF Typed
<1>10. AddsUp(f, S, ss)
  BY <1>3, <1>5, <1>9 DEF n, AddsUp
<1> QED BY <1>10

LEMMA JoinedEmpty == Joined(<< >>) = << >>
<1>1. << >> \in Seq(Seq({})) /\ Len(<< >>) = 0
  BY EmptySeq
<1>2. PICK f : AddsUp(f, {}, << >>)
  BY <1>1, JoinedIs
<1> QED BY <1>1, <1>2 DEF AddsUp

LEMMA JoinedType ==
  ASSUME NEW S, NEW ss \in Seq(Seq(S))
  PROVE  Joined(ss) \in Seq(S)
<1>1. Len(ss) \in 0 .. Len(ss)
  BY LenProperties
<1>2. PICK f : AddsUp(f, S, ss)
  BY JoinedIs
<1> QED BY <1>1, <1>2 DEF AddsUp

LEMMA JoinedAppend ==
  ASSUME NEW S, NEW ss \in Seq(Seq(S)), NEW x \in Seq(S)
  PROVE  Joined(Append(ss, x)) = Joined(ss) \o x
<1> DEFINE n  == Len(ss)
           tt == Append(ss, x)
<1>1. /\ n \in Nat /\ tt \in Seq(Seq(S)) /\ Len(tt) = n + 1
      /\ \A i \in 1 .. n : tt[i] = ss[i]
      /\ tt[n + 1] = x
  BY AppendProperties, LenProperties
<1>2. PICK f : AddsUp(f, S, ss)
  BY JoinedIs
<1>3. PICK g : AddsUp(g, S, tt)
  BY <1>1, JoinedIs
<1>4. f[0] = << >> /\ Joined(ss) = f[n] /\ \A i \in 1 .. n : f[i] = f[i - 1] \o ss[i]
  BY <1>2 DEF AddsUp
<1> HIDE DEF tt, n
<1>5. g[0] = << >> /\ Joined(tt) = g[n + 1] /\ \A i \in 1 .. n + 1 : g[i] = g[i - 1] \o tt[i]
  BY <1>1, <1>3 DEF AddsUp
<1> DEFINE Same == {i \in 0 .. n : g[i] = f[i]}
<1>6. 0 \in Same
  BY <1>1, <1>4, <1>5
<1>7. ASSUME NEW i \in 1 .. n, i - 1 \in Same PROVE i \in Same
  <2>1. i \in 1 .. n + 1 /\ i \in 0 .. n
    BY <1>1
  <2>2. g[i] = g[i - 1] \o tt[i] /\ tt[i] = ss[i] /\ f[i] = f[i - 1] \o ss[i]
    BY <1>1, <1>4, <1>5, <2>1
  <2>3. g[i - 1] = f[i - 1]
    BY <1>7
  <2> QED BY <2>1, <2>2, <2>3
<1> HIDE DEF Same
<1>8. 0 .. n \subseteq Same
  BY <1>1, <1>6, <1>7, UpTo
<1>9. g[n] = f[n]
  BY <1>1, <1>8 DEF Same
<1>10. g[n + 1] = g[n] \o x
  <2>1. n + 1 \in 1 .. n + 1 /\ (n + 1) - 1 = n
    BY <1>1
  <2> QED BY <1>1, <1>5, <2>1
<1> QED BY <1>4, <1>5, <1>9, <1>10 DEF tt

LEMMA JoinedHead ==
  ASSUME NEW S, NEW ss \in Seq(Seq(S)), ss # << >>
  PROVE  Joined(ss) = Head(ss) \o Joined(Tail(ss))
<1>11. \A u, v, w \in Seq(S) : (u \o v) \o w = u \o (v \o w)
  BY ONLY ConcatAssociative
<1> DEFINE n  == Len(Tail(ss))
           h  == Head(ss)
           tt == Tail(ss)
<1>1. /\ n \in Nat /\ tt \in Seq(Seq(S)) /\ Len(ss) = n + 1 /\ h \in Seq(S)
      /\ \A i \in 1 .. n : tt[i] = ss[i + 1]
      /\ ss[1] = h
  BY HeadTailProperties, LenProperties
<1>2. PICK f : AddsUp(f, S, ss)
  BY JoinedIs
<1>3. PICK g : AddsUp(g, S, tt)
  BY <1>1, JoinedIs
<1>4. \A i \in 1 .. n : tt[i] \in Seq(S)
  BY <1>1, ElementOfSeq
<1>5. /\ g[0] = << >> /\ Joined(tt) = g[n]
      /\ \A i \in 1 .. n : g[i] = g[i - 1] \o tt[i]
      /\ \A i \in 0 .. n : g[i] \in Seq(S)
  BY <1>3 DEF AddsUp
<1> HIDE DEF tt, n, h
<1>6. /\ f[0] = << >> /\ Joined(ss) = f[n + 1]
      /\ \A i \in 1 .. n + 1 : f[i] = f[i - 1] \o ss[i]
  BY <1>1, <1>2 DEF AddsUp
<1> DEFINE Same == {i \in 0 .. n : f[i + 1] = h \o g[i]}
<1>7. 0 \in Same
  <2>1. 1 \in 1 .. n + 1 /\ 0 \in 0 .. n /\ 0 + 1 = 1 /\ 1 - 1 = 0
    BY <1>1
  <2>2. f[1] = << >> \o h
    BY <1>1, <1>6, <2>1
  <2>3. << >> \o h = h \o << >>
    BY <1>1, ConcatEmptySeq
  <2> QED BY <1>5, <2>1, <2>2, <2>3
<1>8. ASSUME NEW i \in 1 .. n, i - 1 \in Same PROVE i \in Same
  <2>1. /\ i + 1 \in 1 .. n + 1 /\ (i + 1) - 1 = i /\ (i - 1) + 1 = i
        /\ i \in 0 .. n /\ i - 1 \in 0 .. n
    BY <1>1
  <2>2. f[i + 1] = f[i] \o ss[i + 1]
    BY <1>6, <2>1
  <2>3. f[i] = h \o g[i - 1]
    BY <1>8, <2>1
  <2>4. g[i] = g[i - 1] \o tt[i] /\ tt[i] = ss[i + 1]
    BY <1>1, <1>5
  <2>5. (h \o g[i - 1]) \o tt[i] = h \o (g[i - 1] \o tt[i])
    <3>1. h \in Seq(S)
      BY <1>1
    <3>3. g[i - 1] \in Seq(S)
      BY <1>5, <2>1
    <3>4. tt[i] \in Seq(S)
      BY <1>4
    <3> HIDE DEF Same
    <3> QED BY <1>11, <3>1, <3>3, <3>4
  <2>6. f[i + 1] = h \o g[i]
    BY <2>2, <2>3, <2>4, <2>5
  <2> QED BY <2>1, <2>6
<1> HIDE DEF Same
<1>9. 0 .. n \subseteq Same
  BY <1>1, <1>7, <1>8, UpTo
<1>10. f[n + 1] = h \o g[n]
  BY <1>1, <1>9 DEF Same
<1> QED BY <1>6, <1>5, <1>10 DEF h, tt

(***************************************************************************)
(* The two ends of a concatenation                                         *)
(***************************************************************************)
LEMMA FrontOfConcat ==
  ASSUME NEW S, NEW s \in Seq(S), NEW t \in Seq(S)
  PROVE  Len(s) \in 0 .. Len(s \o t) /\ SubSeq(s \o t, 1, Len(s)) = s
<1>1. /\ Len(s) \in Nat /\ Len(t) \in Nat /\ s \o t \in Seq(S)
      /\ Len(s \o t) = Len(s) + Len(t)
      /\ \A i \in 1 .. Len(s) : (s \o t)[i] = s[i] /\ (s \o t)[i] \in S
  BY ConcatProperties, LenProperties, ElementOfSeq
<1>2. /\ SubSeq(s \o t, 1, Len(s)) \in Seq(S)
      /\ Len(SubSeq(s \o t, 1, Len(s))) = Len(s)
      /\ \A i \in 1 .. Len(s) : SubSeq(s \o t, 1, Len(s))[i] = s[i]
  BY <1>1, SubSeqProperties
<1>3. SubSeq(s \o t, 1, Len(s)) = s
  BY <1>2, SeqEqual
<1> QED BY <1>1, <1>3

LEMMA BackOfConcat ==
  ASSUME NEW S, NEW s \in Seq(S), NEW t \in Seq(S)
  PROVE  SubSeq(s \o t, Len(s) + 1, Len(s \o t)) = t
<1> DEFINE b == SubSeq(s \o t, Len(s) + 1, Len(s \o t))
<1>1. /\ Len(s) \in Nat /\ Len(t) \in Nat /\ s \o t \in Seq(S)
      /\ Len(s \o t) = Len(s) + Len(t)
      /\ \A i \in Len(s) + 1 .. Len(s) + Len(t) :
           (s \o t)[i] = t[i - Len(s)] /\ (s \o t)[i] \in S
  BY ConcatProperties, LenProperties, ElementOfSeq
<1>2. /\ b \in Seq(S) /\ Len(b) = Len(t)
      /\ \A i \in 1 .. Len(t) : b[i] = (s \o t)[Len(s) + i]
  BY <1>1, SubSeqProperties
<1> HIDE DEF b
<1>3. ASSUME NEW i \in 1 .. Len(t) PROVE b[i] = t[i]
  <2>1. Len(s) + i \in Len(s) + 1 .. Len(s) + Len(t) /\ (Len(s) + i) - Len(s) = i
    BY <1>1
  <2> QED BY <1>1, <1>2, <2>1
<1>4. b = t
  BY <1>2, <1>3, SeqEqual
<1> QED BY <1>4 DEF b

(* What heads a concatenation, and what is left when a nonempty run goes.  *)
LEMMA HeadOfConcat ==
  ASSUME NEW S, NEW s \in Seq(S), NEW t \in Seq(S), s # << >>
  PROVE  s \o t # << >> /\ Head(s \o t) = Head(s) /\ Len(s) \in 1 .. Len(s \o t)
<1>1. /\ Len(s) \in Nat \ {0} /\ Len(t) \in Nat /\ s \o t \in Seq(S)
      /\ Len(s \o t) = Len(s) + Len(t)
      /\ (s \o t)[1] = s[1]
  BY ConcatProperties, LenProperties, EmptySeq
<1>2. Len(s \o t) # 0
  BY <1>1
<1>3. s \o t # << >>
  BY <1>2, EmptySeq
<1>4. Len(s) \in 1 .. Len(s \o t)
  BY <1>1
<1> QED BY <1>1, <1>3, <1>4

LEMMA AppendToConcat ==
  ASSUME NEW S, NEW s \in Seq(S), NEW t \in Seq(S), NEW e \in S
  PROVE  s \o Append(t, e) = Append(s \o t, e)
<1>1. /\ <<e>> \in Seq(S) /\ s \o t \in Seq(S)
      /\ Append(t, e) = t \o <<e>> /\ Append(s \o t, e) = (s \o t) \o <<e>>
  BY ConcatProperties, AppendIsConcat
<1> QED BY <1>1, ConcatAssociative

(* Where the words of the i-th record are, when each record has three.     *)
ThreeEach(s, ss, n) ==
  /\ Len(s) = 3 * n
  /\ \A i \in 1 .. n : /\ s[3 * i - 2] = ss[i][1]
                       /\ s[3 * i - 1] = ss[i][2]
                       /\ s[3 * i] = ss[i][3]

LEMMA JoinedThrees ==
  ASSUME NEW S, NEW ss \in Seq(Seq(S)), \A i \in 1 .. Len(ss) : Len(ss[i]) = 3
  PROVE  ThreeEach(Joined(ss), ss, Len(ss))
<1> DEFINE n == Len(ss)
<1>1. n \in Nat /\ \A i \in 1 .. n : ss[i] \in Seq(S) /\ Len(ss[i]) = 3
  BY LenProperties, ElementOfSeq
<1>2. PICK f : AddsUp(f, S, ss)
  BY JoinedIs
<1> HIDE DEF n
<1>3. /\ f[0] = << >> /\ Joined(ss) = f[n]
      /\ \A i \in 1 .. n : f[i] = f[i - 1] \o ss[i]
      /\ \A i \in 0 .. n : f[i] \in Seq(S)
  BY <1>2 DEF AddsUp, n
<1> DEFINE Good == {i \in 0 .. n : ThreeEach(f[i], ss, i)}
<1>4. 0 \in Good
  <2>1. Len(f[0]) = 3 * 0 /\ 0 \in 0 .. n /\ 1 .. 0 = {}
    BY <1>1, <1>3, EmptySeq
  <2> QED BY <2>1 DEF ThreeEach
<1>5. ASSUME NEW i \in 1 .. n, i - 1 \in Good PROVE i \in Good
  <2>0. i \in Nat /\ i - 1 \in Nat /\ i - 1 \in 0 .. n
    BY <1>1
  <2>1. /\ f[i - 1] \in Seq(S) /\ ss[i] \in Seq(S) /\ Len(ss[i]) = 3
        /\ f[i] = f[i - 1] \o ss[i] /\ i \in Nat /\ i - 1 \in Nat
    BY <1>1, <1>3, <2>0
  <2>2. ThreeEach(f[i - 1], ss, i - 1)
    BY <1>5
  <2>3. Len(f[i - 1]) = 3 * (i - 1)
    BY <2>2 DEF ThreeEach
  <2>4. /\ Len(f[i]) = Len(f[i - 1]) + Len(ss[i])
        /\ \A m \in 1 .. Len(f[i - 1]) + Len(ss[i]) :
             f[i][m] = IF m <= Len(f[i - 1]) THEN f[i - 1][m] ELSE ss[i][m - Len(f[i - 1])]
    <3> DEFINE u == f[i - 1]
               w == ss[i]
    <3>1. u \in Seq(S) /\ w \in Seq(S) /\ f[i] = u \o w
      BY <2>1
    <3> HIDE DEF u, w
    <3>2. /\ Len(u \o w) = Len(u) + Len(w)
          /\ \A m \in 1 .. Len(u) + Len(w) :
               (u \o w)[m] = IF m <= Len(u) THEN u[m] ELSE w[m - Len(u)]
      BY <3>1, ConcatProperties
    <3>3. /\ Len(f[i]) = Len(u) + Len(w)
          /\ \A m \in 1 .. Len(u) + Len(w) : f[i][m] = IF m <= Len(u) THEN u[m] ELSE w[m - Len(u)]
      BY <3>1, <3>2
    <3> QED BY <3>3 DEF u, w
  <2>5. Len(f[i]) = 3 * i
    BY <2>1, <2>3, <2>4
  <2>6. \A m \in 1 .. 3 * (i - 1) : f[i][m] = f[i - 1][m]
    <3> TAKE m \in 1 .. 3 * (i - 1)
    <3>1. m \in 1 .. Len(f[i - 1]) + Len(ss[i]) /\ m <= Len(f[i - 1])
      BY <2>1, <2>3
    <3> QED BY <2>4, <3>1
  <2>7. \A j \in 1 .. 3 : f[i][3 * (i - 1) + j] = ss[i][j]
    <3> TAKE j \in 1 .. 3
    <3> DEFINE m == 3 * (i - 1) + j
    <3>1. m \in 1 .. Len(f[i - 1]) + Len(ss[i]) /\ ~(m <= Len(f[i - 1])) /\ m - Len(f[i - 1]) = j
      BY <2>1, <2>3
    <3> HIDE DEF m
    <3>2. f[i][m] = ss[i][m - Len(f[i - 1])]
      BY <2>4, <3>1
    <3> QED BY <3>1, <3>2 DEF m
  <2>8. ASSUME NEW m \in 1 .. i - 1
        PROVE  /\ f[i][3 * m - 2] = f[i - 1][3 * m - 2]
               /\ f[i][3 * m - 1] = f[i - 1][3 * m - 1]
               /\ f[i][3 * m] = f[i - 1][3 * m]
    <3>1. {3 * m - 2, 3 * m - 1, 3 * m} \subseteq 1 .. 3 * (i - 1)
      BY <2>1
    <3> QED BY <2>6, <3>1
  <2>9. f[i][3 * i - 2] = ss[i][1] /\ f[i][3 * i - 1] = ss[i][2] /\ f[i][3 * i] = ss[i][3]
    <3>1. 3 * (i - 1) + 1 = 3 * i - 2 /\ 3 * (i - 1) + 2 = 3 * i - 1 /\ 3 * (i - 1) + 3 = 3 * i
      BY <2>1
    <3>2. 1 \in 1 .. 3 /\ 2 \in 1 .. 3 /\ 3 \in 1 .. 3
      OBVIOUS
    <3> QED BY ONLY <2>7, <3>1, <3>2, Zenon
  <2>10. \A m \in 1 .. i : m = i \/ m \in 1 .. i - 1
    BY <2>1
  <2>11. \A m \in 1 .. i : /\ f[i][3 * m - 2] = ss[m][1]
                          /\ f[i][3 * m - 1] = ss[m][2]
                          /\ f[i][3 * m] = ss[m][3]
    BY <2>2, <2>8, <2>9, <2>10 DEF ThreeEach
  <2>12. i \in 0 .. n
    BY <1>1
  <2> QED BY <2>5, <2>11, <2>12 DEF ThreeEach
<1> HIDE DEF Good
<1>6. 0 .. n \subseteq Good
  BY <1>1, <1>4, <1>5, UpTo
<1>7. n \in Good
  BY <1>1, <1>6
<1>8. ThreeEach(f[n], ss, n)
  BY <1>7 DEF Good
<1> QED BY <1>3, <1>8 DEF n

(***************************************************************************)
(* The text of a serial number                                             *)
(***************************************************************************)
(* The states the loops of Encode() and Decode() go through.               *)
EncodeState == [buffer : Nat, bits : 0 .. 7, next : Nat \ {0}, out : Seq(Nat)]
DecodeState == [buffer : Nat, bits : 0 .. 7, out : Seq(Nat)]

LEMMA Shifts ==
  /\ Shift(0) = 1 /\ Shift(1) = 2 /\ Shift(2) = 4 /\ Shift(3) = 8
  /\ Shift(4) = 16 /\ Shift(5) = 32 /\ Shift(6) = 64 /\ Shift(7) = 128
BY DEF Shift

LEMMA ShiftType == ASSUME NEW n \in 0 .. 7 PROVE Shift(n) \in Nat \ {0}
<1> n \in {0, 1, 2, 3, 4, 5, 6, 7}
  OBVIOUS
<1> QED BY Shifts

(* What a number is made of, cut at some bit.                              *)
LEMMA Cut ==
  ASSUME NEW b \in Nat, NEW w \in Nat \ {0}
  PROVE  /\ b \div w \in Nat /\ b % w \in Nat /\ b % w < w
         /\ b = (b \div w) * w + (b % w)
OBVIOUS

(* A byte of a serial number, as a number.                                 *)
LEMMA ByteAt ==
  ASSUME NEW bytes \in Seq(Byte), NEW i \in 1 .. Len(bytes)
  PROVE  bytes[i] \in Nat /\ bytes[i] < 256
<1>1. bytes[i] \in Byte
  BY ElementOfSeq
<1>2. \A b \in Byte : b \in Nat /\ b < 256
  BY DEF Byte
<1> QED BY ONLY <1>1, <1>2

(* The loops stay in these states.                                         *)
LEMMA WroteType ==
  ASSUME NEW s \in EncodeState, NEW buffer \in Nat, NEW rest \in 0 .. 7, NEW next \in Nat \ {0}
  PROVE  Wrote(s, buffer, rest, next) \in EncodeState
<1>1. Shift(rest) \in Nat \ {0}
  BY ShiftType
<1>2. buffer % Shift(rest) \in Nat /\ buffer \div Shift(rest) \in Nat
  BY <1>1, Cut
<1>3. Append(s.out, buffer \div Shift(rest)) \in Seq(Nat)
  BY <1>2, AppendProperties DEF EncodeState
<1> QED BY <1>2, <1>3 DEF Wrote, EncodeState

LEMMA WriteCharType ==
  ASSUME NEW bytes \in Seq(Byte), NEW s \in EncodeState
  PROVE  WriteChar(bytes, s) \in EncodeState
<1>0. s.bits \in 0 .. 7 /\ s.next \in Nat \ {0} /\ s.buffer \in Nat
  BY DEF EncodeState
<1>4. Len(bytes) \in Nat
  BY LenProperties
<1>1. CASE s.bits >= 5
  <2>1. s.bits - 5 \in 0 .. 7
    BY <1>0, <1>1
  <2>2. WriteChar(bytes, s) = Wrote(s, s.buffer, s.bits - 5, s.next)
    BY <1>0, <1>1 DEF WriteChar
  <2> QED BY <1>0, <2>1, <2>2, WroteType
<1>2. CASE s.bits < 5 /\ s.next <= Len(bytes)
  <2>1. s.next \in 1 .. Len(bytes)
    BY <1>0, <1>2, <1>4
  <2>2. bytes[s.next] \in Nat
    BY <2>1, ByteAt
  <2> DEFINE buffer == s.buffer * 256 + bytes[s.next]
  <2>3. buffer \in Nat
    BY <1>0, <2>2
  <2>4. s.bits + 3 \in 0 .. 7 /\ s.next + 1 \in Nat \ {0}
    BY <1>0, <1>2
  <2>5. WriteChar(bytes, s) =
          Wrote(s, buffer, s.bits + 3, s.next + 1)
    BY <1>0, <1>2, <1>4 DEF WriteChar
  <2> HIDE DEF buffer
  <2> QED BY <2>3, <2>4, <2>5, WroteType
<1>3. CASE s.bits < 5 /\ s.next > Len(bytes)
  <2>1. Shift(5 - s.bits) \in Nat
    <3>1. 5 - s.bits \in 0 .. 7
      BY <1>0, <1>3
    <3> QED BY <3>1, ShiftType
  <2>2. s.buffer * Shift(5 - s.bits) \in Nat /\ 0 \in 0 .. 7
    BY <1>0, <2>1
  <2>3. WriteChar(bytes, s) = Wrote(s, s.buffer * Shift(5 - s.bits), 0, s.next)
    BY <1>0, <1>3, <1>4 DEF WriteChar
  <2> QED BY <1>0, <2>2, <2>3, WroteType
<1> QED BY <1>0, <1>1, <1>2, <1>3, <1>4

LEMMA ReadCharType ==
  ASSUME NEW r \in DecodeState, NEW ch \in Nat
  PROVE  ReadChar(r, ch) \in DecodeState
<1> DEFINE buffer == r.buffer * 32 + ch
<1>1. r.buffer \in Nat /\ r.bits \in 0 .. 7 /\ r.out \in Seq(Nat) /\ buffer \in Nat
  BY DEF DecodeState
<1>2. CASE r.bits < 3
  <2>1. r.bits + 5 \in 0 .. 7
    BY <1>1, <1>2
  <2>2. ReadChar(r, ch) = [buffer |-> buffer, bits |-> r.bits + 5, out |-> r.out]
    BY <1>2 DEF ReadChar
  <2> HIDE DEF buffer
  <2> QED BY <1>1, <2>1, <2>2 DEF DecodeState
<1>3. CASE r.bits >= 3
  <2>1. r.bits - 3 \in 0 .. 7
    BY <1>1, <1>3
  <2>2. Shift(r.bits - 3) \in Nat \ {0}
    BY <2>1, ShiftType
  <2>3. buffer % Shift(r.bits - 3) \in Nat /\ buffer \div Shift(r.bits - 3) \in Nat
    BY <1>1, <2>2, Cut
  <2>4. Append(r.out, buffer \div Shift(r.bits - 3)) \in Seq(Nat)
    BY <1>1, <2>3, AppendProperties
  <2>5. ReadChar(r, ch) = [buffer |-> buffer % Shift(r.bits - 3), bits |-> r.bits - 3,
                           out |-> Append(r.out, buffer \div Shift(r.bits - 3))]
    BY <1>1, <1>3 DEF ReadChar
  <2> QED BY <2>1, <2>3, <2>4, <2>5 DEF DecodeState
<1> QED BY <1>1, <1>2, <1>3

(* After k characters both have gone the same way: the decoder has the     *)
(* whole bytes, and the two buffers share the byte that is cut.            *)
SharesByte(bytes, s, r, m) ==
  /\ m \in 0 .. Len(bytes)
  /\ r.out = SubSeq(bytes, 1, m)
  /\ \/ /\ r.bits = 0 /\ r.buffer = 0
        /\ s.bits = 0 /\ s.buffer = 0 /\ s.next = m + 1
     \/ /\ r.bits \in 1 .. 7 /\ r.buffer < Shift(r.bits)
        /\ s.bits = 8 - r.bits /\ s.buffer < Shift(s.bits) /\ s.next = m + 2
        /\ m + 1 <= Len(bytes)
        /\ bytes[m + 1] = r.buffer * Shift(s.bits) + s.buffer
Aligned(bytes, s, r, k) ==
  \E m \in Nat : 5 * k = 8 * m + r.bits /\ SharesByte(bytes, s, r, m)

(* Division, by what it must come to.                                      *)
LEMMA Quotient ==
  ASSUME NEW w \in Nat \ {0}, NEW q \in Nat, NEW t \in 0 .. w - 1, NEW x \in Nat,
         x = q * w + t
  PROVE  x \div w = q /\ x % w = t
OBVIOUS

(* A character that ends within the byte: the cut moves by five bits.      *)
LEMMA CutInside ==
  ASSUME NEW d \in 0 .. 2, NEW db \in Nat, NEW eb \in Nat, eb < 32 * Shift(3 - d)
  PROVE  LET ch == eb \div Shift(3 - d)
             lo == eb % Shift(3 - d)
         IN  /\ ch \in Nat /\ ch < 32 /\ lo \in Nat /\ lo < Shift(3 - d)
             /\ db * (32 * Shift(3 - d)) + eb = (db * 32 + ch) * Shift(3 - d) + lo
<1>1. CASE d = 0
  <2>1. 3 - d = 3
    BY <1>1
  <2> QED BY <2>1, Shifts
<1>2. CASE d = 1
  <2>1. 3 - d = 2
    BY <1>2
  <2> QED BY <2>1, Shifts
<1>3. CASE d = 2
  <2>1. 3 - d = 1
    BY <1>3
  <2> QED BY <2>1, Shifts
<1> QED BY <1>1, <1>2, <1>3

(* A character of the end of one byte and the start of the next, b: A is   *)
(* the room left below the cut, B that above the next, C that below it.    *)
Spans(A, B, C) ==
  \/ A = 16 /\ B = 2 /\ C = 128
  \/ A = 8 /\ B = 4 /\ C = 64
  \/ A = 4 /\ B = 8 /\ C = 32
  \/ A = 2 /\ B = 16 /\ C = 16

Across(A, B, C, db, eb, b, full, ch, got) ==
  full = eb * 256 + b /\ ch = full \div C /\ got = db * 32 + ch =>
    /\ ch \in Nat /\ full % C \in Nat /\ full % C < C
    /\ got \div B = db * A + eb
    /\ got % B \in Nat /\ got % B < B
    /\ b = (got % B) * C + (full % C)

LEMMA CutAcross ==
  ASSUME NEW A, NEW B, NEW C, Spans(A, B, C),
         NEW db \in Nat, NEW eb \in Nat, NEW b \in Nat, eb < A, b < 256
  PROVE  \A full, ch, got : Across(A, B, C, db, eb, b, full, ch, got)
<1> SUFFICES ASSUME NEW full, full = eb * 256 + b, NEW ch, ch = full \div C,
                    NEW got, got = db * 32 + ch
             PROVE  /\ ch \in Nat /\ full % C \in Nat /\ full % C < C
                    /\ got \div B = db * A + eb
                    /\ got % B \in Nat /\ got % B < B
                    /\ b = (got % B) * C + (full % C)
  BY DEF Across
<1> USE DEF Spans
<1> DEFINE q == b \div C
           lo == b % C
           over == eb * B + q
           byte == db * A + eb
<1>1. q \in Nat /\ lo \in 0 .. C - 1 /\ q \in 0 .. B - 1 /\ b = q * C + lo
  OBVIOUS
<1>2. C \in Nat \ {0} /\ B \in Nat \ {0}
  OBVIOUS
<1> HIDE DEF q, lo
<1>3. full = over * C + lo /\ over \in Nat /\ full \in Nat
  BY <1>1
<1>4. ch = over /\ full % C = lo
  <2> HIDE DEF over
  <2>1. full \div C = over /\ full % C = lo
    BY ONLY <1>1, <1>2, <1>3, Quotient
  <2> QED BY <2>1
<1>5. got = byte * B + q /\ byte \in Nat /\ got \in Nat
  BY <1>1, <1>4
<1>6. got \div B = byte /\ got % B = q
  <2> HIDE DEF byte
  <2> QED BY ONLY <1>1, <1>2, <1>5, Quotient
<1>7. ch \in Nat
  BY <1>3, <1>4
<1> HIDE DEF over
<1>8. lo \in Nat /\ lo < C /\ q < B
  BY <1>1, <1>2
<1> QED BY <1>1, <1>4, <1>6, <1>7, <1>8

(* The places the cut can be at when a character goes across it.           *)
LEMMA ShiftsAcross ==
  ASSUME NEW d \in 4 .. 7
  PROVE  Spans(Shift(8 - d), Shift(d - 3), Shift(11 - d))
<1> USE DEF Spans
<1>1. d \in {4, 5, 6, 7}
  OBVIOUS
<1>2. CASE d = 4
  <2>1. 8 - d = 4 /\ 11 - d = 7 /\ d - 3 = 1
    BY <1>2
  <2> QED BY <2>1, Shifts
<1>3. CASE d = 5
  <2>1. 8 - d = 3 /\ 11 - d = 6 /\ d - 3 = 2
    BY <1>3
  <2> QED BY <2>1, Shifts
<1>4. CASE d = 6
  <2>1. 8 - d = 2 /\ 11 - d = 5 /\ d - 3 = 3
    BY <1>4
  <2> QED BY <2>1, Shifts
<1>5. CASE d = 7
  <2>1. 8 - d = 1 /\ 11 - d = 4 /\ d - 3 = 4
    BY <1>5
  <2> QED BY <2>1, Shifts
<1> QED BY <1>1, <1>2, <1>3, <1>4, <1>5
(* One character more: each turn of Encode() has a turn of Decode() that   *)
(* undoes it.                                                              *)
LEMMA TurnAligned ==
  ASSUME NEW bytes \in Seq(Byte), NEW s \in EncodeState, NEW r \in DecodeState, NEW k \in Nat,
         5 * (k + 1) <= 8 * Len(bytes), Aligned(bytes, s, r, k)
  PROVE  /\ s.bits > 0 \/ s.next <= Len(bytes)
         /\ \E ch \in Nat :
              /\ WriteChar(bytes, s).out = Append(s.out, ch)
              /\ Aligned(bytes, WriteChar(bytes, s), ReadChar(r, ch), k + 1)
<1>1. PICK m \in Nat : 5 * k = 8 * m + r.bits /\ SharesByte(bytes, s, r, m)
  BY DEF Aligned
<1> DEFINE d == r.bits
           eb == s.buffer
           db == r.buffer
           L == Len(bytes)
<1>2. L \in Nat /\ d \in 0 .. 7 /\ db \in Nat /\ eb \in Nat /\ m <= L
  BY <1>1, LenProperties DEF EncodeState, DecodeState, SharesByte
<1>3. r.out = SubSeq(bytes, 1, m)
  BY <1>1 DEF SharesByte
<1>4. d # 0 => /\ db < Shift(d) /\ s.bits = 8 - d /\ eb < Shift(8 - d) /\ s.next = m + 2
               /\ m + 1 <= L /\ bytes[m + 1] = db * Shift(8 - d) + eb
  BY <1>1 DEF SharesByte
<1>5. d = 0 => db = 0 /\ s.bits = 0 /\ eb = 0 /\ s.next = m + 1
  BY <1>1 DEF SharesByte
<1>11. 5 * k = 8 * m + d
  BY <1>1
<1> HIDE DEF d, eb, db, L
<1>12. 5 * k + 5 <= 8 * L
  BY DEF L
<1>13. 8 * m + d + 5 <= 8 * L
  BY <1>2, <1>11, <1>12
<1>6. d <= 3 => m + 1 <= L
  BY <1>2, <1>13
<1>7. d > 3 => m + 2 <= L
  BY <1>2, <1>13
<1>8. CASE d \in 0 .. 2
  <2> DEFINE full == IF d = 0 THEN bytes[m + 1] ELSE eb
             W == Shift(3 - d)
             ch == full \div W
             lo == full % W
  <2>1. full \in Nat /\ full < 32 * W /\ bytes[m + 1] = db * (32 * W) + full
    <3>1. CASE d = 0
      <4>1. bytes[m + 1] \in Nat /\ bytes[m + 1] < 256
        <5>1. m + 1 \in 1 .. L
          BY <1>2, <1>6, <3>1
        <5> QED BY <5>1, ByteAt DEF L
      <4>2. 3 - d = 3 /\ db = 0 /\ full = bytes[m + 1]
        BY <1>5, <3>1
      <4>3. 32 * W = 256
        BY <4>2, Shifts
      <4> HIDE DEF full, W
      <4> QED BY <4>1, <4>2, <4>3
    <3>2. CASE d = 1
      <4>1. 3 - d = 2 /\ 8 - d = 7 /\ d # 0 /\ full = eb
        BY <3>2
      <4>2. eb < 128 /\ bytes[m + 1] = db * 128 + eb
        BY <1>4, <4>1, Shifts
      <4>3. 32 * W = 128
        BY <4>1, Shifts
      <4> HIDE DEF full, W
      <4> QED BY <1>2, <4>1, <4>2, <4>3
    <3>3. CASE d = 2
      <4>1. 3 - d = 1 /\ 8 - d = 6 /\ d # 0 /\ full = eb
        BY <3>3
      <4>2. eb < 64 /\ bytes[m + 1] = db * 64 + eb
        BY <1>4, <4>1, Shifts
      <4>3. 32 * W = 64
        BY <4>1, Shifts
      <4> HIDE DEF full, W
      <4> QED BY <1>2, <4>1, <4>2, <4>3
    <3> QED BY <1>8, <3>1, <3>2, <3>3
  <2>2. /\ ch \in Nat /\ ch < 32 /\ lo \in Nat /\ lo < W
        /\ bytes[m + 1] = (db * 32 + ch) * W + lo
    <3>1. bytes[m + 1] = db * (32 * W) + full
      BY <2>1
    <3> HIDE DEF full
    <3> QED BY <1>2, <1>8, <2>1, <3>1, CutInside
  <2>3. WriteChar(bytes, s) = Wrote(s, full, 3 - d, m + 2)
    <3>1. CASE d = 0
      <4>1. s.bits < 5 /\ s.next <= Len(bytes) /\ s.bits + 3 = 3 - d /\ s.next + 1 = m + 2
            /\ ~(s.bits >= 5) /\ ~(s.next > Len(bytes))
        BY <1>2, <1>5, <1>6, <3>1 DEF L
      <4>2. WriteChar(bytes, s) =
              Wrote(s, s.buffer * 256 + bytes[s.next], s.bits + 3, s.next + 1)
        BY <4>1 DEF WriteChar
      <4>3. s.buffer * 256 + bytes[s.next] = full
        BY <1>5, <2>1, <3>1 DEF eb
      <4> HIDE DEF full
      <4> QED BY <4>1, <4>2, <4>3
    <3>2. CASE d # 0
      <4>1. /\ s.bits >= 5 /\ ~(s.bits < 5) /\ s.bits - 5 = 3 - d
            /\ s.next = m + 2 /\ full = s.buffer
        BY <1>4, <1>8, <3>2 DEF eb
      <4>2. WriteChar(bytes, s) = Wrote(s, s.buffer, s.bits - 5, s.next)
        BY <4>1 DEF WriteChar
      <4> HIDE DEF full
      <4> QED BY <4>1, <4>2
    <3> QED BY <3>1, <3>2
  <2>4. ReadChar(r, ch) = [buffer |-> db * 32 + ch, bits |-> d + 5, out |-> r.out]
    <3> HIDE DEF ch
    <3> QED BY <1>8 DEF ReadChar, d, db
  <2> DEFINE t == WriteChar(bytes, s)
             u == ReadChar(r, ch)
  <2>5. /\ t.buffer = lo /\ t.bits = 3 - d /\ t.next = m + 2 /\ t.out = Append(s.out, ch)
    BY <2>3 DEF Wrote
  <2>6. u.buffer = db * 32 + ch /\ u.bits = d + 5 /\ u.out = r.out
    BY <2>4
  <2>7. u.buffer < Shift(u.bits)
    <3>1. db * 32 + ch < 32 * (db + 1)
      BY <1>2, <2>2
    <3> HIDE DEF ch
    <3>2. CASE d = 0
      BY <1>5, <2>2, <2>6, <3>2, Shifts
    <3>3. CASE d = 1
      <4>1. Shift(d) = 2 /\ Shift(d + 5) = 64
        BY <3>3, Shifts
      <4> QED BY <1>2, <1>4, <2>2, <2>6, <3>3, <4>1
    <3>4. CASE d = 2
      <4>1. Shift(d) = 4 /\ Shift(d + 5) = 128
        BY <3>4, Shifts
      <4> QED BY <1>2, <1>4, <2>2, <2>6, <3>4, <4>1
    <3> QED BY <1>8, <3>2, <3>3, <3>4
  <2> HIDE DEF t, u, ch, lo, full
  <2>8. SharesByte(bytes, t, u, m)
    <3>1. m \in 0 .. Len(bytes) /\ m + 1 <= Len(bytes)
      BY <1>2, <1>6, <1>8 DEF L
    <3>2. u.bits \in 1 .. 7 /\ t.bits = 8 - u.bits
      BY <1>8, <2>5, <2>6
    <3>3. t.buffer < Shift(t.bits) /\ bytes[m + 1] = u.buffer * Shift(t.bits) + t.buffer
      BY <2>2, <2>5, <2>6
    <3> QED BY <1>3, <2>5, <2>6, <2>7, <3>1, <3>2, <3>3 DEF SharesByte
  <2>9. 5 * (k + 1) = 8 * m + u.bits
    BY <1>2, <1>11, <2>6
  <2>10. Aligned(bytes, t, u, k + 1)
    BY <2>8, <2>9 DEF Aligned
  <2>11. s.bits > 0 \/ s.next <= Len(bytes)
    BY <1>2, <1>4, <1>5, <1>6, <1>8 DEF L
  <2> QED BY <2>2, <2>5, <2>10, <2>11 DEF t, u
<1>9. CASE d = 3
  <2>1. s.bits = 5 /\ eb < 32 /\ s.next = m + 2 /\ bytes[m + 1] = db * 32 + eb /\ m + 1 <= L
    <3>1. 8 - d = 5 /\ d # 0
      BY <1>9
    <3> QED BY <1>4, <3>1, Shifts
  <2>2. WriteChar(bytes, s) = Wrote(s, eb, 0, m + 2)
    BY <2>1 DEF WriteChar, eb
  <2>3. eb % Shift(0) = 0 /\ eb \div Shift(0) = eb
    BY <1>2, Shifts
  <2>4. (db * 32 + eb) % Shift(0) = 0 /\ (db * 32 + eb) \div Shift(0) = db * 32 + eb
    BY <1>2, Shifts
  <2>5. ReadChar(r, eb) = [buffer |-> 0, bits |-> 0, out |-> Append(r.out, bytes[m + 1])]
    <3>1. ~(r.bits < 3) /\ r.bits - 3 = 0 /\ r.buffer * 32 + eb = db * 32 + eb
      BY <1>9 DEF d, db
    <3> QED BY <2>1, <2>4, <3>1 DEF ReadChar
  <2> DEFINE t == WriteChar(bytes, s)
             u == ReadChar(r, eb)
  <2>6. t.buffer = 0 /\ t.bits = 0 /\ t.next = (m + 1) + 1 /\ t.out = Append(s.out, eb)
    BY <2>2, <2>3 DEF Wrote
  <2>7. u.buffer = 0 /\ u.bits = 0 /\ u.out = SubSeq(bytes, 1, m + 1)
    BY <1>3, <2>1, <2>5, OneMore DEF L
  <2> HIDE DEF t, u
  <2>8. SharesByte(bytes, t, u, m + 1)
    <3>1. m + 1 \in 0 .. Len(bytes)
      BY <1>2, <2>1 DEF L
    <3> QED BY <2>6, <2>7, <3>1 DEF SharesByte
  <2>9. 5 * (k + 1) = 8 * (m + 1) + u.bits
    BY <1>1, <1>9, <2>7 DEF d
  <2>10. Aligned(bytes, t, u, k + 1)
    BY <2>8, <2>9 DEF Aligned
  <2> QED BY <1>2, <2>1, <2>6, <2>10 DEF t, u
<1>10. CASE d \in 4 .. 7
  <2> DEFINE b == bytes[m + 2]
             full == eb * 256 + b
             ch == full \div Shift(11 - d)
             lo == full % Shift(11 - d)
             got == db * 32 + ch
             hi == got % Shift(d - 3)
  <2>1. b \in Nat /\ b < 256
    <3>1. m + 2 \in 1 .. L
      BY <1>2, <1>7, <1>10
    <3> QED BY <3>1, ByteAt DEF L
  <2>2. /\ s.bits = 8 - d /\ eb < Shift(8 - d) /\ s.next = m + 2 /\ m + 1 <= L
        /\ bytes[m + 1] = db * Shift(8 - d) + eb
    BY <1>4, <1>10
  <2> HIDE DEF b
  <2>3. /\ ch \in Nat /\ lo \in Nat /\ lo < Shift(11 - d)
        /\ got \div Shift(d - 3) = bytes[m + 1]
        /\ hi \in Nat /\ hi < Shift(d - 3)
        /\ b = hi * Shift(11 - d) + lo
    <3>1. /\ ch \in Nat /\ lo \in Nat /\ lo < Shift(11 - d)
          /\ got \div Shift(d - 3) = db * Shift(8 - d) + eb
          /\ hi \in Nat /\ hi < Shift(d - 3)
          /\ b = hi * Shift(11 - d) + lo
      <4> DEFINE A == Shift(8 - d)
                 B == Shift(d - 3)
                 C == Shift(11 - d)
      <4>1. Spans(A, B, C)
        BY <1>10, ShiftsAcross, Zenon
      <4>2. full = eb * 256 + b /\ ch = full \div C /\ got = db * 32 + ch
        OBVIOUS
      <4>3. lo = full % C /\ hi = got % B /\ eb < A
        BY <2>2
      <4> HIDE DEF A, B, C, full, ch, got, lo, hi
      <4>4. /\ ch \in Nat /\ full % C \in Nat /\ full % C < C
            /\ got \div B = db * A + eb
            /\ got % B \in Nat /\ got % B < B
            /\ b = (got % B) * C + (full % C)
        <5>1. \A x, y, z : Across(A, B, C, db, eb, b, x, y, z)
          BY ONLY <1>2, <2>1, <4>1, <4>3, CutAcross, Zenon
        <5>2. Across(A, B, C, db, eb, b, full, ch, got)
          BY ONLY <5>1
        <5> QED BY ONLY <5>2, <4>2 DEF Across
      <4> QED BY ONLY <4>3, <4>4 DEF A, B, C
    <3> HIDE DEF ch, lo, got, hi
    <3> QED BY <2>2, <3>1
  <2>4. WriteChar(bytes, s) = Wrote(s, full, 11 - d, m + 3)
    <3>1. /\ s.bits < 5 /\ s.next <= Len(bytes) /\ s.bits + 3 = 11 - d /\ s.next + 1 = m + 3
          /\ ~(s.bits >= 5) /\ ~(s.next > Len(bytes))
      BY <1>2, <1>7, <1>10, <2>2 DEF L
    <3>2. WriteChar(bytes, s) = Wrote(s, s.buffer * 256 + bytes[s.next], s.bits + 3, s.next + 1)
      BY <3>1 DEF WriteChar
    <3>3. s.buffer * 256 + bytes[s.next] = full
      BY <2>2 DEF eb, b
    <3> HIDE DEF full
    <3> QED BY <3>1, <3>2, <3>3
  <2> HIDE DEF full
  <2>5. ReadChar(r, ch) = [buffer |-> hi, bits |-> d - 3, out |-> Append(r.out, bytes[m + 1])]
    <3> HIDE DEF ch
    <3>1. ~(r.bits < 3) /\ r.bits - 3 = d - 3 /\ r.buffer * 32 + ch = got
      BY <1>10 DEF d, db
    <3> HIDE DEF got
    <3> QED BY <2>3, <3>1 DEF ReadChar
  <2> DEFINE t == WriteChar(bytes, s)
             u == ReadChar(r, ch)
  <2>6. t.buffer = lo /\ t.bits = 11 - d /\ t.next = (m + 1) + 2 /\ t.out = Append(s.out, ch)
    BY <2>4 DEF Wrote
  <2>7. u.buffer = hi /\ u.bits = d - 3 /\ u.out = SubSeq(bytes, 1, m + 1)
    <3>1. u.buffer = hi /\ u.bits = d - 3 /\ u.out = Append(SubSeq(bytes, 1, m), bytes[m + 1])
      <4> HIDE DEF hi, ch
      <4> QED BY <1>3, <2>5
    <3>2. SubSeq(bytes, 1, m + 1) = Append(SubSeq(bytes, 1, m), bytes[m + 1])
      BY <2>2, OneMore DEF L
    <3> HIDE DEF u, hi, ch
    <3> QED BY <3>1, <3>2
  <2> HIDE DEF t, u, ch, lo, got, hi
  <2>8. SharesByte(bytes, t, u, m + 1)
    <3>1. m + 1 \in 0 .. Len(bytes) /\ (m + 1) + 1 <= Len(bytes)
      BY <1>2, <1>7, <1>10, <2>2 DEF L
    <3>2. u.bits \in 1 .. 7 /\ t.bits = 8 - u.bits
      BY <1>10, <2>6, <2>7
    <3>3. t.buffer < Shift(t.bits) /\ u.buffer < Shift(u.bits)
          /\ bytes[(m + 1) + 1] = u.buffer * Shift(t.bits) + t.buffer
      <4>1. (m + 1) + 1 = m + 2
        OBVIOUS
      <4> QED BY <2>3, <2>6, <2>7, <4>1 DEF b
    <3> QED BY <2>6, <2>7, <3>1, <3>2, <3>3 DEF SharesByte
  <2>9. 5 * (k + 1) = 8 * (m + 1) + u.bits
    BY <1>2, <1>11, <2>7
  <2>10. Aligned(bytes, t, u, k + 1)
    BY <2>8, <2>9 DEF Aligned
  <2>11. s.bits > 0
    BY <1>10, <2>2
  <2> QED BY <2>3, <2>6, <2>10, <2>11 DEF t, u
<1> QED BY <1>2, <1>8, <1>9, <1>10
EncodeStart == [buffer |-> 0, bits |-> 0, next |-> 1, out |-> << >>]
DecodeStart == [buffer |-> 0, bits |-> 0, out |-> << >>]

Encodes(f, bytes, room) ==
  f = [n \in 0 .. room |-> IF n = 0 THEN [buffer |-> 0, bits |-> 0, next |-> 1, out |-> << >>]
                                    ELSE EncodeTurn(bytes, f[n - 1])]
Decodes(g, chars) ==
  g = [n \in 0 .. Len(chars) |-> IF n = 0 THEN [buffer |-> 0, bits |-> 0, out |-> << >>]
                                          ELSE ReadChar(g[n - 1], chars[n])]


(* A typed account of the two.                                             *)
Encoded(f, bytes, room) ==
  /\ f[0] = EncodeStart
  /\ \A k \in 1 .. room : f[k] = EncodeTurn(bytes, f[k - 1])
  /\ Encode(bytes, room) = f[room].out
Decoded(g, chars) ==
  /\ g[0] = DecodeStart
  /\ \A k \in 1 .. Len(chars) : g[k] = ReadChar(g[k - 1], chars[k])
  /\ Decode(chars) = g[Len(chars)].out

(* Their functions exist, and so compute what their definitions say.       *)
LEMMA CoderStarts == EncodeStart \in EncodeState /\ DecodeStart \in DecodeState
BY DEF EncodeStart, DecodeStart, EncodeState, DecodeState

LEMMA EncodeIs ==
  ASSUME NEW bytes \in Seq(Byte), NEW room \in Nat
  PROVE  \E f : Encoded(f, bytes, room)
<1> DEFINE step == [i \in 1 .. room |-> [s \in EncodeState |-> EncodeTurn(bytes, s)]]
           f == CHOOSE f : Encodes(f, bytes, room)
<1>1. \A s \in EncodeState : EncodeTurn(bytes, s) \in EncodeState
  BY WriteCharType DEF EncodeTurn
<1>2. \A i \in 1 .. room, s \in EncodeState : step[i][s] = EncodeTurn(bytes, s)
  OBVIOUS
<1>3. \A i \in 1 .. room, s \in EncodeState : step[i][s] \in EncodeState
  BY <1>1, <1>2
<1> HIDE DEF step
<1>4. PICK e : Iterates(e, room, EncodeStart, step) /\ \A i \in 0 .. room : e[i] \in EncodeState
  BY <1>3, CoderStarts, Iteration
<1>5. Encodes(e, bytes, room)
  <2> DEFINE d == [n \in 0 .. room |->
                     IF n = 0 THEN EncodeStart ELSE EncodeTurn(bytes, e[n - 1])]
  <2>1. e = [n \in 0 .. room |-> IF n = 0 THEN EncodeStart ELSE step[n][e[n - 1]]]
    BY <1>4 DEF Iterates
  <2>2. ASSUME NEW n \in 0 .. room, n # 0 PROVE step[n][e[n - 1]] = EncodeTurn(bytes, e[n - 1])
    <3>1. n \in 1 .. room /\ n - 1 \in 0 .. room
      BY <2>2
    <3> QED BY <1>2, <1>4, <3>1
  <2>3. e = d
    BY <2>1, <2>2, Zenon
  <2> QED BY <2>3 DEF Encodes, EncodeStart
<1>6. Encodes(f, bytes, room)
  BY <1>5
<1>7. Encode(bytes, room) = f[room].out
  BY DEF Encode, Encodes
<1> HIDE DEF f
<1>8. 0 \in 0 .. room /\ \A k \in 1 .. room : k \in 0 .. room /\ k # 0
  OBVIOUS
<1>9. f[0] = EncodeStart
  BY <1>6, <1>8 DEF Encodes, EncodeStart
<1>10. ASSUME NEW k \in 1 .. room PROVE f[k] = EncodeTurn(bytes, f[k - 1])
  BY <1>6, <1>8 DEF Encodes
<1>11. Encoded(f, bytes, room)
  BY <1>7, <1>9, <1>10 DEF Encoded
<1> QED BY <1>11

LEMMA DecodeIs ==
  ASSUME NEW chars \in Seq(Nat)
  PROVE  \E g : Decoded(g, chars)
<1> DEFINE n == Len(chars)
           step == [i \in 1 .. n |-> [r \in DecodeState |-> ReadChar(r, chars[i])]]
           g == CHOOSE g : Decodes(g, chars)
<1>0. n \in Nat /\ \A i \in 1 .. n : chars[i] \in Nat
  BY LenProperties, ElementOfSeq
<1>1. \A i \in 1 .. n, r \in DecodeState : ReadChar(r, chars[i]) \in DecodeState
  BY <1>0, ReadCharType
<1>2. \A i \in 1 .. n, r \in DecodeState : step[i][r] = ReadChar(r, chars[i])
  OBVIOUS
<1>3. \A i \in 1 .. n, r \in DecodeState : step[i][r] \in DecodeState
  BY <1>1, <1>2
<1> HIDE DEF step, n
<1>4. PICK e : Iterates(e, n, DecodeStart, step) /\ \A i \in 0 .. n : e[i] \in DecodeState
  BY <1>0, <1>3, CoderStarts, Iteration
<1>5. Decodes(e, chars)
  <2> DEFINE d == [i \in 0 .. n |-> IF i = 0 THEN DecodeStart ELSE ReadChar(e[i - 1], chars[i])]
  <2>1. e = [i \in 0 .. n |-> IF i = 0 THEN DecodeStart ELSE step[i][e[i - 1]]]
    BY <1>4 DEF Iterates
  <2>2. ASSUME NEW i \in 0 .. n, i # 0 PROVE step[i][e[i - 1]] = ReadChar(e[i - 1], chars[i])
    <3>1. i \in 1 .. n /\ i - 1 \in 0 .. n
      BY <1>0, <2>2
    <3> QED BY <1>2, <1>4, <3>1
  <2>3. e = d
    BY <2>1, <2>2, Zenon
  <2> QED BY <2>3 DEF Decodes, DecodeStart, n
<1>6. Decodes(g, chars)
  BY <1>5
<1>7. Decode(chars) = g[Len(chars)].out
  BY DEF Decode, Decodes
<1> HIDE DEF g
<1>8. 0 \in 0 .. n /\ \A k \in 1 .. n : k \in 0 .. n /\ k # 0
  BY <1>0
<1>9. g[0] = DecodeStart
  BY <1>6, <1>8 DEF Decodes, DecodeStart, n
<1>10. ASSUME NEW k \in 1 .. n PROVE g[k] = ReadChar(g[k - 1], chars[k])
  BY <1>6, <1>8 DEF Decodes, n
<1>11. Decoded(g, chars)
  BY <1>7, <1>9, <1>10 DEF Decoded, n
<1> QED BY <1>11

(* How far Encode() is after k characters: what it took is what it wrote   *)
(* and what it holds.                                                      *)
EncodedSoFar(f, bytes, k) ==
  /\ f[k] \in EncodeState /\ Len(f[k].out) = k
  /\ f[k].next - 1 <= Len(bytes) /\ f[k].bits = 8 * (f[k].next - 1) - 5 * k
  /\ \A i \in 1 .. k : f[k].out[i] = f[i].out[i]

LEMMA WriteCharAppends ==
  ASSUME NEW bytes \in Seq(Byte), NEW s \in EncodeState, NEW k \in Nat,
         5 * (k + 1) <= 8 * Len(bytes), s.next - 1 <= Len(bytes),
         s.bits = 8 * (s.next - 1) - 5 * k
  PROVE  /\ s.bits > 0 \/ s.next <= Len(bytes)
         /\ WriteChar(bytes, s).next - 1 <= Len(bytes)
         /\ WriteChar(bytes, s).bits = 8 * (WriteChar(bytes, s).next - 1) - 5 * (k + 1)
         /\ \E ch : WriteChar(bytes, s).out = Append(s.out, ch)
<1>1. Len(bytes) \in Nat /\ s.bits \in 0 .. 7 /\ s.next \in Nat \ {0}
  BY LenProperties DEF EncodeState
<1>2. CASE s.bits >= 5
  <2>1. WriteChar(bytes, s) = Wrote(s, s.buffer, s.bits - 5, s.next)
    BY <1>1, <1>2 DEF WriteChar
  <2>2. /\ WriteChar(bytes, s).next = s.next /\ WriteChar(bytes, s).bits = s.bits - 5
        /\ WriteChar(bytes, s).out = Append(s.out, s.buffer \div Shift(s.bits - 5))
    BY <2>1 DEF Wrote
  <2>3. s.bits - 5 = 8 * (s.next - 1) - 5 * (k + 1) /\ s.bits > 0
    BY <1>1, <1>2
  <2> QED BY <1>1, <2>2, <2>3
<1>3. CASE s.bits < 5
  <2>1. s.next <= Len(bytes)
    BY <1>1, <1>3
  <2> DEFINE full == s.buffer * 256 + bytes[s.next]
  <2>2. WriteChar(bytes, s) = Wrote(s, full, s.bits + 3, s.next + 1)
    BY <1>1, <1>3, <2>1 DEF WriteChar
  <2> HIDE DEF full
  <2>3. /\ WriteChar(bytes, s).next = s.next + 1 /\ WriteChar(bytes, s).bits = s.bits + 3
        /\ WriteChar(bytes, s).out = Append(s.out, full \div Shift(s.bits + 3))
    BY <2>2 DEF Wrote
  <2>4. s.bits + 3 = 8 * ((s.next + 1) - 1) - 5 * (k + 1)
    BY <1>1, <1>3
  <2> QED BY <1>1, <2>1, <2>3, <2>4
<1>4. s.bits >= 5 \/ s.bits < 5
  BY <1>1
<1> QED BY ONLY <1>2, <1>3, <1>4

(* There is a byte left for each character, so nothing is padded, and what *)
(* was written stays.                                                      *)
LEMMA EncodeRuns ==
  ASSUME NEW bytes \in Seq(Byte), NEW f, Encoded(f, bytes, Len(bytes))
  PROVE  \A k \in 0 .. Len(bytes) : EncodedSoFar(f, bytes, k)
<1> DEFINE n == Len(bytes)
           Good == {k \in 0 .. n : EncodedSoFar(f, bytes, k)}
<1>1. n \in Nat
  BY LenProperties
<1>2. f[0] = EncodeStart /\ \A k \in 1 .. n : f[k] = EncodeTurn(bytes, f[k - 1])
  BY DEF Encoded
<1>3. 0 \in Good
  <2>1. EncodedSoFar(f, bytes, 0)
    BY <1>1, <1>2, CoderStarts DEF EncodeStart, EncodedSoFar
  <2> QED BY <1>1, <2>1
<1>4. ASSUME NEW k \in 1 .. n, k - 1 \in Good PROVE k \in Good
  <2> DEFINE s == f[k - 1]
  <2>1. EncodedSoFar(f, bytes, k - 1)
    BY <1>4
  <2>2. /\ s \in EncodeState /\ Len(s.out) = k - 1
        /\ s.next - 1 <= Len(bytes) /\ s.bits = 8 * (s.next - 1) - 5 * (k - 1)
        /\ \A i \in 1 .. k - 1 : s.out[i] = f[i].out[i]
    BY <2>1 DEF EncodedSoFar
  <2> HIDE DEF s
  <2>3. k - 1 \in Nat /\ 5 * ((k - 1) + 1) <= 8 * Len(bytes) /\ (k - 1) + 1 = k
    BY <1>1
  <2>4. /\ s.bits > 0 \/ s.next <= Len(bytes)
        /\ WriteChar(bytes, s).next - 1 <= Len(bytes)
        /\ WriteChar(bytes, s).bits = 8 * (WriteChar(bytes, s).next - 1) - 5 * ((k - 1) + 1)
        /\ \E ch : WriteChar(bytes, s).out = Append(s.out, ch)
    BY <2>2, <2>3, WriteCharAppends
  <2>5. f[k] = WriteChar(bytes, s)
    BY <1>2, <2>4 DEF EncodeTurn, s
  <2>6. f[k] \in EncodeState
    BY <2>2, <2>5, WriteCharType
  <2>7. PICK ch : f[k].out = Append(s.out, ch)
    BY <2>4, <2>5
  <2>8. /\ Len(f[k].out) = k
        /\ \A i \in 1 .. k - 1 : f[k].out[i] = s.out[i]
    <3>1. s.out \in Seq(Nat)
      BY <2>2 DEF EncodeState
    <3>2. s.out \in Seq(Nat \cup {ch}) /\ ch \in Nat \cup {ch}
      BY <3>1
    <3>3. /\ Len(Append(s.out, ch)) = Len(s.out) + 1
          /\ \A i \in 1 .. Len(s.out) : Append(s.out, ch)[i] = s.out[i]
      BY <3>2, AppendProperties
    <3> QED BY <1>1, <2>2, <2>7, <3>3
  <2>9. \A i \in 1 .. k : f[k].out[i] = f[i].out[i]
    <3> TAKE i \in 1 .. k
    <3>1. i = k \/ i \in 1 .. k - 1
      OBVIOUS
    <3> QED BY <2>2, <2>8, <3>1
  <2>10. EncodedSoFar(f, bytes, k)
    BY <2>3, <2>4, <2>5, <2>6, <2>8, <2>9 DEF EncodedSoFar
  <2> QED BY <1>1, <2>10
<1> HIDE DEF Good
<1>5. 0 .. n \subseteq Good
  BY <1>1, <1>3, <1>4, UpTo
<1> QED BY <1>5 DEF Good

(* Decode() finds every whole byte in the text Encode() gives a buffer of  *)
(* as many characters as there are bytes, and in the same place.           *)
LEMMA DecodesEncoded ==
  ASSUME NEW bytes \in Seq(Byte)
  PROVE  Decode(Encode(bytes, Len(bytes))) = SubSeq(bytes, 1, (5 * Len(bytes)) \div 8)
<1> DEFINE n == Len(bytes)
           chars == Encode(bytes, n)
<1>1. n \in Nat
  BY LenProperties
<1>2. PICK f : Encoded(f, bytes, n)
  BY <1>1, EncodeIs
<1>3. \A k \in 0 .. n : EncodedSoFar(f, bytes, k)
  BY <1>2, EncodeRuns
<1>4. chars = f[n].out
  BY <1>2 DEF Encoded
<1>5. n \in 0 .. n
  BY <1>1
<1>6. chars \in Seq(Nat) /\ Len(chars) = n /\ \A i \in 1 .. n : chars[i] = f[i].out[i]
  BY <1>3, <1>4, <1>5 DEF EncodedSoFar, EncodeState
<1> HIDE DEF chars
<1>7. PICK g : Decoded(g, chars)
  BY <1>6, DecodeIs
<1>8. /\ g[0] = DecodeStart
      /\ \A k \in 1 .. n : g[k] = ReadChar(g[k - 1], chars[k])
      /\ Decode(chars) = g[n].out
  BY <1>6, <1>7 DEF Decoded
<1>9. f[0] = EncodeStart /\ \A k \in 1 .. n : f[k] = EncodeTurn(bytes, f[k - 1])
  BY <1>2 DEF Encoded
<1> DEFINE Good == {k \in 0 .. n : g[k] \in DecodeState /\ Aligned(bytes, f[k], g[k], k)}
<1>10. 0 \in Good
  <2>1. SharesByte(bytes, EncodeStart, DecodeStart, 0)
    <3>1. SubSeq(bytes, 1, 0) = << >>
      BY EmptySeq
    <3> QED BY <1>1, <3>1 DEF SharesByte, EncodeStart, DecodeStart
  <2>2. Aligned(bytes, EncodeStart, DecodeStart, 0)
    <3>1. 5 * 0 = 8 * 0 + DecodeStart.bits /\ 0 \in Nat
      BY DEF DecodeStart
    <3> QED BY <2>1, <3>1 DEF Aligned
  <2> QED BY <1>1, <1>8, <1>9, <2>2, CoderStarts
<1>11. ASSUME NEW k \in 1 .. n, k - 1 \in Good PROVE k \in Good
  <2> DEFINE s == f[k - 1]
             r == g[k - 1]
  <2>1. r \in DecodeState /\ Aligned(bytes, s, r, k - 1)
    BY <1>11
  <2>2. s \in EncodeState
    <3>1. k - 1 \in 0 .. n
      BY <1>1
    <3> QED BY <1>3, <3>1 DEF EncodedSoFar
  <2>3. k - 1 \in Nat /\ 5 * ((k - 1) + 1) <= 8 * Len(bytes) /\ (k - 1) + 1 = k /\ k \in 0 .. n
    BY <1>1
  <2>4. f[k] = EncodeTurn(bytes, s) /\ g[k] = ReadChar(r, chars[k]) /\ chars[k] = f[k].out[k]
    BY <1>6, <1>8, <1>9
  <2>5. Len(s.out) = k - 1
    <3>1. k - 1 \in 0 .. n
      BY <1>1
    <3> QED BY <1>3, <3>1 DEF EncodedSoFar
  <2> HIDE DEF s, r
  <2>6. /\ s.bits > 0 \/ s.next <= Len(bytes)
        /\ \E ch \in Nat :
             /\ WriteChar(bytes, s).out = Append(s.out, ch)
             /\ Aligned(bytes, WriteChar(bytes, s), ReadChar(r, ch), (k - 1) + 1)
    BY <2>1, <2>2, <2>3, TurnAligned
  <2>7. f[k] = WriteChar(bytes, s)
    BY <2>4, <2>6 DEF EncodeTurn
  <2>8. PICK ch \in Nat : /\ f[k].out = Append(s.out, ch)
                          /\ Aligned(bytes, f[k], ReadChar(r, ch), k)
    BY <2>3, <2>6, <2>7
  <2>9. chars[k] = ch
    <3>1. s.out \in Seq(Nat)
      BY <2>2 DEF EncodeState
    <3>2. Append(s.out, ch)[Len(s.out) + 1] = ch
      BY <3>1, AppendProperties
    <3> QED BY <2>3, <2>4, <2>5, <2>8, <3>2
  <2>10. g[k] \in DecodeState /\ Aligned(bytes, f[k], g[k], k)
    BY <2>1, <2>4, <2>8, <2>9, ReadCharType
  <2> QED BY <2>3, <2>10
<1> HIDE DEF Good
<1>12. 0 .. n \subseteq Good
  BY <1>1, <1>10, <1>11, UpTo
<1>13. g[n] \in DecodeState /\ Aligned(bytes, f[n], g[n], n)
  BY <1>5, <1>12 DEF Good
<1>14. PICK m \in Nat : 5 * n = 8 * m + g[n].bits /\ SharesByte(bytes, f[n], g[n], m)
  BY <1>13 DEF Aligned
<1>15. m = (5 * n) \div 8
  <2> DEFINE x == 5 * n
             t == g[n].bits
  <2>1. t \in 0 .. 8 - 1 /\ x \in Nat /\ x = m * 8 + t /\ 8 \in Nat \ {0}
    BY <1>1, <1>13, <1>14 DEF DecodeState
  <2> HIDE DEF x, t
  <2>2. x \div 8 = m
    BY <2>1, Quotient
  <2> QED BY <2>2 DEF x
<1>16. Decode(chars) = SubSeq(bytes, 1, m)
  BY <1>8, <1>14 DEF SharesByte
<1> QED BY <1>15, <1>16 DEF chars

(***************************************************************************)
(* The order of a feed                                                     *)
(***************************************************************************)
(* s was handled, t is on its way, and n was published last: all of them   *)
(* in the order they were published.                                       *)
FeedOrder(s, t, n) ==
  /\ n \in Nat /\ s \in Seq(1 .. n) /\ t \in Seq(1 .. n)
  /\ \A i, j \in 1 .. Len(s) : i < j => s[i] < s[j]
  /\ \A i, j \in 1 .. Len(t) : i < j => t[i] < t[j]
  /\ \A i \in 1 .. Len(s), j \in 1 .. Len(t) : s[i] < t[j]

LEMMA OrderLater ==
  ASSUME NEW s, NEW t, NEW n, FeedOrder(s, t, n)
  PROVE  FeedOrder(s, t, n + 1)
<1>1. n \in Nat /\ 1 .. n \subseteq 1 .. n + 1
  BY DEF FeedOrder
<1>2. s \in Seq(1 .. n + 1) /\ t \in Seq(1 .. n + 1)
  BY <1>1, SeqMonotonic DEF FeedOrder
<1> QED BY <1>1, <1>2 DEF FeedOrder

LEMMA OrderPublish ==
  ASSUME NEW s, NEW t, NEW n, FeedOrder(s, t, n)
  PROVE  FeedOrder(s, Append(t, n + 1), n + 1)
<1> DEFINE u == Append(t, n + 1)
<1>1. FeedOrder(s, t, n + 1) /\ n \in Nat /\ n + 1 \in 1 .. n + 1
  BY OrderLater DEF FeedOrder
<1>2. /\ u \in Seq(1 .. n + 1) /\ Len(u) = Len(t) + 1 /\ Len(t) \in Nat
      /\ \A i \in 1 .. Len(t) : u[i] = t[i]
      /\ u[Len(t) + 1] = n + 1
  BY <1>1, AppendProperties, LenProperties DEF FeedOrder
<1>3. \A i \in 1 .. Len(s) : s[i] \in 1 .. n
  BY ElementOfSeq DEF FeedOrder
<1>4. \A i \in 1 .. Len(t) : t[i] \in 1 .. n
  BY ElementOfSeq DEF FeedOrder
<1> HIDE DEF u
<1>5. ASSUME NEW i \in 1 .. Len(u), NEW j \in 1 .. Len(u), i < j PROVE u[i] < u[j]
  <2>1. i \in 1 .. Len(t) /\ u[i] = t[i] /\ t[i] \in 1 .. n
    BY <1>2, <1>4, <1>5
  <2>2. CASE j \in 1 .. Len(t)
    BY <1>2, <1>5, <2>1, <2>2 DEF FeedOrder
  <2>3. CASE j = Len(t) + 1
    BY <1>1, <1>2, <2>1, <2>3
  <2> QED BY <1>2, <2>2, <2>3
<1>6. ASSUME NEW i \in 1 .. Len(s), NEW j \in 1 .. Len(u) PROVE s[i] < u[j]
  <2>1. CASE j \in 1 .. Len(t)
    BY <1>2, <2>1 DEF FeedOrder
  <2>2. CASE j = Len(t) + 1
    BY <1>1, <1>2, <1>3, <2>2
  <2> QED BY <1>2, <2>1, <2>2
<1> QED BY <1>1, <1>2, <1>5, <1>6 DEF FeedOrder, u

LEMMA OrderHandle ==
  ASSUME NEW s, NEW t, NEW n, FeedOrder(s, t, n), t # << >>, NEW k \in 1 .. Len(t)
  PROVE  FeedOrder(Append(s, Head(t)), SubSeq(t, k + 1, Len(t)), n)
<1> DEFINE u == Append(s, Head(t))
           v == SubSeq(t, k + 1, Len(t))
<1>1. /\ n \in Nat /\ Len(t) \in Nat /\ 1 \in 1 .. Len(t) /\ Head(t) = t[1]
      /\ \A i \in 1 .. Len(t) : t[i] \in 1 .. n
  BY LenProperties, ElementOfSeq DEF FeedOrder
<1>2. /\ u \in Seq(1 .. n) /\ Len(u) = Len(s) + 1 /\ Len(s) \in Nat
      /\ \A i \in 1 .. Len(s) : u[i] = s[i]
      /\ u[Len(s) + 1] = t[1]
  BY <1>1, AppendProperties, LenProperties DEF FeedOrder
<1>3. \A i \in k + 1 .. Len(t) : t[i] \in 1 .. n
  BY <1>1
<1>4. /\ v \in Seq(1 .. n) /\ Len(v) = Len(t) - k
      /\ \A i \in 1 .. Len(v) : v[i] = t[k + i]
  <2>1. k + 1 \in Int /\ Len(t) \in Int
    BY <1>1
  <2>2. /\ v \in Seq(1 .. n)
        /\ Len(v) = IF k + 1 <= Len(t) THEN Len(t) - (k + 1) + 1 ELSE 0
        /\ \A i \in 1 .. Len(t) - (k + 1) + 1 : v[i] = t[(k + 1) + i - 1]
    BY <1>3, <2>1, SubSeqProperties
  <2> QED BY <1>1, <2>2
<1> HIDE DEF u, v
<1>5. \A i \in 1 .. Len(v) : k + i \in 1 .. Len(t) /\ 1 < k + i
  BY <1>1, <1>4
<1>6. ASSUME NEW i \in 1 .. Len(u), NEW j \in 1 .. Len(u), i < j PROVE u[i] < u[j]
  <2>1. i \in 1 .. Len(s) /\ u[i] = s[i]
    BY <1>2, <1>6
  <2>2. CASE j \in 1 .. Len(s)
    BY <1>2, <1>6, <2>1, <2>2 DEF FeedOrder
  <2>3. CASE j = Len(s) + 1
    BY <1>1, <1>2, <2>1, <2>3 DEF FeedOrder
  <2> QED BY <1>2, <2>2, <2>3
<1>7. ASSUME NEW i \in 1 .. Len(v), NEW j \in 1 .. Len(v), i < j PROVE v[i] < v[j]
  <2>1. k + i < k + j
    BY <1>7
  <2> QED BY <1>4, <1>5, <2>1 DEF FeedOrder
<1>8. ASSUME NEW i \in 1 .. Len(u), NEW j \in 1 .. Len(v) PROVE u[i] < v[j]
  <2>1. k + j \in 1 .. Len(t) /\ 1 < k + j /\ v[j] = t[k + j]
    BY <1>4, <1>5
  <2>2. CASE i \in 1 .. Len(s)
    BY <1>2, <2>1, <2>2 DEF FeedOrder
  <2>3. CASE i = Len(s) + 1
    BY <1>1, <1>2, <2>1, <2>3 DEF FeedOrder
  <2> QED BY <1>2, <2>2, <2>3
<1> QED BY <1>1, <1>2, <1>4, <1>6, <1>7, <1>8 DEF FeedOrder, u, v

LEMMA OrderHangup ==
  ASSUME NEW s, NEW t, NEW n, FeedOrder(s, t, n), NEW k \in 0 .. Len(t)
  PROVE  FeedOrder(s, SubSeq(t, 1, k), n)
<1>1. Len(t) \in Nat /\ \A i \in 1 .. Len(t) : t[i] \in 1 .. n
  BY LenProperties, ElementOfSeq DEF FeedOrder
<1>2. /\ SubSeq(t, 1, k) \in Seq(1 .. n) /\ Len(SubSeq(t, 1, k)) = k
      /\ \A i \in 1 .. k : SubSeq(t, 1, k)[i] = t[i]
  BY <1>1, SubSeqProperties
<1>3. \A i \in 1 .. k : i \in 1 .. Len(t)
  BY <1>1
<1> QED BY <1>2, <1>3 DEF FeedOrder

LEMMA OrderStart == FeedOrder(<< >>, << >>, 0)
<1>1. << >> \in Seq(1 .. 0) /\ Len(<< >>) = 0
  BY EmptySeq
<1> QED BY <1>1 DEF FeedOrder

=============================================================================
