-------------------------- MODULE ConfdProxyProofs --------------------------
(***************************************************************************)
(* The confd proxy for any number of requests and of confd's restarts:     *)
(* type correctness, what the needsNewSocket flag means, and the order in  *)
(* which requests reach confd.                                             *)
(***************************************************************************)
EXTENDS ConfdProxy, TLAPS, SequenceTheorems

(***************************************************************************)
(* Type correctness                                                        *)
(***************************************************************************)
LEMMA TypeInit == Init => TypeOK
<1>1. << >> \in Seq(Numbers)
  BY EmptySeq
<1>2. 0 \in 0 .. MaxReq /\ 0 \in 0 .. MaxCrash
  BY ProxyAssumption
<1> QED BY <1>1, <1>2 DEF Init, TypeOK

LEMMA TypeStep == TypeOK /\ [Next]_vars => TypeOK'
<1> SUFFICES ASSUME TypeOK, [Next]_vars PROVE TypeOK'
  OBVIOUS
<1> USE ProxyAssumption
<1>0. << >> \in Seq(Numbers)
  BY EmptySeq
<1>1. CASE Request
  <2>1. made + 1 \in Numbers
    BY <1>1 DEF Request, TypeOK, Numbers
  <2>2. Append(rpmsgIn, made + 1) \in Seq(Numbers)
    BY <2>1, AppendProperties DEF TypeOK
  <2> QED BY <1>1, <2>1, <2>2 DEF Request, TypeOK, Numbers, linkVars
<1>2. CASE ConfdReplies
  <2>1. Head(toConfd) \in Numbers /\ Tail(toConfd) \in Seq(Numbers)
    BY <1>2, HeadTailProperties DEF ConfdReplies, TypeOK
  <2>2. /\ Append(served, Head(toConfd)) \in Seq(Numbers)
        /\ Append(fromConfd, Head(toConfd)) \in Seq(Numbers)
    BY <2>1, AppendProperties DEF TypeOK
  <2> QED BY <1>2, <2>1, <2>2 DEF ConfdReplies, TypeOK, proxyVars
<1>3. CASE ConfdStops
  <2>1. crashes' \in 0 .. MaxCrash
    BY <1>3 DEF ConfdStops, TypeOK
  <2>2. link' \in {"open", "eof", "reset"}
    BY <1>3 DEF ConfdStops, TypeOK
  <2> QED BY <1>0, <1>3, <2>1, <2>2 DEF ConfdStops, TypeOK, proxyVars
<1>4. CASE ConfdStarts
  BY <1>4 DEF ConfdStarts, TypeOK, proxyVars, linkVars
<1>5. CASE HandleRpmsgRead
  <2>1. Head(rpmsgIn) \in Numbers /\ Tail(rpmsgIn) \in Seq(Numbers)
    BY <1>5, HeadTailProperties DEF HandleRpmsgRead, TypeOK
  <2>2. Append(out, Head(rpmsgIn)) \in Seq(Numbers)
    BY <2>1, AppendProperties DEF TypeOK
  <2> QED BY <1>0, <1>5, <2>1, <2>2 DEF HandleRpmsgRead, ForwardRequest, ReplaceSocket,
                                     TypeOK, linkVars
<1>6. CASE FlushToConfd
  <2>1. toConfd \o out \in Seq(Numbers)
    BY ConcatProperties DEF TypeOK
  <2> QED BY <1>0, <1>6, <2>1 DEF FlushToConfd, TypeOK
<1>7. CASE HandleConfdRead
  <2>1. answered \o fromConfd \in Seq(Numbers)
    BY ConcatProperties DEF TypeOK
  <2> QED BY <1>0, <1>7, <2>1 DEF HandleConfdRead, TypeOK, proxyVars
<1>8. CASE HandleConfdEvent
  BY <1>8 DEF HandleConfdEvent, TypeOK, linkVars
<1>9. CASE UNCHANGED vars
  BY <1>9 DEF TypeOK, vars, proxyVars, linkVars
<1> QED BY <1>1, <1>2, <1>3, <1>4, <1>5, <1>6, <1>7, <1>8, <1>9
        DEF Next, Environment, Handler

(* The proxy's queues and flags keep their types, whatever confd does.     *)
THEOREM TypeCorrect == Spec => []TypeOK
<1> QED BY TypeInit, TypeStep, PTL DEF Spec

(***************************************************************************)
(* The flag                                                                *)
(***************************************************************************)
LEMMA FlagStep == FlagMeansClosed /\ [Next]_vars => FlagMeansClosed'
<1> SUFFICES ASSUME FlagMeansClosed, [Next]_vars PROVE FlagMeansClosed'
  OBVIOUS
<1>1. CASE Request
  BY <1>1 DEF Request, linkVars, FlagMeansClosed
<1>2. CASE ConfdReplies
  BY <1>2 DEF ConfdReplies, proxyVars, FlagMeansClosed
<1>3. CASE ConfdStops
  BY <1>3 DEF ConfdStops, proxyVars, FlagMeansClosed
<1>4. CASE ConfdStarts
  BY <1>4 DEF ConfdStarts, proxyVars, linkVars, FlagMeansClosed
<1>5. CASE HandleRpmsgRead
  BY <1>5 DEF HandleRpmsgRead, FlagMeansClosed
<1>6. CASE FlushToConfd
  BY <1>6 DEF FlushToConfd, FlagMeansClosed
<1>7. CASE HandleConfdRead
  BY <1>7 DEF HandleConfdRead, proxyVars, FlagMeansClosed
<1>8. CASE HandleConfdEvent
  BY <1>8 DEF HandleConfdEvent, linkVars, FlagMeansClosed
<1>9. CASE UNCHANGED vars
  BY <1>9 DEF vars, proxyVars, linkVars, FlagMeansClosed
<1> QED BY <1>1, <1>2, <1>3, <1>4, <1>5, <1>6, <1>7, <1>8, <1>9
        DEF Next, Environment, Handler

(* Whenever needsNewSocket is set, the connection is one that confd closed *)
(* and that was read to its end: replacing it loses no reply.              *)
THEOREM FlagCorrect == Spec => []FlagMeansClosed
<1>1. Init => FlagMeansClosed
  BY DEF Init, FlagMeansClosed
<1> QED BY <1>1, FlagStep, PTL DEF Spec

(***************************************************************************)
(* The order of requests                                                   *)
(***************************************************************************)
Before(s, t) == \A i \in DOMAIN s, j \in DOMAIN t : s[i] < t[j]

LEMMA ConcatNat == \A s, t \in Seq(Nat) : s \o t \in Seq(Nat)
BY ConcatProperties

LEMMA AssocNat == \A s, t, u \in Seq(Nat) : (s \o t) \o u = s \o (t \o u)
BY ONLY ConcatAssociative

LEMMA ConcatIncreasing ==
  ASSUME NEW s \in Seq(Nat), NEW t \in Seq(Nat)
  PROVE  Increasing(s \o t) <=> Increasing(s) /\ Increasing(t) /\ Before(s, t)
<1>1. /\ Len(s) \in Nat /\ DOMAIN s = 1 .. Len(s)
      /\ Len(t) \in Nat /\ DOMAIN t = 1 .. Len(t)
      /\ DOMAIN (s \o t) = 1 .. Len(s) + Len(t)
      /\ \A i \in 1 .. Len(s) : (s \o t)[i] = s[i]
      /\ \A j \in 1 .. Len(t) : (s \o t)[Len(s) + j] = t[j]
  BY LenProperties, ConcatProperties
<1>2. ASSUME Increasing(s \o t) PROVE Increasing(s) /\ Increasing(t) /\ Before(s, t)
  <2>1. ASSUME NEW i \in 1 .. Len(s), NEW j \in 1 .. Len(s), i < j PROVE s[i] < s[j]
    <3>1. i \in DOMAIN (s \o t) /\ j \in DOMAIN (s \o t)
      BY <1>1
    <3>2. (s \o t)[i] < (s \o t)[j]
      BY <1>2, <2>1, <3>1 DEF Increasing
    <3> QED BY <1>1, <3>2
  <2>2. ASSUME NEW i \in 1 .. Len(t), NEW j \in 1 .. Len(t), i < j PROVE t[i] < t[j]
    <3>1. /\ Len(s) + i \in DOMAIN (s \o t) /\ Len(s) + j \in DOMAIN (s \o t)
          /\ Len(s) + i < Len(s) + j
      BY <1>1, <2>2
    <3>2. (s \o t)[Len(s) + i] < (s \o t)[Len(s) + j]
      BY <1>2, <3>1 DEF Increasing
    <3> QED BY <1>1, <3>2
  <2>3. ASSUME NEW i \in 1 .. Len(s), NEW j \in 1 .. Len(t) PROVE s[i] < t[j]
    <3>1. i \in DOMAIN (s \o t) /\ Len(s) + j \in DOMAIN (s \o t) /\ i < Len(s) + j
      BY <1>1
    <3>2. (s \o t)[i] < (s \o t)[Len(s) + j]
      BY <1>2, <3>1 DEF Increasing
    <3> QED BY <1>1, <3>2
  <2> QED BY <1>1, <2>1, <2>2, <2>3 DEF Increasing, Before
<1>3. ASSUME Increasing(s), Increasing(t), Before(s, t),
             NEW i \in 1 .. Len(s) + Len(t), NEW j \in 1 .. Len(s) + Len(t), i < j
      PROVE  (s \o t)[i] < (s \o t)[j]
  <2>1. CASE j <= Len(s)
    <3>1. i \in DOMAIN s /\ j \in DOMAIN s
      BY <1>1, <1>3, <2>1
    <3> QED BY <1>1, <1>3, <3>1 DEF Increasing
  <2>2. CASE i <= Len(s) /\ j > Len(s)
    <3>1. i \in DOMAIN s /\ j - Len(s) \in DOMAIN t /\ j = Len(s) + (j - Len(s))
      BY <1>1, <1>3, <2>2
    <3>2. s[i] < t[j - Len(s)]
      BY <1>3, <3>1 DEF Before
    <3>3. (s \o t)[i] = s[i] /\ (s \o t)[j] = t[j - Len(s)]
      BY <1>1, <3>1
    <3> QED BY <3>2, <3>3
  <2>3. CASE i > Len(s)
    <3>1. /\ i - Len(s) \in DOMAIN t /\ i = Len(s) + (i - Len(s))
          /\ j - Len(s) \in DOMAIN t /\ j = Len(s) + (j - Len(s))
          /\ i - Len(s) < j - Len(s)
      BY <1>1, <1>3, <2>3
    <3>2. t[i - Len(s)] < t[j - Len(s)]
      BY <1>3, <3>1 DEF Increasing
    <3>3. (s \o t)[i] = t[i - Len(s)] /\ (s \o t)[j] = t[j - Len(s)]
      BY <1>1, <3>1
    <3> QED BY <3>2, <3>3
  <2> QED BY <1>1, <2>1, <2>2, <2>3
<1> QED BY <1>1, <1>2, <1>3 DEF Increasing

LEMMA DropMiddle ==
  ASSUME NEW a \in Seq(Nat), NEW b \in Seq(Nat), NEW c \in Seq(Nat),
         Increasing((a \o b) \o c)
  PROVE  Increasing(a \o c)
<1>1. a \o b \in Seq(Nat)
  BY ConcatProperties
<1>2. Increasing(a \o b) /\ Increasing(c) /\ Before(a \o b, c)
  BY <1>1, ConcatIncreasing
<1>3. Increasing(a)
  BY <1>2, ConcatIncreasing
<1>4. \A i \in DOMAIN a : i \in DOMAIN (a \o b) /\ (a \o b)[i] = a[i]
  BY ConcatProperties, LenProperties
<1>5. Before(a, c)
  BY <1>2, <1>4 DEF Before
<1> QED BY <1>2, <1>3, <1>5, ConcatIncreasing

(* Moving the head of one queue to the end of another, as a step of either *)
(* process does, leaves what they hold together as it was.                 *)
LEMMA MoveHead ==
  ASSUME NEW s \in Seq(Nat), NEW t \in Seq(Nat), t # << >>
  PROVE  /\ Append(s, Head(t)) \o Tail(t) = s \o t
         /\ <<Head(t)>> \o Tail(t) = t
<1>1. Head(t) \in Nat /\ Tail(t) \in Seq(Nat) /\ <<Head(t)>> \in Seq(Nat)
  BY HeadTailProperties
<1>2. <<Head(t)>> \o Tail(t) = t
  BY ConcatSimplifications
<1>3. Append(s, Head(t)) = s \o <<Head(t)>>
  BY <1>1, AppendIsConcat
<1> QED BY <1>1, <1>2, <1>3, ConcatAssociative

LEMMA AppendNext ==
  ASSUME NEW s \in Seq(Nat), NEW n \in Nat, Increasing(s \o <<n>>)
  PROVE  Increasing((s \o <<n>>) \o <<n + 1>>)
<1>1. <<n>> \in Seq(Nat) /\ <<n + 1>> \in Seq(Nat) /\ s \o <<n>> \in Seq(Nat)
  BY ConcatProperties
<1>2. Increasing(s) /\ Before(s, <<n>>)
  BY <1>1, ConcatIncreasing
<1>3. \A i \in DOMAIN (s \o <<n>>) : (s \o <<n>>)[i] < n + 1
  <2>1. /\ Len(s) \in Nat /\ DOMAIN s = 1 .. Len(s) /\ Len(<<n>>) = 1
        /\ DOMAIN (s \o <<n>>) = 1 .. Len(s) + 1
        /\ \A i \in 1 .. Len(s) : (s \o <<n>>)[i] = s[i] /\ s[i] \in Nat
        /\ (s \o <<n>>)[Len(s) + 1] = n
    BY <1>1, ConcatProperties, LenProperties, ElementOfSeq
  <2>2. \A i \in 1 .. Len(s) : s[i] < n
    BY <1>2, <2>1 DEF Before
  <2> QED BY <2>1, <2>2
<1>4. Before(s \o <<n>>, <<n + 1>>)
  BY <1>3 DEF Before
<1>5. Increasing(<<n + 1>>)
  BY DEF Increasing
<1> QED BY <1>1, <1>4, <1>5, ConcatIncreasing

(* The inductive invariant: the requests on their way, and behind them the *)
(* number of the next one, are in order.                                   *)
Ahead == served \o toConfd \o out
OrderInv == TypeOK /\ Increasing(Ahead \o rpmsgIn \o <<made + 1>>)

(* The queues are sequences of naturals, and so their concatenations.      *)
LEMMA QueueTypes ==
  ASSUME TypeOK
  PROVE  /\ served \in Seq(Nat) /\ toConfd \in Seq(Nat) /\ out \in Seq(Nat)
         /\ rpmsgIn \in Seq(Nat) /\ <<made + 1>> \in Seq(Nat)
         /\ made \in Nat /\ << >> \in Seq(Nat)
<1>1. Numbers \subseteq Nat
  BY DEF Numbers
<1>2. \A q \in Seq(Numbers) : q \in Seq(Nat)
  BY <1>1, SeqMonotonic
<1>3. made \in Nat
  BY DEF TypeOK
<1> QED BY <1>2, <1>3, EmptySeq DEF TypeOK

LEMMA OrderInit == Init => OrderInv
<1> SUFFICES ASSUME Init PROVE Increasing(Ahead \o rpmsgIn \o <<made + 1>>)
  BY TypeInit DEF OrderInv
<1>1. << >> \in Seq(Nat) /\ <<1>> \in Seq(Nat)
  BY EmptySeq
<1>2. Ahead \o rpmsgIn \o <<made + 1>> = <<1>>
  BY <1>1, ConcatEmptySeq DEF Init, Ahead
<1> QED BY <1>2 DEF Increasing

(* Dropping what a lost connection held keeps the rest in order.           *)
LEMMA DropConnection ==
  ASSUME NEW a \in Seq(Nat), NEW b \in Seq(Nat), NEW c \in Seq(Nat),
         NEW d \in Seq(Nat), NEW e \in Seq(Nat)
  PROVE  Increasing(a \o b \o c \o d \o e) => Increasing(a \o << >> \o c \o d \o e)
<1>1. ASSUME NEW s \in Seq(Nat) PROVE ((s \o c) \o d) \o e = s \o ((c \o d) \o e)
  <2>1. (s \o c) \o d = s \o (c \o d)
    <3>1. s \in Seq(Nat) /\ c \in Seq(Nat) /\ d \in Seq(Nat)
      OBVIOUS
    <3> QED BY ONLY <3>1, AssocNat, Zenon
  <2>2. ASSUME NEW q \in Seq(Nat) PROVE (s \o q) \o e = s \o (q \o e)
    <3>1. s \in Seq(Nat) /\ e \in Seq(Nat) /\ q \in Seq(Nat)
      OBVIOUS
    <3> QED BY ONLY <3>1, AssocNat, ZenonT(30)
  <2>3. c \o d \in Seq(Nat)
    BY ConcatNat
  <2> QED BY <2>1, <2>2, <2>3
<1>2. PICK r \in Seq(Nat) : r = (c \o d) \o e
  <2>1. c \o d \in Seq(Nat)
    BY ConcatNat
  <2> QED BY <2>1, ConcatNat
<1>3. PICK s \in Seq(Nat) : s = a \o b
  BY ConcatNat
<1>4. Increasing((a \o b) \o r) => Increasing(a \o r)
  BY DropMiddle
<1>5. a \o << >> = a
  BY ConcatEmptySeq
<1>6. ((a \o c) \o d) \o e = a \o r
  BY <1>1, <1>2
<1>7. (((a \o b) \o c) \o d) \o e = (a \o b) \o r
  BY <1>1, <1>2, <1>3
<1> QED BY <1>4, <1>5, <1>6, <1>7

(* So does dropping a request that was read but not forwarded.             *)
LEMMA DropRequest ==
  ASSUME NEW a \in Seq(Nat), NEW d \in Seq(Nat), NEW e \in Seq(Nat), d # << >>,
         Increasing(a \o d \o e)
  PROVE  Increasing(a \o Tail(d) \o e)
<1> DEFINE h == <<Head(d)>>
           t == Tail(d)
<1>1. h \in Seq(Nat) /\ t \in Seq(Nat) /\ d = h \o t
  BY MoveHead, HeadTailProperties
<1> HIDE DEF h, t
<1>2. t \o e \in Seq(Nat) /\ h \o t \in Seq(Nat) /\ a \o h \in Seq(Nat)
  BY <1>1, ConcatNat
<1>3. (a \o (h \o t)) \o e = (a \o h) \o (t \o e)
  <2> DEFINE p == a \o h
  <2>1. a \o (h \o t) = p \o t
    BY <1>1, AssocNat, Zenon
  <2>2. p \in Seq(Nat)
    BY <1>2
  <2> HIDE DEF p
  <2>3. (p \o t) \o e = p \o (t \o e)
    BY <1>1, <2>2, AssocNat, Zenon
  <2> QED BY <2>1, <2>3 DEF p
<1>4. Increasing((a \o h) \o (t \o e))
  BY <1>1, <1>3
<1>5. Increasing(a \o (t \o e))
  BY <1>1, <1>2, <1>4, DropMiddle
<1>6. (a \o t) \o e = a \o (t \o e)
  BY <1>1, AssocNat, Zenon
<1> QED BY <1>5, <1>6 DEF t

(* A request forwarded joins the queue towards confd as it leaves the      *)
(* channel's.                                                              *)
LEMMA Forwarded ==
  ASSUME NEW a \in Seq(Nat), NEW c \in Seq(Nat), NEW d \in Seq(Nat), d # << >>
  PROVE  a \o Append(c, Head(d)) \o Tail(d) = a \o c \o d
<1>1. Append(c, Head(d)) \in Seq(Nat) /\ Tail(d) \in Seq(Nat)
  BY HeadTailProperties, AppendProperties
<1>2. (a \o Append(c, Head(d))) \o Tail(d) = a \o (Append(c, Head(d)) \o Tail(d))
  BY <1>1, AssocNat, Zenon
<1>3. a \o (c \o d) = (a \o c) \o d
  BY AssocNat
<1> QED BY <1>2, <1>3, MoveHead

LEMMA OrderStep == OrderInv /\ [Next]_vars => OrderInv'
<1> SUFFICES ASSUME TypeOK, [Next]_vars,
                    Increasing(Ahead \o rpmsgIn \o <<made + 1>>)
             PROVE  Increasing(Ahead' \o rpmsgIn' \o <<made' + 1>>)
  BY TypeStep DEF OrderInv
<1> DEFINE e == <<made + 1>>
<1>0. /\ served \in Seq(Nat) /\ toConfd \in Seq(Nat) /\ out \in Seq(Nat)
      /\ rpmsgIn \in Seq(Nat) /\ e \in Seq(Nat) /\ made \in Nat
      /\ Ahead \in Seq(Nat) /\ Ahead = served \o toConfd \o out
  BY QueueTypes, ConcatNat DEF Ahead
<1>1. CASE Request
  <2>1. /\ Ahead' = Ahead /\ made' = made + 1
        /\ rpmsgIn' = Append(rpmsgIn, made + 1)
    BY <1>1 DEF Request, Ahead, linkVars
  <2>2. rpmsgIn' = rpmsgIn \o e
    BY <1>0, <2>1, AppendIsConcat
  <2>3. Ahead \o (rpmsgIn \o e) = (Ahead \o rpmsgIn) \o e
    BY <1>0, AssocNat, Zenon
  <2>4. Increasing(((Ahead \o rpmsgIn) \o e) \o <<(made + 1) + 1>>)
    <3> DEFINE w == Ahead \o rpmsgIn
    <3>1. w \in Seq(Nat) /\ made + 1 \in Nat /\ Increasing(w \o <<made + 1>>)
      BY <1>0, ConcatNat
    <3> HIDE DEF w
    <3>2. Increasing((w \o <<made + 1>>) \o <<(made + 1) + 1>>)
      BY <3>1, AppendNext
    <3> QED BY <3>2 DEF w
  <2> QED BY <2>1, <2>2, <2>3, <2>4
<1>2. CASE ConfdReplies
  <2>1. /\ served' = Append(served, Head(toConfd)) /\ toConfd' = Tail(toConfd)
        /\ toConfd # << >> /\ UNCHANGED <<out, rpmsgIn, made>>
    BY <1>2 DEF ConfdReplies, proxyVars
  <2>2. served' \o toConfd' = served \o toConfd
    BY <1>0, <2>1, MoveHead
  <2> QED BY <2>1, <2>2 DEF Ahead
<1>3. CASE ConfdStops
  <2>1. toConfd' = << >> /\ UNCHANGED <<served, out, rpmsgIn, made>>
    BY <1>3 DEF ConfdStops, proxyVars
  <2>2. Increasing(served \o << >> \o out \o rpmsgIn \o e)
    BY <1>0, DropConnection
  <2> QED BY <2>1, <2>2 DEF Ahead
<1>4. CASE HandleRpmsgRead
  <2>1. /\ rpmsgIn # << >> /\ rpmsgIn' = Tail(rpmsgIn)
        /\ UNCHANGED <<served, made>>
    BY <1>4 DEF HandleRpmsgRead
  <2>2. CASE out' = Append(out, Head(rpmsgIn)) /\ toConfd' = toConfd
    <3> DEFINE a == served \o toConfd
    <3>1. a \in Seq(Nat)
      BY <1>0, ConcatNat
    <3>2. a \o Append(out, Head(rpmsgIn)) \o Tail(rpmsgIn) = a \o out \o rpmsgIn
      <4>1. out \in Seq(Nat) /\ rpmsgIn \in Seq(Nat) /\ rpmsgIn # << >>
        BY <1>0, <2>1
      <4> HIDE DEF a
      <4> QED BY ONLY <3>1, <4>1, Forwarded, Zenon
    <3> QED BY <2>1, <2>2, <3>2 DEF Ahead
  <2>3. CASE out' = Append(out, Head(rpmsgIn)) /\ toConfd' = << >>
    <3> DEFINE a == served \o << >>
    <3>1. a \in Seq(Nat)
      BY <1>0, QueueTypes, ConcatNat
    <3>2. a \o Append(out, Head(rpmsgIn)) \o Tail(rpmsgIn) = a \o out \o rpmsgIn
      <4>1. out \in Seq(Nat) /\ rpmsgIn \in Seq(Nat) /\ rpmsgIn # << >>
        BY <1>0, <2>1
      <4> HIDE DEF a
      <4> QED BY ONLY <3>1, <4>1, Forwarded, Zenon
    <3>3. Increasing(served \o << >> \o out \o rpmsgIn \o e)
      BY <1>0, DropConnection
    <3> QED BY <2>1, <2>3, <3>2, <3>3 DEF Ahead
  <2>4. CASE UNCHANGED <<out, toConfd>>
    <3>1. Increasing(Ahead \o Tail(rpmsgIn) \o e)
      BY <1>0, <2>1, DropRequest
    <3> QED BY <2>1, <2>4, <3>1 DEF Ahead
  <2> QED BY <1>4, <2>2, <2>3, <2>4 DEF HandleRpmsgRead, ForwardRequest, ReplaceSocket,
                                        linkVars
<1>5. CASE FlushToConfd
  <2>1. CASE toConfd' = toConfd \o out /\ out' = << >>
    <3>1. served \o (toConfd \o out) \o << >> = served \o toConfd \o out
      <4>1. served \o (toConfd \o out) = served \o toConfd \o out
        <5>1. served \in Seq(Nat) /\ toConfd \in Seq(Nat) /\ out \in Seq(Nat)
          BY <1>0
        <5> QED BY ONLY <5>1, AssocNat, Zenon
      <4> QED BY <1>0, <4>1, ConcatEmptySeq
    <3> QED BY <1>5, <2>1, <3>1 DEF FlushToConfd, Ahead
  <2>2. CASE UNCHANGED <<out, toConfd>>
    BY <1>5, <2>2 DEF FlushToConfd, Ahead
  <2> QED BY <1>5, <2>1, <2>2 DEF FlushToConfd
<1>6. CASE ConfdStarts \/ HandleConfdRead \/ HandleConfdEvent \/ UNCHANGED vars
  BY <1>6 DEF ConfdStarts, HandleConfdRead, HandleConfdEvent, Ahead, vars, proxyVars, linkVars
<1> QED BY <1>1, <1>2, <1>3, <1>4, <1>5, <1>6 DEF Next, Environment, Handler

(* Requests reach confd at most once and in the order they were made,      *)
(* whatever the number of sockets the proxy goes through and wherever      *)
(* confd's exits fall.                                                     *)
THEOREM RequestsInOrderCorrect == Spec => []RequestsInOrder
<1>1. OrderInv => RequestsInOrder
  <2> SUFFICES ASSUME OrderInv PROVE RequestsInOrder
    OBVIOUS
  <2>1. Ahead \o rpmsgIn \in Seq(Nat) /\ <<made + 1>> \in Seq(Nat)
    BY QueueTypes, ConcatNat DEF OrderInv, Ahead
  <2> QED BY <2>1, ConcatIncreasing DEF OrderInv, RequestsInOrder, Ahead
<1> QED BY OrderInit, OrderStep, <1>1, PTL DEF Spec

(***************************************************************************)
(* Replies                                                                 *)
(***************************************************************************)
(* All in r is in s.                                                       *)
Covered(r, s) == \A i \in DOMAIN r : \E j \in DOMAIN s : s[j] = r[i]

(* What is on its way back counts too: it was served, and comes in order.  *)
ReplyInv ==
  /\ OrderInv
  /\ Increasing(answered \o fromConfd)
  /\ Covered(answered \o fromConfd, served)

(* A reply to what is served last comes after all others.                  *)
LEMMA ReplyNext ==
  ASSUME NEW r \in Seq(Nat), NEW s \in Seq(Nat), NEW h \in Nat,
         Increasing(r), Covered(r, s), Increasing(Append(s, h))
  PROVE  Increasing(r \o <<h>>) /\ Covered(r \o <<h>>, Append(s, h))
<1>1. <<h>> \in Seq(Nat) /\ DOMAIN <<h>> = {1} /\ <<h>>[1] = h /\ Append(s, h) = s \o <<h>>
  BY AppendIsConcat
<1>2. Before(s, <<h>>)
  BY <1>1, ConcatIncreasing
<1>3. Before(r, <<h>>)
  <2> SUFFICES ASSUME NEW i \in DOMAIN r PROVE r[i] < h
    BY <1>1 DEF Before
  <2>1. PICK j \in DOMAIN s : s[j] = r[i]
    BY DEF Covered
  <2> QED BY <1>1, <1>2, <2>1 DEF Before
<1>4. Increasing(<<h>>)
  BY <1>1 DEF Increasing
<1>5. Increasing(r \o <<h>>)
  BY <1>1, <1>3, <1>4, ConcatIncreasing
<1>6. ASSUME NEW i \in DOMAIN (r \o <<h>>)
      PROVE  \E j \in DOMAIN Append(s, h) : Append(s, h)[j] = (r \o <<h>>)[i]
  <2>1. /\ Len(r) \in Nat /\ DOMAIN r = 1 .. Len(r) /\ Len(s) \in Nat /\ DOMAIN s = 1 .. Len(s)
        /\ DOMAIN (r \o <<h>>) = 1 .. Len(r) + 1
        /\ \A k \in 1 .. Len(r) : (r \o <<h>>)[k] = r[k]
        /\ (r \o <<h>>)[Len(r) + 1] = h
    BY <1>1, ConcatProperties, LenProperties
  <2>2. /\ DOMAIN Append(s, h) = 1 .. Len(s) + 1
        /\ \A k \in 1 .. Len(s) : Append(s, h)[k] = s[k]
        /\ Append(s, h)[Len(s) + 1] = h
    BY <2>1, AppendProperties, LenProperties
  <2>3. CASE i \in 1 .. Len(r)
    <3>1. PICK j \in 1 .. Len(s) : s[j] = r[i]
      BY <2>1, <2>3 DEF Covered
    <3>2. j \in DOMAIN Append(s, h) /\ Append(s, h)[j] = (r \o <<h>>)[i]
      BY <2>1, <2>2, <2>3, <3>1
    <3> QED BY <3>2
  <2>4. CASE i = Len(r) + 1
    <3>1. Len(s) + 1 \in DOMAIN Append(s, h) /\ Append(s, h)[Len(s) + 1] = (r \o <<h>>)[i]
      BY <2>1, <2>2, <2>4
    <3> QED BY <3>1
  <2> QED BY <2>1, <2>3, <2>4
<1> QED BY <1>5, <1>6 DEF Covered

(* Replies that are lost leave the others in order.                        *)
LEMMA RepliesLost ==
  ASSUME NEW a \in Seq(Nat), NEW f \in Seq(Nat), NEW s,
         Increasing(a \o f), Covered(a \o f, s)
  PROVE  Increasing(a) /\ Covered(a, s)
<1>1. Increasing(a)
  BY ConcatIncreasing
<1>2. \A i \in DOMAIN a : i \in DOMAIN (a \o f) /\ (a \o f)[i] = a[i]
  BY ConcatProperties, LenProperties
<1> QED BY <1>1, <1>2 DEF Covered

LEMMA ReplyTypes ==
  ASSUME TypeOK
  PROVE  answered \in Seq(Nat) /\ fromConfd \in Seq(Nat)
<1>1. Numbers \subseteq Nat
  BY DEF Numbers
<1>2. \A q \in Seq(Numbers) : q \in Seq(Nat)
  BY <1>1, SeqMonotonic
<1> QED BY <1>2 DEF TypeOK

(* What confd is about to serve comes after all it served.                 *)
LEMMA ServesNext ==
  ASSUME OrderInv, toConfd # << >>
  PROVE  Head(toConfd) \in Nat /\ Increasing(Append(served, Head(toConfd)))
<1>1. TypeOK
  BY DEF OrderInv
<1>2. /\ served \in Seq(Nat) /\ toConfd \in Seq(Nat) /\ out \in Seq(Nat)
      /\ rpmsgIn \in Seq(Nat) /\ <<made + 1>> \in Seq(Nat)
  BY <1>1, QueueTypes
<1> DEFINE a == served \o toConfd
           b == a \o out
           c == b \o rpmsgIn
<1>3. a \in Seq(Nat) /\ b \in Seq(Nat) /\ c \in Seq(Nat)
  BY <1>2, ConcatNat
<1>4. Increasing(c \o <<made + 1>>)
  BY DEF OrderInv, Ahead
<1> HIDE DEF c
<1>5. Increasing(c)
  BY <1>2, <1>3, <1>4, ConcatIncreasing
<1> HIDE DEF b
<1>6. Increasing(b)
  BY <1>2, <1>3, <1>5, ConcatIncreasing DEF c
<1> HIDE DEF a
<1>7. Increasing(a)
  BY <1>2, <1>3, <1>6, ConcatIncreasing DEF b
<1>8. a = Append(served, Head(toConfd)) \o Tail(toConfd)
  BY <1>2, MoveHead DEF a
<1>9. Head(toConfd) \in Nat /\ Tail(toConfd) \in Seq(Nat)
  BY <1>2, HeadTailProperties
<1>10. Append(served, Head(toConfd)) \in Seq(Nat)
  BY <1>2, <1>9, AppendProperties
<1> QED BY <1>7, <1>8, <1>9, <1>10, ConcatIncreasing

LEMMA ReplyInit == Init => ReplyInv
<1> SUFFICES ASSUME Init PROVE ReplyInv
  OBVIOUS
<1>1. answered \o fromConfd = << >>
  BY EmptySeq, ConcatEmptySeq DEF Init
<1>2. Increasing(<< >>) /\ Covered(<< >>, served)
  BY DEF Increasing, Covered
<1> QED BY <1>1, <1>2, OrderInit DEF ReplyInv

LEMMA ReplyStep == ReplyInv /\ [Next]_vars => ReplyInv'
<1> SUFFICES ASSUME ReplyInv, [Next]_vars
             PROVE  Increasing(answered' \o fromConfd') /\ Covered(answered' \o fromConfd', served')
  BY OrderStep DEF ReplyInv
<1>0. /\ answered \in Seq(Nat) /\ fromConfd \in Seq(Nat)
      /\ Increasing(answered \o fromConfd) /\ Covered(answered \o fromConfd, served)
      /\ answered \o fromConfd \in Seq(Nat)
  BY ReplyTypes, ConcatNat DEF ReplyInv, OrderInv
<1>1. ASSUME UNCHANGED <<answered, served>>, fromConfd' = << >>
      PROVE  Increasing(answered' \o fromConfd') /\ Covered(answered' \o fromConfd', served')
  <2>1. answered' \o fromConfd' = answered
    BY <1>0, <1>1, ConcatEmptySeq
  <2> QED BY <1>0, <1>1, <2>1, RepliesLost
<1>2. CASE ConfdReplies
  <2> DEFINE h == Head(toConfd)
  <2>1. /\ toConfd # << >> /\ served' = Append(served, h) /\ answered' = answered
        /\ fromConfd' = Append(fromConfd, h)
    BY <1>2 DEF ConfdReplies
  <2>2. h \in Nat /\ Increasing(Append(served, h))
    BY <2>1, ServesNext DEF ReplyInv
  <2> HIDE DEF h
  <2>3. fromConfd' = fromConfd \o <<h>> /\ <<h>> \in Seq(Nat)
    BY <1>0, <2>1, <2>2, AppendIsConcat
  <2>4. answered' \o fromConfd' = (answered \o fromConfd) \o <<h>>
    BY <1>0, <2>1, <2>3, AssocNat
  <2>5. served \in Seq(Nat)
    BY QueueTypes DEF ReplyInv, OrderInv
  <2> QED BY <1>0, <2>1, <2>2, <2>4, <2>5, ReplyNext
<1>3. CASE HandleConfdRead
  <2>1. fromConfd' = << >> /\ UNCHANGED served
    BY <1>3 DEF HandleConfdRead
  <2>2. CASE answered' = answered \o fromConfd
    <3>1. answered' \o fromConfd' = answered \o fromConfd
      BY <1>0, <2>1, <2>2, ConcatEmptySeq
    <3> QED BY <1>0, <2>1, <3>1
  <2>3. CASE answered' = answered
    BY <1>1, <2>1, <2>3
  <2> QED BY <1>3, <2>2, <2>3 DEF HandleConfdRead
<1>4. CASE HandleRpmsgRead
  <2>1. UNCHANGED <<answered, served>> /\ (fromConfd' = fromConfd \/ fromConfd' = << >>)
    BY <1>4 DEF HandleRpmsgRead, ReplaceSocket, linkVars
  <2> QED BY <1>0, <1>1, <2>1
<1>5. CASE Request \/ ConfdStops \/ ConfdStarts \/ FlushToConfd \/ HandleConfdEvent \/ UNCHANGED vars
  <2>1. UNCHANGED <<answered, fromConfd, served>>
    BY <1>5 DEF Request, ConfdStops, ConfdStarts, FlushToConfd, HandleConfdEvent, vars, linkVars,
                proxyVars
  <2> QED BY <1>0, <2>1
<1> QED BY <1>2, <1>3, <1>4, <1>5 DEF Next, Environment, Handler

(* The M4 gets replies once, in order, and only to what confd served,      *)
(* however many of them the connections and failing writes swallow.        *)
THEOREM RepliesInOrderCorrect == Spec => []RepliesInOrder
<1>1. ASSUME ReplyInv PROVE RepliesInOrder
  <2>1. answered \in Seq(Nat) /\ fromConfd \in Seq(Nat)
    BY <1>1, ReplyTypes DEF ReplyInv, OrderInv
  <2>2. Covered(answered, served)
    BY <1>1, <2>1, RepliesLost DEF ReplyInv
  <2> QED BY <1>1, <2>2 DEF ReplyInv, Covered, RepliesInOrder
<1> QED BY ReplyInit, ReplyStep, <1>1, PTL DEF Spec
=============================================================================
