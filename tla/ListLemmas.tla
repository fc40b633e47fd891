----------------------------- MODULE ListLemmas -----------------------------
(***************************************************************************)
(* What the operations on linked lists do to the elements of a list that   *)
(* holds each element once.                                                *)
(***************************************************************************)
EXTENDS Lists, TLAPS

\* What the provers know of sequences, as facts to cite.
LEMMA SeqType ==
  ASSUME NEW S, NEW s \in Seq(S)
  PROVE  Len(s) \in Nat /\ s \in [1..Len(s) -> S] /\ DOMAIN s = 1..Len(s)
  OBVIOUS

\* Only the empty sequence has length 0.
LEMMA SeqEmptiness ==
  ASSUME NEW S, NEW s \in Seq(S)
  PROVE  s = <<>> <=> Len(s) = 0
  OBVIOUS

\* Append adds one element at the end and leaves the others alone.
LEMMA AppendType ==
  ASSUME NEW S, NEW s \in Seq(S), NEW x \in S
  PROVE  /\ Append(s, x) \in Seq(S) /\ Append(s, x) # <<>>
         /\ Len(Append(s, x)) = Len(s) + 1 /\ Append(s, x)[Len(s) + 1] = x
         /\ \A i \in 1..Len(s) : Append(s, x)[i] = s[i]
  OBVIOUS

\* The concatenation of two sequences, element by element.
LEMMA ConcatItems ==
  ASSUME NEW S, NEW a \in Seq(S), NEW b \in Seq(S)
  PROVE  /\ a \o b \in Seq(S) /\ Len(a \o b) = Len(a) + Len(b)
         /\ \A i \in 1..(Len(a) + Len(b)) :
              (a \o b)[i] = IF i <= Len(a) THEN a[i] ELSE b[i - Len(a)]
  OBVIOUS

\* Tail, element by element.
LEMMA TailType ==
  ASSUME NEW S, NEW s \in Seq(S), s # <<>>
  PROVE  /\ Tail(s) \in Seq(S) /\ Len(Tail(s)) = Len(s) - 1
         /\ \A i \in 1..(Len(s) - 1) : Tail(s)[i] = s[i + 1]
  OBVIOUS

\* DropAt, element by element.
LEMMA DropAtProperties ==
  ASSUME NEW S, NEW s \in Seq(S), NEW k \in 1..Len(s)
  PROVE  /\ DropAt(s, k) \in Seq(S)
         /\ Len(DropAt(s, k)) = Len(s) - 1
         /\ \A i \in 1..(Len(s) - 1) : i < k => DropAt(s, k)[i] = s[i]
         /\ \A i \in 1..(Len(s) - 1) : i >= k => DropAt(s, k)[i] = s[i + 1]
<1> DEFINE a == SubSeq(s, 1, k - 1)
           b == SubSeq(s, k + 1, Len(s))
<1>1. Len(s) \in Nat /\ s \in [1..Len(s) -> S] /\ k \in Int /\ k + 1 \in Int
  BY SeqType
<1>2. /\ a \in Seq(S) /\ Len(a) = k - 1
      /\ \A i \in 1..(k - 1) : a[i] = s[i]
  OBVIOUS
<1>3. /\ b \in Seq(S) /\ Len(b) = Len(s) - k
      /\ \A i \in 1..(Len(s) - k) : b[i] = s[k + i]
  OBVIOUS
<1> HIDE DEF a, b
<1>4. /\ a \o b \in Seq(S) /\ Len(a \o b) = Len(a) + Len(b)
      /\ \A i \in 1..(Len(a) + Len(b)) :
           (a \o b)[i] = IF i <= Len(a) THEN a[i] ELSE b[i - Len(a)]
  BY <1>2, <1>3, ConcatItems
<1>5. ASSUME NEW i \in 1..(Len(s) - 1)
      PROVE  /\ i < k => (a \o b)[i] = s[i]
             /\ i >= k => (a \o b)[i] = s[i + 1]
  <2>1. i \in 1..(Len(a) + Len(b)) /\ Len(a) = k - 1
    BY <1>1, <1>2, <1>3
  <2>2. (a \o b)[i] = IF i <= Len(a) THEN a[i] ELSE b[i - Len(a)]
    BY <1>4, <2>1
  <2>3. CASE i < k
    <3>1. i <= Len(a) /\ i \in 1..(k - 1)
      BY <1>1, <2>1, <2>3
    <3>2. (a \o b)[i] = a[i] /\ a[i] = s[i]
      BY <1>2, <2>2, <3>1
    <3> QED BY <1>1, <2>3, <3>2
  <2>4. CASE i >= k
    <3>1. /\ ~(i <= Len(a)) /\ i - Len(a) \in 1..(Len(s) - k)
          /\ k + (i - Len(a)) = i + 1
      BY <1>1, <2>1, <2>4
    <3>2. (a \o b)[i] = b[i - Len(a)] /\ b[i - Len(a)] = s[k + (i - Len(a))]
      BY <1>3, <2>2, <3>1
    <3> QED BY SMTT(30), <1>1, <2>4, <3>1, <3>2
  <2> QED BY <1>1, <2>3, <2>4
<1>6. DropAt(s, k) = a \o b
  BY DEF DropAt, a, b
<1>7. Len(a) + Len(b) = Len(s) - 1
  BY <1>1, <1>2, <1>3
<1> QED BY <1>4, <1>5, <1>6, <1>7

\* Dropping position k of a list.
LEMMA DropAtElements ==
  ASSUME NEW S, NEW s \in Seq(S), IsInjective(s), NEW k \in 1..Len(s)
  PROVE  /\ Range(DropAt(s, k)) = Range(s) \ {s[k]}
         /\ IsInjective(DropAt(s, k))
<1> DEFINE n == Len(s)
           u == DropAt(s, k)
<1>a. /\ n \in Nat /\ k \in 1..n /\ s \in [1..n -> S]
      /\ u \in [1..(n - 1) -> S]
  BY SeqType, DropAtProperties
<1>b. /\ \A i \in 1..(n - 1) : i < k => u[i] = s[i]
      /\ \A i \in 1..(n - 1) : i >= k => u[i] = s[i + 1]
  BY DropAtProperties
<1> HIDE DEF n, u
<1>1. \A i, j \in 1..n : s[i] = s[j] => i = j
  BY <1>a DEF IsInjective
<1>2. ASSUME NEW x \in Range(u) PROVE x \in Range(s) /\ x # s[k]
  <2>1. PICK i \in 1..(n - 1) : x = u[i]
    BY <1>a, <1>b, <1>2 DEF Range
  <2>2. PICK j \in 1..n : j # k /\ x = s[j]
    <3>1. CASE i < k
      BY <1>a, <1>b, <2>1, <3>1
    <3>2. CASE i >= k
      BY <1>a, <1>b, <2>1, <3>2
    <3> QED BY <1>a, <1>b, <3>1, <3>2
  <2> QED BY <1>a, <1>b, <2>2, <1>1 DEF Range
<1>3. ASSUME NEW x \in Range(s), x # s[k] PROVE x \in Range(u)
  <2>1. PICK i \in 1..n : x = s[i]
    BY <1>a, <1>b, <1>3 DEF Range
  <2>2. PICK j \in 1..(n - 1) : x = u[j]
    <3>1. CASE i < k
      BY <1>a, <1>b, <2>1, <3>1
    <3>2. CASE i > k
      <4>1. i - 1 \in 1..(n - 1) /\ u[i - 1] = s[i]
        BY <1>a, <1>b, <3>2
      <4> QED BY <1>a, <1>b, <2>1, <4>1
    <3> QED BY <1>a, <1>b, <2>1, <1>3, <3>1, <3>2
  <2> QED BY <1>a, <1>b, <2>2 DEF Range
<1>4. IsInjective(u)
  <2> SUFFICES ASSUME NEW i \in 1..(n - 1), NEW j \in 1..(n - 1), u[i] = u[j]
               PROVE  i = j
    BY <1>a DEF IsInjective
  <2> QED BY <1>a, <1>b, <1>1
<1> QED BY <1>2, <1>3, <1>4 DEF u

\* QTAILQ_REMOVE of a linked element: the type, the elements, the order and the
\* absence of duplicates after the removal.
LEMMA UnlinkProperties ==
  ASSUME NEW S, NEW s \in Seq(S), NEW x \in Range(s), IsInjective(s)
  PROVE  /\ Unlink(s, x) \in Seq(S)
         /\ Len(Unlink(s, x)) = Len(s) - 1
         /\ Range(Unlink(s, x)) = Range(s) \ {x}
         /\ IsInjective(Unlink(s, x))
         /\ \E k \in 1..Len(s) :
              /\ s[k] = x
              /\ \A i \in 1..(Len(s) - 1) : i < k => Unlink(s, x)[i] = s[i]
              /\ \A i \in 1..(Len(s) - 1) : i >= k => Unlink(s, x)[i] = s[i + 1]
<1>1. Len(s) \in Nat /\ s \in [1..Len(s) -> S]
  BY SeqType
<1>2. \E i \in 1..Len(s) : s[i] = x
  BY <1>1 DEF Range
<1>3. PICK k \in 1..Len(s) : s[k] = x /\ Unlink(s, x) = DropAt(s, k)
  BY <1>2 DEF Unlink
<1>4. /\ DropAt(s, k) \in Seq(S) /\ Len(DropAt(s, k)) = Len(s) - 1
      /\ \A i \in 1..(Len(s) - 1) : i < k => DropAt(s, k)[i] = s[i]
      /\ \A i \in 1..(Len(s) - 1) : i >= k => DropAt(s, k)[i] = s[i + 1]
  BY DropAtProperties
<1>5. /\ Range(DropAt(s, k)) = Range(s) \ {s[k]}
      /\ IsInjective(DropAt(s, k))
  BY DropAtElements
<1> QED BY <1>3, <1>4, <1>5

\* QLIST_INSERT_HEAD of an element.
LEMMA LinkProperties ==
  ASSUME NEW S, NEW s \in Seq(S), NEW x \in S
  PROVE  /\ Link(x, s) \in Seq(S)
         /\ Len(Link(x, s)) = Len(s) + 1
         /\ Link(x, s)[1] = x
         /\ \A i \in 1..Len(s) : Link(x, s)[i + 1] = s[i]
         /\ Range(Link(x, s)) = Range(s) \cup {x}
         /\ IsInjective(s) /\ x \notin Range(s) => IsInjective(Link(x, s))
<1> DEFINE n == Len(s)
           c == Link(x, s)
<1>1. n \in Nat /\ s \in [1..n -> S]
  BY SeqType
<1>2. /\ <<x>> \o s \in Seq(S) /\ Len(<<x>> \o s) = 1 + Len(s)
      /\ (<<x>> \o s)[1] = x
      /\ \A i \in 1..Len(s) : (<<x>> \o s)[i + 1] = s[i]
  OBVIOUS
<1>3. /\ c \in Seq(S) /\ Len(c) = n + 1 /\ c[1] = x
      /\ \A i \in 1..n : c[i + 1] = s[i]
  BY <1>2 DEF Link
<1>4. c \in [1..(n + 1) -> S]
  BY <1>3, SeqType
<1> HIDE DEF n, c
<1>5. \A i \in 1..(n + 1) : i > 1 => i - 1 \in 1..n /\ c[i] = s[i - 1]
  BY <1>1, <1>3
<1>6. ASSUME NEW y \in Range(c) PROVE y \in Range(s) \cup {x}
  <2>1. PICK i \in 1..(n + 1) : y = c[i]
    BY <1>4, <1>6 DEF Range
  <2>2. CASE i > 1
    BY <1>1, <1>5, <2>1, <2>2 DEF Range
  <2> QED BY <1>1, <1>3, <2>1, <2>2
<1>7. ASSUME NEW y \in Range(s) PROVE y \in Range(c)
  <2>1. PICK i \in 1..n : y = s[i]
    BY <1>1, <1>7 DEF Range
  <2>2. i + 1 \in 1..(n + 1) /\ c[i + 1] = y
    BY <1>1, <1>3, <2>1
  <2> QED BY <1>4, <2>2 DEF Range
<1>8. x \in Range(c)
  BY <1>1, <1>3, <1>4 DEF Range
<1>9. ASSUME IsInjective(s), x \notin Range(s) PROVE IsInjective(c)
  <2>1. \A i, j \in 1..n : s[i] = s[j] => i = j
    BY <1>1, <1>9 DEF IsInjective
  <2>2. \A i \in 1..n : s[i] # x
    BY <1>1, <1>9 DEF Range
  <2> SUFFICES ASSUME NEW i \in 1..(n + 1), NEW j \in 1..(n + 1), c[i] = c[j]
               PROVE  i = j
    BY <1>4 DEF IsInjective
  <2>3. \A k \in 1..(n + 1) : k > 1 => k - 1 \in 1..n /\ c[k] = s[k - 1] /\ c[k] # x
    BY <1>5, <2>2
  <2>4. CASE i = 1 \/ j = 1
    BY <1>1, <1>3, <2>3, <2>4
  <2>5. CASE i > 1 /\ j > 1
    <3>1. i - 1 = j - 1
      BY <2>1, <2>3, <2>5
    <3> QED BY <1>1, <3>1
  <2> QED BY <1>1, <2>4, <2>5
<1> QED BY <1>3, <1>6, <1>7, <1>8, <1>9 DEF n, c

\* QTAILQ_INSERT_TAIL of an element.
LEMMA AppendElements ==
  ASSUME NEW S, NEW s \in Seq(S), NEW x \in S
  PROVE  /\ Append(s, x) \in Seq(S)
         /\ Range(Append(s, x)) = Range(s) \cup {x}
         /\ IsInjective(s) /\ x \notin Range(s) => IsInjective(Append(s, x))
<1> DEFINE n == Len(s)
           c == Append(s, x)
<1>1. n \in Nat /\ s \in [1..n -> S]
  BY SeqType
<1>2. /\ c \in Seq(S) /\ Len(c) = n + 1 /\ c[n + 1] = x
      /\ \A i \in 1..n : c[i] = s[i]
  BY AppendType
<1>3. c \in [1..(n + 1) -> S]
  BY <1>2, SeqType
<1> HIDE DEF n, c
<1>4. \A i \in 1..(n + 1) : i \in 1..n \/ i = n + 1
  BY <1>1
<1>5. ASSUME NEW y \in Range(c) PROVE y \in Range(s) \cup {x}
  <2>1. PICK i \in 1..(n + 1) : y = c[i]
    BY <1>3, <1>5 DEF Range
  <2> QED BY <1>1, <1>2, <1>4, <2>1 DEF Range
<1>6. ASSUME NEW y \in Range(s) PROVE y \in Range(c)
  <2>1. PICK i \in 1..n : y = s[i]
    BY <1>1, <1>6 DEF Range
  <2>2. i \in 1..(n + 1) /\ c[i] = y
    BY <1>1, <1>2, <2>1
  <2> QED BY <1>3, <2>2 DEF Range
<1>7. x \in Range(c)
  BY <1>1, <1>2, <1>3 DEF Range
<1>8. ASSUME IsInjective(s), x \notin Range(s) PROVE IsInjective(c)
  <2>1. \A i, j \in 1..n : s[i] = s[j] => i = j
    BY <1>1, <1>8 DEF IsInjective
  <2>2. \A i \in 1..n : s[i] # x
    BY <1>1, <1>8 DEF Range
  <2> SUFFICES ASSUME NEW i \in 1..(n + 1), NEW j \in 1..(n + 1), c[i] = c[j]
               PROVE  i = j
    BY <1>3 DEF IsInjective
  <2> QED BY <1>1, <1>2, <1>4, <2>1, <2>2
<1> QED BY <1>2, <1>5, <1>6, <1>7, <1>8 DEF n, c

\* Taking the first element of a list.
LEMMA TailElements ==
  ASSUME NEW S, NEW s \in Seq(S), s # <<>>
  PROVE  /\ Head(s) \in Range(s) /\ Head(s) \in S
         /\ Tail(s) \in Seq(S)
         /\ IsInjective(s) => /\ IsInjective(Tail(s))
                              /\ Range(Tail(s)) = Range(s) \ {Head(s)}
<1>1. Len(s) \in Nat \ {0} /\ s \in [1..Len(s) -> S] /\ Head(s) = s[1]
  BY SeqType, SeqEmptiness
<1>2. Head(s) \in Range(s) /\ Head(s) \in S
  BY <1>1 DEF Range
<1>3. Tail(s) \in Seq(S) /\ Len(Tail(s)) = Len(s) - 1
  BY TailType
<1>4. ASSUME IsInjective(s)
      PROVE  IsInjective(Tail(s)) /\ Range(Tail(s)) = Range(s) \ {Head(s)}
  <2>1. 1 \in 1..Len(s)
    BY <1>1
  <2>2. /\ Range(DropAt(s, 1)) = Range(s) \ {s[1]}
        /\ IsInjective(DropAt(s, 1))
    BY <2>1, <1>4, DropAtElements
  <2>3. Tail(s) = DropAt(s, 1)
    <3>1. \A i \in 1..(Len(s) - 1) : Tail(s)[i] = s[i + 1]
      BY TailType
    <3>2. /\ DropAt(s, 1) \in Seq(S) /\ Len(DropAt(s, 1)) = Len(s) - 1
          /\ \A i \in 1..(Len(s) - 1) : i >= 1 => DropAt(s, 1)[i] = s[i + 1]
      BY <2>1, DropAtProperties
    <3>3. /\ Tail(s) \in [1..(Len(s) - 1) -> S]
          /\ DropAt(s, 1) \in [1..(Len(s) - 1) -> S]
      BY <1>3, <3>2, SeqType
    <3>4. \A i \in 1..(Len(s) - 1) : Tail(s)[i] = DropAt(s, 1)[i]
      BY <1>1, <3>1, <3>2
    <3> QED BY <3>3, <3>4
  <2> QED BY <1>1, <2>2, <2>3
<1> QED BY <1>2, <1>3, <1>4

\* A stack kept in a sequence: popping, and replacing the top.
LEMMA StackProperties ==
  ASSUME NEW S, NEW s \in Seq(S), s # <<>>
  PROVE  /\ Len(s) \in Nat \ {0} /\ Peek(s) \in S /\ Peek(s) = s[Len(s)]
         /\ Pop(s) \in Seq(S) /\ Len(Pop(s)) = Len(s) - 1
         /\ \A i \in 1..(Len(s) - 1) : Pop(s)[i] = s[i]
         /\ \A x \in S :
              /\ Append(Pop(s), x) \in Seq(S)
              /\ Len(Append(Pop(s), x)) = Len(s)
              /\ \A i \in 1..(Len(s) - 1) : Append(Pop(s), x)[i] = s[i]
              /\ Append(Pop(s), x)[Len(s)] = x
<1>1. Len(s) \in Nat \ {0} /\ s \in [1..Len(s) -> S]
  BY SeqType, SeqEmptiness
<1>2. Peek(s) \in S /\ Peek(s) = s[Len(s)]
  BY <1>1 DEF Peek
<1>3. /\ SubSeq(s, 1, Len(s) - 1) \in Seq(S)
      /\ Len(SubSeq(s, 1, Len(s) - 1)) = Len(s) - 1
      /\ \A i \in 1..(Len(s) - 1) : SubSeq(s, 1, Len(s) - 1)[i] = s[i]
  BY <1>1
<1>4. /\ Pop(s) \in Seq(S) /\ Len(Pop(s)) = Len(s) - 1
      /\ \A i \in 1..(Len(s) - 1) : Pop(s)[i] = s[i]
  BY <1>3 DEF Pop
<1>5. ASSUME NEW x \in S
      PROVE  /\ Append(Pop(s), x) \in Seq(S)
             /\ Len(Append(Pop(s), x)) = Len(s)
             /\ \A i \in 1..(Len(s) - 1) : Append(Pop(s), x)[i] = s[i]
             /\ Append(Pop(s), x)[Len(s)] = x
  <2>1. /\ Append(Pop(s), x) \in Seq(S)
        /\ Len(Append(Pop(s), x)) = Len(Pop(s)) + 1
        /\ \A i \in 1..Len(Pop(s)) : Append(Pop(s), x)[i] = Pop(s)[i]
        /\ Append(Pop(s), x)[Len(Pop(s)) + 1] = x
    BY <1>4, AppendType
  <2> QED BY <1>1, <1>4, <2>1
<1> QED BY <1>1, <1>2, <1>4, <1>5

\* Concatenation joins the elements of two lists.
LEMMA ConcatElements ==
  ASSUME NEW S, NEW s \in Seq(S), NEW t \in Seq(S)
  PROVE  /\ s \o t \in Seq(S) /\ Range(s \o t) = Range(s) \cup Range(t)
         /\ IsInjective(s) /\ IsInjective(t) /\ Range(s) \cap Range(t) = {}
              => IsInjective(s \o t)
<1> DEFINE n == Len(s)  k == Len(t)  u == s \o t
<1>1. n \in Nat /\ k \in Nat /\ s \in [1..n -> S] /\ t \in [1..k -> S]
  BY SeqType
<1>2. /\ u \in Seq(S) /\ DOMAIN u = 1..(n + k)
      /\ \A i \in 1..(n + k) : u[i] = IF i <= n THEN s[i] ELSE t[i - n]
  BY ConcatItems, SeqType
<1>3. Range(u) = {u[i] : i \in 1..(n + k)}
  BY <1>2 DEF Range
<1>4. Range(s) = {s[i] : i \in 1..n} /\ Range(t) = {t[i] : i \in 1..k}
  BY <1>1 DEF Range
<1>5. Range(s) \cup Range(t) \subseteq Range(u)
  <2>1. ASSUME NEW i \in 1..n PROVE s[i] \in Range(u)
    <3>1. i \in 1..(n + k) /\ u[i] = s[i]
      BY <1>1, <1>2
    <3> QED BY <1>3, <3>1
  <2>2. ASSUME NEW i \in 1..k PROVE t[i] \in Range(u)
    <3>1. i + n \in 1..(n + k) /\ u[i + n] = t[i]
      BY <1>1, <1>2
    <3> QED BY <1>3, <3>1
  <2> QED BY <1>4, <2>1, <2>2
<1>6. Range(u) \subseteq Range(s) \cup Range(t)
  <2>1. ASSUME NEW i \in 1..(n + k) PROVE u[i] \in Range(s) \cup Range(t)
    <3>1. CASE i <= n
      BY <1>1, <1>2, <1>4, <3>1
    <3>2. CASE ~(i <= n)
      <4>1. i - n \in 1..k /\ u[i] = t[i - n]
        BY <1>1, <1>2, <3>2
      <4> QED BY <1>4, <4>1
    <3> QED BY <3>1, <3>2
  <2> QED BY <1>3, <2>1
<1>7. ASSUME IsInjective(s), IsInjective(t), Range(s) \cap Range(t) = {},
             NEW i \in 1..(n + k), NEW j \in 1..(n + k), u[i] = u[j]
      PROVE  i = j
  <2>1. CASE i <= n /\ j <= n
    BY <1>1, <1>2, <1>7, <2>1 DEF IsInjective
  <2>2. CASE i > n /\ j > n
    <3>1. i - n \in 1..k /\ j - n \in 1..k /\ t[i - n] = t[j - n]
      BY <1>1, <1>2, <1>7, <2>2
    <3>2. i - n = j - n
      BY <1>1, <1>7, <3>1 DEF IsInjective
    <3> QED BY <1>1, <3>2
  <2>3. CASE i <= n /\ j > n
    <3>1. u[i] \in Range(s)
      BY <1>1, <1>2, <1>4, <2>3
    <3>2. j - n \in 1..k /\ u[j] = t[j - n]
      BY <1>1, <1>2, <2>3
    <3>3. u[j] \in Range(t)
      BY <1>4, <3>2
    <3> QED BY <1>7, <3>1, <3>3
  <2>4. CASE i > n /\ j <= n
    <3>1. u[j] \in Range(s)
      BY <1>1, <1>2, <1>4, <2>4
    <3>2. i - n \in 1..k /\ u[i] = t[i - n]
      BY <1>1, <1>2, <2>4
    <3>3. u[i] \in Range(t)
      BY <1>4, <3>2
    <3> QED BY <1>7, <3>1, <3>3
  <2> QED BY <1>1, <2>1, <2>2, <2>3, <2>4
<1>8. IsInjective(s) /\ IsInjective(t) /\ Range(s) \cap Range(t) = {} => IsInjective(u)
  BY <1>2, <1>7 DEF IsInjective
<1> QED BY <1>2, <1>5, <1>6, <1>8
=============================================================================
