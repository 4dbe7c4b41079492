---------------------- MODULE TreeSitterLifetimeProofs ----------------------
(***************************************************************************)
(* Theorems about TreeSitterLifetime, for all sets of handles and threads: *)
(* its types, that the counters are exact, that a library or query lives   *)
(* exactly as long as it is open or used, and that nothing dangles.        *)
(***************************************************************************)
EXTENDS TreeSitterLifetime, FiniteSetTheorems, SequenceTheorems, TLAPS

Threads == Thread \cup {Collector}

\* Each pointer belongs to its kinds of handle, and is cleared with the resource;
\* a node keeps its tree, and a query its grammar only while it is compiled.
PointersOK ==
    \A x \in Handle :
        /\ language[x] # None => x \in Parser \cup Tree \cup Query
        /\ tree[x] # None => x \in Node \cup Cursor
        /\ query[x] # None => x \in Cursor
        /\ life[x] = "none" => language[x] = None /\ tree[x] = None /\ query[x] = None
        /\ x \in Node /\ life[x] # "none" => tree[x] # None
        /\ x \in Query /\ ~native[x] => language[x] = None

\* The program holds what its threads' calls are about, and they own it.
Setting(th) ==
    \E p \in Parser, l \in Language :
        call[th] = <<"set", p, l>> /\ Held(p) /\ owner[p] = th
Parsing(th) ==
    \E p \in Parser :
        call[th] = <<"parse", p>> /\ Held(p) /\ owner[p] = th /\ language[p] # None
Compiling(th) == \E l \in Language : call[th] = <<"compile", l>>
Executing(th) ==
    \E c \in Cursor, q \in Query, n \in Node :
        call[th] = <<"exec", c, q, n>> /\ Held(c) /\ owner[c] = th /\ Held(n)

\* A call is entered with nothing owed ...
CallOK(th) ==
    /\ call[th] # <<>> => owed[th] = <<>>
    /\ call[th] = <<>> \/ Setting(th) \/ Parsing(th) \/ Compiling(th) \/ Executing(th)

\* ... and the collector makes none.
Debtors == [Threads -> Seq(Counting)]

CallsOK ==
    /\ DOMAIN call = Threads
    /\ owed \in Debtors
    /\ call[Collector] = <<>>
    /\ \A th \in Thread : CallOK(th)

\* What the counters decide.
LivesOK ==
    /\ \A x \in Counting : life[x] = "none" => count[x] = 0
    /\ \A x \in Language \cup Query : native[x] <=> open[x] \/ count[x] > 0
    /\ \A x \in Handle : life[x] = "collected" => x \in Counting
    /\ \A x \in Language \cup Query : life[x] = "collected" => ~open[x]

Sum(x) == Cardinality(Pointing(x)) + Cardinality(Holding(x)) + Cardinality(Debts(x))
Finite(x) == IsFiniteSet(Pointing(x)) /\ IsFiniteSet(Holding(x)) /\ IsFiniteSet(Debts(x))

UsersOK == \A x \in Counting : Finite(x) /\ count[x] = Sum(x)

Inv ==
    /\ TypeOK
    /\ PointersOK
    /\ CallsOK
    /\ LivesOK
    /\ UsersOK

-----------------------------------------------------------------------------
(* Counting.                                                               *)

In(y, S) == IF y \in S THEN 1 ELSE 0
Is(a, x) == IF a = x THEN 1 ELSE 0

\* A set that changes at one element.
LEMMA Change ==
    ASSUME NEW S, NEW T, NEW y, IsFiniteSet(S), S \ {y} = T \ {y}
    PROVE  /\ IsFiniteSet(T)
           /\ Cardinality(T) = Cardinality(S) - In(y, S) + In(y, T)
<1>1. IsFiniteSet(S \ {y}) /\ Cardinality(S \ {y}) = Cardinality(S) - In(y, S)
    <2>1. Cardinality(S) \in Nat
        BY FS_CardinalityType
    <2>2. QED
        BY <2>1, FS_RemoveElement DEF In
<1>2. Cardinality(T \ {y}) \in Nat /\ Cardinality(S) \in Nat
    BY <1>1, FS_CardinalityType
<1>3. CASE y \in T
    <2>1. T = (T \ {y}) \cup {y}
        BY <1>3
    <2>2. IsFiniteSet(T) /\ Cardinality(T) = Cardinality(T \ {y}) + 1
        BY <1>1, <2>1, FS_AddElement
    <2>3. QED
        BY <1>1, <1>2, <1>3, <2>2 DEF In
<1>4. CASE y \notin T
    <2>1. T = S \ {y}
        BY <1>4
    <2>2. In(y, T) = 0 /\ In(y, S) \in Nat
        BY <1>4 DEF In
    <2>3. IsFiniteSet(T) /\ Cardinality(T) = Cardinality(S) - In(y, S)
        BY <1>1, <2>1
    <2>4. QED
        BY <1>2, <2>2, <2>3
<1>5. QED
    BY <1>3, <1>4

LEMMA Disjoint ==
    ASSUME NEW S, NEW T, IsFiniteSet(S), IsFiniteSet(T), NEW U,
           \A z : z \in U <=> z \in S \/ z \in T,  \A z : ~(z \in S /\ z \in T)
    PROVE  IsFiniteSet(U) /\ Cardinality(U) = Cardinality(S) + Cardinality(T)
<1>1. PICK V : V = S \cap T
    OBVIOUS
<1>2. V = {}
    BY <1>1
<1>3. Cardinality(V) = 0
    BY <1>2, FS_EmptySet
<1>4. Cardinality(S) \in Nat /\ Cardinality(T) \in Nat
    BY FS_CardinalityType
<1>5. U = S \cup T
    OBVIOUS
<1>6. IsFiniteSet(U) /\ Cardinality(U) = Cardinality(S) + Cardinality(T) - Cardinality(V)
    BY <1>1, <1>5, FS_Union
<1>7. QED
    BY <1>3, <1>4, <1>6

\* How often x is owed by a thread that owes s.
Occ(s, x) == Cardinality(Places(s, x))

LEMMA PlacesFinite ==
    ASSUME NEW X, NEW s \in Seq(X), NEW x
    PROVE  IsFiniteSet(Places(s, x)) /\ Occ(s, x) \in Nat
<1>1. IsFiniteSet(1..Len(s)) /\ Places(s, x) \in SUBSET (1..Len(s))
    BY FS_Interval DEF Places
<1>2. QED
    BY <1>1, FS_Subset, FS_CardinalityType DEF Occ

LEMMA OccEmpty == \A x : Occ(<<>>, x) = 0
<1>1. \A x : Places(<<>>, x) = {}
    BY DEF Places
<1>2. QED
    BY <1>1, FS_EmptySet DEF Occ

Cons(a, s) == <<a>> \o s

LEMMA OccCons ==
    ASSUME NEW X, NEW a \in X, NEW s \in Seq(X), NEW x
    PROVE  Cons(a, s) \in Seq(X) /\ Occ(Cons(a, s), x) = Is(a, x) + Occ(s, x)
<1> DEFINE t == Cons(a, s)
           P == Places(s, x)
           Q == {i + 1 : i \in P}
           Up == [i \in P |-> i + 1]
<1>1. t \in Seq(X) /\ Len(t) = Len(s) + 1 /\ t[1] = a
      /\ \A i \in 1..Len(s) : t[i + 1] = s[i]
    BY DEF Cons
<1> HIDE DEF t
<1>2. IsFiniteSet(P) /\ Cardinality(P) \in Nat /\ P \subseteq 1..Len(s)
    <2>1. IsFiniteSet(P) /\ Cardinality(P) \in Nat
        BY PlacesFinite DEF Occ
    <2>2. P \subseteq 1..Len(s)
        BY DEF Places
    <2>3. QED
        BY <2>1, <2>2
<1>3. IsFiniteSet(Q) /\ Cardinality(Q) = Cardinality(P)
    <2>1. Up \in Bijection(P, Q)
        BY <1>2 DEF Bijection, Injection, Surjection, IsInjective
    <2>2. QED
        BY <1>2, <2>1, FS_Bijection DEF ExistsBijection
<1>4. 1 \notin Q
    BY <1>2
<1>5. Places(t, x) \ {1} = Q \ {1}
    <2>1. ASSUME NEW i \in Places(t, x) \ {1}
          PROVE  i \in Q
        <3>1. i \in 2..(Len(s) + 1) /\ t[i] = x
            BY <1>1, <2>1 DEF Places
        <3>2. i - 1 \in 1..Len(s) /\ s[i - 1] = x /\ i = (i - 1) + 1
            BY <1>1, <3>1
        <3>3. i - 1 \in P
            BY <3>2 DEF Places
        <3>4. QED
            BY <3>2, <3>3
    <2>2. ASSUME NEW i \in P
          PROVE  i + 1 \in Places(t, x)
        <3>1. i \in 1..Len(s) /\ s[i] = x
            BY <2>2 DEF Places
        <3>2. i + 1 \in 1..Len(t) /\ t[i + 1] = x
            BY <1>1, <3>1
        <3>3. QED
            BY <1>1, <3>2 DEF Places
    <2>3. QED
        BY <1>2, <1>4, <2>1, <2>2
<1>6. Cardinality(Places(t, x)) = Cardinality(Q) - In(1, Q) + In(1, Places(t, x))
    BY <1>3, <1>5, Change
<1>7. 1 \in Places(t, x) <=> a = x
    BY <1>1 DEF Places
<1>8. QED
    BY <1>1, <1>2, <1>3, <1>4, <1>6, <1>7 DEF Occ, In, Is, t

\* A release that is owed first.
LEMMA OccSome ==
    ASSUME NEW a \in Counting \cup {None}, NEW s \in Seq(Counting), NEW x \in Counting
    PROVE  /\ Some(a) \in Seq(Counting)
           /\ Some(a) \o s \in Seq(Counting)
           /\ Occ(Some(a), x) = Is(a, x)
           /\ Occ(Some(a) \o s, x) = Is(a, x) + Occ(s, x)
<1>0. x # None
    BY NoneAssumption DEF Counting, Handle
<1>1. Occ(s, x) \in Nat
    BY PlacesFinite
<1>2. CASE a = None
    <2>1. Some(a) = <<>> /\ Some(a) \o s = s /\ Is(a, x) = 0
        BY <1>0, <1>2 DEF Some, Is
    <2>2. QED
        BY <1>1, <2>1, OccEmpty
<1>3. CASE a # None
    <2>1. Some(a) = <<a>> /\ a \in Counting
        BY <1>3 DEF Some
    <2>2. PICK e : e = <<>>
        OBVIOUS
    <2>3. e \in Seq(Counting) /\ Some(a) = Cons(a, e)
        BY <2>1, <2>2 DEF Cons
    <2>4. Some(a) \in Seq(Counting) /\ Occ(Some(a), x) = Is(a, x) + Occ(e, x)
        BY <2>1, <2>3, OccCons
    <2>5. Cons(a, s) \in Seq(Counting) /\ Occ(Cons(a, s), x) = Is(a, x) + Occ(s, x)
        BY <2>1, OccCons
    <2>6. Is(a, x) \in Nat
        BY DEF Is
    <2>7. Occ(e, x) = 0
        BY <2>2, OccEmpty
    <2>8. Some(a) \o s = Cons(a, s)
        BY <2>1 DEF Cons
    <2>9. QED
        BY <2>4, <2>5, <2>6, <2>7, <2>8
<1>4. QED
    BY <1>2, <1>3

\* The first release that is owed is made.
LEMMA OccTail ==
    ASSUME NEW s \in Seq(Counting), s # <<>>, NEW x
    PROVE  /\ Head(s) \in Counting
           /\ Tail(s) \in Seq(Counting)
           /\ Occ(s, x) = Is(Head(s), x) + Occ(Tail(s), x)
<1>1. Head(s) \in Counting /\ Tail(s) \in Seq(Counting) /\ s = Cons(Head(s), Tail(s))
    <2>1. PICK t : t = Cons(Head(s), Tail(s))
        OBVIOUS
    <2>2. Head(s) \in Counting /\ Tail(s) \in Seq(Counting)
        BY HeadTailProperties
    <2>3. Len(s) \in Nat \ {0} /\ Len(Tail(s)) = Len(s) - 1
        OBVIOUS
    <2>4. t \in Seq(Counting) /\ Len(t) = Len(s) /\ \A i \in 1..Len(s) : t[i] = s[i]
        BY <2>1, <2>2, <2>3 DEF Cons
    <2>5. s = t
        BY <2>4, SeqEqual
    <2>6. QED
        BY <2>1, <2>2, <2>5
<1>2. PICK h, r : h = Head(s) /\ r = Tail(s)
    OBVIOUS
<1>3. h \in Counting /\ r \in Seq(Counting) /\ s = Cons(h, r)
    BY <1>1, <1>2
<1>4. Occ(Cons(h, r), x) = Is(h, x) + Occ(r, x)
    BY <1>3, OccCons
<1>5. Occ(s, x) = Is(h, x) + Occ(r, x)
    BY <1>3, <1>4
<1>6. QED
    BY <1>1, <1>2, <1>5

DebtsOf(F, x) == UNION {{th} \X Places(F[th], x) : th \in Threads}

LEMMA PairsCount ==
    ASSUME NEW X, NEW s \in Seq(X), NEW th, NEW x
    PROVE  /\ IsFiniteSet({th} \X Places(s, x))
           /\ Cardinality({th} \X Places(s, x)) = Occ(s, x)
<1> DEFINE P == Places(s, x)
           Q == {th} \X P
           Pair == [i \in P |-> <<th, i>>]
<1>1. IsFiniteSet(P)
    BY PlacesFinite
<1>2. Pair \in Bijection(P, Q)
    BY DEF Bijection, Injection, Surjection, IsInjective
<1>3. QED
    BY <1>1, <1>2, FS_Bijection DEF ExistsBijection, Occ

\* One thread owes something else.
LEMMA Reowe ==
    ASSUME NEW F \in Debtors, NEW th \in Threads,
           NEW s \in Seq(Counting), NEW x, IsFiniteSet(DebtsOf(F, x)),
           NEW G, G[th] = s, \A u \in Threads : u # th => G[u] = F[u]
    PROVE  /\ IsFiniteSet(DebtsOf(G, x))
           /\ Cardinality(DebtsOf(G, x)) =
                Cardinality(DebtsOf(F, x)) - Occ(F[th], x) + Occ(s, x)
<1> DEFINE R == {d \in DebtsOf(F, x) : d[1] # th}
           A == {th} \X Places(F[th], x)
           B == {th} \X Places(s, x)
<1>1. IsFiniteSet(A) /\ Cardinality(A) = Occ(F[th], x)
    BY PairsCount DEF Debtors
<1>2. IsFiniteSet(B) /\ Cardinality(B) = Occ(s, x)
    BY PairsCount
<1>3. DebtsOf(F, x) = R \cup A
    <2>1. \A d \in DebtsOf(F, x) : d \in R \/ d \in A
        BY DEF DebtsOf
    <2>2. A \subseteq DebtsOf(F, x)
        BY DEF DebtsOf
    <2>3. QED
        BY <2>1, <2>2
<1>4. DebtsOf(G, x) = R \cup B
    <2>1. G[th] = s /\ \A u \in Threads : u # th => G[u] = F[u]
        OBVIOUS
    <2>2. \A d \in DebtsOf(G, x) : d \in R \/ d \in B
        BY <2>1 DEF DebtsOf
    <2>3. B \subseteq DebtsOf(G, x)
        BY <2>1 DEF DebtsOf
    <2>4. R \subseteq DebtsOf(G, x)
        BY <2>1 DEF DebtsOf
    <2>5. QED
        BY <2>2, <2>3, <2>4
<1>5. IsFiniteSet(R) /\ \A d \in R : d \notin A /\ d \notin B
    <2>1. IsFiniteSet(R)
        BY FS_Subset
    <2>2. QED
        BY <2>1
<1>6. /\ \A d : d \in DebtsOf(F, x) <=> d \in R \/ d \in A
      /\ \A d : d \in DebtsOf(G, x) <=> d \in R \/ d \in B
    BY <1>3, <1>4
<1> HIDE DEF R, A, B
<1>7. Cardinality(R) \in Nat /\ Cardinality(A) \in Nat /\ Cardinality(B) \in Nat
    BY <1>1, <1>2, <1>5, FS_CardinalityType
<1>8. Cardinality(DebtsOf(F, x)) = Cardinality(R) + Cardinality(A)
    BY <1>1, <1>5, <1>6, Disjoint
<1>9. IsFiniteSet(DebtsOf(G, x)) /\ Cardinality(DebtsOf(G, x)) = Cardinality(R) + Cardinality(B)
    BY <1>2, <1>5, <1>6, Disjoint
<1>10. QED
    BY <1>1, <1>2, <1>7, <1>8, <1>9

\* A step changes the pointers of one handle y, the call of one thread th and what
\* it owes, which is s then, as far as x goes.
OnlyBy(y, th, s, x) ==
    /\ \A z \in Handle : z # y => (Points(z, x)' <=> Points(z, x))
    /\ \A u \in Thread : u # th => (Holds(u, x)' <=> Holds(u, x))
    /\ owed'[th] = s
    /\ \A u \in Threads : u # th => owed'[u] = owed[u]

\* The users of x change by what y and th had and have to do with x.
LEMMA Balance ==
    ASSUME NEW x, Finite(x), owed \in Debtors,
           NEW y, NEW th \in Threads, NEW s \in Seq(Counting), OnlyBy(y, th, s, x)
    PROVE  /\ Finite(x)'
           /\ Sum(x)' = Sum(x) + (In(y, Pointing(x)') - In(y, Pointing(x)))
                               + (In(th, Holding(x)') - In(th, Holding(x)))
                               + (Occ(s, x) - Occ(owed[th], x))
<1>1. /\ IsFiniteSet(Pointing(x)')
      /\ Cardinality(Pointing(x)') =
            Cardinality(Pointing(x)) - In(y, Pointing(x)) + In(y, Pointing(x)')
    <2>1. Pointing(x) \ {y} = Pointing(x)' \ {y}
        BY DEF OnlyBy, Pointing
    <2>2. QED
        BY <2>1, Change DEF Finite
<1>2. /\ IsFiniteSet(Holding(x)')
      /\ Cardinality(Holding(x)') =
            Cardinality(Holding(x)) - In(th, Holding(x)) + In(th, Holding(x)')
    <2>1. Holding(x) \ {th} = Holding(x)' \ {th}
        BY DEF OnlyBy, Holding
    <2>2. QED
        BY <2>1, Change DEF Finite
<1>3. /\ IsFiniteSet(Debts(x)')
      /\ Cardinality(Debts(x)') = Cardinality(Debts(x)) - Occ(owed[th], x) + Occ(s, x)
    <2>1. Debts(x) = DebtsOf(owed, x) /\ Debts(x)' = DebtsOf(owed', x)
        BY DEF Debts, DebtsOf, Threads
    <2>2. IsFiniteSet(DebtsOf(owed, x))
        BY <2>1 DEF Finite
    <2>3. /\ IsFiniteSet(DebtsOf(owed', x))
          /\ Cardinality(DebtsOf(owed', x)) =
                Cardinality(DebtsOf(owed, x)) - Occ(owed[th], x) + Occ(s, x)
        BY <2>2, Reowe DEF OnlyBy
    <2>4. QED
        BY <2>1, <2>3
<1>4. /\ Cardinality(Pointing(x)) \in Nat /\ Cardinality(Holding(x)) \in Nat
      /\ Cardinality(Debts(x)) \in Nat /\ Cardinality(Pointing(x)') \in Nat
      /\ Cardinality(Holding(x)') \in Nat /\ Cardinality(Debts(x)') \in Nat
    BY <1>1, <1>2, <1>3, FS_CardinalityType DEF Finite
<1>5. /\ In(y, Pointing(x)) \in 0..1 /\ In(y, Pointing(x)') \in 0..1
      /\ In(th, Holding(x)) \in 0..1 /\ In(th, Holding(x)') \in 0..1
    BY DEF In
<1>6. Occ(s, x) \in Nat /\ Occ(owed[th], x) \in Nat
    BY PlacesFinite DEF Debtors
<1>7. Finite(x)'
    BY <1>1, <1>2, <1>3 DEF Finite
<1>8. /\ Sum(x) = Cardinality(Pointing(x)) + Cardinality(Holding(x)) + Cardinality(Debts(x))
      /\ Sum(x)' = Cardinality(Pointing(x)') + Cardinality(Holding(x)') + Cardinality(Debts(x)')
    BY DEF Sum
<1> DEFINE DP == In(y, Pointing(x)') - In(y, Pointing(x))
           DH == In(th, Holding(x)') - In(th, Holding(x))
           DD == Occ(s, x) - Occ(owed[th], x)
<1>9. /\ DP \in Int /\ Cardinality(Pointing(x)') = Cardinality(Pointing(x)) + DP
      /\ DH \in Int /\ Cardinality(Holding(x)') = Cardinality(Holding(x)) + DH
      /\ DD \in Int /\ Cardinality(Debts(x)') = Cardinality(Debts(x)) + DD
    BY <1>1, <1>2, <1>3, <1>4, <1>5, <1>6
<1> HIDE DEF DP, DH, DD
<1>10. Sum(x)' = Sum(x) + DP + DH + DD
    <2>1. Sum(x)' = (Cardinality(Pointing(x)) + DP) + (Cardinality(Holding(x)) + DH)
                      + (Cardinality(Debts(x)) + DD)
        BY <1>8, <1>9
    <2>2. /\ Cardinality(Pointing(x)) \in Nat /\ Cardinality(Holding(x)) \in Nat
          /\ Cardinality(Debts(x)) \in Nat
        BY <1>4
    <2>3. DP \in Int /\ DH \in Int /\ DD \in Int
        BY <1>9
    <2>4. QED
        BY <1>8, <2>1, <2>2, <2>3
<1>11. QED
    BY <1>7, <1>10 DEF DP, DH, DD

-----------------------------------------------------------------------------
(* The invariant.                                                          *)

LEMMA KindsDiffer ==
    /\ \A x \in Language : x \notin Parser /\ x \notin Tree /\ x \notin Node /\ x \notin Query /\ x \notin Cursor
    /\ \A x \in Parser : x \notin Tree /\ x \notin Node /\ x \notin Query /\ x \notin Cursor
    /\ \A x \in Tree : x \notin Node /\ x \notin Query /\ x \notin Cursor
    /\ \A x \in Node : x \notin Query /\ x \notin Cursor
    /\ \A x \in Query : x \notin Cursor
<1> DEFINE D(i, j) == Kinds[i] \cap Kinds[j] = {}
<1>1. DOMAIN Kinds = 1..6
    BY DEF Kinds
<1>2. /\ D(1, 2) /\ D(1, 3) /\ D(1, 4) /\ D(1, 5) /\ D(1, 6)
      /\ D(2, 3) /\ D(2, 4) /\ D(2, 5) /\ D(2, 6)
      /\ D(3, 4) /\ D(3, 5) /\ D(3, 6) /\ D(4, 5) /\ D(4, 6) /\ D(5, 6)
    BY <1>1, KindAssumption
<1>3. /\ Kinds[1] = Language /\ Kinds[2] = Parser /\ Kinds[3] = Tree
      /\ Kinds[4] = Node /\ Kinds[5] = Query /\ Kinds[6] = Cursor
    BY DEF Kinds
<1>4. QED
    BY <1>2, <1>3

\* What is used is what is counted.
LEMMA Counted ==
    ASSUME Inv, NEW x \in Counting
    PROVE  count[x] \in Nat /\ (Used(x) <=> count[x] > 0)
<1>1. Finite(x) /\ count[x] = Sum(x)
    BY DEF Inv, UsersOK
<1>2. /\ Cardinality(Pointing(x)) \in Nat /\ Cardinality(Holding(x)) \in Nat
      /\ Cardinality(Debts(x)) \in Nat
    BY <1>1, FS_CardinalityType DEF Finite
<1>3. /\ Cardinality(Pointing(x)) = 0 <=> Pointing(x) = {}
      /\ Cardinality(Holding(x)) = 0 <=> Holding(x) = {}
      /\ Cardinality(Debts(x)) = 0 <=> Debts(x) = {}
    BY <1>1, FS_EmptySet DEF Finite
<1>4. QED
    BY <1>1, <1>2, <1>3 DEF Sum, Used

LEMMA PointedAt ==
    ASSUME Inv, NEW x \in Counting, NEW y \in Handle, Points(y, x)
    PROVE  count[x] > 0
BY Counted DEF Used, Pointing

LEMMA Owed ==
    ASSUME Inv, NEW th \in Threads, owed[th] # <<>>
    PROVE  /\ owed[th] \in Seq(Counting) /\ Head(owed[th]) \in Counting
           /\ Tail(owed[th]) \in Seq(Counting) /\ count[Head(owed[th])] > 0
<1> DEFINE x == Head(owed[th])
<1>1. owed[th] \in Seq(Counting)
    BY DEF Inv, CallsOK, Debtors
<1>2. x \in Counting /\ Tail(owed[th]) \in Seq(Counting)
    BY <1>1, OccTail
<1>3. 1 \in Places(owed[th], x)
    BY <1>1 DEF Places
<1>4. <<th, 1>> \in Debts(x)
    BY <1>3 DEF Debts, Threads
<1> HIDE DEF x
<1>5. count[x] > 0
    BY <1>2, <1>4, Counted DEF Used
<1>6. QED
    BY <1>1, <1>2, <1>5 DEF x

\* What a step of another thread leaves to u.
Spares(u) ==
    /\ call'[u] = call[u] /\ owed'[u] = owed[u]
    /\ \A z \in Handle : Held(z) => Held(z)' /\ owner'[z] = owner[z]
    /\ \A z \in Handle : Held(z) /\ owner[z] = u =>
          /\ z \in Parser /\ language[z] # None => language'[z] # None
          /\ z \in Cursor => query'[z] = query[z]

\* A step of th, after which it owes s.
Acts(th, s) ==
    /\ DOMAIN call' = Threads /\ owed' \in Debtors /\ call'[Collector] = <<>>
    /\ owed'[th] = s
    /\ \A u \in Threads : u # th => owed'[u] = owed[u]
    /\ \A u \in Thread : u # th => Spares(u)

LEMMA HandleKinds ==
    /\ \A x \in Language : x \in Handle /\ x \in Counting
    /\ \A x \in Parser : x \in Handle
    /\ \A x \in Tree : x \in Handle /\ x \in Counting
    /\ \A x \in Node : x \in Handle
    /\ \A x \in Query : x \in Handle /\ x \in Counting
    /\ \A x \in Cursor : x \in Handle
    /\ \A x \in Handle : x # None
    /\ \A x \in Counting : x \in Handle /\ x # None
BY NoneAssumption DEF Handle, Counting

LEMMA CallKept ==
    ASSUME NEW u \in Thread, CallOK(u), Spares(u)
    PROVE  CallOK(u)' /\ \A x : Holds(u, x)' <=> Holds(u, x)
<1>1. call'[u] = call[u] /\ owed'[u] = owed[u]
    BY DEF Spares
<1>2. \A z \in Handle : Held(z) => Held(z)' /\ owner'[z] = owner[z]
    BY DEF Spares
<1>3. \A z \in Handle : Held(z) /\ owner[z] = u =>
          /\ z \in Parser /\ language[z] # None => language'[z] # None
          /\ z \in Cursor => query'[z] = query[z]
    BY DEF Spares
<1>4. CASE call[u] = <<>>
    BY <1>1, <1>4 DEF CallOK, Holds
<1>5. CASE call[u] # <<>> /\ Setting(u)
    <2>1. PICK p \in Parser, l \in Language :
            call[u] = <<"set", p, l>> /\ Held(p) /\ owner[p] = u
        BY <1>5 DEF Setting
    <2>2. Setting(u)'
        BY <1>1, <1>2, <2>1, HandleKinds DEF Setting
    <2>3. \A x : Holds(u, x)' <=> Holds(u, x)
        BY <1>1, <2>1 DEF Holds
    <2>4. QED
        BY <1>1, <1>5, <2>2, <2>3 DEF CallOK
<1>6. CASE call[u] # <<>> /\ Parsing(u)
    <2>1. PICK p \in Parser :
            call[u] = <<"parse", p>> /\ Held(p) /\ owner[p] = u /\ language[p] # None
        BY <1>6 DEF Parsing
    <2>2. Parsing(u)'
        BY <1>1, <1>2, <1>3, <2>1, HandleKinds DEF Parsing
    <2>3. \A x : Holds(u, x)' <=> Holds(u, x)
        BY <1>1, <2>1 DEF Holds
    <2>4. QED
        BY <1>1, <1>6, <2>2, <2>3 DEF CallOK
<1>7. CASE call[u] # <<>> /\ Compiling(u)
    <2>1. PICK l \in Language : call[u] = <<"compile", l>>
        BY <1>7 DEF Compiling
    <2>2. Compiling(u)'
        BY <1>1, <2>1 DEF Compiling
    <2>3. \A x : Holds(u, x)' <=> Holds(u, x)
        BY <1>1, <2>1 DEF Holds
    <2>4. QED
        BY <1>1, <1>7, <2>2, <2>3 DEF CallOK
<1>8. CASE call[u] # <<>> /\ Executing(u)
    <2>1. PICK c \in Cursor, q \in Query, n \in Node :
            call[u] = <<"exec", c, q, n>> /\ Held(c) /\ owner[c] = u /\ Held(n)
        BY <1>8 DEF Executing
    <2>2. Executing(u)'
        BY <1>1, <1>2, <2>1, HandleKinds DEF Executing
    <2>3. query'[c] = query[c]
        BY <1>3, <2>1, HandleKinds
    <2>4. \A x : Holds(u, x)' <=> Holds(u, x)
        BY <1>1, <2>1, <2>3 DEF Holds
    <2>5. QED
        BY <1>1, <1>8, <2>2, <2>4 DEF CallOK
<1>9. QED
    BY <1>4, <1>5, <1>6, <1>7, <1>8 DEF CallOK

\* A step of th leaves the calls of the others alone.
LEMMA CallsKept ==
    ASSUME Inv, NEW th \in Threads, NEW s, Acts(th, s), th \in Thread => CallOK(th)'
    PROVE  CallsOK' /\ \A u \in Thread : u # th => \A x : Holds(u, x)' <=> Holds(u, x)
<1>1. \A u \in Thread : u # th => CallOK(u)' /\ \A x : Holds(u, x)' <=> Holds(u, x)
    BY CallKept DEF Inv, CallsOK, Acts
<1>2. \A u \in Thread : CallOK(u)'
    BY <1>1
<1>3. DOMAIN call' = Threads /\ owed' \in Debtors /\ call'[Collector] = <<>>
    BY DEF Acts
<1>4. QED
    BY <1>1, <1>2, <1>3 DEF CallsOK

\* The pointers of y to x: at most one, as they point to different kinds.
PointsSum(y, x) == Is(language[y], x) + Is(tree[y], x) + Is(query[y], x)

LEMMA PointersDiffer ==
    ASSUME NEW l \in Language \cup {None}, NEW t \in Tree \cup {None},
           NEW q \in Query \cup {None}, NEW x \in Counting
    PROVE  /\ Is(l, x) + Is(t, x) + Is(q, x) = IF x \in {l, t, q} THEN 1 ELSE 0
           /\ Is(l, x) + Is(t, x) + Is(q, x) \in 0..1
<1>1. x # None
    BY HandleKinds
<1>2. (x = l => x # t /\ x # q) /\ (x = t => x # q)
    BY <1>1, KindsDiffer
<1>3. QED
    BY <1>2 DEF Is

LEMMA PointsCount ==
    ASSUME TypeOK, NEW y \in Handle, NEW x \in Counting
    PROVE  In(y, Pointing(x)) = PointsSum(y, x) /\ PointsSum(y, x) \in 0..1
<1>1. /\ language[y] \in Language \cup {None} /\ tree[y] \in Tree \cup {None}
      /\ query[y] \in Query \cup {None}
    BY DEF TypeOK
<1>2. In(y, Pointing(x)) = IF x \in {language[y], tree[y], query[y]} THEN 1 ELSE 0
    BY DEF In, Pointing, Points
<1>3. QED
    BY <1>1, <1>2, PointersDiffer DEF PointsSum

LEMMA PointsCountNext ==
    ASSUME TypeOK', NEW y \in Handle, NEW x \in Counting
    PROVE  In(y, Pointing(x)') = PointsSum(y, x)' /\ PointsSum(y, x)' \in 0..1
<1>1. /\ language'[y] \in Language \cup {None} /\ tree'[y] \in Tree \cup {None}
      /\ query'[y] \in Query \cup {None}
    BY DEF TypeOK
<1>2. In(y, Pointing(x)') = IF x \in {language'[y], tree'[y], query'[y]} THEN 1 ELSE 0
    BY DEF In, Pointing, Points
<1>3. QED
    BY <1>1, <1>2, PointersDiffer DEF PointsSum


\* A step of th changes the pointers of y only.
Repoints(y) ==
    \A z \in Handle : z # y =>
        language'[z] = language[z] /\ tree'[z] = tree[z] /\ query'[z] = query[z]

LEMMA Accounted ==
    ASSUME Inv, TypeOK', NEW th \in Threads, NEW s \in Seq(Counting), Acts(th, s),
           th \in Thread => CallOK(th)', NEW y \in Handle, Repoints(y), NEW x \in Counting
    PROVE  /\ Finite(x)'
           /\ Sum(x)' = count[x] + (PointsSum(y, x)' - PointsSum(y, x))
                                 + (In(th, Holding(x)') - In(th, Holding(x)))
                                 + (Occ(s, x) - Occ(owed[th], x))
<1>1. Finite(x) /\ count[x] = Sum(x) /\ owed \in Debtors /\ TypeOK
    BY DEF Inv, UsersOK, CallsOK
<1>2. OnlyBy(y, th, s, x)
    <2>1. \A z \in Handle : z # y => (Points(z, x)' <=> Points(z, x))
        BY DEF Repoints, Points
    <2>2. \A u \in Thread : u # th => (Holds(u, x)' <=> Holds(u, x))
        BY CallsKept
    <2>3. QED
        BY <2>1, <2>2 DEF OnlyBy, Acts
<1>3. In(y, Pointing(x)) = PointsSum(y, x)
    BY <1>1, PointsCount
<1>4. In(y, Pointing(x)') = PointsSum(y, x)'
    BY PointsCountNext
<1>5. QED
    BY <1>1, <1>2, <1>3, <1>4, Balance

-----------------------------------------------------------------------------
(* Every step keeps it.                                                    *)

\* LoadLanguage, CreateParser, CreateCursor
LEMMA BornKeeps ==
    ASSUME Inv, NEW th \in Thread, NEW x \in Language \cup Parser \cup Cursor,
           Idle(th), Make(th, x), UNCHANGED <<count, pointers, call, owed>>
    PROVE  Inv'
<1> USE DEF pointers
<1>1. x \in Handle /\ life[x] = "none"
    BY HandleKinds DEF Make
<1>2. PICK l \in {"held", "dropped"} : life' = [life EXCEPT ![x] = l]
    BY DEF Make, Publish
<1>3. TypeOK'
    BY <1>1, <1>2 DEF Inv, TypeOK, Make
<1>4. CallOK(th)'
    BY DEF Idle, CallOK
<1>5. Acts(th, <<>>)
    BY <1>1, <1>2 DEF Inv, TypeOK, Make, CallsOK, Acts, Spares, Held, Idle, Debtors
<1>6. CallsOK'
    BY <1>4, <1>5, CallsKept DEF Threads
<1>7. PointersOK'
    BY <1>1, <1>2, KindsDiffer DEF Inv, TypeOK, PointersOK, Make
<1>8. LivesOK'
    BY <1>1, <1>2, HandleKinds DEF Inv, TypeOK, LivesOK, Make
<1>9. UsersOK'
    BY DEF Inv, UsersOK, Finite, Sum, Pointing, Points, Holding, Holds, Debts
<1>10. QED
    BY <1>3, <1>6, <1>7, <1>8, <1>9 DEF Inv

\* Whether the call of th, or what it owes, has to do with x, before and after.
LEMMA InHolding ==
    ASSUME NEW th, NEW x
    PROVE  /\ In(th, Holding(x)) = IF th \in Thread /\ Holds(th, x) THEN 1 ELSE 0
           /\ In(th, Holding(x)') = IF th \in Thread /\ Holds(th, x)' THEN 1 ELSE 0
BY DEF In, Holding

\* Parse, SetLanguage, Compile, Exec: what is retained is what the call holds.
LEMMA EnterKeeps ==
    ASSUME Inv, NEW th \in Thread, NEW c, Idle(th), Enter(th, c),
           UNCHANGED <<life, open, native, pointers, owner, owed>>,
           CallOK(th)', count' \in [Counting -> Nat],
           \A x \in Counting : count'[x] = count[x] + In(th, Holding(x)'),
           \A x \in Counting : count'[x] # count[x] => native[x]
    PROVE  Inv'
<1> USE DEF pointers
<1>0. th # Collector /\ th \in Threads
    BY CollectorAssumption DEF Threads
<1>1. TypeOK'
    BY DEF Inv, TypeOK
<1>2. Acts(th, <<>>)
    BY <1>0 DEF Inv, CallsOK, Acts, Spares, Held, Idle, Debtors, Enter, Threads
<1>3. CallsOK'
    BY <1>0, <1>2, CallsKept
<1>4. PointersOK'
    BY DEF Inv, PointersOK
<1>5. LivesOK'
    <2>1. \A x \in Counting : count[x] \in Nat /\ (native[x] => life[x] # "none")
        BY HandleKinds DEF Inv, TypeOK
    <2>2. \A x \in Counting : count'[x] = count[x] \/ (native[x] /\ count'[x] > 0)
        <3>1. \A x \in Counting : In(th, Holding(x)') \in 0..1
            BY DEF In
        <3>2. QED
            BY <2>1, <3>1
    <2>3. \A x \in Counting : life'[x] = "none" => count'[x] = 0
        BY <2>1, <2>2 DEF Inv, LivesOK
    <2>4. \A x \in Language \cup Query : native'[x] <=> open'[x] \/ count'[x] > 0
        BY <2>2, HandleKinds DEF Inv, LivesOK
    <2>5. QED
        BY <2>3, <2>4 DEF Inv, LivesOK
<1>6. UsersOK'
    <2> SUFFICES ASSUME NEW x \in Counting
                 PROVE  Finite(x)' /\ count'[x] = Sum(x)'
        BY DEF UsersOK
    <2>1. x \in Handle /\ <<>> \in Seq(Counting) /\ Repoints(x)
        BY HandleKinds DEF Repoints
    <2>2. /\ Finite(x)'
          /\ Sum(x)' = count[x] + (PointsSum(x, x)' - PointsSum(x, x))
                                + (In(th, Holding(x)') - In(th, Holding(x)))
                                + (Occ(<<>>, x) - Occ(owed[th], x))
        BY <1>0, <1>1, <1>2, <2>1, Accounted
    <2>3. PointsSum(x, x)' = PointsSum(x, x) /\ PointsSum(x, x) \in Int
        BY <2>1, PointsCount DEF PointsSum, Inv
    <2>4. In(th, Holding(x)) = 0
        BY InHolding DEF Idle, Holds
    <2>5. Occ(owed[th], x) = 0 /\ Occ(<<>>, x) = 0
        BY OccEmpty DEF Idle
    <2>6. count[x] \in Nat /\ In(th, Holding(x)') \in 0..1
        BY DEF Inv, TypeOK, In
    <2>7. Sum(x)' = count[x] + In(th, Holding(x)')
        BY <2>2, <2>3, <2>4, <2>5, <2>6
    <2>8. QED
        BY <2>2, <2>7
<1>7. QED
    BY <1>1, <1>3, <1>4, <1>5, <1>6 DEF Inv

LEMMA ParseKeeps ==
    ASSUME Inv, NEW th \in Thread, NEW p \in Parser, Parse(th, p)
    PROVE  Inv'
<1> DEFINE c == <<"parse", p>>
<1>1. Idle(th) /\ Usable(th, p) /\ language[p] # None /\ Enter(th, c)
      /\ UNCHANGED <<resources, pointers, owner, owed>>
    BY DEF Parse
<1>2. call'[th] = c
    BY <1>1 DEF Enter, Inv, CallsOK, Threads
<1>3. Parsing(th)'
    BY <1>1, <1>2 DEF Parsing, Usable, Held, resources, pointers
<1>4. CallOK(th)'
    BY <1>1, <1>3 DEF CallOK, Idle
<1>5. \A x : ~Holds(th, x)'
    BY <1>2 DEF Holds
<1>6. \A x \in Counting : In(th, Holding(x)') = 0
    BY <1>5, InHolding
<1>7. \A x \in Counting : count'[x] = count[x] + In(th, Holding(x)')
    BY <1>1, <1>6 DEF Inv, TypeOK, resources
<1>8. count' \in [Counting -> Nat] /\ \A x \in Counting : count'[x] = count[x]
    BY <1>1 DEF Inv, TypeOK, resources
<1> HIDE DEF c
<1>9. QED
    BY <1>1, <1>4, <1>7, <1>8, EnterKeeps DEF resources

LEMMA SetLanguageKeeps ==
    ASSUME Inv, NEW th \in Thread, NEW p \in Parser, NEW l \in Language,
           SetLanguage(th, p, l)
    PROVE  Inv'
<1> DEFINE c == <<"set", p, l>>
<1>1. Idle(th) /\ Usable(th, p) /\ Held(l) /\ Retain(l, TRUE) /\ Enter(th, c)
      /\ UNCHANGED <<life, open, native, pointers, owner, owed>>
    BY DEF SetLanguage
<1>2. call'[th] = c
    BY <1>1 DEF Enter, Inv, CallsOK, Threads
<1>3. Setting(th)'
    BY <1>1, <1>2 DEF Setting, Usable, Held
<1>4. CallOK(th)'
    BY <1>1, <1>3 DEF CallOK, Idle
<1>5. \A x : Holds(th, x)' <=> x = l
    BY <1>2 DEF Holds
<1>6. \A x \in Counting : In(th, Holding(x)') = Is(l, x)
    BY <1>5, InHolding DEF Is
<1>7. l \in Counting /\ native[l] /\ count' = [count EXCEPT ![l] = @ + 1]
    BY <1>1, HandleKinds DEF Retain
<1>8. count' \in [Counting -> Nat]
    BY <1>7 DEF Inv, TypeOK
<1>9. \A x \in Counting : count'[x] = count[x] + Is(l, x)
    BY <1>7 DEF Inv, TypeOK, Is
<1>10. \A x \in Counting : count'[x] = count[x] + In(th, Holding(x)')
    BY <1>6, <1>9
<1>11. \A x \in Counting : count'[x] # count[x] => native[x]
    BY <1>7 DEF Inv, TypeOK
<1> HIDE DEF c
<1>12. QED
    BY <1>1, <1>4, <1>8, <1>10, <1>11, EnterKeeps

LEMMA CompileKeeps ==
    ASSUME Inv, NEW th \in Thread, NEW l \in Language, Compile(th, l)
    PROVE  Inv'
<1> DEFINE c == <<"compile", l>>
<1>1. Idle(th) /\ Retain(l, TRUE) /\ Enter(th, c)
      /\ UNCHANGED <<life, open, native, pointers, owner, owed>>
    BY DEF Compile
<1>2. call'[th] = c
    BY <1>1 DEF Enter, Inv, CallsOK, Threads
<1>3. Compiling(th)'
    BY <1>2 DEF Compiling
<1>4. CallOK(th)'
    BY <1>1, <1>3 DEF CallOK, Idle
<1>5. \A x : Holds(th, x)' <=> x = l
    BY <1>2 DEF Holds
<1>6. \A x \in Counting : In(th, Holding(x)') = Is(l, x)
    BY <1>5, InHolding DEF Is
<1>7. l \in Counting /\ native[l] /\ count' = [count EXCEPT ![l] = @ + 1]
    BY <1>1, HandleKinds DEF Retain
<1>8. count' \in [Counting -> Nat]
    BY <1>7 DEF Inv, TypeOK
<1>9. \A x \in Counting : count'[x] = count[x] + Is(l, x)
    BY <1>7 DEF Inv, TypeOK, Is
<1>10. \A x \in Counting : count'[x] = count[x] + In(th, Holding(x)')
    BY <1>6, <1>9
<1>11. \A x \in Counting : count'[x] # count[x] => native[x]
    BY <1>7 DEF Inv, TypeOK
<1> HIDE DEF c
<1>12. QED
    BY <1>1, <1>4, <1>8, <1>10, <1>11, EnterKeeps

LEMMA ExecKeeps ==
    ASSUME Inv, NEW th \in Thread, NEW c \in Cursor, NEW q \in Query, NEW n \in Node,
           Exec(th, c, q, n)
    PROVE  Inv'
<1> DEFINE k == <<"exec", c, q, n>>
<1>1. Idle(th) /\ Usable(th, c) /\ NodeUsable(th, n) /\ native[q] /\ Enter(th, k)
      /\ count' = (IF query[c] = q THEN count ELSE [count EXCEPT ![q] = @ + 1])
      /\ UNCHANGED <<life, open, native, pointers, owner, owed>>
    BY DEF Exec
<1>2. call'[th] = k
    BY <1>1 DEF Enter, Inv, CallsOK, Threads
<1>3. Executing(th)'
    BY <1>1, <1>2 DEF Executing, Usable, NodeUsable, Held
<1>4. CallOK(th)'
    BY <1>1, <1>3 DEF CallOK, Idle
<1>5. \A x : Holds(th, x)' <=> (x = q /\ query[c] # q)
    BY <1>1, <1>2 DEF Holds, pointers
<1>6. \A x \in Counting : In(th, Holding(x)') = IF x = q /\ query[c] # q THEN 1 ELSE 0
    BY <1>5, InHolding
<1>7. q \in Counting
    BY HandleKinds
<1>8. count' \in [Counting -> Nat]
    BY <1>1, <1>7 DEF Inv, TypeOK
<1>9. \A x \in Counting : count'[x] = count[x] + IF x = q /\ query[c] # q THEN 1 ELSE 0
    BY <1>1, <1>7 DEF Inv, TypeOK
<1>10. \A x \in Counting : count'[x] = count[x] + In(th, Holding(x)')
    BY <1>6, <1>9
<1>11. \A x \in Counting : count'[x] # count[x] => native[x]
    BY <1>1, <1>7 DEF Inv, TypeOK
<1> HIDE DEF k
<1>12. QED
    BY <1>1, <1>4, <1>8, <1>10, <1>11, EnterKeeps

LEMMA UsersKept ==
    ASSUME Inv, TypeOK', NEW th \in Threads, NEW s \in Seq(Counting), Acts(th, s),
           th \in Thread => CallOK(th)', NEW y \in Handle, Repoints(y),
           \A x \in Counting :
              count'[x] = count[x] + (PointsSum(y, x)' - PointsSum(y, x))
                                   + (In(th, Holding(x)') - In(th, Holding(x)))
                                   + (Occ(s, x) - Occ(owed[th], x))
    PROVE  UsersOK'
BY Accounted DEF UsersOK

\* Root, Walk, NextMatch
LEMMA UnifyNodeKeeps ==
    ASSUME Inv, NEW th \in Thread, NEW n \in Node, NEW t \in Tree, Idle(th),
           life[t] # "none", UnifyNode(n, t)
    PROVE  Inv'
<1>0. th # Collector /\ th \in Threads
    BY CollectorAssumption DEF Threads
<1>1. /\ life[n] = "none" /\ count' = [count EXCEPT ![t] = @ + 1]
      /\ tree' = [tree EXCEPT ![n] = t]
      /\ UNCHANGED <<open, native, language, query, owner, call, owed>>
    BY DEF UnifyNode
<1>2. PICK l \in {"held", "dropped"} : life' = [life EXCEPT ![n] = l]
    BY DEF UnifyNode, Publish
<1>3. n \in Handle /\ t \in Handle /\ t \in Counting /\ n \notin Counting /\ n # t
    BY HandleKinds, KindsDiffer DEF Counting
<1>4. TypeOK'
    BY <1>1, <1>2, <1>3 DEF Inv, TypeOK
<1>5. CallOK(th)'
    BY <1>1 DEF Idle, CallOK
<1>6. Acts(th, <<>>)
    BY <1>1, <1>2, <1>3 DEF Inv, TypeOK, CallsOK, Acts, Spares, Held, Idle, Debtors
<1>7. CallsOK'
    BY <1>0, <1>5, <1>6, CallsKept
<1>8. t # None
    BY HandleKinds
<1>9. PointersOK'
    BY <1>1, <1>2, <1>3, <1>8, KindsDiffer DEF Inv, TypeOK, PointersOK
<1>10. LivesOK'
    <2>1. count[t] \in Nat /\ t \notin Language \cup Query
        BY <1>3, KindsDiffer DEF Inv, TypeOK
    <2>2. \A x \in Counting : life'[x] = life[x] /\ (x # t => count'[x] = count[x])
        BY <1>1, <1>2, <1>3, HandleKinds DEF Inv, TypeOK
    <2>3. QED
        BY <1>1, <1>2, <1>3, <2>1, <2>2, HandleKinds, KindsDiffer DEF Inv, TypeOK, LivesOK
<1>11. UsersOK'
    <2>1. <<>> \in Seq(Counting) /\ Repoints(n)
        BY <1>1, <1>3 DEF Repoints, Inv, TypeOK
    <2>2. ASSUME NEW x \in Counting
          PROVE  count'[x] = count[x] + (PointsSum(n, x)' - PointsSum(n, x))
                                   + (In(th, Holding(x)') - In(th, Holding(x)))
                                   + (Occ(<<>>, x) - Occ(owed[th], x))
        <3>1. PointsSum(n, x) = 0
            BY <1>1, <1>3, HandleKinds DEF PointsSum, Is, Inv, PointersOK
        <3>2. PointsSum(n, x)' = Is(t, x)
            BY <1>1, <1>3, HandleKinds DEF PointsSum, Is, Inv, PointersOK, TypeOK
        <3>3. count[x] \in Nat /\ count'[x] = count[x] + Is(t, x) /\ Is(t, x) \in 0..1
            BY <1>1, <1>3 DEF Inv, TypeOK, Is
        <3>4. In(th, Holding(x)') = 0 /\ In(th, Holding(x)) = 0
            BY <1>1, InHolding DEF Idle, Holds
        <3>5. Occ(owed[th], x) = 0 /\ Occ(<<>>, x) = 0
            BY OccEmpty DEF Idle
        <3>6. QED
            BY <3>1, <3>2, <3>3, <3>4, <3>5
    <2>3. QED
        BY <1>0, <1>3, <1>4, <1>5, <1>6, <2>1, <2>2, UsersKept
<1>12. QED
    BY <1>4, <1>7, <1>9, <1>10, <1>11 DEF Inv

LEMMA NavigationKeeps ==
    ASSUME Inv, NEW th \in Thread, Navigate(th)
    PROVE  Inv'
<1>1. ASSUME NEW n \in Node, NEW t \in Tree, Root(th, t, n)
      PROVE  Inv'
    BY <1>1, UnifyNodeKeeps DEF Root, Usable, Held
<1>2. ASSUME NEW y \in Node \cup Cursor, tree[y] # None
      PROVE  tree[y] \in Tree /\ life[tree[y]] # "none"
    <2>1. y \in Handle /\ tree[y] \in Tree /\ tree[y] \in Counting
        BY <1>2, HandleKinds DEF Inv, TypeOK
    <2>2. count[tree[y]] > 0
        BY <2>1, PointedAt DEF Points
    <2>3. QED
        BY <2>1, <2>2 DEF Inv, LivesOK
<1>3. ASSUME NEW n \in Node, NEW m \in Node, Walk(th, n, m)
      PROVE  Inv'
    <2>1. Idle(th) /\ life[n] = "held" /\ UnifyNode(m, tree[n])
        BY <1>3 DEF Walk, NodeUsable, Held
    <2>2. tree[n] # None
        BY <2>1, HandleKinds DEF Inv, PointersOK
    <2>3. QED
        BY <1>2, <2>1, <2>2, UnifyNodeKeeps
<1>4. ASSUME NEW c \in Cursor, NEW n \in Node, NextMatch(th, c, n)
      PROVE  Inv'
    BY <1>2, <1>4, UnifyNodeKeeps DEF NextMatch
<1>5. QED
    BY <1>1, <1>3, <1>4, ExecKeeps DEF Navigate

\* A release of what the pointers of y point to.
LEMMA OccPointers ==
    ASSUME Inv, NEW y \in Handle, NEW x \in Counting
    PROVE  /\ Some(language[y]) \in Seq(Counting)
           /\ Occ(Some(language[y]), x) = Is(language[y], x)
           /\ Some(query[y]) \o Some(tree[y]) \in Seq(Counting)
           /\ Occ(Some(query[y]) \o Some(tree[y]), x) = Is(query[y], x) + Is(tree[y], x)
           /\ Some(language[y]) \o Some(query[y]) \o Some(tree[y]) \in Seq(Counting)
           /\ Occ(Some(language[y]) \o Some(query[y]) \o Some(tree[y]), x) =
                Is(language[y], x) + (Is(query[y], x) + Is(tree[y], x))
<1> DEFINE l == language[y]
           q == query[y]
           t == tree[y]
           r == Some(q) \o Some(t)
<1>1. l \in Counting \cup {None} /\ q \in Counting \cup {None} /\ t \in Counting \cup {None}
    BY DEF Inv, TypeOK, Counting
<1> HIDE DEF l, q, t
<1>2. /\ Some(l) \in Seq(Counting) /\ Some(q) \in Seq(Counting) /\ Some(t) \in Seq(Counting)
      /\ Occ(Some(l), x) = Is(l, x) /\ Occ(Some(t), x) = Is(t, x)
    <2>1. <<>> \in Seq(Counting)
        OBVIOUS
    <2>2. QED
        BY <1>1, <2>1, OccSome
<1>3. r \in Seq(Counting) /\ Occ(r, x) = Is(q, x) + Is(t, x)
    BY <1>1, <1>2, OccSome
<1>4. Some(l) \o r \in Seq(Counting) /\ Occ(Some(l) \o r, x) = Is(l, x) + Occ(r, x)
    <2> HIDE DEF r
    <2>1. QED
        BY <1>1, <1>3, OccSome
<1>5. Some(l) \o Some(q) \o Some(t) = Some(l) \o r
    BY <1>2
<1>6. QED
    BY <1>2, <1>3, <1>4, <1>5 DEF l, q, t

\* y lets go of what it points to, and th owes that.
LEMMA LetGo ==
    ASSUME Inv, TypeOK', NEW th \in Threads, NEW s \in Seq(Counting), Acts(th, s),
           Idle(th), call'[th] = <<>>, NEW y \in Handle, Repoints(y), UNCHANGED count,
           language'[y] = None, tree'[y] = None, query'[y] = None,
           \A x \in Counting : Occ(s, x) = PointsSum(y, x)
    PROVE  UsersOK' /\ CallsOK'
<1>1. CallOK(th)'
    BY DEF CallOK
<1>2. ASSUME NEW x \in Counting
      PROVE  count'[x] = count[x] + (PointsSum(y, x)' - PointsSum(y, x))
                                   + (In(th, Holding(x)') - In(th, Holding(x)))
                                   + (Occ(s, x) - Occ(owed[th], x))
    <2>1. PointsSum(y, x)' = 0
        BY HandleKinds DEF PointsSum, Is
    <2>2. Occ(s, x) = PointsSum(y, x) /\ PointsSum(y, x) \in Nat
        BY PointsCount DEF Inv
    <2>3. In(th, Holding(x)') = 0 /\ In(th, Holding(x)) = 0
        BY InHolding DEF Idle, Holds
    <2>4. Occ(owed[th], x) = 0
        BY OccEmpty DEF Idle
    <2>5. count'[x] = count[x] /\ count[x] \in Nat
        BY DEF Inv, TypeOK
    <2>6. QED
        BY <2>1, <2>2, <2>3, <2>4, <2>5
<1>3. QED
    BY <1>1, <1>2, UsersKept, CallsKept

\* CloseParser, CloseTree, CloseCursor
LEMMA ClosingKeeps ==
    ASSUME Inv, NEW th \in Thread, NEW y \in Affine, Idle(th), Usable(th, y),
           NEW s \in Seq(Counting), Owe(th, s),
           \A x \in Counting : Occ(s, x) = PointsSum(y, x),
           open' = [open EXCEPT ![y] = FALSE], native' = [native EXCEPT ![y] = FALSE],
           TypeOK', language'[y] = None, tree'[y] = None, query'[y] = None, Repoints(y),
           UNCHANGED <<life, count, owner, call>>
    PROVE  Inv'
<1>0. th # Collector /\ th \in Threads
    BY CollectorAssumption DEF Threads
<1>1. y \in Handle /\ y \notin Language /\ y \notin Query /\ y \notin Node
    BY HandleKinds, KindsDiffer DEF Affine
<1>2. Acts(th, s)
    <2>1. owed' \in Debtors /\ owed'[th] = s /\ \A u \in Threads : u # th => owed'[u] = owed[u]
        BY <1>0 DEF Owe, Inv, CallsOK, Debtors
    <2>2. ASSUME NEW u \in Thread, u # th
          PROVE  Spares(u)
        <3>1. call'[u] = call[u] /\ owed'[u] = owed[u]
            BY <2>1, <2>2 DEF Threads
        <3>2. \A z \in Handle : Held(z) => Held(z)' /\ owner'[z] = owner[z]
            BY DEF Held
        <3>3. owner[y] # u
            BY <2>2 DEF Usable
        <3>4. \A z \in Handle : Held(z) /\ owner[z] = u =>
                  language'[z] = language[z] /\ query'[z] = query[z]
            BY <3>3 DEF Repoints
        <3>5. QED
            BY <3>1, <3>2, <3>4 DEF Spares
    <2>3. DOMAIN call' = Threads /\ call'[Collector] = <<>>
        BY DEF Inv, CallsOK
    <2>4. QED
        BY <2>1, <2>2, <2>3 DEF Acts
<1>3. UsersOK' /\ CallsOK'
    BY <1>0, <1>1, <1>2, LetGo DEF Idle
<1>4. PointersOK'
    <2>1. \A z \in Handle : z # y =>
            /\ language'[z] = language[z] /\ tree'[z] = tree[z] /\ query'[z] = query[z]
            /\ native'[z] = native[z]
        BY DEF Repoints, Inv, TypeOK
    <2>2. QED
        BY <1>1, <2>1 DEF Inv, PointersOK
<1>5. LivesOK'
    BY <1>1, HandleKinds DEF Inv, TypeOK, LivesOK
<1>6. QED
    BY <1>3, <1>4, <1>5 DEF Inv

LEMMA CloseParserKeeps ==
    ASSUME Inv, NEW th \in Thread, NEW p \in Parser, CloseParser(th, p)
    PROVE  Inv'
<1>1. /\ Idle(th) /\ Usable(th, p) /\ open' = [open EXCEPT ![p] = FALSE]
      /\ native' = [native EXCEPT ![p] = FALSE] /\ language' = [language EXCEPT ![p] = None]
      /\ Owe(th, Some(language[p])) /\ UNCHANGED <<life, count, tree, query, owner, call>>
    BY DEF CloseParser
<1>2. p \in Handle /\ p \in Affine /\ p \notin Node /\ p \notin Cursor
    BY HandleKinds, KindsDiffer DEF Affine
<1>3. tree[p] = None /\ query[p] = None
    BY <1>2 DEF Inv, PointersOK
<1>4. \A x \in Counting : Occ(Some(language[p]), x) = PointsSum(p, x)
    <2> SUFFICES ASSUME NEW x \in Counting
                 PROVE  Occ(Some(language[p]), x) = PointsSum(p, x)
        OBVIOUS
    <2>1. Is(tree[p], x) = 0 /\ Is(query[p], x) = 0 /\ Is(language[p], x) \in 0..1
        BY <1>3, HandleKinds DEF Is
    <2>2. QED
        BY <1>2, <2>1, OccPointers DEF PointsSum
<1>5. Some(language[p]) \in Seq(Counting)
    <2>1. language[p] \in Counting \cup {None} /\ <<>> \in Seq(Counting)
        BY <1>2 DEF Inv, TypeOK, Counting
    <2>2. QED
        BY <2>1 DEF Some
<1>6. TypeOK'
    BY <1>1, <1>2 DEF Inv, TypeOK
<1>7. Repoints(p) /\ language'[p] = None /\ tree'[p] = None /\ query'[p] = None
    BY <1>1, <1>2, <1>3 DEF Repoints, Inv, TypeOK
<1>8. QED
    BY <1>1, <1>2, <1>4, <1>5, <1>6, <1>7, ClosingKeeps

LEMMA CloseTreeKeeps ==
    ASSUME Inv, NEW th \in Thread, NEW t \in Tree, CloseTree(th, t)
    PROVE  Inv'
<1>1. /\ Idle(th) /\ Usable(th, t) /\ open' = [open EXCEPT ![t] = FALSE]
      /\ native' = [native EXCEPT ![t] = FALSE] /\ language' = [language EXCEPT ![t] = None]
      /\ Owe(th, Some(language[t])) /\ UNCHANGED <<life, count, tree, query, owner, call>>
    BY DEF CloseTree
<1>2. t \in Handle /\ t \in Affine /\ t \notin Node /\ t \notin Cursor
    BY HandleKinds, KindsDiffer DEF Affine
<1>3. tree[t] = None /\ query[t] = None
    BY <1>2 DEF Inv, PointersOK
<1>4. \A x \in Counting : Occ(Some(language[t]), x) = PointsSum(t, x)
    <2> SUFFICES ASSUME NEW x \in Counting
                 PROVE  Occ(Some(language[t]), x) = PointsSum(t, x)
        OBVIOUS
    <2>1. Is(tree[t], x) = 0 /\ Is(query[t], x) = 0 /\ Is(language[t], x) \in 0..1
        BY <1>3, HandleKinds DEF Is
    <2>2. QED
        BY <1>2, <2>1, OccPointers DEF PointsSum
<1>5. Some(language[t]) \in Seq(Counting)
    <2>1. language[t] \in Counting \cup {None} /\ <<>> \in Seq(Counting)
        BY <1>2 DEF Inv, TypeOK, Counting
    <2>2. QED
        BY <2>1 DEF Some
<1>6. TypeOK'
    BY <1>1, <1>2 DEF Inv, TypeOK
<1>7. Repoints(t) /\ language'[t] = None /\ tree'[t] = None /\ query'[t] = None
    BY <1>1, <1>2, <1>3 DEF Repoints, Inv, TypeOK
<1>8. QED
    BY <1>1, <1>2, <1>4, <1>5, <1>6, <1>7, ClosingKeeps

LEMMA CloseCursorKeeps ==
    ASSUME Inv, NEW th \in Thread, NEW c \in Cursor, CloseCursor(th, c)
    PROVE  Inv'
<1> DEFINE s == Some(query[c]) \o Some(tree[c])
<1>1. /\ Idle(th) /\ Usable(th, c) /\ open' = [open EXCEPT ![c] = FALSE]
      /\ native' = [native EXCEPT ![c] = FALSE] /\ query' = [query EXCEPT ![c] = None]
      /\ tree' = [tree EXCEPT ![c] = None]
      /\ Owe(th, s) /\ UNCHANGED <<life, count, language, owner, call>>
    BY DEF CloseCursor
<1>2. c \in Handle /\ c \in Affine /\ c \notin Parser /\ c \notin Tree /\ c \notin Query
    BY HandleKinds, KindsDiffer DEF Affine
<1>3. language[c] = None
    BY <1>2 DEF Inv, PointersOK
<1>4. \A x \in Counting : Occ(s, x) = PointsSum(c, x)
    <2> SUFFICES ASSUME NEW x \in Counting
                 PROVE  Occ(s, x) = PointsSum(c, x)
        OBVIOUS
    <2>1. Is(language[c], x) = 0 /\ Is(query[c], x) \in 0..1 /\ Is(tree[c], x) \in 0..1
        BY <1>3, HandleKinds DEF Is
    <2>2. Occ(s, x) = Is(query[c], x) + Is(tree[c], x)
        BY <1>2, OccPointers
    <2>3. QED
        BY <2>1, <2>2 DEF PointsSum
<1>5. s \in Seq(Counting)
    <2>1. query[c] \in Counting \cup {None} /\ tree[c] \in Counting \cup {None}
        BY <1>2 DEF Inv, TypeOK, Counting
    <2>2. QED
        BY <2>1 DEF Some
<1> HIDE DEF s
<1>6. TypeOK'
    BY <1>1, <1>2 DEF Inv, TypeOK
<1>7. Repoints(c) /\ language'[c] = None /\ tree'[c] = None /\ query'[c] = None
    BY <1>1, <1>2, <1>3 DEF Repoints, Inv, TypeOK
<1>8. QED
    BY <1>1, <1>2, <1>4, <1>5, <1>6, <1>7, ClosingKeeps

\* Which call th is in.
LEMMA InSet ==
    ASSUME Inv, NEW th \in Thread, call[th] # <<>>, call[th][1] = "set"
    PROVE  \E p \in Parser, l \in Language :
              call[th] = <<"set", p, l>> /\ Held(p) /\ owner[p] = th
BY DEF Inv, CallsOK, CallOK, Setting, Parsing, Compiling, Executing

LEMMA InParse ==
    ASSUME Inv, NEW th \in Thread, call[th] # <<>>, call[th][1] = "parse"
    PROVE  \E p \in Parser :
              call[th] = <<"parse", p>> /\ Held(p) /\ owner[p] = th /\ language[p] # None
BY DEF Inv, CallsOK, CallOK, Setting, Parsing, Compiling, Executing

LEMMA InCompile ==
    ASSUME Inv, NEW th \in Thread, call[th] # <<>>, call[th][1] = "compile"
    PROVE  \E l \in Language : call[th] = <<"compile", l>>
BY DEF Inv, CallsOK, CallOK, Setting, Parsing, Compiling, Executing

LEMMA InExec ==
    ASSUME Inv, NEW th \in Thread, call[th] # <<>>, call[th][1] = "exec"
    PROVE  \E c \in Cursor, q \in Query, n \in Node :
              call[th] = <<"exec", c, q, n>> /\ Held(c) /\ owner[c] = th /\ Held(n)
BY DEF Inv, CallsOK, CallOK, Setting, Parsing, Compiling, Executing

\* A call returns, having touched the pointers of y, a parser or cursor of
\* its own, a new handle or none.
LEMMA ReturnActs ==
    ASSUME Inv, NEW th \in Thread, call[th] # <<>>, Return(th),
           NEW s \in Seq(Counting), Owe(th, s), NEW y \in Handle, Repoints(y),
           Held(y) /\ y \in Parser \cup Cursor => owner[y] = th,
           \A z \in Handle : Held(z) => Held(z)' /\ owner'[z] = owner[z]
    PROVE  /\ th \in Threads /\ th # Collector /\ call'[th] = <<>> /\ owed[th] = <<>>
           /\ CallOK(th)' /\ Acts(th, s) /\ CallsOK'
<1>1. th \in Threads /\ th # Collector
    BY CollectorAssumption DEF Threads
<1>2. /\ DOMAIN call' = Threads /\ call'[th] = <<>> /\ owed[th] = <<>>
      /\ \A u \in Threads : u # th => call'[u] = call[u]
    BY <1>1 DEF Inv, CallsOK, CallOK, Return, Enter
<1>3. owed' \in Debtors /\ owed'[th] = s /\ \A u \in Threads : u # th => owed'[u] = owed[u]
    BY <1>1 DEF Owe, Inv, CallsOK, Debtors
<1>4. ASSUME NEW u \in Thread, u # th
      PROVE  Spares(u)
    <2>1. call'[u] = call[u] /\ owed'[u] = owed[u]
        BY <1>2, <1>3, <1>4 DEF Threads
    <2>2. \A z \in Handle : Held(z) /\ owner[z] = u /\ z \in Parser \cup Cursor =>
              language'[z] = language[z] /\ query'[z] = query[z]
        BY <1>4 DEF Repoints
    <2>3. QED
        BY <2>1, <2>2 DEF Spares
<1>5. Acts(th, s)
    BY <1>1, <1>2, <1>3, <1>4 DEF Acts, Inv, CallsOK, Threads
<1>6. CallOK(th)'
    BY <1>2 DEF CallOK
<1>7. QED
    BY <1>1, <1>2, <1>5, <1>6, CallsKept

LEMMA LanguageSetKeeps ==
    ASSUME Inv, NEW th \in Thread, LanguageSet(th)
    PROVE  Inv'
<1>1. call[th] # <<>> /\ call[th][1] = "set" /\ Return(th)
      /\ UNCHANGED <<resources, tree, query, owner>>
    BY DEF LanguageSet
<1>2. PICK p \in Parser, l \in Language :
        call[th] = <<"set", p, l>> /\ Held(p) /\ owner[p] = th
    BY <1>1, InSet
<1>3. p \in Handle /\ l \in Counting /\ l # None /\ p \notin Query
    BY HandleKinds, KindsDiffer
<1>4. \/ language' = [language EXCEPT ![p] = l] /\ Owe(th, Some(language[p]))
      \/ Owe(th, Some(l)) /\ UNCHANGED language
    BY <1>2, <1>3 DEF LanguageSet, Some
<1>5. TypeOK'
    BY <1>1, <1>3, <1>4 DEF Inv, TypeOK, resources
<1>6. language[p] \in Counting \cup {None}
    BY <1>3 DEF Inv, TypeOK, Counting
<1>7. Some(language[p]) \in Seq(Counting) /\ Some(l) \in Seq(Counting)
    BY <1>3, <1>6 DEF Some
<1>8. PICK s \in Seq(Counting) :
        /\ Owe(th, s)
        /\ \/ s = Some(language[p]) /\ language' = [language EXCEPT ![p] = l]
           \/ s = Some(l) /\ UNCHANGED language
    BY <1>4, <1>7
<1>9. Repoints(p)
    BY <1>1, <1>3, <1>8 DEF Repoints, Inv, TypeOK
<1>10. /\ th \in Threads /\ th # Collector /\ call'[th] = <<>> /\ owed[th] = <<>>
       /\ CallOK(th)' /\ Acts(th, s) /\ CallsOK'
    BY <1>1, <1>2, <1>3, <1>8, <1>9, ReturnActs DEF Held, resources
<1>11. PointersOK'
    <2>1. \A z \in Handle : z # p => language'[z] = language[z]
        BY <1>9 DEF Repoints
    <2>2. p \in Parser /\ life[p] # "none"
        BY <1>2 DEF Held
    <2>3. UNCHANGED <<tree, query, life, native>>
        BY <1>1 DEF resources
    <2>4. QED
        BY <1>3, <2>1, <2>2, <2>3 DEF Inv, PointersOK
<1>12. LivesOK'
    BY <1>1 DEF Inv, LivesOK, resources
<1>13. UsersOK'
    <2>1. ASSUME NEW x \in Counting
          PROVE  count'[x] = count[x] + (PointsSum(p, x)' - PointsSum(p, x))
                                   + (In(th, Holding(x)') - In(th, Holding(x)))
                                   + (Occ(s, x) - Occ(owed[th], x))
        <3>1. \A z : Holds(th, z) <=> z = l
            BY <1>2 DEF Holds
        <3>2. In(th, Holding(x)) = Is(l, x) /\ In(th, Holding(x)') = 0
            BY <1>10, <3>1, InHolding DEF Is, Holds
        <3>3. Occ(owed[th], x) = 0
            BY <1>10, OccEmpty
        <3>4. /\ Occ(Some(l), x) = Is(l, x)
              /\ Occ(Some(language[p]), x) = Is(language[p], x)
            BY <1>3, <1>6, <1>7, OccSome
        <3>5. tree'[p] = tree[p] /\ query'[p] = query[p]
            BY <1>1
        <3>6. /\ Is(l, x) \in 0..1 /\ Is(language[p], x) \in 0..1 /\ Is(tree[p], x) \in 0..1
              /\ Is(query[p], x) \in 0..1
            BY DEF Is
        <3>7. \/ Occ(s, x) = Is(language[p], x) /\ Is(language'[p], x) = Is(l, x)
              \/ Occ(s, x) = Is(l, x) /\ Is(language'[p], x) = Is(language[p], x)
            BY <1>3, <1>8, <3>4 DEF Inv, TypeOK
        <3>8. count'[x] = count[x] /\ count[x] \in Nat
            BY <1>1 DEF Inv, TypeOK, resources
        <3>9. PointsSum(p, x)' = Is(language'[p], x) + Is(tree[p], x) + Is(query[p], x)
            BY <3>5 DEF PointsSum
        <3>10. QED
            BY <3>2, <3>3, <3>6, <3>7, <3>8, <3>9 DEF PointsSum
    <2>2. QED
        BY <1>3, <1>5, <1>9, <1>10, <2>1, UsersKept
<1>14. QED
    BY <1>5, <1>10, <1>11, <1>12, <1>13 DEF Inv

LEMMA ParsedKeeps ==
    ASSUME Inv, NEW th \in Thread, Parsed(th)
    PROVE  Inv'
<1>1. call[th] # <<>> /\ call[th][1] = "parse" /\ Return(th)
      /\ UNCHANGED <<tree, query, owed>>
    BY DEF Parsed
<1>2. PICK p \in Parser :
        call[th] = <<"parse", p>> /\ Held(p) /\ owner[p] = th /\ language[p] # None
    BY <1>1, InParse
<1>3. p \in Handle /\ <<>> \in Seq(Counting)
    BY HandleKinds
<1>4. owed[th] = <<>> /\ Owe(th, <<>>)
    BY <1>1 DEF Inv, CallsOK, CallOK, Owe, Debtors, Threads
<1>5. \A x : ~Holds(th, x)
    BY <1>2 DEF Holds
<1>6. CASE UNCHANGED <<resources, language, owner>>
    <2>1. TypeOK' /\ Repoints(p)
        BY <1>1, <1>6 DEF Inv, TypeOK, Repoints, resources
    <2>2. /\ th \in Threads /\ th # Collector /\ call'[th] = <<>>
          /\ CallOK(th)' /\ Acts(th, <<>>) /\ CallsOK'
        BY <1>1, <1>2, <1>3, <1>4, <1>6, <2>1, ReturnActs DEF Held, resources
    <2>3. PointersOK' /\ LivesOK'
        BY <1>1, <1>6 DEF Inv, PointersOK, LivesOK, resources
    <2>4. ASSUME NEW x \in Counting
          PROVE  count'[x] = count[x] + (PointsSum(p, x)' - PointsSum(p, x))
                                   + (In(th, Holding(x)') - In(th, Holding(x)))
                                   + (Occ(<<>>, x) - Occ(owed[th], x))
        <3>1. In(th, Holding(x)) = 0 /\ In(th, Holding(x)') = 0
            BY <1>5, <2>2, InHolding DEF Holds
        <3>2. Occ(owed[th], x) = 0 /\ Occ(<<>>, x) = 0
            BY <1>4, OccEmpty
        <3>3. PointsSum(p, x)' = PointsSum(p, x) /\ PointsSum(p, x) \in 0..1
            BY <1>1, <1>3, <1>6, PointsCount DEF PointsSum, Inv
        <3>4. count'[x] = count[x] /\ count[x] \in Nat
            BY <1>6 DEF resources, Inv, TypeOK
        <3>5. QED
            BY <3>1, <3>2, <3>3, <3>4
    <2>5. UsersOK'
        BY <1>3, <2>1, <2>2, <2>4, UsersKept
    <2>6. QED
        BY <2>1, <2>2, <2>3, <2>5 DEF Inv
<1>7. ASSUME NEW t \in Tree, Make(th, t), Retain(language[p], FALSE),
             language' = [language EXCEPT ![t] = language[p]]
      PROVE  Inv'
    <2>1. t \in Handle /\ t \in Counting /\ t # p /\ t \notin Language \cup Query \cup Node
          /\ t \notin Parser \cup Cursor /\ life[t] = "none"
        BY <1>7, HandleKinds, KindsDiffer DEF Make
    <2>2. PICK l : l = language[p]
        OBVIOUS
    <2>3. l \in Language /\ l \in Counting /\ l \in Handle /\ l # t /\ l # None
        BY <1>2, <1>3, <2>2, HandleKinds, KindsDiffer DEF Inv, TypeOK
    <2>4. native[l] /\ count' = [count EXCEPT ![l] = @ + 1]
        BY <1>7, <2>2 DEF Retain
    <2>5. PICK f \in {"held", "dropped"} : life' = [life EXCEPT ![t] = f]
        BY <1>7 DEF Make, Publish
    <2>6. /\ open' = [open EXCEPT ![t] = TRUE] /\ native' = [native EXCEPT ![t] = TRUE]
          /\ owner' = [owner EXCEPT ![t] = th] /\ language' = [language EXCEPT ![t] = l]
        BY <1>7, <2>2 DEF Make, Affine
    <2>7. TypeOK'
        BY <1>1, <2>1, <2>3, <2>4, <2>5, <2>6 DEF Inv, TypeOK
    <2>8. Repoints(t)
        BY <1>1, <2>1, <2>6 DEF Repoints, Inv, TypeOK
    <2>9. \A z \in Handle : Held(z) => Held(z)' /\ owner'[z] = owner[z]
        BY <2>1, <2>5, <2>6 DEF Held, Inv, TypeOK
    <2>10. /\ th \in Threads /\ th # Collector /\ call'[th] = <<>>
           /\ CallOK(th)' /\ Acts(th, <<>>) /\ CallsOK'
        BY <1>1, <1>3, <1>4, <2>1, <2>8, <2>9, ReturnActs DEF Held
    <2>11. PointersOK'
        <3>1. \A z \in Handle : z # t =>
                  language'[z] = language[z] /\ life'[z] = life[z] /\ native'[z] = native[z]
            BY <2>1, <2>5, <2>6 DEF Inv, TypeOK
        <3>2. life'[t] # "none"
            BY <2>1, <2>5 DEF Inv, TypeOK
        <3>3. tree[t] = None /\ query[t] = None
            BY <2>1 DEF Inv, PointersOK
        <3>4. QED
            BY <1>1, <2>1, <3>1, <3>2, <3>3 DEF Inv, PointersOK
    <2>12. LivesOK'
        <3>1. count[l] \in Nat /\ count'[l] > 0 /\ life[l] # "none"
            BY <2>3, <2>4 DEF Inv, TypeOK
        <3>2. \A x \in Counting : x # l => count'[x] = count[x]
            BY <2>4 DEF Inv, TypeOK
        <3>3. \A x \in Handle : x # t =>
                  open'[x] = open[x] /\ native'[x] = native[x] /\ life'[x] = life[x]
            BY <2>5, <2>6 DEF Inv, TypeOK
        <3>4. life'[t] = f /\ f # "none" /\ f # "collected"
            BY <2>1, <2>5 DEF Inv, TypeOK
        <3>5. QED
            BY <2>1, <2>3, <2>4, <3>1, <3>2, <3>3, <3>4, HandleKinds DEF Inv, LivesOK
    <2>13. ASSUME NEW x \in Counting
           PROVE  count'[x] = count[x] + (PointsSum(t, x)' - PointsSum(t, x))
                                   + (In(th, Holding(x)') - In(th, Holding(x)))
                                   + (Occ(<<>>, x) - Occ(owed[th], x))
        <3>1. In(th, Holding(x)) = 0 /\ In(th, Holding(x)') = 0
            BY <1>5, <2>10, InHolding DEF Holds
        <3>2. Occ(owed[th], x) = 0 /\ Occ(<<>>, x) = 0
            BY <1>4, OccEmpty
        <3>3. /\ language[t] = None /\ tree[t] = None /\ query[t] = None
              /\ language'[t] = l /\ tree'[t] = None /\ query'[t] = None
            BY <1>1, <2>1, <2>6 DEF Inv, PointersOK, TypeOK
        <3>4. PointsSum(t, x) = 0 /\ PointsSum(t, x)' = Is(l, x)
            BY <3>3, HandleKinds DEF PointsSum, Is
        <3>5. count'[x] = count[x] + Is(l, x) /\ count[x] \in Nat /\ Is(l, x) \in 0..1
            BY <2>3, <2>4 DEF Inv, TypeOK, Is
        <3>6. QED
            BY <3>1, <3>2, <3>4, <3>5
    <2>14. UsersOK'
        BY <1>3, <2>1, <2>7, <2>8, <2>10, <2>13, UsersKept
    <2>15. QED
        BY <2>7, <2>10, <2>11, <2>12, <2>14 DEF Inv
<1>8. p = call[th][2]
    BY <1>2
<1>9. \/ UNCHANGED <<resources, language, owner>>
      \/ \E t \in Tree :
           /\ Make(th, t) /\ Retain(language[p], FALSE)
           /\ language' = [language EXCEPT ![t] = language[p]]
    BY <1>8 DEF Parsed
<1>10. QED
    BY <1>6, <1>7, <1>9

LEMMA CompiledKeeps ==
    ASSUME Inv, NEW th \in Thread, Compiled(th)
    PROVE  Inv'
<1>1. call[th] # <<>> /\ call[th][1] = "compile" /\ Return(th) /\ UNCHANGED <<tree, query>>
    BY DEF Compiled
<1>2. PICK l \in Language : call[th] = <<"compile", l>>
    BY <1>1, InCompile
<1>3. l \in Handle /\ l \in Counting /\ l # None /\ <<>> \in Seq(Counting)
      /\ Some(l) \in Seq(Counting) /\ l \notin Parser \cup Cursor
    BY HandleKinds, KindsDiffer DEF Some
<1>4. owed[th] = <<>>
    BY <1>1 DEF Inv, CallsOK, CallOK
<1>5. \A x : Holds(th, x) <=> x = l
    BY <1>2 DEF Holds
<1>6. ASSUME NEW x \in Counting
      PROVE  /\ Occ(owed[th], x) = 0 /\ Occ(<<>>, x) = 0
             /\ Occ(Some(l), x) = Is(l, x) /\ Is(l, x) \in 0..1
             /\ In(th, Holding(x)) = Is(l, x)
             /\ count[x] \in Nat
    <2>1. Occ(Some(l), x) = Is(l, x) /\ Is(l, x) \in 0..1
        BY <1>3, OccSome DEF Is
    <2>2. In(th, Holding(x)) = Is(l, x)
        BY <1>5, InHolding DEF Is
    <2>3. QED
        BY <1>4, <2>1, <2>2, OccEmpty DEF Inv, TypeOK
<1>7. CASE Owe(th, Some(l)) /\ UNCHANGED <<resources, language, owner>>
    <2>1. TypeOK' /\ Repoints(l)
        BY <1>1, <1>7 DEF Inv, TypeOK, Repoints, resources
    <2>2. /\ th \in Threads /\ th # Collector /\ call'[th] = <<>>
          /\ CallOK(th)' /\ Acts(th, Some(l)) /\ CallsOK'
        BY <1>1, <1>3, <1>7, <2>1, ReturnActs DEF Held, resources
    <2>3. PointersOK' /\ LivesOK'
        BY <1>1, <1>7 DEF Inv, PointersOK, LivesOK, resources
    <2>4. ASSUME NEW x \in Counting
          PROVE  count'[x] = count[x] + (PointsSum(l, x)' - PointsSum(l, x))
                                   + (In(th, Holding(x)') - In(th, Holding(x)))
                                   + (Occ(Some(l), x) - Occ(owed[th], x))
        <3>1. In(th, Holding(x)') = 0
            BY <2>2, InHolding DEF Holds
        <3>2. PointsSum(l, x)' = PointsSum(l, x) /\ PointsSum(l, x) \in 0..1
            BY <1>1, <1>3, <1>7, PointsCount DEF PointsSum, Inv
        <3>3. count'[x] = count[x]
            BY <1>7 DEF resources
        <3>4. QED
            BY <1>6, <3>1, <3>2, <3>3
    <2>5. UsersOK'
        BY <1>3, <2>1, <2>2, <2>4, UsersKept
    <2>6. QED
        BY <2>1, <2>2, <2>3, <2>5 DEF Inv
<1>8. ASSUME NEW q \in Query, Make(th, q), language' = [language EXCEPT ![q] = l],
             UNCHANGED <<count, owed>>
      PROVE  Inv'
    <2>1. q \in Handle /\ q \in Counting /\ q \notin Node /\ q \notin Affine /\ q \notin Language
          /\ life[q] = "none"
        BY <1>8, HandleKinds, KindsDiffer DEF Make, Affine
    <2>2. PICK f \in {"held", "dropped"} : life' = [life EXCEPT ![q] = f]
        BY <1>8 DEF Make, Publish
    <2>3. /\ open' = [open EXCEPT ![q] = TRUE] /\ native' = [native EXCEPT ![q] = TRUE]
          /\ owner' = [owner EXCEPT ![q] = None]
        BY <1>8, <2>1 DEF Make
    <2>4. TypeOK'
        BY <1>1, <1>8, <2>1, <2>2, <2>3 DEF Inv, TypeOK
    <2>5. Repoints(q)
        BY <1>1, <1>8, <2>1 DEF Repoints, Inv, TypeOK
    <2>6. \A z \in Handle : Held(z) => Held(z)' /\ owner'[z] = owner[z]
        BY <2>1, <2>2, <2>3 DEF Held, Inv, TypeOK
    <2>7. Owe(th, <<>>)
        BY <1>4, <1>8 DEF Inv, CallsOK, Owe, Debtors, Threads
    <2>8. /\ th \in Threads /\ th # Collector /\ call'[th] = <<>>
          /\ CallOK(th)' /\ Acts(th, <<>>) /\ CallsOK'
        BY <1>1, <1>3, <2>1, <2>5, <2>6, <2>7, ReturnActs DEF Held
    <2>9. /\ language[q] = None /\ tree[q] = None /\ query[q] = None
          /\ language'[q] = l /\ tree'[q] = None /\ query'[q] = None
        BY <1>1, <1>8, <2>1 DEF Inv, PointersOK, TypeOK
    <2>10. \A z \in Handle : z # q =>
              /\ language'[z] = language[z] /\ life'[z] = life[z]
              /\ native'[z] = native[z] /\ open'[z] = open[z]
        BY <1>8, <2>1, <2>2, <2>3 DEF Inv, TypeOK
    <2>11. life'[q] = f /\ f # "none" /\ f # "collected" /\ native'[q] /\ open'[q]
        BY <2>1, <2>2, <2>3 DEF Inv, TypeOK
    <2>12. PointersOK'
        BY <1>1, <2>1, <2>9, <2>10, <2>11 DEF Inv, PointersOK
    <2>13. LivesOK'
        BY <1>8, <2>1, <2>10, <2>11, HandleKinds DEF Inv, LivesOK
    <2>14. ASSUME NEW x \in Counting
           PROVE  count'[x] = count[x] + (PointsSum(q, x)' - PointsSum(q, x))
                                   + (In(th, Holding(x)') - In(th, Holding(x)))
                                   + (Occ(<<>>, x) - Occ(owed[th], x))
        <3>1. In(th, Holding(x)') = 0
            BY <2>8, InHolding DEF Holds
        <3>2. PointsSum(q, x) = 0 /\ PointsSum(q, x)' = Is(l, x)
            BY <2>9, HandleKinds DEF PointsSum, Is
        <3>3. count'[x] = count[x]
            BY <1>8
        <3>4. QED
            BY <1>6, <3>1, <3>2, <3>3
    <2>15. UsersOK'
        BY <1>3, <2>1, <2>4, <2>5, <2>8, <2>14, UsersKept
    <2>16. QED
        BY <2>4, <2>8, <2>12, <2>13, <2>15 DEF Inv
<1>9. l = call[th][2]
    BY <1>2
<1>10. \/ Owe(th, Some(l)) /\ UNCHANGED <<resources, language, owner>>
       \/ \E q \in Query :
            /\ Make(th, q) /\ language' = [language EXCEPT ![q] = l]
            /\ UNCHANGED <<count, owed>>
    BY <1>3, <1>9 DEF Compiled, Some
<1>11. QED
    BY <1>7, <1>8, <1>10

LEMMA ExecutedKeeps ==
    ASSUME Inv, NEW th \in Thread, Executed(th)
    PROVE  Inv'
<1>1. call[th] # <<>> /\ call[th][1] = "exec" /\ Return(th)
      /\ UNCHANGED <<life, open, native, language, owner>>
    BY DEF Executed
<1>2. PICK c \in Cursor, q \in Query, n \in Node :
        call[th] = <<"exec", c, q, n>> /\ Held(c) /\ owner[c] = th /\ Held(n)
    BY <1>1, InExec
<1>3. PICK t : t = tree[n]
    OBVIOUS
<1>4. /\ c \in Handle /\ q \in Counting /\ q # None /\ n \in Handle
      /\ c \notin Parser /\ c \notin Tree /\ c \notin Query /\ c \notin Node
    BY HandleKinds, KindsDiffer
<1>5. t \in Tree /\ t \in Counting /\ t # None /\ life[t] # "none" /\ t \notin Language \cup Query
    <2>1. t # None
        BY <1>2, <1>3, <1>4 DEF Inv, PointersOK, Held
    <2>2. t \in Tree /\ t \in Counting /\ t \in Handle
        BY <1>3, <1>4, <2>1, HandleKinds DEF Inv, TypeOK
    <2>3. count[t] > 0
        BY <1>3, <1>4, <2>2, PointedAt DEF Points
    <2>4. QED
        BY <2>1, <2>2, <2>3, KindsDiffer DEF Inv, LivesOK
<1> DEFINE changed == query[c] # q
           was == Some(query[c])
           old == Some(tree[c])
<1>6. query[c] \in Query \cup {None} /\ tree[c] \in Tree \cup {None} /\ language[c] = None
    BY <1>4 DEF Inv, TypeOK, PointersOK
<1>7. /\ query[c] \in Counting \cup {None} /\ tree[c] \in Counting \cup {None}
      /\ <<>> \in Seq(Counting) /\ was \in Seq(Counting) /\ old \in Seq(Counting)
      /\ Some(q) \in Seq(Counting) /\ was \o old \in Seq(Counting) /\ <<>> \o old = old
    <2>1. query[c] \in Counting \cup {None} /\ tree[c] \in Counting \cup {None}
        BY <1>6, HandleKinds
    <2>2. was \in Seq(Counting) /\ old \in Seq(Counting) /\ Some(q) \in Seq(Counting)
        BY <1>4, <2>1 DEF Some
    <2> HIDE DEF was, old
    <2>3. QED
        BY <2>1, <2>2
<1>8. c = call[th][2] /\ q = call[th][3] /\ n = call[th][4]
    BY <1>2
<1>9. \/ /\ Owe(th, IF changed THEN Some(q) ELSE <<>>)
         /\ UNCHANGED <<count, tree, query>>
      \/ /\ count' = [count EXCEPT ![t] = @ + 1]
         /\ tree' = [tree EXCEPT ![c] = t]
         /\ query' = [query EXCEPT ![c] = q]
         /\ Owe(th, IF changed THEN was \o old ELSE old)
    <2>1. Some(q) = <<q>>
        BY <1>4 DEF Some
    <2>2. \/ /\ Owe(th, IF changed THEN <<q>> ELSE <<>>)
             /\ UNCHANGED <<count, tree, query>>
          \/ /\ count' = [count EXCEPT ![t] = @ + 1]
             /\ tree' = [tree EXCEPT ![c] = t]
             /\ query' = [query EXCEPT ![c] = q]
             /\ Owe(th, (IF changed THEN was ELSE <<>>) \o old)
        BY <1>3, <1>8 DEF Executed
    <2>3. (IF changed THEN was ELSE <<>>) \o old = IF changed THEN was \o old ELSE old
        BY <1>7
    <2>4. QED
        BY <2>1, <2>2, <2>3
<1>10. \A x : Holds(th, x) <=> (changed /\ x = q)
    BY <1>2 DEF Holds
<1>11. ASSUME NEW x \in Counting
       PROVE  /\ Occ(Some(q), x) = Is(q, x)
              /\ Occ(old, x) = Is(tree[c], x)
              /\ Occ(was \o old, x) = Is(query[c], x) + Is(tree[c], x)
              /\ In(th, Holding(x)) = IF changed THEN Is(q, x) ELSE 0
              /\ Is(language[c], x) = 0
    <2>1. Occ(Some(q), x) = Is(q, x) /\ Occ(old, x) = Is(tree[c], x)
        BY <1>4, <1>7, OccSome
    <2>2. Occ(was \o old, x) = Is(query[c], x) + Is(tree[c], x)
        BY <1>4, OccPointers
    <2>3. In(th, Holding(x)) = IF changed THEN Is(q, x) ELSE 0
        BY <1>10, InHolding DEF Is
    <2>4. QED
        BY <1>6, <2>1, <2>2, <2>3, HandleKinds DEF Is
<1> HIDE DEF was, old, changed
<1>12. CASE Owe(th, IF changed THEN Some(q) ELSE <<>>) /\ UNCHANGED <<count, tree, query>>
    <2>1. PICK s \in Seq(Counting) : s = IF changed THEN Some(q) ELSE <<>>
        BY <1>7
    <2>2. TypeOK' /\ Repoints(c)
        BY <1>1, <1>12 DEF Inv, TypeOK, Repoints
    <2>3. /\ th \in Threads /\ th # Collector /\ call'[th] = <<>> /\ owed[th] = <<>>
          /\ CallOK(th)' /\ Acts(th, s) /\ CallsOK'
        BY <1>1, <1>2, <1>4, <1>12, <2>1, <2>2, ReturnActs DEF Held
    <2>4. PointersOK' /\ LivesOK'
        BY <1>1, <1>12 DEF Inv, PointersOK, LivesOK
    <2>5. ASSUME NEW x \in Counting
          PROVE  count'[x] = count[x] + (PointsSum(c, x)' - PointsSum(c, x))
                                   + (In(th, Holding(x)') - In(th, Holding(x)))
                                   + (Occ(s, x) - Occ(owed[th], x))
        <3>1. In(th, Holding(x)') = 0
            BY <2>3, InHolding DEF Holds
        <3>2. PointsSum(c, x)' = PointsSum(c, x) /\ PointsSum(c, x) \in 0..1
            BY <1>1, <1>4, <1>12, PointsCount DEF PointsSum, Inv
        <3>3. count'[x] = count[x] /\ count[x] \in Nat
            BY <1>12 DEF Inv, TypeOK
        <3>4. Occ(owed[th], x) = 0 /\ Occ(s, x) = IF changed THEN Is(q, x) ELSE 0
            BY <1>11, <2>1, <2>3, OccEmpty
        <3>5. Is(q, x) \in 0..1
            BY DEF Is
        <3>6. QED
            BY <1>11, <3>1, <3>2, <3>3, <3>4, <3>5
    <2>6. UsersOK'
        BY <1>4, <2>2, <2>3, <2>5, UsersKept
    <2>7. QED
        BY <2>2, <2>3, <2>4, <2>6 DEF Inv
<1>13. CASE /\ count' = [count EXCEPT ![t] = @ + 1]
            /\ tree' = [tree EXCEPT ![c] = t]
            /\ query' = [query EXCEPT ![c] = q]
            /\ Owe(th, IF changed THEN was \o old ELSE old)
    <2>1. PICK s \in Seq(Counting) : s = IF changed THEN was \o old ELSE old
        BY <1>7
    <2>2. TypeOK'
        BY <1>1, <1>4, <1>5, <1>13 DEF Inv, TypeOK
    <2>3. Repoints(c)
        BY <1>1, <1>4, <1>13 DEF Inv, TypeOK, Repoints
    <2>4. /\ th \in Threads /\ th # Collector /\ call'[th] = <<>> /\ owed[th] = <<>>
          /\ CallOK(th)' /\ Acts(th, s) /\ CallsOK'
        BY <1>1, <1>2, <1>4, <1>13, <2>1, <2>3, ReturnActs DEF Held
    <2>5. language'[c] = None /\ tree'[c] = t /\ query'[c] = q
        BY <1>1, <1>4, <1>6, <1>13 DEF Inv, TypeOK
    <2>6. PointersOK'
        BY <1>1, <1>2, <1>4, <2>3, <2>5 DEF Inv, PointersOK, Repoints, Held
    <2>7. LivesOK'
        <3>1. count[t] \in Nat /\ \A x \in Counting : x # t => count'[x] = count[x]
            BY <1>5, <1>13 DEF Inv, TypeOK
        <3>2. QED
            BY <1>1, <1>5, <3>1, HandleKinds DEF Inv, LivesOK
    <2>8. ASSUME NEW x \in Counting
          PROVE  count'[x] = count[x] + (PointsSum(c, x)' - PointsSum(c, x))
                                   + (In(th, Holding(x)') - In(th, Holding(x)))
                                   + (Occ(s, x) - Occ(owed[th], x))
        <3>1. In(th, Holding(x)') = 0
            BY <2>4, InHolding DEF Holds
        <3>2. Is(None, x) = 0
            BY HandleKinds DEF Is
        <3>3. PointsSum(c, x)' = 0 + Is(t, x) + Is(q, x)
            BY <2>5, <3>2 DEF PointsSum
        <3>4. PointsSum(c, x) = 0 + Is(tree[c], x) + Is(query[c], x)
            BY <1>11 DEF PointsSum
        <3>5. count'[x] = count[x] + Is(t, x) /\ count[x] \in Nat
            BY <1>5, <1>13 DEF Inv, TypeOK, Is
        <3>6. Occ(owed[th], x) = 0
            BY <2>4, OccEmpty
        <3>7. Is(q, x) \in 0..1 /\ Is(t, x) \in 0..1 /\ Is(tree[c], x) \in 0..1
              /\ Is(query[c], x) \in 0..1
            BY DEF Is
        <3>8. CASE changed
            <4>1. Occ(s, x) = Is(query[c], x) + Is(tree[c], x) /\ In(th, Holding(x)) = Is(q, x)
                BY <1>11, <2>1, <3>8
            <4>2. QED
                BY <3>1, <3>3, <3>4, <3>5, <3>6, <3>7, <4>1
        <3>9. CASE ~changed
            <4>1. Occ(s, x) = Is(tree[c], x) /\ In(th, Holding(x)) = 0
                BY <1>11, <2>1, <3>9
            <4>2. Is(query[c], x) = Is(q, x)
                BY <3>9 DEF changed
            <4>3. QED
                BY <3>1, <3>3, <3>4, <3>5, <3>6, <3>7, <4>1, <4>2
        <3>10. QED
            BY <3>8, <3>9
    <2>9. UsersOK'
        BY <1>4, <2>2, <2>3, <2>4, <2>8, UsersKept
    <2>10. QED
        BY <2>2, <2>4, <2>6, <2>7, <2>9 DEF Inv
<1>14. QED
    BY <1>9, <1>12, <1>13

\* A locked section of a grammar or query: th owed what it owes, and owes `rest'.
LEMMA SettleKeeps ==
    ASSUME Inv, NEW th \in Threads, call[th] = <<>>, NEW x \in Language \cup Query,
           NEW n \in Nat, NEW isOpen \in BOOLEAN, NEW l, NEW rest \in Seq(Counting),
           life[x] # "none", n <= count[x], isOpen => open[x],
           l = life[x] \/ (life[x] = "dropped" /\ l = "collected"),
           l = "collected" => ~isOpen,
           \A z \in Counting :
              Occ(rest, z) - Occ(owed[th], z) = IF z = x THEN n - count[x] ELSE 0,
           Settle(th, x, n, isOpen, l, rest), UNCHANGED <<tree, query, call>>
    PROVE  Inv'
<1> DEFINE retired == native[x] /\ ~isOpen /\ n = 0
           freed == l = "collected" /\ n = 0
           gone == x \in Query /\ retired
<1>1. x \in Handle /\ x \in Counting /\ x \notin Parser /\ x \notin Tree /\ x \notin Node
      /\ x \notin Cursor
    BY HandleKinds, KindsDiffer
<1>2. PICK f : f = IF freed THEN "none" ELSE l
    OBVIOUS
<1>3. /\ count' = [count EXCEPT ![x] = n] /\ open' = [open EXCEPT ![x] = isOpen]
      /\ native' = [native EXCEPT ![x] = native[x] /\ ~retired]
      /\ life' = [life EXCEPT ![x] = f] /\ UNCHANGED owner
    BY <1>2 DEF Settle, Retires, Frees
<1>4. IF gone THEN Owe(th, Some(language[x]) \o rest) /\ language' = [language EXCEPT ![x] = None]
              ELSE Owe(th, rest) /\ UNCHANGED language
    BY DEF Settle, Retires
<1>5. /\ f \in {"none", "held", "dropped", "collected"} /\ (life[x] = "held" => f = "held")
      /\ f # "none" \/ freed
      /\ f = "collected" => ~isOpen
    BY <1>1, <1>2 DEF Inv, TypeOK
<1>6. PICK b \in BOOLEAN : b = (native[x] /\ ~retired)
    OBVIOUS
<1>7. /\ b <=> isOpen \/ n > 0
      /\ f = "none" => ~b /\ n = 0
      /\ gone => ~b /\ native[x]
      /\ ~gone /\ x \in Query => (native[x] <=> b)
    <2>1. native[x] <=> open[x] \/ count[x] > 0
        BY DEF Inv, LivesOK
    <2>2. count[x] \in Nat /\ native[x] \in BOOLEAN /\ open[x] \in BOOLEAN
        BY <1>1 DEF Inv, TypeOK
    <2>3. b <=> isOpen \/ n > 0
        BY <1>6, <2>1, <2>2
    <2>4. QED
        BY <1>2, <1>5, <1>6, <2>3
<1>8. language[x] \in Counting \cup {None} /\ tree[x] = None /\ query[x] = None
    BY <1>1 DEF Inv, TypeOK, PointersOK, Counting
<1>9. PICK s \in Seq(Counting) : Owe(th, s) /\ s = IF gone THEN Some(language[x]) \o rest ELSE rest
    <2>1. Some(language[x]) \o rest \in Seq(Counting)
        BY <1>1, <1>8, OccSome
    <2>2. QED
        BY <1>4, <2>1
<1>10. PICK p : language' = [language EXCEPT ![x] = p] /\ p = IF gone THEN None ELSE language[x]
    BY <1>1, <1>4 DEF Inv, TypeOK
<1>11. p \in Language \cup {None}
    BY <1>1, <1>10 DEF Inv, TypeOK
<1>12. native' = [native EXCEPT ![x] = b]
    BY <1>3, <1>6
<1>13. TypeOK'
    BY <1>1, <1>3, <1>5, <1>7, <1>10, <1>11, <1>12 DEF Inv, TypeOK
<1>14. Repoints(x)
    BY <1>1, <1>10 DEF Repoints, Inv, TypeOK
<1>15. \A z \in Handle : z # x =>
          /\ language'[z] = language[z] /\ life'[z] = life[z] /\ native'[z] = native[z]
          /\ open'[z] = open[z]
    BY <1>1, <1>3, <1>10, <1>12 DEF Inv, TypeOK
<1>16. /\ life'[x] = f /\ native'[x] = b /\ open'[x] = isOpen /\ language'[x] = p /\ count'[x] = n
       /\ \A z \in Counting : z # x => count'[z] = count[z]
    BY <1>1, <1>3, <1>10, <1>12 DEF Inv, TypeOK
<1> HIDE DEF gone, retired, freed
<1>17. Acts(th, s)
    <2>1. owed' \in Debtors /\ owed'[th] = s /\ \A u \in Threads : u # th => owed'[u] = owed[u]
        BY <1>9 DEF Owe, Inv, CallsOK, Debtors
    <2>2. ASSUME NEW u \in Thread, u # th
          PROVE  Spares(u)
        <3>1. call'[u] = call[u] /\ owed'[u] = owed[u]
            BY <2>1, <2>2 DEF Threads
        <3>2. \A z \in Handle : Held(z) => Held(z)' /\ owner'[z] = owner[z]
            BY <1>3, <1>5, <1>15, <1>16 DEF Held
        <3>3. \A z \in Handle : /\ z \in Parser => language'[z] = language[z]
                                /\ query'[z] = query[z]
            BY <1>1, <1>15
        <3>4. QED
            BY <3>1, <3>2, <3>3 DEF Spares
    <2>3. DOMAIN call' = Threads /\ call'[Collector] = <<>>
        BY DEF Inv, CallsOK
    <2>4. QED
        BY <2>1, <2>2, <2>3 DEF Acts
<1>18. call'[th] = <<>> /\ CallOK(th)'
    BY DEF CallOK
<1>19. CallsOK'
    BY <1>17, <1>18, CallsKept
<1>20. PointersOK'
    <2>1. p = None \/ p = language[x]
        BY <1>10
    <2>2. x \in Query /\ ~b => p = None
        BY <1>1, <1>7, <1>10 DEF Inv, PointersOK
    <2>3. x \in Language => p = None
        BY <1>1, <2>1, KindsDiffer DEF Inv, PointersOK
    <2>4. f = "none" => p = None
        BY <1>7, <2>2, <2>3
    <2>5. QED
        BY <1>1, <1>8, <1>15, <1>16, <2>1, <2>2, <2>4 DEF Inv, PointersOK
<1>21. LivesOK'
    BY <1>1, <1>5, <1>7, <1>15, <1>16, HandleKinds DEF Inv, LivesOK
<1>22. UsersOK'
    <2>1. ASSUME NEW z \in Counting
          PROVE  count'[z] = count[z] + (PointsSum(x, z)' - PointsSum(x, z))
                                   + (In(th, Holding(z)') - In(th, Holding(z)))
                                   + (Occ(s, z) - Occ(owed[th], z))
        <3>1. In(th, Holding(z)) = 0 /\ In(th, Holding(z)') = 0
            BY <1>18, InHolding DEF Holds
        <3>2. Is(None, z) = 0
            BY HandleKinds DEF Is
        <3>3. PointsSum(x, z) = Is(language[x], z) + 0 + 0 /\ PointsSum(x, z)' = Is(p, z) + 0 + 0
            BY <1>8, <1>16, <3>2 DEF PointsSum
        <3>4. Is(language[x], z) \in 0..1 /\ Is(p, z) \in 0..1
            BY DEF Is
        <3>5. Occ(rest, z) \in Nat /\ Occ(owed[th], z) \in Nat
            BY PlacesFinite DEF Inv, CallsOK, Debtors
        <3>6. Occ(s, z) = (Is(language[x], z) - Is(p, z)) + Occ(rest, z)
            <4>1. CASE gone
                <5>1. Occ(Some(language[x]) \o rest, z) = Is(language[x], z) + Occ(rest, z)
                    BY <1>8, OccSome
                <5>2. QED
                    BY <1>9, <1>10, <3>2, <3>4, <3>5, <4>1, <5>1
            <4>2. CASE ~gone
                BY <1>9, <1>10, <3>4, <3>5, <4>2
            <4>3. QED
                BY <4>1, <4>2
        <3>7. count[z] \in Nat /\ count[x] \in Nat
            BY <1>1 DEF Inv, TypeOK
        <3>8. count'[z] = count[z] + (Occ(rest, z) - Occ(owed[th], z))
            BY <1>16, <3>7
        <3>9. QED
            BY <3>1, <3>3, <3>4, <3>5, <3>6, <3>7, <3>8
    <2>2. QED
        BY <1>1, <1>13, <1>14, <1>17, <1>18, <2>1, UsersKept
<1>23. QED
    BY <1>13, <1>19, <1>20, <1>21, <1>22 DEF Inv

\* ... of a tree.
LEMMA SettleTreeKeeps ==
    ASSUME Inv, NEW th \in Threads, call[th] = <<>>, NEW x \in Tree,
           NEW n \in Nat, NEW l, NEW rest \in Seq(Counting), life[x] # "none",
           l = life[x] \/ (life[x] = "dropped" /\ l = "collected"),
           \A z \in Counting :
              Occ(rest, z) - Occ(owed[th], z) = IF z = x THEN n - count[x] ELSE 0,
           SettleTree(th, x, n, l, rest), UNCHANGED <<tree, query, call>>
    PROVE  Inv'
<1> DEFINE freed == l = "collected" /\ n = 0
<1>1. x \in Handle /\ x \in Counting /\ x \notin Parser /\ x \notin Node /\ x \notin Cursor
      /\ x \notin Language /\ x \notin Query
    BY HandleKinds, KindsDiffer
<1>2. PICK f : f = IF freed THEN "none" ELSE l
    OBVIOUS
<1>3. PICK o : o = IF freed THEN None ELSE owner[x]
    OBVIOUS
<1>4. PICK p : p = IF freed THEN None ELSE language[x]
    OBVIOUS
<1>5. /\ count' = [count EXCEPT ![x] = n]
      /\ life' = [life EXCEPT ![x] = f]
      /\ open' = [open EXCEPT ![x] = open[x] /\ ~freed]
      /\ native' = [native EXCEPT ![x] = native[x] /\ ~freed]
      /\ Owe(th, IF freed THEN Some(language[x]) \o rest ELSE rest)
    BY <1>2 DEF SettleTree, Frees
<1>6. owner' = [owner EXCEPT ![x] = o] /\ language' = [language EXCEPT ![x] = p]
    BY <1>1, <1>3, <1>4 DEF SettleTree, Frees, Inv, TypeOK
<1>7. PICK b \in BOOLEAN : b = (native[x] /\ ~freed)
    OBVIOUS
<1>8. PICK i \in BOOLEAN : i = (open[x] /\ ~freed)
    OBVIOUS
<1>9. native' = [native EXCEPT ![x] = b] /\ open' = [open EXCEPT ![x] = i]
    BY <1>5, <1>7, <1>8
<1>10. /\ f \in {"none", "held", "dropped", "collected"}
       /\ life[x] = "held" => f = "held" /\ o = owner[x]
       /\ (i => b) /\ (b => f # "none")
       /\ f = "none" => n = 0 /\ p = None
       /\ p = None \/ p = language[x]
       /\ o \in Thread \cup {None} /\ p \in Language \cup {None}
    BY <1>1, <1>2, <1>3, <1>4, <1>7, <1>8 DEF Inv, TypeOK
<1>11. language[x] \in Counting \cup {None} /\ tree[x] = None /\ query[x] = None
    BY <1>1 DEF Inv, TypeOK, PointersOK, Counting
<1>12. PICK s \in Seq(Counting) : Owe(th, s) /\ s = IF freed THEN Some(language[x]) \o rest ELSE rest
    <2>1. Some(language[x]) \o rest \in Seq(Counting)
        BY <1>1, <1>11, OccSome
    <2>2. QED
        BY <1>5, <2>1
<1> HIDE DEF freed
<1>13. TypeOK'
    BY <1>1, <1>5, <1>6, <1>9, <1>10 DEF Inv, TypeOK
<1>14. Repoints(x)
    BY <1>1, <1>6 DEF Repoints, Inv, TypeOK
<1>15. \A z \in Handle : z # x =>
          /\ language'[z] = language[z] /\ life'[z] = life[z] /\ native'[z] = native[z]
          /\ open'[z] = open[z] /\ owner'[z] = owner[z]
    BY <1>1, <1>5, <1>6, <1>9 DEF Inv, TypeOK
<1>16. /\ life'[x] = f /\ native'[x] = b /\ language'[x] = p /\ count'[x] = n /\ owner'[x] = o
       /\ \A z \in Counting : z # x => count'[z] = count[z]
    BY <1>1, <1>5, <1>6, <1>9 DEF Inv, TypeOK
<1>17. Acts(th, s)
    <2>1. owed' \in Debtors /\ owed'[th] = s /\ \A u \in Threads : u # th => owed'[u] = owed[u]
        BY <1>12 DEF Owe, Inv, CallsOK, Debtors
    <2>2. ASSUME NEW u \in Thread, u # th
          PROVE  Spares(u)
        <3>1. call'[u] = call[u] /\ owed'[u] = owed[u]
            BY <2>1, <2>2 DEF Threads
        <3>2. \A z \in Handle : Held(z) => Held(z)' /\ owner'[z] = owner[z]
            BY <1>10, <1>15, <1>16 DEF Held
        <3>3. \A z \in Handle : /\ z \in Parser => language'[z] = language[z]
                                /\ query'[z] = query[z]
            BY <1>1, <1>15
        <3>4. QED
            BY <3>1, <3>2, <3>3 DEF Spares
    <2>3. DOMAIN call' = Threads /\ call'[Collector] = <<>>
        BY DEF Inv, CallsOK
    <2>4. QED
        BY <2>1, <2>2, <2>3 DEF Acts
<1>18. call'[th] = <<>> /\ CallOK(th)'
    BY DEF CallOK
<1>19. CallsOK'
    BY <1>17, <1>18, CallsKept
<1>20. PointersOK'
    BY <1>1, <1>10, <1>11, <1>15, <1>16 DEF Inv, PointersOK
<1>21. LivesOK'
    BY <1>1, <1>10, <1>15, <1>16, HandleKinds DEF Inv, LivesOK
<1>22. UsersOK'
    <2>1. ASSUME NEW z \in Counting
          PROVE  count'[z] = count[z] + (PointsSum(x, z)' - PointsSum(x, z))
                                   + (In(th, Holding(z)') - In(th, Holding(z)))
                                   + (Occ(s, z) - Occ(owed[th], z))
        <3>1. In(th, Holding(z)) = 0 /\ In(th, Holding(z)') = 0
            BY <1>18, InHolding DEF Holds
        <3>2. Is(None, z) = 0
            BY HandleKinds DEF Is
        <3>3. PointsSum(x, z) = Is(language[x], z) + 0 + 0 /\ PointsSum(x, z)' = Is(p, z) + 0 + 0
            BY <1>11, <1>16, <3>2 DEF PointsSum
        <3>4. Is(language[x], z) \in 0..1 /\ Is(p, z) \in 0..1
            BY DEF Is
        <3>5. Occ(rest, z) \in Nat /\ Occ(owed[th], z) \in Nat
            BY PlacesFinite DEF Inv, CallsOK, Debtors
        <3>6. Occ(s, z) = (Is(language[x], z) - Is(p, z)) + Occ(rest, z)
            <4>1. CASE freed
                <5>1. Occ(Some(language[x]) \o rest, z) = Is(language[x], z) + Occ(rest, z)
                    BY <1>11, OccSome
                <5>2. QED
                    BY <1>4, <1>12, <3>2, <3>4, <3>5, <4>1, <5>1
            <4>2. CASE ~freed
                BY <1>4, <1>12, <3>4, <3>5, <4>2
            <4>3. QED
                BY <4>1, <4>2
        <3>7. count[z] \in Nat /\ count[x] \in Nat
            BY <1>1 DEF Inv, TypeOK
        <3>8. count'[z] = count[z] + (Occ(rest, z) - Occ(owed[th], z))
            BY <1>16, <3>7
        <3>9. QED
            BY <3>1, <3>3, <3>4, <3>5, <3>6, <3>7, <3>8
    <2>2. QED
        BY <1>1, <1>13, <1>14, <1>17, <1>18, <2>1, UsersKept
<1>23. QED
    BY <1>13, <1>19, <1>20, <1>21, <1>22 DEF Inv

\* CloseLanguage, CloseQuery
LEMMA CloseCountingKeeps ==
    ASSUME Inv, NEW th \in Thread, Idle(th), NEW x \in Language \cup Query, Held(x), open[x],
           Settle(th, x, count[x], FALSE, life[x], <<>>), UNCHANGED <<tree, query, call>>
    PROVE  Inv'
<1>1. x \in Counting /\ th \in Threads /\ <<>> \in Seq(Counting)
    BY HandleKinds DEF Threads
<1>2. count[x] \in Nat /\ count[x] <= count[x] /\ life[x] # "none" /\ life[x] # "collected"
    BY <1>1 DEF Inv, TypeOK, Held
<1>3. PICK rest, n, l, isOpen :
        rest = <<>> /\ n = count[x] /\ l = life[x] /\ isOpen = FALSE
    OBVIOUS
<1>4. \A z \in Counting :
        Occ(rest, z) - Occ(owed[th], z) = IF z = x THEN n - count[x] ELSE 0
    BY <1>2, <1>3, OccEmpty DEF Idle
<1>5. /\ rest \in Seq(Counting) /\ n \in Nat /\ n <= count[x] /\ isOpen \in BOOLEAN
      /\ ~isOpen /\ l = life[x] /\ l # "collected" /\ call[th] = <<>>
    BY <1>1, <1>2, <1>3 DEF Idle
<1>6. Settle(th, x, n, isOpen, l, rest)
    BY <1>3
<1>7. QED
    BY <1>1, <1>2, <1>4, <1>5, <1>6, SettleKeeps

LEMMA ReleaseKeeps ==
    ASSUME Inv, NEW th \in Threads, Release(th)
    PROVE  Inv'
<1> DEFINE x == Head(owed[th])
           r == Tail(owed[th])
<1>1. owed[th] # <<>> /\ UNCHANGED <<tree, query, call>>
    BY DEF Release
<1>2. owed[th] \in Seq(Counting) /\ x \in Counting /\ r \in Seq(Counting) /\ count[x] > 0
    BY <1>1, Owed
<1>3. call[th] = <<>>
    BY <1>1 DEF Inv, CallsOK, CallOK, Threads
<1>4. count[x] \in Nat /\ life[x] # "none"
    BY <1>2 DEF Inv, TypeOK, LivesOK
<1>5. PICK n \in Nat : n = count[x] - 1
    BY <1>2, <1>4
<1>6. ASSUME NEW z \in Counting
      PROVE  Occ(r, z) - Occ(owed[th], z) = IF z = x THEN n - count[x] ELSE 0
    <2>1. Occ(owed[th], z) = Is(x, z) + Occ(r, z)
        BY <1>1, <1>2, OccTail
    <2>2. Occ(r, z) \in Nat
        BY <1>2, PlacesFinite
    <2>3. QED
        BY <1>4, <1>5, <2>1, <2>2 DEF Is
<1>7. IF x \in Tree THEN SettleTree(th, x, n, life[x], r)
                    ELSE Settle(th, x, n, open[x], life[x], r)
    BY <1>2, <1>5 DEF Release
<1> HIDE DEF x, r
<1>8. CASE x \in Tree
    BY <1>1, <1>2, <1>3, <1>4, <1>6, <1>7, <1>8, SettleTreeKeeps
<1>9. CASE x \notin Tree
    <2>1. x \in Language \cup Query /\ x \in Handle
        BY <1>2, <1>9, HandleKinds DEF Counting
    <2>2. open[x] \in BOOLEAN /\ (life[x] = "collected" => ~open[x]) /\ n <= count[x]
        BY <1>4, <1>5, <2>1 DEF Inv, TypeOK, LivesOK
    <2>3. Settle(th, x, n, open[x], life[x], r)
        BY <1>7, <1>9
    <2>4. QED
        BY <1>1, <1>2, <1>3, <1>4, <1>6, <2>1, <2>2, <2>3, SettleKeeps
<1>10. QED
    BY <1>8, <1>9

\* What the collector collects.
LEMMA CollectKeeps ==
    ASSUME Inv, NEW x \in Handle, Collect(x)
    PROVE  Inv'
<1>1. Idle(Collector) /\ life[x] = "dropped" /\ Collector \in Threads /\ Collector \notin Thread
    BY CollectorAssumption DEF Collect, Threads
<1>2. CASE x \in Counting
    <2>1. PICK rest, n, l, isOpen :
            rest = <<>> /\ n = count[x] /\ l = "collected" /\ isOpen = FALSE
        OBVIOUS
    <2>2. /\ IF x \in Tree THEN SettleTree(Collector, x, n, l, rest)
                           ELSE Settle(Collector, x, n, isOpen, l, rest)
          /\ UNCHANGED <<tree, query, call>>
        BY <1>2, <2>1 DEF Collect, CollectCounting
    <2>3. n \in Nat /\ n <= count[x] /\ rest \in Seq(Counting) /\ isOpen \in BOOLEAN /\ ~isOpen
          /\ call[Collector] = <<>> /\ life[x] = "dropped" /\ life[x] # "none"
        <3>1. count[x] \in Nat
            BY <1>2 DEF Inv, TypeOK
        <3>2. rest \in Seq(Counting)
            BY <2>1
        <3>3. n \in Nat /\ n <= count[x]
            BY <2>1, <3>1
        <3>4. call[Collector] = <<>>
            BY <1>1 DEF Idle
        <3>5. isOpen \in BOOLEAN /\ ~isOpen
            BY <2>1
        <3>6. QED
            BY <1>1, <3>2, <3>3, <3>4, <3>5
    <2>4. \A z \in Counting :
            Occ(rest, z) - Occ(owed[Collector], z) = IF z = x THEN n - count[x] ELSE 0
        BY <1>1, <2>1, <2>3, OccEmpty DEF Idle
    <2>5. CASE x \in Tree
        <3>1. SettleTree(Collector, x, n, l, rest)
            BY <2>2, <2>5
        <3>2. l = "collected"
            BY <2>1
        <3>3. QED
            BY <1>1, <2>2, <2>3, <2>4, <2>5, <3>1, <3>2, SettleTreeKeeps
    <2>6. CASE x \notin Tree
        <3>1. Settle(Collector, x, n, isOpen, l, rest) /\ x \in Language \cup Query
            BY <1>2, <2>2, <2>6 DEF Counting
        <3>2. l = "collected" /\ (isOpen => open[x])
            BY <2>1
        <3>3. QED
            BY <1>1, <2>2, <2>3, <2>4, <3>1, <3>2, SettleKeeps
    <2>7. QED
        BY <2>5, <2>6
<1>3. CASE x \notin Counting
    <2> DEFINE s == Some(language[x]) \o Some(query[x]) \o Some(tree[x])
    <2>1. /\ life' = [life EXCEPT ![x] = "none"] /\ open' = [open EXCEPT ![x] = FALSE]
          /\ native' = [native EXCEPT ![x] = FALSE] /\ language' = [language EXCEPT ![x] = None]
          /\ tree' = [tree EXCEPT ![x] = None] /\ query' = [query EXCEPT ![x] = None]
          /\ owner' = [owner EXCEPT ![x] = None] /\ Owe(Collector, s)
          /\ UNCHANGED <<count, call>>
        BY <1>3 DEF Collect, CollectPlain
    <2>2. TypeOK'
        BY <1>3, <2>1 DEF Inv, TypeOK
    <2>3. Repoints(x) /\ language'[x] = None /\ tree'[x] = None /\ query'[x] = None
        BY <2>1 DEF Repoints, Inv, TypeOK
    <2>4. s \in Seq(Counting)
        <3>1. language[x] \in Counting \cup {None} /\ query[x] \in Counting \cup {None}
              /\ tree[x] \in Counting \cup {None}
            BY DEF Inv, TypeOK, Counting
        <3>2. QED
            BY <3>1 DEF Some
    <2>5. ASSUME NEW z \in Counting
          PROVE  Occ(s, z) = PointsSum(x, z)
        <3>1. Occ(s, z) = Is(language[x], z) + (Is(query[x], z) + Is(tree[x], z))
            BY OccPointers
        <3>2. Is(language[x], z) \in Nat /\ Is(query[x], z) \in Nat /\ Is(tree[x], z) \in Nat
            BY DEF Is
        <3>3. QED
            BY <3>1, <3>2 DEF PointsSum
    <2> HIDE DEF s
    <2>6. Acts(Collector, s)
        <3>1. owed' \in Debtors /\ owed'[Collector] = s
              /\ \A u \in Threads : u # Collector => owed'[u] = owed[u]
            BY <1>1, <2>1, <2>4 DEF Owe, Inv, CallsOK, Debtors
        <3>2. ASSUME NEW u \in Thread
              PROVE  Spares(u)
            <4>1. call'[u] = call[u] /\ owed'[u] = owed[u]
                BY <1>1, <2>1, <3>1 DEF Threads
            <4>2. \A z \in Handle : z # x => life'[z] = life[z] /\ owner'[z] = owner[z]
                BY <2>1 DEF Inv, TypeOK
            <4>3. \A z \in Handle : Held(z) => z # x
                BY <1>1 DEF Held
            <4>4. QED
                BY <2>3, <4>1, <4>2, <4>3 DEF Spares, Held, Repoints
        <3>3. DOMAIN call' = Threads /\ call'[Collector] = <<>>
            BY <2>1 DEF Inv, CallsOK
        <3>4. QED
            BY <3>1, <3>2, <3>3 DEF Acts
    <2>7. UsersOK' /\ CallsOK'
        BY <1>1, <2>1, <2>2, <2>3, <2>4, <2>5, <2>6, LetGo DEF Idle
    <2>8. x \notin Language /\ x \notin Query
        BY <1>3, HandleKinds
    <2>9. \A z \in Handle : z # x =>
              life'[z] = life[z] /\ open'[z] = open[z] /\ native'[z] = native[z]
        BY <2>1 DEF Inv, TypeOK
    <2>10. life'[x] = "none"
        BY <2>1 DEF Inv, TypeOK
    <2>11. PointersOK'
        BY <2>3, <2>8, <2>9, <2>10 DEF Inv, PointersOK, Repoints
    <2>12. LivesOK'
        BY <1>3, <2>1, <2>8, <2>9, <2>10, HandleKinds DEF Inv, LivesOK
    <2>13. QED
        BY <2>2, <2>7, <2>11, <2>12 DEF Inv
<1>4. QED
    BY <1>2, <1>3

LEMMA DropKeeps ==
    ASSUME Inv, NEW x \in Handle, Drop(x)
    PROVE  Inv'
<1>1. /\ Held(x) /\ \A th \in Thread : \A i \in DOMAIN call[th] : call[th][i] # x
      /\ life' = [life EXCEPT ![x] = "dropped"]
      /\ UNCHANGED <<open, native, count, language, tree, query, owner, call, owed>>
    BY DEF Drop, pointers
<1>2. TypeOK'
    BY <1>1 DEF Inv, TypeOK
<1>3. \A z \in Handle : z # x => life'[z] = life[z]
    BY <1>1 DEF Inv, TypeOK
<1>4. life'[x] = "dropped" /\ life[x] = "held"
    BY <1>1 DEF Inv, TypeOK, Held
<1>5. PointersOK'
    BY <1>1, <1>3, <1>4 DEF Inv, PointersOK
<1>6. ASSUME NEW th \in Thread
      PROVE  CallOK(th)'
    <2>1. CallOK(th) /\ call'[th] = call[th] /\ owed'[th] = owed[th]
        BY <1>1 DEF Inv, CallsOK
    <2>2. ASSUME Setting(th) PROVE Setting(th)'
        <3>1. PICK p \in Parser, l \in Language :
                call[th] = <<"set", p, l>> /\ Held(p) /\ owner[p] = th
            BY <2>2 DEF Setting
        <3>2. 2 \in DOMAIN call[th] /\ call[th][2] = p
            BY <3>1
        <3>3. Held(p)'
            BY <1>1, <1>3, <3>1, <3>2, HandleKinds DEF Held
        <3>4. QED
            BY <1>1, <3>1, <3>3 DEF Setting
    <2>3. ASSUME Parsing(th) PROVE Parsing(th)'
        <3>1. PICK p \in Parser :
                call[th] = <<"parse", p>> /\ Held(p) /\ owner[p] = th /\ language[p] # None
            BY <2>3 DEF Parsing
        <3>2. 2 \in DOMAIN call[th] /\ call[th][2] = p
            BY <3>1
        <3>3. Held(p)'
            BY <1>1, <1>3, <3>1, <3>2, HandleKinds DEF Held
        <3>4. QED
            BY <1>1, <3>1, <3>3 DEF Parsing
    <2>4. ASSUME Executing(th) PROVE Executing(th)'
        <3>1. PICK c \in Cursor, q \in Query, n \in Node :
                call[th] = <<"exec", c, q, n>> /\ Held(c) /\ owner[c] = th /\ Held(n)
            BY <2>4 DEF Executing
        <3>2. /\ 2 \in DOMAIN call[th] /\ call[th][2] = c
              /\ 4 \in DOMAIN call[th] /\ call[th][4] = n
            BY <3>1
        <3>3. Held(c)' /\ Held(n)'
            BY <1>1, <1>3, <3>1, <3>2, HandleKinds DEF Held
        <3>4. QED
            BY <1>1, <3>1, <3>3 DEF Executing
    <2>5. Compiling(th) => Compiling(th)'
        BY <1>1 DEF Compiling
    <2>6. QED
        BY <2>1, <2>2, <2>3, <2>4, <2>5 DEF CallOK
<1>7. CallsOK'
    BY <1>1, <1>6 DEF Inv, CallsOK
<1>8. LivesOK'
    BY <1>1, <1>3, <1>4, HandleKinds DEF Inv, LivesOK
<1>9. UsersOK'
    BY <1>1 DEF Inv, UsersOK, Finite, Sum, Pointing, Points, Holding, Holds, Debts
<1>10. QED
    BY <1>2, <1>5, <1>7, <1>8, <1>9 DEF Inv

LEMMA InitInv ==
    ASSUME Init
    PROVE  Inv
<1>1. TypeOK
    BY DEF Init, TypeOK
<1>2. PointersOK
    BY DEF Init, PointersOK
<1>3. CallsOK
    <2>1. <<>> \in Seq(Counting)
        OBVIOUS
    <2>2. QED
        BY <2>1 DEF Init, CallsOK, CallOK, Debtors, Threads
<1>4. LivesOK
    BY HandleKinds DEF Init, LivesOK
<1>5. UsersOK
    <2>1. ASSUME NEW x \in Counting
          PROVE  Pointing(x) = {} /\ Holding(x) = {} /\ Debts(x) = {}
        <3>1. Pointing(x) = {}
            BY HandleKinds DEF Init, Pointing, Points
        <3>2. Holding(x) = {}
            BY DEF Init, Holding, Holds
        <3>3. \A th \in Threads : Places(owed[th], x) = {}
            BY DEF Init, Places, Threads
        <3>4. Debts(x) = {}
            BY <3>3 DEF Debts, Threads
        <3>5. QED
            BY <3>1, <3>2, <3>4
    <2>2. ASSUME NEW x \in Counting
          PROVE  Finite(x) /\ Sum(x) = 0
        <3>1. /\ IsFiniteSet(Pointing(x)) /\ Cardinality(Pointing(x)) = 0
              /\ IsFiniteSet(Holding(x)) /\ Cardinality(Holding(x)) = 0
              /\ IsFiniteSet(Debts(x)) /\ Cardinality(Debts(x)) = 0
            BY <2>1, FS_EmptySet
        <3>2. QED
            BY <3>1 DEF Finite, Sum
    <2>3. \A x \in Counting : count[x] = 0
        BY DEF Init
    <2>4. QED
        BY <2>2, <2>3 DEF UsersOK
<1>6. QED
    BY <1>1, <1>2, <1>3, <1>4, <1>5 DEF Inv

LEMMA NextKeeps ==
    ASSUME Inv, [Next]_vars
    PROVE  Inv'
<1>1. ASSUME NEW th \in Thread, Create(th)
      PROVE  Inv'
    <2>1. ASSUME NEW l \in Language, LoadLanguage(th, l)
          PROVE  Inv'
        BY <2>1, BornKeeps DEF LoadLanguage
    <2>2. ASSUME NEW p \in Parser, CreateParser(th, p)
          PROVE  Inv'
        BY <2>2, BornKeeps DEF CreateParser
    <2>3. ASSUME NEW c \in Cursor, CreateCursor(th, c)
          PROVE  Inv'
        BY <2>3, BornKeeps DEF CreateCursor
    <2>4. QED
        BY <1>1, <2>1, <2>2, <2>3, CompileKeeps, ParseKeeps, SetLanguageKeeps DEF Create
<1>2. ASSUME NEW th \in Thread, Close(th)
      PROVE  Inv'
    <2>1. ASSUME NEW l \in Language, CloseLanguage(th, l)
          PROVE  Inv'
        BY <2>1, CloseCountingKeeps DEF CloseLanguage
    <2>2. ASSUME NEW q \in Query, CloseQuery(th, q)
          PROVE  Inv'
        BY <2>2, CloseCountingKeeps DEF CloseQuery
    <2>3. QED
        BY <1>2, <2>1, <2>2, CloseParserKeeps, CloseTreeKeeps, CloseCursorKeeps DEF Close
<1>3. ASSUME NEW th \in Thread, Continue(th)
      PROVE  Inv'
    BY <1>3, LanguageSetKeeps, ParsedKeeps, CompiledKeeps, ExecutedKeeps, ReleaseKeeps
       DEF Continue, Threads
<1>4. ASSUME Release(Collector)
      PROVE  Inv'
    BY <1>4, ReleaseKeeps DEF Threads
<1>5. CASE UNCHANGED vars
    <2>1. UNCHANGED <<life, open, native, count, language, tree, query, owner, call, owed>>
        BY <1>5 DEF vars, resources, pointers
    <2>2. TypeOK' /\ PointersOK' /\ LivesOK'
        BY <2>1 DEF Inv, TypeOK, PointersOK, LivesOK
    <2>3. CallsOK'
        BY <2>1 DEF Inv, CallsOK, CallOK, Setting, Parsing, Compiling, Executing, Held
    <2>4. UsersOK'
        BY <2>1 DEF Inv, UsersOK, Finite, Sum, Pointing, Points, Holding, Holds, Debts
    <2>5. QED
        BY <2>2, <2>3, <2>4 DEF Inv
<1>6. QED
    BY <1>1, <1>2, <1>3, <1>4, <1>5, NavigationKeeps, DropKeeps, CollectKeeps DEF Next

\* Inv is inductive: every operation on a handle, every release it owes and every
\* collection keeps it (pl_ts_*, release_*_blob).
THEOREM Invariance == Spec => []Inv
<1>1. Init => Inv
    BY InitInv
<1>2. Inv /\ [Next]_vars => Inv'
    BY NextKeeps
<1>3. QED
    BY <1>1, <1>2, PTL DEF Spec

-----------------------------------------------------------------------------
(* Theorems.                                                               *)

\* Typing: every pointer of the binding is NULL or a resource of its kind, and what
\* is open or has a native object exists.
THEOREM Typing == Spec => []TypeOK
<1>1. Inv => TypeOK
    BY DEF Inv
<1>2. QED
    BY <1>1, Invariance, PTL

\* However calls, closes and collections of any number of threads and handles
\* interleave, a counter is the number of pointers, of calls under way and of
\* releases still owed that rely on the resource (language_retain and its like).
THEOREM CountersAreExact == Spec => []CountsAreExact
<1>1. Inv => CountsAreExact
    BY DEF Inv, UsersOK, Sum, CountsAreExact
<1>2. QED
    BY <1>1, Invariance, PTL

\* The library of a grammar is unmapped, and a query deleted, exactly when it is
\* closed and nobody uses it (language_retire_locked, query_retire_locked).
THEOREM LibrariesOutliveTheirUsers == Spec => []OutlivesItsUsers
<1>1. ASSUME Inv
      PROVE  OutlivesItsUsers
    <2>1. \A x \in Language \cup Query : x \in Counting /\ (native[x] <=> open[x] \/ count[x] > 0)
        BY <1>1, HandleKinds DEF Inv, LivesOK
    <2>2. \A x \in Language \cup Query : Used(x) <=> count[x] > 0
        BY <1>1, <2>1, Counted
    <2>3. QED
        BY <2>1, <2>2 DEF OutlivesItsUsers
<1>2. QED
    BY <1>1, Invariance, PTL

\* Nothing is freed that another resource points to, or a call or a pending release
\* is going to touch (release_language_blob, release_query_blob, release_tree_blob).
THEOREM NothingIsFreedInUse == Spec => []NothingDangles
<1>1. ASSUME Inv
      PROVE  NothingDangles
    <2>1. \A x \in Counting : count[x] \in Nat /\ (life[x] = "none" => count[x] = 0)
        BY <1>1 DEF Inv, TypeOK, LivesOK
    <2>2. \A x \in Counting : Used(x) => count[x] > 0
        BY <1>1, Counted
    <2>3. QED
        BY <2>1, <2>2 DEF NothingDangles
<1>2. QED
    BY <1>1, Invariance, PTL
=============================================================================
