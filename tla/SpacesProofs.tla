----------------------------- MODULE SpacesProofs -----------------------------
(***************************************************************************)
(* Proofs about Spaces, for any Spaces, any MAX_LIVE and any file found at *)
(* the first launch.                                                       *)
(*                                                                         *)
(* IInv is inductive alone: what is shown is the active Space, what is not *)
(* saved will be.  SInv, which is inductive beside it, is the coherence of *)
(* the manager: each Space is once in the store, has one lastActive, and   *)
(* views, preview, rail and limit follow the store.                        *)
(*                                                                         *)
(* The operations of the store are lists made of lists.  What each returns *)
(* is first stated as sets of elements and the absence of duplicates       *)
(* (ReorderFacts, OpenKeeps, ...); only Filter needs an induction, made by *)
(* the least length at which its lemma would fail.                         *)
(***************************************************************************)
EXTENDS Spaces, SequenceTheorems, WellFoundedInduction, FiniteSetTheorems, TLAPS

IInv == ActiveIsShown /\ SaveIsPending

------------------------------------------------------------------------------

(* Facts about sequences that the operations of the store rest on.             *)

(* Induction over the natural numbers, in the form that needs no operator: a  *)
(* set of them that is not empty has a least element.                         *)
LEMMA Least ==
  ASSUME NEW T \in SUBSET Nat, T # {}
  PROVE  \E n \in T : \A m \in T : n <= m
<1>1. PICK n \in T : \A m \in T : ~ (<<m, n>> \in OpToRel(<, Nat))
  BY WFMin, NatLessThanWellFounded
<1>2. ASSUME NEW m \in T PROVE n <= m
  <2>1. m \in Nat /\ n \in Nat  OBVIOUS
  <2>2. ~ (m < n)  BY <1>1, <2>1 DEF OpToRel
  <2> QED  BY <2>1, <2>2
<1> QED  BY <1>2

LEMMA AppendFacts ==
  ASSUME NEW A, NEW s \in Seq(A), NEW x \in A
  PROVE  /\ Append(s, x) \in Seq(A) /\ Append(s, x) # <<>>
         /\ ToSet(Append(s, x)) = ToSet(s) \cup {x}
         /\ IsInjective(s) /\ x \notin ToSet(s) => IsInjective(Append(s, x))
         /\ Head(Append(s, x)) = IF s = <<>> THEN x ELSE Head(s)
<1> DEFINE t == Append(s, x)
<1>1. /\ t \in Seq(A) /\ Len(s) \in Nat /\ Len(t) = Len(s) + 1
      /\ DOMAIN s = 1 .. Len(s) /\ DOMAIN t = 1 .. Len(s) + 1
      /\ \A i \in 1 .. Len(s) : t[i] = s[i]
      /\ t[Len(s) + 1] = x
  OBVIOUS
<1>2. t # <<>>  BY <1>1
<1>3. ToSet(t) = ToSet(s) \cup {x}
  <2>1. ASSUME NEW y \in ToSet(t) PROVE y \in ToSet(s) \cup {x}
    <3>1. PICK i \in 1 .. Len(s) + 1 : t[i] = y  BY <1>1 DEF ToSet
    <3>2. i = Len(s) + 1 \/ i \in 1 .. Len(s)  BY <1>1
    <3> QED  BY <1>1, <3>1, <3>2 DEF ToSet
  <2>2. ASSUME NEW y \in ToSet(s) PROVE y \in ToSet(t)
    <3>1. PICK i \in 1 .. Len(s) : s[i] = y  BY <1>1 DEF ToSet
    <3>2. i \in 1 .. Len(s) + 1  BY <1>1
    <3> QED  BY <1>1, <3>1, <3>2 DEF ToSet
  <2>3. x \in ToSet(t)
    <3>1. Len(s) + 1 \in 1 .. Len(s) + 1  BY <1>1
    <3> QED  BY <1>1, <3>1 DEF ToSet
  <2> QED  BY <2>1, <2>2, <2>3
<1>4. ASSUME IsInjective(s), x \notin ToSet(s) PROVE IsInjective(t)
  <2>1. ASSUME NEW a \in 1 .. Len(s) + 1, NEW b \in 1 .. Len(s) + 1, t[a] = t[b] PROVE a = b
    <3>1. (a = Len(s) + 1 \/ a \in 1 .. Len(s)) /\ (b = Len(s) + 1 \/ b \in 1 .. Len(s))
      BY <1>1
    <3>2. CASE a \in 1 .. Len(s) /\ b \in 1 .. Len(s)
      BY <1>1, <1>4, <2>1, <3>2 DEF IsInjective
    <3>3. CASE a \in 1 .. Len(s) /\ b = Len(s) + 1
      BY <1>1, <1>4, <2>1, <3>3 DEF ToSet
    <3>4. CASE a = Len(s) + 1 /\ b \in 1 .. Len(s)
      BY <1>1, <1>4, <2>1, <3>4 DEF ToSet
    <3> QED  BY <3>1, <3>2, <3>3, <3>4
  <2> QED  BY <1>1, <2>1 DEF IsInjective
<1>5. Head(t) = IF s = <<>> THEN x ELSE Head(s)  OBVIOUS
<1> QED  BY <1>1, <1>2, <1>3, <1>4, <1>5

LEMMA ConcatFacts ==
  ASSUME NEW A, NEW s \in Seq(A), NEW t \in Seq(A)
  PROVE  /\ s \o t \in Seq(A)
         /\ ToSet(s \o t) = ToSet(s) \cup ToSet(t)
         /\ IsInjective(s) /\ IsInjective(t) /\ ToSet(s) \cap ToSet(t) = {} => IsInjective(s \o t)
         /\ s # <<>> => Head(s \o t) = Head(s)
<1> DEFINE u == s \o t
           m == Len(s)
           n == Len(t)
<1>1. /\ u \in Seq(A) /\ m \in Nat /\ n \in Nat /\ Len(u) = m + n
      /\ DOMAIN s = 1 .. m /\ DOMAIN t = 1 .. n /\ DOMAIN u = 1 .. m + n
      /\ \A i \in 1 .. m : u[i] = s[i]
      /\ \A i \in 1 .. m + n : i > m => u[i] = t[i - m]
  OBVIOUS
<1>2. \A i \in 1 .. n : m + i \in 1 .. m + n /\ u[m + i] = t[i]
  <2> SUFFICES ASSUME NEW i \in 1 .. n PROVE m + i \in 1 .. m + n /\ u[m + i] = t[i]
    OBVIOUS
  <2>1. m + i \in 1 .. m + n /\ m + i > m /\ (m + i) - m = i  BY <1>1
  <2> QED  BY <1>1, <2>1
<1>3. \A i \in 1 .. m + n : i \in 1 .. m \/ (i > m /\ i - m \in 1 .. n)
  BY <1>1
<1>4. \A i \in 1 .. m : i \in 1 .. m + n
  BY <1>1
<1>5. ToSet(s) = {s[i] : i \in 1 .. m} /\ ToSet(t) = {t[i] : i \in 1 .. n} /\ ToSet(u) = {u[i] : i \in 1 .. m + n}
  BY <1>1 DEF ToSet
<1>6. s # <<>> => Head(u) = Head(s)
  <2>1. s # <<>> => 1 \in 1 .. m /\ Head(s) = s[1] /\ Head(u) = u[1]
    BY <1>1
  <2> QED  BY <1>1, <2>1
<1> HIDE DEF u, m, n
<1>7. ToSet(u) = ToSet(s) \cup ToSet(t)
  <2>1. ASSUME NEW y \in ToSet(u) PROVE y \in ToSet(s) \cup ToSet(t)
    <3>1. PICK i \in 1 .. m + n : u[i] = y  BY <1>5
    <3> QED  BY <1>1, <1>3, <1>5, <3>1
  <2>2. ASSUME NEW y \in ToSet(s) PROVE y \in ToSet(u)
    <3>1. PICK i \in 1 .. m : s[i] = y  BY <1>5
    <3> QED  BY <1>1, <1>4, <1>5, <3>1
  <2>3. ASSUME NEW y \in ToSet(t) PROVE y \in ToSet(u)
    <3>1. PICK i \in 1 .. n : t[i] = y  BY <1>5
    <3> QED  BY <1>2, <1>5, <3>1
  <2> QED  BY <2>1, <2>2, <2>3
<1>8. ASSUME IsInjective(s), IsInjective(t), ToSet(s) \cap ToSet(t) = {} PROVE IsInjective(u)
  <2>1. ASSUME NEW a \in 1 .. m + n, NEW b \in 1 .. m + n, u[a] = u[b] PROVE a = b
    <3>2. CASE a \in 1 .. m /\ b \in 1 .. m
      <4>1. s[a] = s[b]  BY <1>1, <2>1, <3>2
      <4> QED  BY <1>1, <1>8, <3>2, <4>1 DEF IsInjective
    <3>3. CASE a \in 1 .. m /\ ~ (b \in 1 .. m)
      <4>1. s[a] = t[b - m] /\ b - m \in 1 .. n  BY <1>1, <1>3, <2>1, <3>3
      <4>2. s[a] \in ToSet(s) /\ t[b - m] \in ToSet(t)  BY <1>5, <3>3, <4>1
      <4> QED  BY <1>8, <4>1, <4>2
    <3>4. CASE ~ (a \in 1 .. m) /\ b \in 1 .. m
      <4>1. s[b] = t[a - m] /\ a - m \in 1 .. n  BY <1>1, <1>3, <2>1, <3>4
      <4>2. s[b] \in ToSet(s) /\ t[a - m] \in ToSet(t)  BY <1>5, <3>4, <4>1
      <4> QED  BY <1>8, <4>1, <4>2
    <3>5. CASE ~ (a \in 1 .. m) /\ ~ (b \in 1 .. m)
      <4>1. t[a - m] = t[b - m] /\ a - m \in 1 .. n /\ b - m \in 1 .. n  BY <1>1, <1>3, <2>1, <3>5
      <4>2. a - m = b - m  BY <1>1, <1>8, <4>1 DEF IsInjective
      <4> QED  BY <1>1, <4>2
    <3> QED  BY <3>2, <3>3, <3>4, <3>5
  <2> QED  BY <1>1, <2>1 DEF IsInjective
<1> QED  BY <1>1, <1>6, <1>7, <1>8 DEF u

(* What Filter computes, one element after the other. *)
LEMMA FilterSteps ==
  ASSUME NEW A, NEW s \in Seq(A), NEW S
  PROVE  \E f : /\ Filter(s, S) = f[Len(s)]
                /\ f[0] = <<>>
                /\ \A n \in 1 .. Len(s) :
                     f[n] = IF s[n] \in S THEN Append(f[n - 1], s[n]) ELSE f[n - 1]
<1> DEFINE N == Len(s)
           Def(f, k) == f = [n \in 0 .. k |-> IF n = 0 THEN <<>>
                                              ELSE IF s[n] \in S THEN Append(f[n - 1], s[n]) ELSE f[n - 1]]
           Bad == {k \in 0 .. N : \A f : ~ Def(f, k)}
<1>1. N \in Nat  OBVIOUS
<1>2. Bad = {}
  <2> SUFFICES ASSUME Bad # {} PROVE FALSE  OBVIOUS
  <2>1. PICK k \in Bad : \A m \in Bad : k <= m
    <3>1. Bad \in SUBSET Nat  BY <1>1
    <3> HIDE DEF Bad
    <3> QED  BY <3>1, Least
  <2>2. k \in 0 .. N /\ \A f : ~ Def(f, k)  OBVIOUS
  <2>3. k # 0
    <3> DEFINE f == [n \in 0 .. 0 |-> <<>>]
    <3>1. Def(f, 0)
      <4>1. \A n \in 0 .. 0 : n = 0  OBVIOUS
      <4> QED  BY <4>1
    <3> QED  BY <2>2, <3>1
  <2>4. k - 1 \in 0 .. N /\ k - 1 < k  BY <1>1, <2>2, <2>3
  <2>5. k - 1 \notin Bad
    <3> HIDE DEF Bad
    <3> QED  BY <1>1, <2>1, <2>2, <2>4
  <2>6. PICK g : Def(g, k - 1)  BY <2>4, <2>5
  <2> DEFINE f == [n \in 0 .. k |-> IF n = k THEN (IF s[k] \in S THEN Append(g[k - 1], s[k]) ELSE g[k - 1])
                                   ELSE g[n]]
             d(n) == IF n = 0 THEN <<>> ELSE IF s[n] \in S THEN Append(f[n - 1], s[n]) ELSE f[n - 1]
  <2>7. f = [n \in 0 .. k |-> d(n)]
    <3>1. ASSUME NEW n \in 0 .. k PROVE f[n] = d(n)
      <4>1. CASE n = k
        <5>1. k - 1 \in 0 .. k /\ k - 1 # k  BY <2>2, <2>4
        <5>2. f[k - 1] = g[k - 1]  BY <5>1
        <5> QED  BY <2>3, <4>1, <5>2
      <4>2. CASE n # k
        <5>1. n \in 0 .. k - 1 /\ (n # 0 => n - 1 \in 0 .. k /\ n - 1 # k)
          BY <2>2, <4>2
        <5>2. n # 0 => f[n - 1] = g[n - 1]  BY <5>1
        <5>3. g[n] = IF n = 0 THEN <<>> ELSE IF s[n] \in S THEN Append(g[n - 1], s[n]) ELSE g[n - 1]
          BY <2>6, <5>1
        <5>4. f[n] = g[n]  BY <4>2
        <5> HIDE DEF f
        <5> QED  BY <5>2, <5>3, <5>4
      <4> QED  BY <4>1, <4>2
    <3>2. f = [n \in 0 .. k |-> f[n]]  OBVIOUS
    <3> HIDE DEF f, d
    <3> QED  BY <3>1, <3>2
  <2>8. Def(f, k)
    <3> HIDE DEF f
    <3> QED  BY <2>7
  <2> HIDE DEF f
  <2> QED  BY <2>2, <2>8
<1>3. \E f : Def(f, N)
  <2>1. N \in 0 .. N  BY <1>1
  <2> QED  BY <1>2, <2>1
<1> DEFINE h == CHOOSE f : Def(f, N)
<1>4. Filter(s, S) = h[N]
  BY Zenon DEF Filter
<1>5. Def(h, N)
  BY <1>3, Zenon
<1> HIDE DEF h
<1>6. h[0] = <<>>
  BY <1>1, <1>5
<1>7. ASSUME NEW n \in 1 .. N PROVE h[n] = IF s[n] \in S THEN Append(h[n - 1], s[n]) ELSE h[n - 1]
  <2>1. n \in 0 .. N /\ n # 0  BY <1>1
  <2> QED  BY <1>5, <2>1
<1> QED  BY <1>4, <1>6, <1>7

(* filter() keeps the elements of S, each where it stood. *)
LEMMA FilterFacts ==
  ASSUME NEW A, NEW s \in Seq(A), NEW S
  PROVE  /\ Filter(s, S) \in Seq(A)
         /\ ToSet(Filter(s, S)) = ToSet(s) \cap S
         /\ IsInjective(s) => IsInjective(Filter(s, S))
         /\ s # <<>> /\ Head(s) \in S => Filter(s, S) # <<>> /\ Head(Filter(s, S)) = Head(s)
<1> DEFINE N == Len(s)
           Seen(n) == {s[i] : i \in 1 .. n} \cap S
           Good(t, n) == /\ t \in Seq(A)
                         /\ ToSet(t) = Seen(n)
                         /\ IsInjective(s) => IsInjective(t)
                         /\ n # 0 /\ s[1] \in S => t # <<>> /\ Head(t) = s[1]
<1>1. PICK f : /\ Filter(s, S) = f[N]
               /\ f[0] = <<>>
               /\ \A n \in 1 .. N : f[n] = IF s[n] \in S THEN Append(f[n - 1], s[n]) ELSE f[n - 1]
  BY FilterSteps
<1>2. N \in Nat /\ DOMAIN s = 1 .. N /\ \A i \in 1 .. N : s[i] \in A
  OBVIOUS
<1>3. Good(f[0], 0)
  <2>1. ToSet(<<>>) = {} /\ <<>> \in Seq(A) /\ IsInjective(<<>>)
    BY DEF ToSet, IsInjective
  <2>2. {s[i] : i \in 1 .. 0} = {}  OBVIOUS
  <2> QED  BY <1>1, <2>1, <2>2
<1>4. ASSUME NEW n \in 1 .. N, Good(f[n - 1], n - 1) PROVE Good(f[n], n)
  <2>1. n \in Nat /\ n - 1 \in Nat /\ s[n] \in A  BY <1>2
  <2>2. {s[i] : i \in 1 .. n} = {s[i] : i \in 1 .. n - 1} \cup {s[n]}
    <3>1. \A i : i \in 1 .. n <=> i \in 1 .. n - 1 \/ i = n  BY <2>1
    <3> QED  BY <3>1
  <2>3. IsInjective(s) => s[n] \notin Seen(n - 1)
    <3> SUFFICES ASSUME IsInjective(s), NEW i \in 1 .. n - 1, s[i] = s[n] PROVE FALSE  OBVIOUS
    <3>1. i \in DOMAIN s /\ n \in DOMAIN s /\ i # n  BY <1>2, <2>1
    <3> QED  BY <3>1 DEF IsInjective
  <2>4. CASE s[n] \in S
    <3>1. f[n] = Append(f[n - 1], s[n])  BY <1>1, <2>4
    <3>2. Seen(n) = Seen(n - 1) \cup {s[n]}  BY <2>2, <2>4
    <3>3. n - 1 = 0 => f[n - 1] = <<>>  BY <1>1
    <3>4. n - 1 = 0 => s[n] = s[1]  BY <2>1
    <3>5. /\ Append(f[n - 1], s[n]) \in Seq(A) /\ Append(f[n - 1], s[n]) # <<>>
          /\ ToSet(Append(f[n - 1], s[n])) = ToSet(f[n - 1]) \cup {s[n]}
          /\ IsInjective(f[n - 1]) /\ s[n] \notin ToSet(f[n - 1]) => IsInjective(Append(f[n - 1], s[n]))
          /\ Head(Append(f[n - 1], s[n])) = IF f[n - 1] = <<>> THEN s[n] ELSE Head(f[n - 1])
      BY <1>4, <2>1, AppendFacts
    <3> HIDE DEF Seen
    <3> QED  BY <1>4, <2>3, <3>1, <3>2, <3>3, <3>4, <3>5
  <2>5. CASE s[n] \notin S
    <3>1. f[n] = f[n - 1]  BY <1>1, <2>5
    <3>2. Seen(n) = Seen(n - 1)  BY <2>2, <2>5
    <3>3. s[1] \in S => n - 1 # 0  BY <2>1, <2>5
    <3> HIDE DEF Seen
    <3> QED  BY <1>4, <3>1, <3>2, <3>3
  <2> QED  BY <2>4, <2>5
<1>5. Good(f[N], N)
  <2> DEFINE Bad == {n \in 0 .. N : ~ Good(f[n], n)}
  <2> HIDE DEF Good
  <2>1. Bad = {}
    <3> SUFFICES ASSUME Bad # {} PROVE FALSE  OBVIOUS
    <3>1. PICK n \in Bad : \A m \in Bad : n <= m
      <4>1. Bad \in SUBSET Nat  BY <1>2
      <4> HIDE DEF Bad
      <4> QED  BY <4>1, Least
    <3>2. n \in 0 .. N /\ ~ Good(f[n], n)  OBVIOUS
    <3>3. n # 0  BY <1>3, <3>2
    <3>4. n \in 1 .. N /\ n - 1 \in 0 .. N /\ ~ (n <= n - 1)  BY <1>2, <3>2, <3>3
    <3>5. Good(f[n - 1], n - 1)  BY <3>1, <3>4
    <3> QED  BY <1>4, <3>2, <3>4, <3>5
  <2>2. N \in 0 .. N  BY <1>2
  <2> QED  BY <2>1, <2>2
<1>6. ToSet(s) = {s[i] : i \in 1 .. N}  BY <1>2 DEF ToSet
<1>7. s # <<>> => N # 0 /\ Head(s) = s[1]  OBVIOUS
<1> HIDE DEF N
<1> QED  BY <1>1, <1>5, <1>6, <1>7

------------------------------------------------------------------------------

(* setActive() and remove() are the only operations of SpaceStore that change *)
(* its active Space.                                                          *)
LEMMA StoreOperations ==
  ASSUME NEW st, NEW id, NEW name
  PROVE  /\ SeedIfEmpty(st).active = st.active
         /\ st.active # id => RemoveSpace(st, id).active = st.active
         /\ SetActive(st, id).active = id
         /\ Reorder(st, id).active = st.active
         /\ Update(st, id, name).active = st.active
BY DEF Add, RemoveSpace, SetActive, Reorder, SeedIfEmpty, Update, State

------------------------------------------------------------------------------
(* The operations of the store, on a store that lists each Space once.         *)

LEMMA WithoutFacts ==
  ASSUME NEW s \in Seq(All), NEW id
  PROVE  /\ Without(s, id) \in Seq(All)
         /\ ToSet(Without(s, id)) = ToSet(s) \ {id}
         /\ IsInjective(s) => IsInjective(Without(s, id))
         /\ s # <<>> /\ Head(s) # id => Without(s, id) # <<>> /\ Head(Without(s, id)) = Head(s)
<1>1. ToSet(s) \subseteq All /\ (s # <<>> => Head(s) \in All)
  BY DEF ToSet
<1> DEFINE kept == All \ {id}
<1>2. /\ Filter(s, kept) \in Seq(All) /\ ToSet(Filter(s, kept)) = ToSet(s) \cap kept
      /\ IsInjective(s) => IsInjective(Filter(s, kept))
      /\ s # <<>> /\ Head(s) \in kept => Filter(s, kept) # <<>> /\ Head(Filter(s, kept)) = Head(s)
  <2> HIDE DEF kept
  <2> QED  BY FilterFacts
<1>3. Without(s, id) = Filter(s, kept)  BY DEF Without
<1>4. ToSet(s) \cap kept = ToSet(s) \ {id}  BY <1>1
<1> QED  BY <1>1, <1>2, <1>3, <1>4

LEMMA ListFacts ==
  ASSUME NEW s \in Seq(All)
  PROVE  /\ ToSet(s) \subseteq All /\ IsFiniteSet(ToSet(s))
         /\ ToSet(s) # {} <=> s # <<>>
         /\ s # <<>> => Head(s) \in ToSet(s)
<1>1. /\ DOMAIN s = 1 .. Len(s) /\ Len(s) \in Nat
      /\ s # <<>> => 1 \in DOMAIN s /\ Head(s) = s[1]
      /\ s = <<>> => DOMAIN s = {}
      /\ \A i \in DOMAIN s : s[i] \in All
  OBVIOUS
<1>2. IsFiniteSet(DOMAIN s)  BY <1>1, FS_Interval
<1>3. s \in Surjection(DOMAIN s, ToSet(s))
  BY <1>1 DEF Surjection, ToSet
<1>4. IsFiniteSet(ToSet(s))  BY <1>2, <1>3, FS_Surjection
<1> QED  BY <1>1, <1>4 DEF ToSet

LEMMA CoherentFacts ==
  ASSUME NEW st, Coherent(st)
  PROVE  /\ st.spaces \in Seq(All) /\ st.recency \in Seq(All)
         /\ st.active \in All \cup {None} /\ st.names \in [All -> Names]
         /\ IsInjective(st.spaces) /\ IsInjective(st.recency)
         /\ ToSet(st.recency) = ToSet(st.spaces) /\ Known(st) = ToSet(st.spaces)
BY DEF Coherent, Stores, Known

LEMMA StateFacts ==
  ASSUME NEW spaces, NEW recency, NEW id, NEW names
  PROVE  /\ State(spaces, recency, id, names).spaces = spaces
         /\ State(spaces, recency, id, names).recency = recency
         /\ Known(State(spaces, recency, id, names)) = ToSet(spaces)
         /\ (/\ spaces \in Seq(All) /\ recency \in Seq(All)
             /\ id \in All \cup {None} /\ names \in [All -> Names]
             /\ IsInjective(spaces) /\ IsInjective(recency) /\ ToSet(recency) = ToSet(spaces))
            => Coherent(State(spaces, recency, id, names))
BY DEF State, Known, Coherent, Stores

LEMMA LatestFacts ==
  ASSUME NEW s \in Seq(All), NEW id \in All, IsInjective(s)
  PROVE  /\ Latest(s, id) \in Seq(All) /\ IsInjective(Latest(s, id))
         /\ ToSet(Latest(s, id)) = ToSet(s) \cup {id}
<1>1. /\ Without(s, id) \in Seq(All) /\ ToSet(Without(s, id)) = ToSet(s) \ {id}
      /\ IsInjective(Without(s, id))
  BY WithoutFacts
<1> QED  BY <1>1, AppendFacts DEF Latest

LEMMA EmptyIsCoherent ==
  Coherent(EmptyStore) /\ Known(EmptyStore) = {}
<1>1. <<>> \in Seq(All) /\ IsInjective(<<>>) /\ ToSet(<<>>) = {}
  BY DEF IsInjective, ToSet
<1>2. [s \in All |-> Blank] \in [All -> Names]  BY SpacesAssumption
<1> DEFINE names == [s \in All |-> Blank]
<1>3. EmptyStore = State(<<>>, <<>>, None, names)  BY DEF EmptyStore
<1>4. names \in [All -> Names]  BY <1>2
<1> HIDE DEF names
<1>5. <<>> \in Seq(All) /\ None \in All \cup {None}  OBVIOUS
<1>6. Coherent(State(<<>>, <<>>, None, names))  BY <1>1, <1>4, <1>5, StateFacts
<1>7. Known(State(<<>>, <<>>, None, names)) = {}  BY <1>1, StateFacts
<1> QED  BY <1>3, <1>6, <1>7

(* Leads: what MaestroLeads says of a store. *)
Leads(st) == st.spaces # <<>> /\ Head(st.spaces) = Maestro

LEMMA AddFacts ==
  ASSUME NEW st, Coherent(st), NEW id \in All \ Known(st), NEW name \in Names
  PROVE  /\ Coherent(Add(st, id, name))
         /\ Known(Add(st, id, name)) = Known(st) \cup {id}
         /\ Leads(st) => Leads(Add(st, id, name))
<1>1. /\ Append(st.spaces, id) \in Seq(All) /\ Append(st.spaces, id) # <<>>
      /\ ToSet(Append(st.spaces, id)) = ToSet(st.spaces) \cup {id}
      /\ IsInjective(Append(st.spaces, id))
      /\ st.spaces # <<>> => Head(Append(st.spaces, id)) = Head(st.spaces)
  BY CoherentFacts, AppendFacts
<1>2. /\ Latest(st.recency, id) \in Seq(All) /\ IsInjective(Latest(st.recency, id))
      /\ ToSet(Latest(st.recency, id)) = ToSet(st.recency) \cup {id}
  BY CoherentFacts, LatestFacts
<1>3. [st.names EXCEPT ![id] = name] \in [All -> Names]  BY CoherentFacts
<1> DEFINE spaces == Append(st.spaces, id)
           recency == Latest(st.recency, id)
           names == [st.names EXCEPT ![id] = name]
<1>4. Add(st, id, name) = State(spaces, recency, st.active, names)  BY DEF Add
<1>5. ToSet(recency) = ToSet(spaces)  BY <1>1, <1>2, CoherentFacts
<1> HIDE DEF spaces, recency, names
<1>6. Coherent(State(spaces, recency, st.active, names))
  BY <1>1, <1>2, <1>3, <1>5, CoherentFacts, StateFacts DEF spaces, recency, names
<1>7. Known(State(spaces, recency, st.active, names)) = Known(st) \cup {id}
  BY <1>1, CoherentFacts, StateFacts DEF spaces
<1>8. Leads(st) => Leads(State(spaces, recency, st.active, names))
  <2>1. spaces # <<>> /\ (st.spaces # <<>> => Head(spaces) = Head(st.spaces))
    BY <1>1 DEF spaces
  <2> QED  BY <2>1, StateFacts DEF Leads
<1> QED  BY <1>4, <1>6, <1>7, <1>8

LEMMA RemoveFacts ==
  ASSUME NEW st, Coherent(st), NEW id \in Ids
  PROVE  /\ Coherent(RemoveSpace(st, id))
         /\ Known(RemoveSpace(st, id)) = Known(st) \ {id}
         /\ Leads(st) => Leads(RemoveSpace(st, id))
<1> DEFINE left == Without(st.spaces, id)
           next == IF st.active # id THEN st.active ELSE IF left = <<>> THEN None ELSE Head(left)
<1>1. /\ left \in Seq(All) /\ ToSet(left) = ToSet(st.spaces) \ {id} /\ IsInjective(left)
      /\ st.spaces # <<>> /\ Head(st.spaces) # id => left # <<>> /\ Head(left) = Head(st.spaces)
  BY CoherentFacts, WithoutFacts
<1>2. /\ Without(st.recency, id) \in Seq(All) /\ IsInjective(Without(st.recency, id))
      /\ ToSet(Without(st.recency, id)) = ToSet(st.recency) \ {id}
  BY CoherentFacts, WithoutFacts
<1>3. [st.names EXCEPT ![id] = Blank] \in [All -> Names]  BY CoherentFacts, SpacesAssumption
<1>4. next \in All \cup {None}  BY <1>1, CoherentFacts
<1>5. RemoveSpace(st, id) = State(left, Without(st.recency, id), next, [st.names EXCEPT ![id] = Blank])
  BY DEF RemoveSpace
<1>6. Maestro # id  BY SpacesAssumption
<1> DEFINE recency == Without(st.recency, id)
           names == [st.names EXCEPT ![id] = Blank]
           now == State(left, recency, next, names)
<1>7. ToSet(recency) = ToSet(left)  BY <1>1, <1>2, CoherentFacts
<1>8. recency \in Seq(All) /\ IsInjective(recency) /\ names \in [All -> Names]
  BY <1>2, <1>3
<1> HIDE DEF left, next, recency, names
<1>9. Coherent(now)  BY <1>1, <1>4, <1>7, <1>8, StateFacts
<1>10. Known(now) = Known(st) \ {id}  BY <1>1, CoherentFacts, StateFacts
<1>11. Leads(st) => Leads(now)  BY <1>1, <1>6, StateFacts DEF Leads
<1>12. RemoveSpace(st, id) = now  BY <1>5 DEF recency, names
<1> QED  BY <1>9, <1>10, <1>11, <1>12

LEMMA SetActiveFacts ==
  ASSUME NEW st, Coherent(st), NEW id \in Known(st)
  PROVE  /\ Coherent(SetActive(st, id)) /\ Known(SetActive(st, id)) = Known(st)
         /\ Leads(st) => Leads(SetActive(st, id))
<1>1. id \in All  BY CoherentFacts, ListFacts
<1>2. /\ Latest(st.recency, id) \in Seq(All) /\ IsInjective(Latest(st.recency, id))
      /\ ToSet(Latest(st.recency, id)) = ToSet(st.recency) \cup {id}
  BY <1>1, CoherentFacts, LatestFacts
<1> DEFINE recency == Latest(st.recency, id)
           now == State(st.spaces, recency, id, st.names)
<1>3. ToSet(recency) = ToSet(st.spaces)  BY <1>2, CoherentFacts
<1>4. SetActive(st, id) = now  BY DEF SetActive
<1>5. recency \in Seq(All) /\ IsInjective(recency)  BY <1>2
<1> HIDE DEF recency
<1>6. Coherent(now)  BY <1>1, <1>3, <1>5, CoherentFacts, StateFacts
<1>7. Known(now) = Known(st) /\ (Leads(st) => Leads(now))  BY CoherentFacts, StateFacts DEF Leads
<1> QED  BY <1>4, <1>6, <1>7

LEMMA UpdateFacts ==
  ASSUME NEW st, Coherent(st), NEW id, NEW name \in Names
  PROVE  /\ Coherent(Update(st, id, name)) /\ Known(Update(st, id, name)) = Known(st)
         /\ Leads(st) => Leads(Update(st, id, name))
<1>1. [st.names EXCEPT ![id] = name] \in [All -> Names]  BY CoherentFacts
<1> QED  BY <1>1, CoherentFacts, StateFacts DEF Update, Leads

LEMMA PinFacts ==
  ASSUME NEW s \in Seq(All), IsInjective(s), Maestro \in ToSet(s)
  PROVE  /\ PinMaestroFront(s) \in Seq(All) /\ IsInjective(PinMaestroFront(s))
         /\ ToSet(PinMaestroFront(s)) = ToSet(s)
         /\ PinMaestroFront(s) # <<>> /\ Head(PinMaestroFront(s)) = Maestro
<1> DEFINE rest == Without(s, Maestro)
           front == <<Maestro>>
<1>1. rest \in Seq(All) /\ ToSet(rest) = ToSet(s) \ {Maestro} /\ IsInjective(rest)
  BY WithoutFacts
<1>2. /\ front \in Seq(All) /\ front # <<>> /\ Head(front) = Maestro
      /\ DOMAIN front = {1} /\ front[1] = Maestro
  BY DEF All
<1>3. ToSet(front) = {Maestro} /\ IsInjective(front)
  BY <1>2 DEF ToSet, IsInjective
<1>4. Contains(s, Maestro)
  BY DEF Contains, ToSet
<1>5. PinMaestroFront(s) = front \o rest
  BY <1>4 DEF PinMaestroFront
<1> HIDE DEF front, rest
<1>6. /\ front \o rest \in Seq(All) /\ ToSet(front \o rest) = ToSet(front) \cup ToSet(rest)
      /\ IsInjective(front \o rest) /\ Head(front \o rest) = Head(front)
  BY <1>1, <1>2, <1>3, ConcatFacts
<1>7. ToSet(front \o rest) = ToSet(s)  BY <1>1, <1>3, <1>6
<1>8. front \o rest # <<>>  BY <1>6, <1>7, ListFacts
<1> QED  BY <1>2, <1>5, <1>6, <1>7, <1>8

LEMMA EnsureFacts ==
  ASSUME NEW st, Coherent(st)
  PROVE  /\ Coherent(EnsureMaestro(st)) /\ Known(EnsureMaestro(st)) = Known(st) \cup {Maestro}
         /\ Leads(EnsureMaestro(st)) /\ EnsureMaestro(st).active = st.active
<1>0. Maestro \in All /\ EnsureMaestro(st).active = st.active
  BY DEF All, EnsureMaestro, State
<1>1. CASE Maestro \in Known(st)
  <2>1. /\ PinMaestroFront(st.spaces) \in Seq(All) /\ IsInjective(PinMaestroFront(st.spaces))
        /\ ToSet(PinMaestroFront(st.spaces)) = ToSet(st.spaces)
        /\ PinMaestroFront(st.spaces) # <<>> /\ Head(PinMaestroFront(st.spaces)) = Maestro
    BY <1>1, CoherentFacts, PinFacts
  <2>2. EnsureMaestro(st) = State(PinMaestroFront(st.spaces), st.recency, st.active, st.names)
    BY <1>1 DEF EnsureMaestro
  <2> QED  BY <1>0, <1>1, <2>1, <2>2, CoherentFacts, StateFacts DEF Leads
<1>2. CASE Maestro \notin Known(st)
  <2> DEFINE front == <<Maestro>>
             all == front \o st.spaces
  <2>1. /\ front \in Seq(All) /\ front # <<>> /\ Head(front) = Maestro
        /\ DOMAIN front = {1} /\ front[1] = Maestro
    BY DEF All
  <2>2. ToSet(front) = {Maestro} /\ IsInjective(front)
    BY <2>1 DEF ToSet, IsInjective
  <2>3. EnsureMaestro(st) = State(all, Latest(st.recency, Maestro), st.active, st.names)
    BY <1>2 DEF EnsureMaestro
  <2> HIDE DEF front
  <2>4. /\ all \in Seq(All) /\ ToSet(all) = {Maestro} \cup ToSet(st.spaces)
        /\ IsInjective(all) /\ Head(all) = Maestro
    BY <1>2, <2>1, <2>2, CoherentFacts, ConcatFacts
  <2>5. all # <<>>  BY <2>4, ListFacts
  <2>6. /\ Latest(st.recency, Maestro) \in Seq(All) /\ IsInjective(Latest(st.recency, Maestro))
        /\ ToSet(Latest(st.recency, Maestro)) = ToSet(st.recency) \cup {Maestro}
    BY <1>0, CoherentFacts, LatestFacts
  <2> DEFINE recency == Latest(st.recency, Maestro)
             now == State(all, recency, st.active, st.names)
  <2>7. ToSet(recency) = ToSet(all)  BY <2>4, <2>6, CoherentFacts
  <2>8. recency \in Seq(All) /\ IsInjective(recency) /\ EnsureMaestro(st) = now  BY <2>3, <2>6
  <2> HIDE DEF all, recency
  <2>9. Coherent(now)  BY <2>4, <2>7, <2>8, CoherentFacts, StateFacts
  <2>10. Known(now) = Known(st) \cup {Maestro}  BY <2>4, CoherentFacts, StateFacts
  <2>11. Leads(now)  BY <2>4, <2>5, StateFacts DEF Leads
  <2> QED  BY <1>0, <2>8, <2>9, <2>10, <2>11
<1> QED  BY <1>1, <1>2

LEMMA ReorderFacts ==
  ASSUME NEW st, Coherent(st), Maestro \in Known(st),
         NEW ids \in Seq(All), IsInjective(ids)
  PROVE  Coherent(Reorder(st, ids)) /\ Known(Reorder(st, ids)) = Known(st) /\ Leads(Reorder(st, ids))
<1> DEFINE cited == Filter(ids, Known(st))
           missing == Filter(st.spaces, All \ ToSet(ids))
           order == cited \o missing
<1>1. cited \in Seq(All) /\ ToSet(cited) = ToSet(ids) \cap Known(st) /\ IsInjective(cited)
  BY FilterFacts
<1>2. /\ missing \in Seq(All) /\ ToSet(missing) = ToSet(st.spaces) \cap (All \ ToSet(ids))
      /\ IsInjective(missing)
  BY CoherentFacts, FilterFacts
<1>3. Reorder(st, ids) = State(PinMaestroFront(order), st.recency, st.active, st.names)
  BY DEF Reorder
<1> HIDE DEF cited, missing
<1>4. order \in Seq(All) /\ ToSet(order) = ToSet(cited) \cup ToSet(missing) /\ IsInjective(order)
  BY <1>1, <1>2, ConcatFacts
<1>5. ToSet(st.spaces) \subseteq All  BY CoherentFacts, ListFacts
<1>6. ToSet(order) = Known(st)  BY <1>1, <1>2, <1>4, <1>5, CoherentFacts
<1> HIDE DEF order
<1>7. /\ PinMaestroFront(order) \in Seq(All) /\ IsInjective(PinMaestroFront(order))
      /\ ToSet(PinMaestroFront(order)) = ToSet(order)
      /\ PinMaestroFront(order) # <<>> /\ Head(PinMaestroFront(order)) = Maestro
  BY <1>4, <1>6, PinFacts
<1> QED  BY <1>3, <1>6, <1>7, CoherentFacts, StateFacts DEF Leads

LEMMA FirstFacts ==
  ASSUME NEW st, Coherent(st), Workspaces(st) # {}
  PROVE  FirstWorkspace(st) \in Workspaces(st)
<1>1. /\ Without(st.spaces, Maestro) \in Seq(All)
      /\ ToSet(Without(st.spaces, Maestro)) = Workspaces(st)
  BY CoherentFacts, WithoutFacts DEF Workspaces
<1> QED  BY <1>1, ListFacts DEF FirstWorkspace

LEMMA NewFacts ==
  ASSUME used \subseteq Ids, IdsLeft
  PROVE  NewId \in Ids \ used /\ NewId \in All /\ NewId # Maestro
<1>1. Ids \ used # {}  BY DEF IdsLeft
<1>2. NewId \in Ids \ used  BY <1>1 DEF NewId
<1> QED  BY <1>2, SpacesAssumption DEF All

LEMMA SeedFacts ==
  ASSUME NEW st, Coherent(st), used \subseteq Ids, IdsLeft
  PROVE  /\ Coherent(SeedIfEmpty(st)) /\ Workspaces(SeedIfEmpty(st)) # {}
         /\ Known(st) \subseteq Known(SeedIfEmpty(st))
         /\ SeedIfEmpty(st).active = st.active
         /\ Leads(st) => Leads(SeedIfEmpty(st))
<1>1. CASE Workspaces(st) = {}
  <2>1. NewId \in All \ Known(st) /\ NewId # Maestro  BY <1>1, NewFacts DEF Workspaces
  <2>2. /\ Coherent(Add(st, NewId, Blank)) /\ Known(Add(st, NewId, Blank)) = Known(st) \cup {NewId}
        /\ Leads(st) => Leads(Add(st, NewId, Blank))
    BY <2>1, SpacesAssumption, AddFacts
  <2>3. SeedIfEmpty(st) = Add(st, NewId, Blank)  BY <1>1 DEF SeedIfEmpty
  <2> QED  BY <2>1, <2>2, <2>3, StoreOperations DEF Workspaces
<1>2. CASE Workspaces(st) # {}
  BY <1>2 DEF SeedIfEmpty
<1> QED  BY <1>1, <1>2

(* The orders that the rail may ask for. *)
LEMMA OrderFacts ==
  ASSUME NEW S, IsFiniteSet(S), S \subseteq All, NEW ids \in SetToAllKPermutations(S)
  PROVE  ids \in Seq(All) /\ IsInjective(ids)
<1>1. PICK T \in SUBSET S : ids \in SetToSeqs(T)
  BY DEF SetToAllKPermutations
<1>2. Cardinality(T) \in Nat  BY FS_Subset, FS_CardinalityType
<1>3. /\ ids \in [1 .. Cardinality(T) -> T]
      /\ \A i, j \in 1 .. Cardinality(T) : i # j => ids[i] # ids[j]
  BY <1>1 DEF SetToSeqs
<1>4. ids \in [1 .. Cardinality(T) -> All]  BY <1>1, <1>3
<1>5. ids \in Seq(All)  BY <1>2, <1>4, IsASeq
<1> QED  BY <1>3, <1>5 DEF IsInjective

------------------------------------------------------------------------------

(* open() shows one view, that of the Space it opens, and suspends neither it *)
(* nor Maestro: it makes the invariant true, whatever it was.                *)
LEMMA OpenShows ==
  ASSUME NEW st, NEW views, NEW id, Open(st, views, id)
  PROVE  IInv' /\ (Maestro \in views => Maestro \in live')
<1>1. PICK gone \in Suspended(store', views \cup {id}, id) : live' = (views \cup {id}) \ gone
  BY DEF Open
<1>2. gone \subseteq (views \cup {id}) \ {id, Maestro}
  BY <1>1 DEF Suspended
<1>3. /\ store'.active = id /\ active' = id
      /\ visible' = {id} /\ saving' = TRUE
  BY StoreOperations DEF Open, ScheduleSave
<1>4. ActiveIsShown'
  BY <1>1, <1>2, <1>3 DEF ActiveIsShown
<1>5. SaveIsPending'
  BY <1>3 DEF SaveIsPending
<1> QED  BY <1>1, <1>2, <1>4, <1>5 DEF IInv

------------------------------------------------------------------------------

LEMMA Inits == Init => IInv
BY DEF Init, IInv, ActiveIsShown, SaveIsPending

LEMMA Steps == IInv /\ [Next]_vars => IInv'
<1> SUFFICES ASSUME IInv, [Next]_vars PROVE IInv'  OBVIOUS
<1> USE DEF IInv
<1>1. CASE Boot
  <2> DEFINE loaded == IF file = NoFile THEN EmptyStore ELSE file
             st == EnsureMaestro(SeedIfEmpty(loaded))
             first == IF st.active \in Known(st) THEN st.active ELSE FirstWorkspace(st)
  <2>1. Open(st, {}, first)  BY <1>1 DEF Boot
  <2> HIDE DEF st, first
  <2> QED  BY <2>1, OpenShows
<1>2. CASE RailReady
  BY <1>2 DEF RailReady, ActiveIsShown, SaveIsPending, viewVars, saveVars
<1>3. CASE Flush
  BY <1>3 DEF Flush, WriteFile, ActiveIsShown, SaveIsPending, viewVars
<1>4. ASSUME NEW id \in All, OpenSpace(id) PROVE IInv'
  BY <1>4, OpenShows DEF OpenSpace
<1>5. ASSUME NEW id \in All, Edit(id) PROVE IInv'
  <2>1. CASE id \in Known(store)
    <3>1. PICK name \in Names : store' = Update(store, id, name)
      BY <1>5, <2>1 DEF Edit
    <3>2. store'.active = store.active
      BY <3>1, StoreOperations
    <3>3. saving' = TRUE /\ UNCHANGED <<up, file, viewVars>>
      BY <1>5, <2>1 DEF Edit, ScheduleSave
    <3> QED  BY <3>2, <3>3 DEF ActiveIsShown, SaveIsPending, viewVars
  <2>2. CASE id \notin Known(store)
    BY <1>5, <2>2 DEF Edit, ActiveIsShown, SaveIsPending, viewVars, saveVars
  <2> QED  BY <2>1, <2>2
<1>6. ASSUME NEW id \in All, RouteToSurface(id) PROVE IInv'
  BY <1>6, OpenShows DEF RouteToSurface
<1>7. ASSUME NEW id \in Ids, Close(id) PROVE IInv'
  <2> DEFINE left == RemoveSpace(store, id)
             st == SeedIfEmpty(left)
             next == FirstWorkspace(st)
  <2>1. store.active # id => st.active = store.active
    BY StoreOperations
  <2>3. CASE active = id
    <3>1. Open(st, live \ {id}, next)  BY <1>7, <2>3 DEF Close
    <3> HIDE DEF st, next
    <3> QED  BY <3>1, OpenShows
  <2>4. CASE active # id
    <3>1. /\ store' = st /\ live' = live \ {id} /\ visible' = visible \ {id}
          /\ UNCHANGED <<up, file, active, preview>> /\ saving' = TRUE /\ up
      BY <1>7, <2>4 DEF Close, FromRail, Gesture, ScheduleSave
    <3> HIDE DEF st
    <3> QED  BY <2>1, <2>4, <3>1 DEF ActiveIsShown, SaveIsPending
  <2> QED  BY <2>3, <2>4
<1>8. ASSUME NEW id \in Ids, PreviewSurface(id) PROVE IInv'
  BY <1>8 DEF PreviewSurface, FromMaestro, ActiveIsShown, SaveIsPending, saveVars
<1>9. CASE Drag
  <2>1. PICK ids : store' = Reorder(store, ids)
    BY <1>9 DEF Drag
  <2>2. store'.active = store.active
    BY <2>1, StoreOperations
  <2>3. saving' = TRUE /\ UNCHANGED <<up, file, viewVars>>
    BY <1>9 DEF Drag, ScheduleSave
  <2> QED  BY <2>2, <2>3 DEF ActiveIsShown, SaveIsPending, viewVars
<1>10. CASE ClearPreview
  BY <1>10 DEF ClearPreview, ActiveIsShown, SaveIsPending, saveVars
<1>11. CASE Create
  BY <1>11 DEF Create, ActiveIsShown, SaveIsPending, viewVars, saveVars
<1>12. CASE FolderPicked
  BY <1>12 DEF FolderPicked, ActiveIsShown, SaveIsPending, viewVars, saveVars
<1>13. CASE DialogCancelled
  BY <1>13 DEF DialogCancelled, ActiveIsShown, SaveIsPending, viewVars, saveVars
<1>14. CASE DialogConfirmed
  <2>1. PICK name \in Names : Open(Add(store, NewId, name), live, NewId)
    BY <1>14 DEF DialogConfirmed
  <2> QED  BY <2>1, OpenShows
<1>15. CASE Quit
  BY <1>15 DEF Quit, WriteFile, Gone, ActiveIsShown, SaveIsPending
<1>16. CASE Crash
  BY <1>16 DEF Crash, Gone, ActiveIsShown, SaveIsPending
<1>17. CASE UNCHANGED vars
  BY <1>17 DEF vars, ActiveIsShown, SaveIsPending, viewVars, saveVars
<1> QED
  BY <1>1, <1>2, <1>3, <1>4, <1>5, <1>6, <1>7, <1>8, <1>9, <1>10, <1>11, <1>12,
     <1>13, <1>14, <1>15, <1>16, <1>17
  DEF Next

(* The inductive invariant: the two facts below.  What a step leaves of the *)
(* store's active Space does not depend on the order of the Spaces.         *)
THEOREM Inductive == Spec => []IInv
<1>1. Init => IInv  BY Inits
<1>2. IInv /\ [Next]_vars => IInv'  BY Steps
<1> QED  BY <1>1, <1>2, PTL DEF Spec

(* The manager and its store agree on the active Space, and it is shown,    *)
(* alone or beside what Maestro previews, whatever is opened, closed,       *)
(* previewed, suspended or restored from a file (SpaceManager.open()).      *)
THEOREM ActiveSpaceIsShown == Spec => []ActiveIsShown
<1>1. IInv => ActiveIsShown  BY DEF IInv
<1> QED  BY <1>1, Inductive, PTL

(* Nothing that changes the store forgets to schedule its save              *)
(* (SpaceStore.scheduleSave()).                                             *)
THEOREM ChangesAreScheduled == Spec => []SaveIsPending
<1>1. IInv => SaveIsPending  BY DEF IInv
<1> QED  BY <1>1, Inductive, PTL

(* Maestro is never suspended nor closed while the program runs             *)
(* (enforceSuspension(), close()).                                          *)
THEOREM MaestroIsKept == Spec => MaestroStaysWarm
<1> DEFINE Warm == up /\ up' /\ Maestro \in live => Maestro \in live'
<1>1. IInv /\ [Next]_vars => [Warm]_vars
  <2> SUFFICES ASSUME IInv, Next, up, up', Maestro \in live PROVE Maestro \in live'
    BY DEF vars
  <2> USE DEF IInv
  <2>1. ASSUME NEW id \in All, OpenSpace(id) \/ RouteToSurface(id) PROVE Maestro \in live'
    BY <2>1, OpenShows DEF OpenSpace, RouteToSurface
  <2>2. ASSUME NEW id \in Ids, Close(id) PROVE Maestro \in live'
    <3> DEFINE st == SeedIfEmpty(RemoveSpace(store, id))
               next == FirstWorkspace(st)
    <3>2. Maestro \in live \ {id}  BY SpacesAssumption
    <3>3. CASE Open(st, live \ {id}, next)
      <4> HIDE DEF st, next
      <4> QED  BY <3>2, <3>3, OpenShows
    <3>4. CASE live' = live \ {id}  BY <3>2, <3>4
    <3> QED  BY <2>2, <3>3, <3>4 DEF Close
  <2>3. CASE DialogConfirmed
    <3>1. PICK name \in Names : Open(Add(store, NewId, name), live, NewId)
      BY <2>3 DEF DialogConfirmed
    <3> QED  BY <3>1, OpenShows
  <2>4. ASSUME NEW id \in Ids, PreviewSurface(id) PROVE Maestro \in live'
    BY <2>4 DEF PreviewSurface
  <2>5. CASE ClearPreview
    BY <2>5 DEF ClearPreview
  <2>6. ~Boot /\ ~Quit /\ ~Crash
    BY DEF Boot, Quit, Crash, Gone
  <2>7. CASE RailReady \/ Flush \/ Drag \/ Create \/ FolderPicked \/ DialogCancelled
    BY <2>7 DEF RailReady, Flush, Drag, Create, FolderPicked, DialogCancelled, viewVars
  <2>8. ASSUME NEW id \in All, Edit(id) PROVE Maestro \in live'
    BY <2>8 DEF Edit, viewVars
  <2> QED  BY <2>1, <2>2, <2>3, <2>4, <2>5, <2>6, <2>7, <2>8 DEF Next
<1> QED  BY <1>1, Inductive, PTL DEF Spec, MaestroStaysWarm

------------------------------------------------------------------------------
(* The state of the manager.  Views are of Spaces that exist, and are finitely *)
(* many; the ids given out cover the Spaces of the store, so that the id of a  *)
(* new Space is in no list.                                                    *)

ViewTypes ==
  /\ saving \in BOOLEAN /\ unwritten \in BOOLEAN
  /\ live \subseteq All /\ visible \subseteq live /\ previewed \subseteq live
  /\ active \in All \cup {None} /\ preview \in Ids \cup {None}
  /\ IsFiniteSet(live)

Views == Coherent(store) /\ ViewTypes /\ MaestroLeads /\ ViewsAreOfSpaces /\ LiveIsBounded /\ RailIsCurrent

Counts ==
  /\ picking \in 0 .. MaxCreations /\ asking \in 0 .. MaxCreations
  /\ picking + asking <= MaxCreations
  /\ gestures \in 0 .. MaxGestures /\ trouble \in 0 .. MaxTrouble

UsedCovers == used \subseteq Ids /\ IsFiniteSet(used) /\ Workspaces(store) \subseteq used

Files == up \in BOOLEAN /\ (file # NoFile => Coherent(file))

SInv == Views /\ Counts /\ UsedCovers /\ Files

LEMMA PushIsCurrent ==
  ASSUME PushState
  PROVE  RailIsCurrent'
<1> SUFFICES ASSUME rail' # NoRail
             PROVE  /\ rail'.spaces = store'.spaces /\ rail'.names = store'.names
                    /\ rail'.active = active'
                    /\ live' \ rail'.live \subseteq previewed' /\ rail'.live \subseteq live'
  BY DEF RailIsCurrent
<1>1. rail' = [spaces |-> store'.spaces, names |-> store'.names, active |-> active', live |-> live']
  BY DEF PushState
<1> QED  BY <1>1

LEMMA LeadsFacts ==
  ASSUME NEW st, Coherent(st), Head(st.spaces) = Maestro, Workspaces(st) # {}
  PROVE  Leads(st) /\ Maestro \in Known(st)
<1>1. st.spaces \in Seq(All) /\ Known(st) = ToSet(st.spaces)  BY CoherentFacts
<1>2. ToSet(st.spaces) # {}  BY <1>1 DEF Workspaces
<1> QED  BY <1>1, <1>2, ListFacts DEF Leads

(* open() leaves the manager coherent, on any coherent store and any views of *)
(* its Spaces: what it suspends brings their number down to MAX_LIVE, or      *)
(* leaves only the Space it opens and Maestro.                                *)
LEMMA OpenKeeps ==
  ASSUME NEW st, NEW views, NEW id,
         Coherent(st), Leads(st), Workspaces(st) # {},
         id \in Known(st), views \subseteq Known(st), IsFiniteSet(views),
         preview \in Ids \cup {None},
         Open(st, views, id)
  PROVE  Views' /\ Known(store') = Known(st)
<1>1. /\ store' = SetActive(st, id) /\ active' = id /\ visible' = {id} /\ previewed' = {}
      /\ preview' \in Ids \cup {None} /\ saving' = TRUE /\ unwritten' = FALSE /\ PushState
  BY DEF Open, ScheduleSave
<1>2. Coherent(store') /\ Known(store') = Known(st) /\ Leads(store')
  BY <1>1, SetActiveFacts
<1>3. PICK gone \in Suspended(store', views \cup {id}, id) : live' = (views \cup {id}) \ gone
  BY DEF Open
<1>4. /\ gone \subseteq (views \cup {id}) \ {id, Maestro}
      /\ Cardinality((views \cup {id}) \ gone) <= MaxLive \/ gone = (views \cup {id}) \ {id, Maestro}
  BY DEF Suspended
<1>5. Known(st) \subseteq All  BY CoherentFacts, ListFacts
<1>6. live' \subseteq Known(st) /\ id \in live'  BY <1>3, <1>4
<1>7. IsFiniteSet(live')
  <2>1. IsFiniteSet(views \cup {id})  BY FS_AddElement
  <2>2. live' \in SUBSET (views \cup {id})  BY <1>3
  <2> QED  BY <2>1, <2>2, FS_Subset
<1>8. ViewTypes'
  BY <1>1, <1>5, <1>6, <1>7 DEF ViewTypes
<1>9. MaestroLeads'
  BY <1>2 DEF MaestroLeads, Leads, Workspaces
<1>10. ViewsAreOfSpaces'
  BY <1>2, <1>6 DEF ViewsAreOfSpaces
<1>11. LiveIsBounded'
  <2>1. live' \ previewed' = (views \cup {id}) \ gone  BY <1>1, <1>3
  <2>2. gone = (views \cup {id}) \ {id, Maestro} => live' \ previewed' \subseteq {active', Maestro}
    BY <1>1, <2>1
  <2> QED  BY <1>4, <2>1, <2>2 DEF LiveIsBounded
<1>12. RailIsCurrent'  BY <1>1, PushIsCurrent
<1> QED  BY <1>2, <1>8, <1>9, <1>10, <1>11, <1>12 DEF Views

(* Fewer views that count are as bounded. *)
LEMMA FewerLive ==
  ASSUME IsFiniteSet(live), LiveIsBounded, active' = active,
         live' \ previewed' \subseteq live \ previewed
  PROVE  LiveIsBounded'
<1> DEFINE before == live \ previewed
           after == live' \ previewed'
<1>1. IsFiniteSet(before)
  <2>1. before \in SUBSET live  OBVIOUS
  <2> QED  BY <2>1, FS_Subset
<1>2. after \in SUBSET before  OBVIOUS
<1> HIDE DEF before, after
<1>3. /\ IsFiniteSet(after) /\ Cardinality(after) <= Cardinality(before)
      /\ Cardinality(after) \in Nat /\ Cardinality(before) \in Nat
  BY <1>1, <1>2, FS_Subset, FS_CardinalityType
<1>4. MaxLive \in Nat  BY SpacesAssumption
<1>5. Cardinality(before) <= MaxLive => Cardinality(after) <= MaxLive  BY <1>3, <1>4
<1>6. Cardinality(before) <= MaxLive \/ before \subseteq {active, Maestro}
  BY DEF LiveIsBounded, before
<1>7. Cardinality(after) <= MaxLive \/ after \subseteq {active', Maestro}
  BY <1>2, <1>5, <1>6
<1> QED  BY <1>7 DEF LiveIsBounded, after

LEMMA GestureCounts ==
  ASSUME Counts, Gesture
  PROVE  gestures' \in 0 .. MaxGestures
<1>1. gestures \in 0 .. MaxGestures /\ gestures < MaxGestures /\ gestures' = gestures + 1
  BY DEF Counts, Gesture
<1> QED  BY <1>1, BoundsAssumption

LEMMA SInit == Init => SInv
<1> SUFFICES ASSUME Init PROVE SInv  OBVIOUS
<1>1. /\ up = FALSE /\ store = EmptyStore /\ file \in LegacyFiles
      /\ saving = FALSE /\ unwritten = FALSE
      /\ live = {} /\ visible = {} /\ active = None /\ preview = None /\ previewed = {}
      /\ rail = NoRail /\ picking = 0 /\ asking = 0 /\ gestures = 0 /\ trouble = 0
      /\ used = IF file = NoFile THEN {} ELSE Workspaces(file)
  BY DEF Init
<1>2. Coherent(store) /\ Workspaces(store) = {}
  BY <1>1, EmptyIsCoherent DEF Workspaces
<1>3. file # NoFile => Coherent(file)  BY <1>1, SpacesAssumption
<1>4. ViewTypes  BY <1>1, FS_EmptySet DEF ViewTypes
<1>5. MaestroLeads /\ ViewsAreOfSpaces /\ RailIsCurrent
  BY <1>1 DEF MaestroLeads, ViewsAreOfSpaces, RailIsCurrent
<1>6. LiveIsBounded  BY <1>1 DEF LiveIsBounded
<1>7. Counts  BY <1>1, BoundsAssumption DEF Counts
<1>8. used \subseteq Ids /\ IsFiniteSet(used)
  <2>1. CASE file = NoFile  BY <1>1, <2>1, FS_EmptySet
  <2>2. CASE file # NoFile
    <3>1. Known(file) \subseteq All /\ IsFiniteSet(Known(file))
      BY <1>3, <2>2, CoherentFacts, ListFacts
    <3>2. Workspaces(file) \in SUBSET Known(file)  BY DEF Workspaces
    <3>3. IsFiniteSet(Workspaces(file))  BY <3>1, <3>2, FS_Subset
    <3> QED  BY <1>1, <2>2, <3>1, <3>3 DEF Workspaces, All
  <2> QED  BY <2>1, <2>2
<1> QED  BY <1>1, <1>2, <1>3, <1>4, <1>5, <1>6, <1>7, <1>8 DEF SInv, Views, UsedCovers, Files

------------------------------------------------------------------------------
(* One lemma per action.  Besides the invariant, each says which Spaces the   *)
(* step may take from the store.                                              *)

LEMMA SBoot ==
  ASSUME SInv, Boot
  PROVE  SInv'
<1> USE DEF SInv
<1> DEFINE loaded == IF file = NoFile THEN EmptyStore ELSE file
           seeded == SeedIfEmpty(loaded)
           st == EnsureMaestro(seeded)
           id == IF st.active \in Known(st) THEN st.active ELSE FirstWorkspace(st)
<1>1. IdsLeft /\ Open(st, {}, id) /\ used' = used \cup Workspaces(st)
  BY DEF Boot
<1>2. up' = TRUE /\ UNCHANGED <<file, picking, asking, gestures, trouble>>
  BY DEF Boot, createVars, boundVars
<1>3. Coherent(loaded)  BY EmptyIsCoherent DEF Files
<1> HIDE DEF loaded
<1>4. Coherent(seeded) /\ Workspaces(seeded) # {}
  BY <1>1, <1>3, SeedFacts DEF UsedCovers
<1> HIDE DEF seeded
<1>5. Coherent(st) /\ Known(st) = Known(seeded) \cup {Maestro} /\ Leads(st)
  BY <1>4, EnsureFacts
<1>6. Workspaces(st) # {}  BY <1>4, <1>5 DEF Workspaces
<1> HIDE DEF st
<1>7. id \in Known(st)  BY <1>5, <1>6, FirstFacts DEF Workspaces
<1> HIDE DEF id
<1>8. preview \in Ids \cup {None}  BY DEF Views, ViewTypes
<1>9. Views' /\ Known(store') = Known(st)
  BY <1>1, <1>5, <1>6, <1>7, <1>8, FS_EmptySet, OpenKeeps
<1>10. UsedCovers'
  <2>0. st.spaces \in Seq(All) /\ Known(st) = ToSet(st.spaces)  BY <1>5, CoherentFacts
  <2>1. Known(st) \subseteq All /\ IsFiniteSet(Known(st))  BY <2>0, ListFacts
  <2>2. Workspaces(st) \in SUBSET Known(st) /\ Workspaces(st) \subseteq Ids
    BY <2>1 DEF Workspaces, All
  <2>3. IsFiniteSet(Workspaces(st))  BY <2>1, <2>2, FS_Subset
  <2>4. used' \subseteq Ids /\ IsFiniteSet(used')
    BY <1>1, <2>2, <2>3, FS_Union DEF UsedCovers
  <2>5. Workspaces(store') = Workspaces(st)  BY <1>9 DEF Workspaces
  <2> QED  BY <1>1, <2>4, <2>5 DEF UsedCovers
<1> QED  BY <1>2, <1>9, <1>10 DEF Counts, Files

LEMMA SOpen ==
  ASSUME SInv, NEW id \in All, OpenSpace(id) \/ RouteToSurface(id)
  PROVE  SInv' /\ Known(store') = Known(store)
<1> USE DEF SInv
<1>1. /\ up /\ Gesture /\ trouble' = trouble /\ id \in Known(store) /\ Open(store, live, id)
      /\ UNCHANGED <<up, file, picking, asking, used>>
  BY DEF OpenSpace, RouteToSurface, FromRail, FromMaestro, Gesture, createVars
<1>2. /\ Coherent(store) /\ Head(store.spaces) = Maestro /\ Workspaces(store) # {}
      /\ live \subseteq Known(store) /\ IsFiniteSet(live) /\ preview \in Ids \cup {None}
  BY <1>1 DEF Views, ViewTypes, MaestroLeads, ViewsAreOfSpaces
<1>3. Leads(store)  BY <1>2, LeadsFacts
<1>4. Views' /\ Known(store') = Known(store)
  BY <1>1, <1>2, <1>3, OpenKeeps
<1>5. gestures' \in 0 .. MaxGestures  BY <1>1, GestureCounts
<1>6. Counts'  BY <1>1, <1>5 DEF Counts
<1>7. UsedCovers'  BY <1>1, <1>4 DEF UsedCovers, Workspaces
<1>8. Files'  BY <1>1 DEF Files
<1> QED  BY <1>4, <1>6, <1>7, <1>8

LEMMA SConfirmed ==
  ASSUME SInv, DialogConfirmed
  PROVE  SInv' /\ Known(store) \subseteq Known(store')
<1> USE DEF SInv
<1>1. /\ up /\ asking > 0 /\ IdsLeft /\ asking' = asking - 1 /\ used' = used \cup {NewId}
      /\ UNCHANGED <<up, file, picking, gestures, trouble>>
  BY DEF DialogConfirmed, boundVars
<1>2. PICK name \in Names : Open(Add(store, NewId, name), live, NewId)
  BY DEF DialogConfirmed
<1>3. /\ Coherent(store) /\ Head(store.spaces) = Maestro /\ Workspaces(store) # {}
      /\ live \subseteq Known(store) /\ IsFiniteSet(live) /\ preview \in Ids \cup {None}
  BY <1>1 DEF Views, ViewTypes, MaestroLeads, ViewsAreOfSpaces
<1>4. /\ used \subseteq Ids /\ IsFiniteSet(used) /\ Workspaces(store) \subseteq used
  BY DEF UsedCovers
<1>5. NewId \in Ids \ used /\ NewId \in All /\ NewId # Maestro
  BY <1>1, <1>4, NewFacts
<1>6. NewId \in All \ Known(store)  BY <1>4, <1>5 DEF Workspaces
<1> DEFINE st == Add(store, NewId, name)
<1>7. Leads(store)  BY <1>3, LeadsFacts
<1>8. Coherent(st) /\ Known(st) = Known(store) \cup {NewId} /\ Leads(st)
  BY <1>3, <1>6, <1>7, AddFacts
<1>9. Open(st, live, NewId)  BY <1>2
<1> HIDE DEF st
<1>10. Workspaces(st) # {} /\ Workspaces(st) \subseteq used \cup {NewId}
  BY <1>4, <1>5, <1>8 DEF Workspaces
<1>11. Views' /\ Known(store') = Known(st)
  BY <1>3, <1>8, <1>9, <1>10, OpenKeeps
<1>12. UsedCovers'
  <2>1. IsFiniteSet(used \cup {NewId})  BY <1>4, FS_AddElement
  <2>2. Workspaces(store') = Workspaces(st)  BY <1>11 DEF Workspaces
  <2> QED  BY <1>1, <1>4, <1>5, <1>10, <2>1, <2>2 DEF UsedCovers
<1>13. Counts'
  <2>1. asking - 1 \in 0 .. MaxCreations /\ picking + (asking - 1) <= MaxCreations
    BY <1>1, BoundsAssumption DEF Counts
  <2> QED  BY <1>1, <2>1 DEF Counts
<1>14. Files'  BY <1>1 DEF Files
<1> QED  BY <1>8, <1>11, <1>12, <1>13, <1>14

LEMMA SClose ==
  ASSUME SInv, NEW id \in Ids, Close(id)
  PROVE  SInv' /\ Known(store) \ {id} \subseteq Known(store')
<1> USE DEF SInv
<1> DEFINE left == RemoveSpace(store, id)
           st == SeedIfEmpty(left)
<1>1. /\ up /\ Gesture /\ trouble' = trouble /\ IdsLeft /\ used' = used \cup Workspaces(st)
      /\ UNCHANGED <<up, file, picking, asking>>
  BY DEF Close, FromRail, Gesture, createVars
<1>2. \/ Open(st, live \ {id}, FirstWorkspace(st))
      \/ /\ store' = st /\ live' = live \ {id} /\ visible' = visible \ {id}
         /\ previewed' = previewed \ {id} /\ saving' = TRUE /\ unwritten' = FALSE
         /\ UNCHANGED <<active, preview>> /\ PushState
  BY DEF Close, ScheduleSave
<1>3. /\ Coherent(store) /\ Head(store.spaces) = Maestro /\ Workspaces(store) # {}
      /\ live \subseteq Known(store) /\ IsFiniteSet(live) /\ preview \in Ids \cup {None}
  BY <1>1 DEF Views, ViewTypes, MaestroLeads, ViewsAreOfSpaces
<1>4. used \subseteq Ids /\ IsFiniteSet(used)  BY DEF UsedCovers
<1>5. Leads(store)  BY <1>3, LeadsFacts
<1>6. Coherent(left) /\ Known(left) = Known(store) \ {id} /\ Leads(left)
  BY <1>3, <1>5, RemoveFacts
<1> HIDE DEF left
<1>7. Coherent(st) /\ Workspaces(st) # {} /\ Known(left) \subseteq Known(st) /\ Leads(st)
  BY <1>1, <1>4, <1>6, SeedFacts
<1> HIDE DEF st
<1>8. FirstWorkspace(st) \in Known(st)  BY <1>7, FirstFacts DEF Workspaces
<1>9. live \ {id} \subseteq Known(st) /\ IsFiniteSet(live \ {id})
  BY <1>3, <1>6, <1>7, FS_RemoveElement
<1>10. Views' /\ Known(store') = Known(st)
  <2>1. CASE Open(st, live \ {id}, FirstWorkspace(st))
    BY <1>3, <1>7, <1>8, <1>9, <2>1, OpenKeeps
  <2>2. CASE /\ store' = st /\ live' = live \ {id} /\ visible' = visible \ {id}
             /\ previewed' = previewed \ {id} /\ saving' = TRUE /\ unwritten' = FALSE
             /\ UNCHANGED <<active, preview>> /\ PushState
    <3>1. ViewTypes'  BY <1>9, <2>2 DEF Views, ViewTypes
    <3>2. MaestroLeads'  BY <1>7, <2>2 DEF MaestroLeads, Leads, Workspaces
    <3>3. ViewsAreOfSpaces'  BY <1>9, <2>2 DEF ViewsAreOfSpaces
    <3>4. live' \ previewed' \subseteq live \ previewed  BY <2>2
    <3>5. LiveIsBounded'  BY <1>3, <2>2, <3>4, FewerLive DEF Views
    <3>6. RailIsCurrent'  BY <2>2, PushIsCurrent
    <3> QED  BY <1>7, <2>2, <3>1, <3>2, <3>3, <3>5, <3>6 DEF Views
  <2> QED  BY <1>2, <2>1, <2>2
<1>11. UsedCovers'
  <2>1. Known(st) \subseteq All /\ IsFiniteSet(Known(st))  BY <1>7, CoherentFacts, ListFacts
  <2>2. Workspaces(st) \in SUBSET Known(st) /\ Workspaces(st) \subseteq Ids
    BY <2>1 DEF Workspaces, All
  <2>3. IsFiniteSet(Workspaces(st))  BY <2>1, <2>2, FS_Subset
  <2>4. used' \subseteq Ids /\ IsFiniteSet(used')  BY <1>1, <1>4, <2>2, <2>3, FS_Union
  <2>5. Workspaces(store') = Workspaces(st)  BY <1>10 DEF Workspaces
  <2> QED  BY <1>1, <2>4, <2>5 DEF UsedCovers
<1>12. Counts'  BY <1>1, GestureCounts DEF Counts
<1>13. Files'  BY <1>1 DEF Files
<1> QED  BY <1>6, <1>7, <1>10, <1>11, <1>12, <1>13

(* What a change of the store alone keeps: the rail is told, and the Spaces    *)
(* are those of before.                                                        *)
LEMMA StoreChanges ==
  ASSUME SInv, NEW st, Coherent(st), Known(st) = Known(store), up => Leads(st),
         store' = st, saving' \in BOOLEAN, unwritten' \in BOOLEAN,
         UNCHANGED <<up, live, visible, active, preview, previewed, used>>, PushState
  PROVE  Views' /\ UsedCovers' /\ Known(store') = Known(store)
<1> USE DEF SInv
<1>1. ViewTypes'  BY DEF Views, ViewTypes
<1>2. MaestroLeads'  BY DEF Views, MaestroLeads, Leads, Workspaces
<1>3. ViewsAreOfSpaces' /\ LiveIsBounded'  BY DEF Views, ViewsAreOfSpaces, LiveIsBounded
<1>4. RailIsCurrent'  BY PushIsCurrent
<1>5. UsedCovers'  BY DEF UsedCovers, Workspaces
<1> QED  BY <1>1, <1>2, <1>3, <1>4, <1>5 DEF Views

LEMMA SEdit ==
  ASSUME SInv, NEW id \in All, Edit(id)
  PROVE  SInv' /\ Known(store') = Known(store)
<1> USE DEF SInv
<1>1. /\ up /\ Gesture /\ trouble' = trouble /\ PushState
      /\ UNCHANGED <<up, file, live, visible, active, preview, previewed, picking, asking, used>>
  BY DEF Edit, FromRail, Gesture, viewVars, createVars
<1>2. Coherent(store) /\ Leads(store) /\ saving \in BOOLEAN /\ unwritten \in BOOLEAN
  BY <1>1, LeadsFacts DEF Views, ViewTypes, MaestroLeads
<1>3. PICK st : Coherent(st) /\ Known(st) = Known(store) /\ Leads(st) /\ store' = st
                /\ saving' \in BOOLEAN /\ unwritten' \in BOOLEAN
  <2>1. CASE id \in Known(store)
    <3>1. PICK name \in Names : store' = Update(store, id, name)  BY <2>1 DEF Edit
    <3>2. saving' = TRUE /\ unwritten' = FALSE  BY <2>1 DEF Edit, ScheduleSave
    <3>3. /\ Coherent(Update(store, id, name)) /\ Known(Update(store, id, name)) = Known(store)
          /\ Leads(Update(store, id, name))
      BY <1>2, UpdateFacts
    <3> QED  BY <3>1, <3>2, <3>3
  <2>2. CASE id \notin Known(store)
    <3>1. store' = store /\ saving' = saving /\ unwritten' = unwritten
      BY <2>2 DEF Edit, saveVars
    <3> QED  BY <1>2, <3>1
  <2> QED  BY <2>1, <2>2
<1>4. Views' /\ UsedCovers' /\ Known(store') = Known(store)
  BY <1>1, <1>3, StoreChanges
<1>5. Counts'  BY <1>1, GestureCounts DEF Counts
<1>6. Files'  BY <1>1 DEF Files
<1> QED  BY <1>4, <1>5, <1>6

LEMMA SDrag ==
  ASSUME SInv, Drag
  PROVE  SInv' /\ Known(store') = Known(store)
<1> USE DEF SInv
<1>1. /\ up /\ Gesture /\ trouble' = trouble /\ PushState /\ saving' = TRUE /\ unwritten' = FALSE
      /\ UNCHANGED <<up, file, live, visible, active, preview, previewed, picking, asking, used>>
  BY DEF Drag, FromRail, Gesture, ScheduleSave, viewVars, createVars
<1>2. PICK ids \in SetToAllKPermutations(used \cup {Maestro}) : store' = Reorder(store, ids)
  BY DEF Drag
<1>3. Coherent(store) /\ Maestro \in Known(store)
  BY <1>1, LeadsFacts DEF Views, MaestroLeads
<1>4. IsFiniteSet(used \cup {Maestro}) /\ used \cup {Maestro} \subseteq All
  BY FS_AddElement DEF UsedCovers, All
<1>5. ids \in Seq(All) /\ IsInjective(ids)  BY <1>2, <1>4, OrderFacts
<1> DEFINE st == Reorder(store, ids)
<1>6. Coherent(st) /\ Known(st) = Known(store) /\ Leads(st)  BY <1>3, <1>5, ReorderFacts
<1>7. store' = st  BY <1>2
<1> HIDE DEF st
<1>8. Views' /\ UsedCovers' /\ Known(store') = Known(store)
  BY <1>1, <1>6, <1>7, StoreChanges
<1>9. Counts'  BY <1>1, GestureCounts DEF Counts
<1>10. Files'  BY <1>1 DEF Files
<1> QED  BY <1>8, <1>9, <1>10

LEMMA SPreview ==
  ASSUME SInv, NEW id \in Ids, PreviewSurface(id)
  PROVE  SInv' /\ store' = store
<1> USE DEF SInv
<1>1. /\ up /\ Gesture /\ trouble' = trouble /\ Maestro \in live /\ id \in Workspaces(store)
      /\ live' = live \cup {id} /\ previewed' = previewed \cup ({id} \ live)
      /\ preview' = id /\ visible' = {Maestro, id}
      /\ UNCHANGED <<up, store, file, saving, unwritten, active, rail, picking, asking, used>>
  BY DEF PreviewSurface, FromMaestro, Gesture, saveVars, createVars
<1>2. ViewTypes'
  <2>1. IsFiniteSet(live \cup {id}) /\ id \in All  BY FS_AddElement DEF Views, ViewTypes, All
  <2> QED  BY <1>1, <2>1 DEF Views, ViewTypes
<1>3. MaestroLeads'  BY <1>1 DEF Views, MaestroLeads
<1>4. ViewsAreOfSpaces'  BY <1>1 DEF Views, ViewsAreOfSpaces, Workspaces
<1>5. LiveIsBounded'
  <2>1. live' \ previewed' \subseteq live \ previewed  BY <1>1
  <2> QED  BY <1>1, <2>1, FewerLive DEF Views, ViewTypes
<1>6. RailIsCurrent'
  <2>1. rail # NoRail => live' \ rail.live \subseteq previewed' /\ rail.live \subseteq live'
    BY <1>1 DEF Views, RailIsCurrent
  <2> QED  BY <1>1, <2>1 DEF Views, RailIsCurrent
<1>7. Counts'  BY <1>1, GestureCounts DEF Counts
<1>8. UsedCovers' /\ Files'  BY <1>1 DEF UsedCovers, Files
<1> QED  BY <1>1, <1>2, <1>3, <1>4, <1>5, <1>6, <1>7, <1>8 DEF Views

LEMMA SClear ==
  ASSUME SInv, ClearPreview
  PROVE  SInv' /\ store' = store
<1> USE DEF SInv
<1>1. /\ up /\ Gesture /\ trouble' = trouble /\ preview' = None /\ visible' = live \cap {active}
      /\ UNCHANGED <<up, store, file, saving, unwritten, live, active, previewed, rail, picking, asking, used>>
  BY DEF ClearPreview, FromMaestro, Gesture, saveVars, createVars
<1>2. Views'
  BY <1>1 DEF Views, ViewTypes, MaestroLeads, ViewsAreOfSpaces, LiveIsBounded, RailIsCurrent
<1>3. Counts'  BY <1>1, GestureCounts DEF Counts
<1>4. UsedCovers' /\ Files'  BY <1>1 DEF UsedCovers, Files
<1> QED  BY <1>1, <1>2, <1>3, <1>4

LEMMA SFlush ==
  ASSUME SInv, Flush
  PROVE  SInv' /\ store' = store
<1> USE DEF SInv
<1>1. /\ saving' = FALSE /\ unwritten' = (file' # store)
      /\ UNCHANGED <<up, store, live, visible, active, preview, previewed, rail, picking, asking, used, gestures>>
  BY DEF Flush, viewVars, createVars
<1>2. /\ file' = store \/ file' = file
      /\ trouble' = trouble \/ (trouble < MaxTrouble /\ trouble' = trouble + 1)
  BY DEF Flush, WriteFile
<1>3. saving' \in BOOLEAN /\ unwritten' \in BOOLEAN  BY <1>1
<1>4. Views'
  BY <1>1, <1>3 DEF Views, ViewTypes, MaestroLeads, ViewsAreOfSpaces, LiveIsBounded, RailIsCurrent
<1>5. trouble' \in 0 .. MaxTrouble  BY <1>2, BoundsAssumption DEF Counts
<1>6. Counts'  BY <1>1, <1>5 DEF Counts
<1>7. Files'  BY <1>1, <1>2 DEF Files, Views
<1>8. UsedCovers'  BY <1>1 DEF UsedCovers
<1> QED  BY <1>1, <1>4, <1>6, <1>7, <1>8

LEMMA SGone ==
  ASSUME SInv, Quit \/ Crash
  PROVE  SInv' /\ ~ up'
<1> USE DEF SInv
<1>1. /\ up' = FALSE /\ store' = EmptyStore /\ saving' = FALSE /\ unwritten' = FALSE
      /\ live' = {} /\ visible' = {} /\ active' = None /\ preview' = None /\ previewed' = {}
      /\ rail' = NoRail /\ picking' = 0 /\ asking' = 0 /\ used' = used
  BY DEF Quit, Crash, Gone
<1>2. /\ file' = store \/ file' = file
      /\ trouble' = trouble \/ (trouble < MaxTrouble /\ trouble' = trouble + 1)
      /\ Gesture \/ gestures' = gestures
  BY DEF Quit, Crash, WriteFile
<1>3. Coherent(store') /\ Workspaces(store') = {}
  BY <1>1, EmptyIsCoherent DEF Workspaces
<1>4. ViewTypes'  BY <1>1, FS_EmptySet DEF ViewTypes
<1>5. MaestroLeads' /\ ViewsAreOfSpaces' /\ RailIsCurrent'
  BY <1>1 DEF MaestroLeads, ViewsAreOfSpaces, RailIsCurrent
<1>6. LiveIsBounded'  BY <1>1 DEF LiveIsBounded
<1>7. trouble' \in 0 .. MaxTrouble  BY <1>2, BoundsAssumption DEF Counts
<1>8. gestures' \in 0 .. MaxGestures  BY <1>2, GestureCounts DEF Counts
<1>9. Counts'  BY <1>1, <1>7, <1>8, BoundsAssumption DEF Counts
<1>10. UsedCovers'  BY <1>1, <1>3 DEF UsedCovers
<1>11. Files'  BY <1>1, <1>2 DEF Files, Views
<1> QED  BY <1>1, <1>3, <1>4, <1>5, <1>6, <1>9, <1>10, <1>11 DEF Views

(* The steps that touch neither the store nor the views. *)
LEMMA SOther ==
  ASSUME SInv, RailReady \/ Create \/ FolderPicked \/ DialogCancelled \/ UNCHANGED vars
  PROVE  SInv' /\ store' = store
<1> USE DEF SInv
<1>1. UNCHANGED <<up, store, file, saving, unwritten, live, visible, active, preview, previewed, used>>
  BY DEF RailReady, Create, FolderPicked, DialogCancelled, vars, saveVars, viewVars
<1>2. RailIsCurrent'
  <2>1. CASE RailReady
    <3>1. rail' = [spaces |-> store.spaces, names |-> store.names, active |-> active, live |-> live]
      BY <2>1 DEF RailReady
    <3> QED  BY <1>1, <3>1 DEF RailIsCurrent
  <2>2. CASE ~ RailReady
    <3>1. rail' = rail  BY <2>2 DEF Create, FolderPicked, DialogCancelled, vars
    <3> QED  BY <1>1, <3>1 DEF Views, RailIsCurrent
  <2> QED  BY <2>1, <2>2
<1>3. Views'
  BY <1>1, <1>2 DEF Views, ViewTypes, MaestroLeads, ViewsAreOfSpaces, LiveIsBounded
<1>4. Counts'
  <2>0. /\ picking \in 0 .. MaxCreations /\ asking \in 0 .. MaxCreations
        /\ picking + asking <= MaxCreations
        /\ gestures \in 0 .. MaxGestures /\ trouble \in 0 .. MaxTrouble
    BY DEF Counts
  <2>1. CASE RailReady \/ UNCHANGED vars
    BY <2>0, <2>1 DEF RailReady, vars, createVars, boundVars, Counts
  <2>2. CASE Create
    <3>1. /\ picking + asking < MaxCreations /\ picking' = picking + 1 /\ asking' = asking
          /\ Gesture /\ trouble' = trouble
      BY <2>2 DEF Create, FromRail
    <3>2. picking' \in 0 .. MaxCreations /\ picking' + asking' <= MaxCreations
      BY <2>0, <3>1, BoundsAssumption
    <3> QED  BY <2>0, <3>1, <3>2, GestureCounts DEF Counts
  <2>3. CASE FolderPicked \/ DialogCancelled
    <3>1. /\ picking + asking > 0
          /\ \/ picking > 0 /\ picking' = picking - 1 /\ asking' \in {asking, asking + 1}
             \/ asking > 0 /\ picking' = picking /\ asking' = asking - 1
          /\ gestures' = gestures /\ trouble' = trouble
      BY <2>0, <2>3 DEF FolderPicked, DialogCancelled, boundVars
    <3>2. /\ picking' \in 0 .. MaxCreations /\ asking' \in 0 .. MaxCreations
          /\ picking' + asking' <= MaxCreations
      BY <2>0, <3>1, BoundsAssumption
    <3> QED  BY <2>0, <3>1, <3>2 DEF Counts
  <2> QED  BY <2>1, <2>2, <2>3
<1>5. UsedCovers' /\ Files'  BY <1>1 DEF UsedCovers, Files
<1> QED  BY <1>1, <1>3, <1>4, <1>5

LEMMA SSteps == SInv /\ [Next]_vars => SInv'
<1> SUFFICES ASSUME SInv, [Next]_vars PROVE SInv'  OBVIOUS
<1>1. CASE Boot  BY <1>1, SBoot
<1>2. ASSUME NEW id \in All, OpenSpace(id) \/ RouteToSurface(id) PROVE SInv'  BY <1>2, SOpen
<1>3. ASSUME NEW id \in All, Edit(id) PROVE SInv'  BY <1>3, SEdit
<1>4. ASSUME NEW id \in Ids, Close(id) PROVE SInv'  BY <1>4, SClose
<1>5. ASSUME NEW id \in Ids, PreviewSurface(id) PROVE SInv'  BY <1>5, SPreview
<1>6. CASE Drag  BY <1>6, SDrag
<1>7. CASE ClearPreview  BY <1>7, SClear
<1>8. CASE DialogConfirmed  BY <1>8, SConfirmed
<1>9. CASE Flush  BY <1>9, SFlush
<1>10. CASE Quit \/ Crash  BY <1>10, SGone
<1>11. CASE RailReady \/ Create \/ FolderPicked \/ DialogCancelled \/ UNCHANGED vars
  BY <1>11, SOther
<1> QED
  BY <1>1, <1>2, <1>3, <1>4, <1>5, <1>6, <1>7, <1>8, <1>9, <1>10, <1>11 DEF Next

(* The second inductive invariant: the manager, its store and its file are   *)
(* coherent, and no id of the store was not given out.                       *)
THEOREM ManagerIsCoherent == Spec => []SInv
<1>1. Init => SInv  BY SInit
<1>2. SInv /\ [Next]_vars => SInv'  BY SSteps
<1> QED  BY <1>1, <1>2, PTL DEF Spec

(* Between any two handlers Maestro leads the rail, each Space is listed     *)
(* once, in memory and on disk, every view is of a Space of the store, and   *)
(* no more than MAX_LIVE views are kept but those of the active Space, of    *)
(* Maestro and of previews (SpaceManager, SpaceStore).                       *)
THEOREM SpacesSound == Spec => []SpacesAreSound
<1>1. SInv => SpacesAreSound
  BY DEF SInv, Views, ViewTypes, Counts, UsedCovers, Files, SpacesAreSound, TypeOK
<1> QED  BY <1>1, ManagerIsCoherent, PTL

(* What the rail was last told is what is, but for the views of a preview:   *)
(* no handler changes the Spaces and forgets pushState().                    *)
THEOREM RailIsTold == Spec => []RailIsCurrent
<1>1. SInv => RailIsCurrent  BY DEF SInv, Views
<1> QED  BY <1>1, ManagerIsCoherent, PTL

(* Only close() takes a Space from the store: neither an order that the rail *)
(* dragged before the Space existed nor the dialog of another does           *)
(* (reorder(), remove()).                                                    *)
THEOREM SpacesStay == Spec => SpacesAreKept
<1> DEFINE Kept == up /\ up' => \A id \in Known(store) \ Known(store') : Close(id)
<1>1. SInv /\ [Next]_vars => [Kept]_vars
  <2> SUFFICES ASSUME SInv, Next, up, up', NEW x \in Known(store) \ Known(store') PROVE Close(x)
    OBVIOUS
  <2>1. ~ Boot  BY DEF Boot
  <2>2. ~ (Quit \/ Crash)  BY SGone
  <2>3. ASSUME NEW id \in All PROVE ~ (OpenSpace(id) \/ RouteToSurface(id)) /\ ~ Edit(id)
    BY SOpen, SEdit
  <2>4. ASSUME NEW id \in Ids PROVE ~ PreviewSurface(id) /\ (Close(id) => id = x)
    BY SPreview, SClose
  <2>5. ~ Drag /\ ~ ClearPreview /\ ~ DialogConfirmed /\ ~ Flush
    BY SDrag, SClear, SConfirmed, SFlush
  <2>6. ~ (RailReady \/ Create \/ FolderPicked \/ DialogCancelled)  BY SOther
  <2> QED  BY <2>1, <2>2, <2>3, <2>4, <2>5, <2>6 DEF Next
<1> QED  BY <1>1, ManagerIsCoherent, PTL DEF Spec, SpacesAreKept

==============================================================================
