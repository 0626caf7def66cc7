-------------------------- MODULE FakeIPPoolProofs --------------------------
(***************************************************************************)
(* Theorems about FakeIPPool, for every set of hosts, every range of       *)
(* addresses and every size of the caches.                                 *)
(***************************************************************************)
EXTENDS FakeIPPool, TLAPS

-----------------------------------------------------------------------------
(* The LRU cache: a sequence of entries with distinct keys. *)

Keyed(c) == \A i, j \in 1..Len(c) : c[i].key = c[j].key => i = j
Maps(c, k, v) == \E i \in 1..Len(c) : c[i].key = k /\ c[i].value = v

LEMMA HasFacts ==
    ASSUME NEW K, NEW V, NEW c \in Seq(Pairs(K, V)), NEW k
    PROVE  /\ Has(c, k) => /\ IndexOf(c, k) \in 1..Len(c)
                           /\ c[IndexOf(c, k)].key = k
                           /\ k \in K /\ ValueOf(c, k) \in V
                           /\ Maps(c, k, ValueOf(c, k))
           /\ \A v : Maps(c, k, v) => Has(c, k) /\ v \in V
<1>1. ASSUME NEW v, Maps(c, k, v) PROVE Has(c, k) /\ v \in V
  <2>1. PICK i \in 1..Len(c) : c[i].key = k /\ c[i].value = v
    BY <1>1 DEF Maps
  <2>2. c[i] \in Pairs(K, V)
    OBVIOUS
  <2> QED BY <2>1, <2>2 DEF Has, Pairs
<1>2. Has(c, k) => IndexOf(c, k) \in 1..Len(c) /\ c[IndexOf(c, k)].key = k
  BY DEF Has, IndexOf
<1>3. ASSUME Has(c, k)
      PROVE  k \in K /\ ValueOf(c, k) \in V /\ Maps(c, k, ValueOf(c, k))
  <2> DEFINE i == IndexOf(c, k)
  <2>1. i \in 1..Len(c) /\ c[i].key = k /\ c[i] \in Pairs(K, V)
    BY <1>2, <1>3
  <2> QED BY <2>1 DEF Maps, ValueOf, Pairs
<1> QED BY <1>1, <1>2, <1>3

LEMMA KeyedFacts ==
    ASSUME NEW K, NEW V, NEW c \in Seq(Pairs(K, V)), Keyed(c), NEW i \in 1..Len(c)
    PROVE  /\ Has(c, c[i].key) /\ IndexOf(c, c[i].key) = i
           /\ ValueOf(c, c[i].key) = c[i].value
<1>1. Has(c, c[i].key)
  BY DEF Has
<1>2. IndexOf(c, c[i].key) = i
  BY <1>1, HasFacts DEF Keyed
<1> QED BY <1>1, <1>2 DEF ValueOf

LEMMA MapsValue ==
    ASSUME NEW K, NEW V, NEW c \in Seq(Pairs(K, V)), Keyed(c), NEW k, NEW v,
           Maps(c, k, v)
    PROVE  Has(c, k) /\ ValueOf(c, k) = v
  BY KeyedFacts DEF Maps

(* Where the entries of Without(c, k) come from. *)
LEMMA WithoutShape ==
    ASSUME NEW K, NEW V, NEW c \in Seq(Pairs(K, V)), NEW k, Has(c, k)
    PROVE  LET i == IndexOf(c, k)
               d == Without(c, k) IN
           /\ Len(c) \in Nat \ {0} /\ i \in 1..Len(c)
           /\ d \in Seq(Pairs(K, V)) /\ Len(d) = Len(c) - 1
           /\ \A j \in 1 .. Len(c) - 1 : d[j] = IF j < i THEN c[j] ELSE c[j + 1]
<1> DEFINE i == IndexOf(c, k)
           d == Without(c, k)
<1>1. i \in 1..Len(c) /\ Len(c) \in Nat \ {0}
  BY HasFacts
<1>2. d = [j \in 1 .. Len(c) - 1 |-> IF j < i THEN c[j] ELSE c[j + 1]]
  BY DEF Without
<1> HIDE DEF i, d
<1>3. \A j \in 1 .. Len(c) - 1 : d[j] = (IF j < i THEN c[j] ELSE c[j + 1]) /\ d[j] \in Pairs(K, V)
  BY <1>1, <1>2
<1>4. d \in [1 .. Len(c) - 1 -> Pairs(K, V)] /\ Len(c) - 1 \in Nat
  BY <1>1, <1>2, <1>3
<1>5. d \in Seq(Pairs(K, V)) /\ Len(d) = Len(c) - 1
  BY <1>4
<1> QED BY <1>1, <1>3, <1>5 DEF i, d

LEMMA WithoutFacts ==
    ASSUME NEW K, NEW V, NEW c \in Seq(Pairs(K, V)), Keyed(c), NEW k
    PROVE  LET d == Without(c, k) IN
           /\ d \in Seq(Pairs(K, V)) /\ Keyed(d) /\ ~Has(d, k)
           /\ Len(d) <= Len(c) /\ (Has(c, k) => Len(d) = Len(c) - 1)
           /\ \A j, v : Maps(d, j, v) <=> Maps(c, j, v) /\ j # k
<1> DEFINE i == IndexOf(c, k)
           d == Without(c, k)
<1>1. CASE ~Has(c, k)
  <2>1. d = c
    BY <1>1 DEF Without
  <2>2. \A j, v : Maps(c, j, v) => j # k
    BY <1>1, HasFacts
  <2> QED BY <1>1, <2>1, <2>2
<1>2. CASE Has(c, k)
  <2>1. /\ Len(c) \in Nat \ {0} /\ i \in 1..Len(c)
        /\ d \in Seq(Pairs(K, V)) /\ Len(d) = Len(c) - 1
        /\ \A j \in 1 .. Len(c) - 1 : d[j] = IF j < i THEN c[j] ELSE c[j + 1]
    BY <1>2, WithoutShape
  <2>2. c[i].key = k
    BY <1>2, HasFacts
  <2> HIDE DEF i, d
  <2>3. Keyed(d)
    <3> SUFFICES ASSUME NEW x \in 1..Len(d), NEW y \in 1..Len(d), d[x].key = d[y].key
                 PROVE  x = y
      BY DEF Keyed
    <3> DEFINE From(n) == IF n < i THEN n ELSE n + 1
    <3>1. /\ From(x) \in 1..Len(c) /\ From(y) \in 1..Len(c)
          /\ d[x] = c[From(x)] /\ d[y] = c[From(y)]
      BY <2>1
    <3>2. From(x) = From(y)
      BY <3>1 DEF Keyed
    <3> QED BY <2>1, <3>2
  <2>4. \A j \in 1..Len(c) : j # i => c[j].key # k
    BY <2>1, <2>2 DEF Keyed
  <2>5. \A j \in 1..Len(d) : d[j].key # k
    BY <2>1, <2>4
  <2>6. ~Has(d, k)
    BY <2>5 DEF Has
  <2>7. ASSUME NEW j, NEW v, Maps(d, j, v) PROVE Maps(c, j, v) /\ j # k
    <3>1. PICK x \in 1..Len(d) : d[x].key = j /\ d[x].value = v
      BY <2>7 DEF Maps
    <3>2. d[x] = c[x] \/ d[x] = c[x + 1]
      BY <2>1
    <3>3. x \in 1..Len(c) /\ x + 1 \in 1..Len(c)
      BY <2>1
    <3> QED BY <2>5, <3>1, <3>2, <3>3 DEF Maps
  <2>8. ASSUME NEW j, NEW v, Maps(c, j, v), j # k PROVE Maps(d, j, v)
    <3>1. PICK x \in 1..Len(c) : c[x].key = j /\ c[x].value = v
      BY <2>8 DEF Maps
    <3>2. x # i
      BY <2>2, <2>8, <3>1
    <3>3. CASE x < i
      <4>1. x \in 1..Len(d) /\ d[x] = c[x]
        BY <2>1, <3>3
      <4> QED BY <3>1, <4>1 DEF Maps
    <3>4. CASE x > i
      <4>1. x - 1 \in 1..Len(d) /\ d[x - 1] = c[x]
        BY <2>1, <3>4
      <4> QED BY <3>1, <4>1 DEF Maps
    <3> QED BY <2>1, <3>2, <3>3, <3>4
  <2> QED BY <2>1, <2>3, <2>6, <2>7, <2>8 DEF d
<1> QED BY <1>1, <1>2

(* A new entry at the back. *)
LEMMA AppendFacts ==
    ASSUME NEW K, NEW V, NEW c \in Seq(Pairs(K, V)), Keyed(c),
           NEW k \in K, NEW v \in V, ~Has(c, k)
    PROVE  LET d == Append(c, Entry(k, v)) IN
           /\ d \in Seq(Pairs(K, V)) /\ Keyed(d) /\ Len(d) = Len(c) + 1
           /\ \A j \in 1..Len(c) : d[j] = c[j]
           /\ d[Len(c) + 1] = Entry(k, v)
           /\ \A j, w : Maps(d, j, w) <=> Maps(c, j, w) \/ (j = k /\ w = v)
<1> DEFINE d == Append(c, Entry(k, v))
<1>1. /\ Entry(k, v) \in Pairs(K, V) /\ Entry(k, v).key = k /\ Entry(k, v).value = v
  BY DEF Entry, Pairs
<1>2. /\ d \in Seq(Pairs(K, V)) /\ Len(d) = Len(c) + 1 /\ Len(c) \in Nat
      /\ \A j \in 1..Len(c) : d[j] = c[j]
      /\ d[Len(c) + 1] = Entry(k, v)
  BY <1>1
<1> HIDE DEF d
<1>3. \A j \in 1..Len(c) : c[j].key # k
  BY DEF Has
<1>4. Keyed(d)
  <2> SUFFICES ASSUME NEW x \in 1..Len(d), NEW y \in 1..Len(d), d[x].key = d[y].key
               PROVE  x = y
    BY DEF Keyed
  <2>1. CASE x \in 1..Len(c) /\ y \in 1..Len(c)
    BY <1>2, <2>1 DEF Keyed
  <2>2. CASE x = Len(c) + 1 \/ y = Len(c) + 1
    BY <1>1, <1>2, <1>3, <2>2
  <2> QED BY <1>2, <2>1, <2>2
<1>5. ASSUME NEW j, NEW w
      PROVE  Maps(d, j, w) <=> Maps(c, j, w) \/ (j = k /\ w = v)
  <2>1. ASSUME Maps(d, j, w) PROVE Maps(c, j, w) \/ (j = k /\ w = v)
    <3>1. PICK x \in 1..Len(d) : d[x].key = j /\ d[x].value = w
      BY <2>1 DEF Maps
    <3>2. x \in 1..Len(c) \/ x = Len(c) + 1
      BY <1>2
    <3> QED BY <1>1, <1>2, <3>1, <3>2 DEF Maps
  <2>2. ASSUME Maps(c, j, w) PROVE Maps(d, j, w)
    <3>1. PICK x \in 1..Len(c) : c[x].key = j /\ c[x].value = w
      BY <2>2 DEF Maps
    <3>2. x \in 1..Len(d) /\ d[x] = c[x]
      BY <1>2
    <3> QED BY <3>1, <3>2 DEF Maps
  <2>3. ASSUME j = k, w = v PROVE Maps(d, j, w)
    <3>1. Len(c) + 1 \in 1..Len(d)
      BY <1>2
    <3> QED BY <1>1, <1>2, <2>3, <3>1 DEF Maps
  <2> QED BY <2>1, <2>2, <2>3
<1> QED BY <1>2, <1>4, <1>5 DEF d

(* The front is evicted. *)
LEMMA TailFacts ==
    ASSUME NEW K, NEW V, NEW c \in Seq(Pairs(K, V)), Keyed(c), Len(c) > 0
    PROVE  LET d == Tail(c) IN
           /\ d \in Seq(Pairs(K, V)) /\ Keyed(d) /\ Len(d) = Len(c) - 1
           /\ \A j \in 1..Len(d) : d[j] = c[j + 1]
           /\ \A j, v : Maps(d, j, v) <=> Maps(c, j, v) /\ j # c[1].key
<1> DEFINE d == Tail(c)
<1>1. /\ d \in Seq(Pairs(K, V)) /\ Len(d) = Len(c) - 1 /\ Len(c) \in Nat
      /\ \A j \in 1..Len(d) : d[j] = c[j + 1]
  BY c # <<>>
<1> HIDE DEF d
<1>2. Keyed(d)
  <2> SUFFICES ASSUME NEW x \in 1..Len(d), NEW y \in 1..Len(d), d[x].key = d[y].key
               PROVE  x = y
    BY DEF Keyed
  <2>1. x + 1 \in 1..Len(c) /\ y + 1 \in 1..Len(c)
    BY <1>1
  <2>2. x + 1 = y + 1
    BY <1>1, <2>1 DEF Keyed
  <2> QED BY <1>1, <2>2
<1>3. ASSUME NEW j, NEW v, Maps(d, j, v) PROVE Maps(c, j, v) /\ j # c[1].key
  <2>1. PICK x \in 1..Len(d) : d[x].key = j /\ d[x].value = v
    BY <1>3 DEF Maps
  <2>2. x + 1 \in 1..Len(c) /\ 1 \in 1..Len(c) /\ x + 1 # 1 /\ d[x] = c[x + 1]
    BY <1>1
  <2> QED BY <2>1, <2>2 DEF Maps, Keyed
<1>4. ASSUME NEW j, NEW v, Maps(c, j, v), j # c[1].key PROVE Maps(d, j, v)
  <2>1. PICK x \in 1..Len(c) : c[x].key = j /\ c[x].value = v
    BY <1>4 DEF Maps
  <2>2. x - 1 \in 1..Len(d) /\ d[x - 1] = c[x]
    BY <1>1, <1>4, <2>1
  <2> QED BY <2>1, <2>2 DEF Maps
<1> QED BY <1>1, <1>2, <1>3, <1>4 DEF d

(* Get changes the order only. *)
LEMMA TouchFacts ==
    ASSUME NEW K, NEW V, NEW c \in Seq(Pairs(K, V)), Keyed(c), NEW k
    PROVE  LET d == Touch(c, k) IN
           /\ d \in Seq(Pairs(K, V)) /\ Keyed(d) /\ Len(d) = Len(c)
           /\ \A j, v : Maps(d, j, v) <=> Maps(c, j, v)
           /\ Without(d, k) = Without(c, k)
<1> DEFINE w == Without(c, k)
           v == ValueOf(c, k)
           d == Touch(c, k)
<1>1. CASE ~Has(c, k)
  <2>1. d = c
    BY <1>1 DEF Touch
  <2> QED BY <2>1
<1>2. CASE Has(c, k)
  <2>1. d = Append(w, Entry(k, v))
    BY <1>2 DEF Touch
  <2>2. /\ w \in Seq(Pairs(K, V)) /\ Keyed(w) /\ ~Has(w, k) /\ Len(w) = Len(c) - 1
        /\ \A j, u : Maps(w, j, u) <=> Maps(c, j, u) /\ j # k
    BY <1>2, WithoutFacts
  <2>3. k \in K /\ v \in V /\ Maps(c, k, v)
    BY <1>2, HasFacts
  <2>4. \A u : Maps(c, k, u) => u = v
    BY MapsValue
  <2> HIDE DEF w, v, d
  <2>5. /\ d \in Seq(Pairs(K, V)) /\ Keyed(d) /\ Len(d) = Len(w) + 1
        /\ \A j \in 1..Len(w) : d[j] = w[j]
        /\ d[Len(w) + 1] = Entry(k, v)
        /\ \A j, u : Maps(d, j, u) <=> Maps(w, j, u) \/ (j = k /\ u = v)
    BY <2>1, <2>2, <2>3, AppendFacts
  <2>6. \A j, u : Maps(d, j, u) <=> Maps(c, j, u)
    BY <2>2, <2>3, <2>4, <2>5
  <2>7. Without(d, k) = w
    <3>1. d[Len(w) + 1].key = k
      BY <2>5 DEF Entry
    <3>2. Len(w) \in Nat /\ Len(w) + 1 \in 1..Len(d)
      BY <2>2, <2>5
    <3>3. Has(d, k) /\ IndexOf(d, k) = Len(w) + 1
      BY <2>5, <3>1, <3>2, KeyedFacts
    <3>4. /\ Without(d, k) \in Seq(Pairs(K, V)) /\ Len(Without(d, k)) = Len(w)
          /\ \A j \in 1 .. Len(w) : Without(d, k)[j] = d[j]
      <4>1. /\ Without(d, k) \in Seq(Pairs(K, V)) /\ Len(Without(d, k)) = Len(d) - 1
            /\ \A j \in 1 .. Len(d) - 1 :
                  Without(d, k)[j] = IF j < Len(w) + 1 THEN d[j] ELSE d[j + 1]
        BY <2>5, <3>3, WithoutShape, SMTT(30)
      <4> QED BY <2>5, <3>2, <4>1
    <3> HIDE DEF w
    <3>5. \A j \in 1..Len(w) : Without(d, k)[j] = w[j]
      BY <2>5, <3>4
    <3> QED BY <2>2, <3>4, <3>5
  <2>8. Len(d) = Len(c)
    BY <2>2, <2>5
  <2> QED BY <2>5, <2>6, <2>7, <2>8 DEF d, w
<1> QED BY <1>1, <1>2

(* Set makes room for a new entry at the expense of the hosts in F. *)
LEMMA SetFacts ==
    ASSUME NEW K, NEW V, NEW c \in Seq(Pairs(K, V)), Keyed(c),
           NEW k \in K, NEW v \in V, NEW size \in Nat
    PROVE  LET d == Set(c, k, v, size) IN
           /\ d \in Seq(Pairs(K, V)) /\ Keyed(d)
           /\ size > 0 /\ Len(c) <= size => Len(d) <= size
           /\ \E F \in SUBSET K : k \notin F /\ \A j, u : Maps(d, j, u) <=>
                 (j = k /\ u = v) \/ (Maps(c, j, u) /\ j # k /\ j \notin F)
<1> DEFINE w == Without(c, k)
           x == Append(w, Entry(k, v))
           d == Set(c, k, v, size)
<1>1. /\ w \in Seq(Pairs(K, V)) /\ Keyed(w) /\ ~Has(w, k) /\ Len(w) <= Len(c)
      /\ \A j, u : Maps(w, j, u) <=> Maps(c, j, u) /\ j # k
  BY WithoutFacts
<1>2. /\ Has(c, k) => Len(w) = Len(c) - 1
  BY WithoutFacts
<1>3. d = IF size > 0 /\ Len(x) > size THEN Tail(x) ELSE x
  BY DEF Set
<1> HIDE DEF w, d
<1>4. /\ x \in Seq(Pairs(K, V)) /\ Keyed(x) /\ Len(x) = Len(w) + 1
      /\ \A j \in 1..Len(w) : x[j] = w[j]
      /\ \A j, u : Maps(x, j, u) <=> Maps(w, j, u) \/ (j = k /\ u = v)
  BY <1>1, AppendFacts
<1> HIDE DEF x
<1>5. Len(w) \in Nat /\ Len(c) \in Nat
  BY <1>1
<1>6. CASE size > 0 /\ Len(x) > size
  <2>1. d = Tail(x) /\ Len(x) > 0 /\ 1 \in 1..Len(w)
    BY <1>3, <1>4, <1>5, <1>6
  <2>2. /\ d \in Seq(Pairs(K, V)) /\ Keyed(d) /\ Len(d) = Len(x) - 1
        /\ \A j, u : Maps(d, j, u) <=> Maps(x, j, u) /\ j # x[1].key
    BY <1>4, <2>1, TailFacts
  <2>3. x[1] = w[1] /\ w[1] \in Pairs(K, V)
    BY <1>1, <1>4, <2>1
  <2>4. x[1].key \in K /\ x[1].key # k
    BY <1>1, <2>1, <2>3 DEF Has, Pairs
  <2>5. Len(c) <= size => Len(d) <= size
    BY <1>1, <1>4, <1>5, <2>2
  <2>6. {x[1].key} \in SUBSET K /\ k \notin {x[1].key}
        /\ \A j, u : Maps(d, j, u) <=>
                 (j = k /\ u = v) \/ (Maps(c, j, u) /\ j # k /\ j \notin {x[1].key})
    BY <1>1, <1>4, <2>2, <2>4
  <2> QED BY <2>2, <2>5, <2>6 DEF d
<1>7. CASE ~(size > 0 /\ Len(x) > size)
  <2>1. d = x
    BY <1>3, <1>7
  <2>2. /\ size > 0 => Len(d) <= size
        /\ {} \in SUBSET K /\ k \notin {}
        /\ \A j, u : Maps(d, j, u) <=>
                 (j = k /\ u = v) \/ (Maps(c, j, u) /\ j # k /\ j \notin {})
    BY <1>1, <1>4, <1>5, <1>7, <2>1
  <2> QED BY <1>4, <2>1, <2>2 DEF d
<1> QED BY <1>6, <1>7

-----------------------------------------------------------------------------
(* Two caches that hold the same records in the same order. *)

IPCache == Seq(Pairs(Hosts, Addrs))
HostCache == Seq(Pairs(Addrs, Hosts))
Mirror(A, B) ==
    /\ Len(A) = Len(B)
    /\ \A i \in 1..Len(A) : B[i] = Entry(A[i].value, A[i].key)

LEMMA MirrorAt ==
    ASSUME NEW A, NEW B, Mirror(A, B), NEW i \in 1..Len(A)
    PROVE  i \in 1..Len(B) /\ B[i].key = A[i].value /\ B[i].value = A[i].key
<1>1. i \in 1..Len(B) /\ B[i] = Entry(A[i].value, A[i].key)
  BY DEF Mirror
<1>2. /\ Entry(A[i].value, A[i].key).key = A[i].value
      /\ Entry(A[i].value, A[i].key).value = A[i].key
  BY DEF Entry
<1> QED BY <1>1, <1>2

LEMMA MirrorMaps ==
    ASSUME NEW A \in IPCache, NEW B \in HostCache, Mirror(A, B), NEW h, NEW ip
    PROVE  Maps(B, ip, h) <=> Maps(A, h, ip)
<1>1. Len(A) = Len(B) /\ \A i \in 1..Len(A) : B[i].key = A[i].value /\ B[i].value = A[i].key
  BY MirrorAt DEF Mirror
<1> QED BY <1>1 DEF Maps

LEMMA MirrorWithout ==
    ASSUME NEW A \in IPCache, NEW B \in HostCache, Keyed(A), Keyed(B), Mirror(A, B),
           NEW h, NEW ip, Maps(A, h, ip)
    PROVE  Mirror(Without(A, h), Without(B, ip))
<1>1. PICK i \in 1..Len(A) : A[i].key = h /\ A[i].value = ip
  BY DEF Maps
<1>2. i \in 1..Len(B) /\ B[i].key = ip
  BY <1>1, MirrorAt
<1>3. Has(A, h) /\ IndexOf(A, h) = i
  BY <1>1, KeyedFacts DEF IPCache
<1>4. Has(B, ip) /\ IndexOf(B, ip) = i
  BY <1>2, KeyedFacts DEF HostCache
<1> DEFINE C == Without(A, h)
           D == Without(B, ip)
<1>5. /\ Len(C) = Len(A) - 1 /\ Len(A) \in Nat
      /\ \A j \in 1 .. Len(A) - 1 : C[j] = IF j < i THEN A[j] ELSE A[j + 1]
  BY <1>3, WithoutShape DEF IPCache
<1>6. /\ Len(D) = Len(B) - 1
      /\ \A j \in 1 .. Len(B) - 1 : D[j] = IF j < i THEN B[j] ELSE B[j + 1]
  BY <1>4, WithoutShape DEF HostCache
<1> HIDE DEF C, D
<1>7. Len(A) = Len(B) /\ \A j \in 1..Len(A) : B[j] = Entry(A[j].value, A[j].key)
  BY DEF Mirror
<1>8. ASSUME NEW j \in 1 .. Len(A) - 1 PROVE D[j] = Entry(C[j].value, C[j].key)
  <2>1. j \in 1..Len(A) /\ j + 1 \in 1..Len(A)
    BY <1>5
  <2> QED BY <1>5, <1>6, <1>7, <2>1
<1>9. Mirror(C, D)
  BY <1>5, <1>6, <1>7, <1>8 DEF Mirror
<1> QED BY <1>9 DEF C, D

LEMMA MirrorAppend ==
    ASSUME NEW A \in IPCache, NEW B \in HostCache, Mirror(A, B),
           NEW h \in Hosts, NEW ip \in Addrs
    PROVE  Mirror(Append(A, Entry(h, ip)), Append(B, Entry(ip, h)))
<1> DEFINE C == Append(A, Entry(h, ip))
           D == Append(B, Entry(ip, h))
<1>1. /\ Entry(h, ip) \in Pairs(Hosts, Addrs) /\ Entry(ip, h) \in Pairs(Addrs, Hosts)
      /\ Entry(h, ip).key = h /\ Entry(h, ip).value = ip
  BY DEF Entry, Pairs
<1>2. /\ Len(C) = Len(A) + 1 /\ Len(A) \in Nat
      /\ \A j \in 1..Len(A) : C[j] = A[j]
      /\ C[Len(A) + 1] = Entry(h, ip)
  BY <1>1 DEF IPCache
<1>3. /\ Len(D) = Len(B) + 1
      /\ \A j \in 1..Len(B) : D[j] = B[j]
      /\ D[Len(B) + 1] = Entry(ip, h)
  BY <1>1 DEF HostCache
<1> HIDE DEF C, D
<1>4. Len(A) = Len(B) /\ \A j \in 1..Len(A) : B[j] = Entry(A[j].value, A[j].key)
  BY DEF Mirror
<1>5. ASSUME NEW j \in 1..Len(C) PROVE D[j] = Entry(C[j].value, C[j].key)
  <2>1. CASE j \in 1..Len(A)
    BY <1>2, <1>3, <1>4, <2>1
  <2>2. CASE j = Len(A) + 1
    BY <1>1, <1>2, <1>3, <1>4, <2>2
  <2> QED BY <1>2, <2>1, <2>2
<1>6. Mirror(C, D)
  BY <1>2, <1>3, <1>4, <1>5 DEF Mirror
<1> QED BY <1>6 DEF C, D

LEMMA MirrorTail ==
    ASSUME NEW A \in IPCache, NEW B \in HostCache, Mirror(A, B), Len(A) > 0
    PROVE  Mirror(Tail(A), Tail(B))
<1> DEFINE C == Tail(A)
           D == Tail(B)
<1>1. Len(A) = Len(B) /\ \A j \in 1..Len(A) : B[j] = Entry(A[j].value, A[j].key)
  BY DEF Mirror
<1>2. /\ Len(C) = Len(A) - 1 /\ Len(A) \in Nat
      /\ \A j \in 1..Len(C) : C[j] = A[j + 1]
  BY A # <<>> DEF IPCache
<1>3. /\ Len(D) = Len(B) - 1
      /\ \A j \in 1..Len(D) : D[j] = B[j + 1]
  BY <1>1, B # <<>> DEF HostCache
<1> HIDE DEF C, D
<1>4. ASSUME NEW j \in 1..Len(C) PROVE D[j] = Entry(C[j].value, C[j].key)
  <2>1. j \in 1..Len(D) /\ j + 1 \in 1..Len(A)
    BY <1>1, <1>2, <1>3
  <2> QED BY <1>1, <1>2, <1>3, <2>1
<1>5. Mirror(C, D)
  BY <1>1, <1>2, <1>3, <1>4 DEF Mirror
<1> QED BY <1>5 DEF C, D

LEMMA MirrorTouch ==
    ASSUME NEW A \in IPCache, NEW B \in HostCache, Keyed(A), Keyed(B), Mirror(A, B),
           NEW h, NEW ip, Maps(A, h, ip)
    PROVE  Mirror(Touch(A, h), Touch(B, ip))
<1>1. h \in Hosts /\ ip \in Addrs /\ Has(A, h) /\ ValueOf(A, h) = ip
  BY HasFacts, MapsValue DEF IPCache
<1>2. Maps(B, ip, h)
  BY MirrorMaps
<1>3. Has(B, ip) /\ ValueOf(B, ip) = h
  BY <1>2, MapsValue DEF HostCache
<1>4. /\ Without(A, h) \in IPCache /\ Without(B, ip) \in HostCache
      /\ Mirror(Without(A, h), Without(B, ip))
  BY WithoutFacts, MirrorWithout DEF IPCache, HostCache
<1> QED BY <1>1, <1>3, <1>4, MirrorAppend DEF Touch

LEMMA MirrorSet ==
    ASSUME NEW A \in IPCache, NEW B \in HostCache, Keyed(A), Keyed(B), Mirror(A, B),
           NEW h \in Hosts, NEW ip \in Addrs, ~Has(A, h), ~Has(B, ip), NEW size \in Nat
    PROVE  Mirror(Set(A, h, ip, size), Set(B, ip, h, size))
<1> DEFINE C == Append(A, Entry(h, ip))
           D == Append(B, Entry(ip, h))
<1>1. /\ Set(A, h, ip, size) = IF size > 0 /\ Len(C) > size THEN Tail(C) ELSE C
      /\ Set(B, ip, h, size) = IF size > 0 /\ Len(D) > size THEN Tail(D) ELSE D
  BY DEF Set, Without
<1>2. C \in IPCache /\ D \in HostCache /\ Len(C) = Len(A) + 1 /\ Len(A) \in Nat
  BY AppendFacts DEF IPCache, HostCache
<1>3. Mirror(C, D)
  BY MirrorAppend
<1> HIDE DEF C, D
<1>4. Mirror(Tail(C), Tail(D)) /\ Len(C) = Len(D)
  BY <1>2, <1>3, MirrorTail DEF Mirror
<1> QED BY <1>1, <1>3, <1>4

-----------------------------------------------------------------------------
(***************************************************************************)
(* Type correctness, whatever overlaps.  Beyond TypeOK it takes that every *)
(* cache has distinct keys, since Delete removes one entry, and that the   *)
(* Lookup or LookBack under way is about a host.                           *)
(***************************************************************************)
Fits(c) == Keyed(c) /\ (Size > 0 => Len(c) <= Size)
Ops == [pc : OpPC, host : Hosts \cup {NoHost}, ip : Addrs, victim : Hosts \cup {NoHost}]
TypeInv ==
    /\ cacheIP \in IPCache /\ Fits(cacheIP) /\ nextIP \in IPCache /\ Fits(nextIP)
    /\ cacheHost \in HostCache /\ Fits(cacheHost) /\ nextHost \in HostCache /\ Fits(nextHost)
    /\ range \in Ranges /\ nextRange \in Ranges
    /\ offset \in FirstOf(range) - 1 .. range.hi - 1 /\ cycle \in BOOLEAN
    /\ op \in Ops /\ (op.pc # "idle" => op.host \in Hosts)
    /\ flush \in {"idle", "clearHost", "reset"}
    /\ reload \in {"idle", "new", "cloneHost", "switch"}

LEMMA EmptyFits == <<>> \in IPCache /\ <<>> \in HostCache /\ Fits(<<>>)
<1>1. <<>> \in IPCache /\ <<>> \in HostCache
  BY DEF IPCache, HostCache
<1>2. Len(<<>>) = 0
  OBVIOUS
<1> QED BY <1>1, <1>2, PoolAssumption DEF Fits, Keyed

LEMMA CacheFits ==
    ASSUME NEW K, NEW V, NEW c \in Seq(Pairs(K, V)), Fits(c), NEW k
    PROVE  /\ Touch(c, k) \in Seq(Pairs(K, V)) /\ Fits(Touch(c, k))
           /\ Without(c, k) \in Seq(Pairs(K, V)) /\ Fits(Without(c, k))
           /\ \A v \in V : k \in K =>
                 Set(c, k, v, Size) \in Seq(Pairs(K, V)) /\ Fits(Set(c, k, v, Size))
<1>1. Touch(c, k) \in Seq(Pairs(K, V)) /\ Fits(Touch(c, k))
  BY TouchFacts DEF Fits
<1>2. Without(c, k) \in Seq(Pairs(K, V)) /\ Fits(Without(c, k))
  <2>1. /\ Without(c, k) \in Seq(Pairs(K, V)) /\ Keyed(Without(c, k))
        /\ Len(Without(c, k)) <= Len(c)
    BY WithoutFacts DEF Fits
  <2>2. Len(c) \in Nat /\ Len(Without(c, k)) \in Nat /\ Size \in Nat
    BY <2>1, PoolAssumption
  <2> QED BY <2>1, <2>2 DEF Fits
<1>3. ASSUME NEW v \in V, k \in K
      PROVE  Set(c, k, v, Size) \in Seq(Pairs(K, V)) /\ Fits(Set(c, k, v, Size))
  <2> DEFINE d == Set(c, k, v, Size)
  <2>1. Size \in Nat /\ Keyed(c)
    BY PoolAssumption DEF Fits
  <2>2. d \in Seq(Pairs(K, V)) /\ Keyed(d) /\ (Size > 0 /\ Len(c) <= Size => Len(d) <= Size)
    BY <1>3, <2>1, SetFacts
  <2> QED BY <2>2 DEF Fits
<1> QED BY <1>1, <1>2, <1>3

(* The two directions. *)
LEMMA IPFits ==
    ASSUME NEW c \in IPCache, Fits(c), NEW k
    PROVE  /\ Touch(c, k) \in IPCache /\ Fits(Touch(c, k))
           /\ Without(c, k) \in IPCache /\ Fits(Without(c, k))
           /\ \A v \in Addrs : k \in Hosts =>
                 Set(c, k, v, Size) \in IPCache /\ Fits(Set(c, k, v, Size))
           /\ Has(c, k) => k \in Hosts /\ ValueOf(c, k) \in Addrs
  BY CacheFits, HasFacts DEF IPCache
LEMMA HostFits ==
    ASSUME NEW c \in HostCache, Fits(c), NEW k
    PROVE  /\ Touch(c, k) \in HostCache /\ Fits(Touch(c, k))
           /\ Without(c, k) \in HostCache /\ Fits(Without(c, k))
           /\ \A v \in Hosts : k \in Addrs =>
                 Set(c, k, v, Size) \in HostCache /\ Fits(Set(c, k, v, Size))
           /\ Has(c, k) => k \in Addrs /\ ValueOf(c, k) \in Hosts
  BY CacheFits, HasFacts DEF HostCache

LEMMA RangeFacts ==
    ASSUME NEW r \in Ranges
    PROVE  /\ r.lo \in Nat /\ r.hi \in Nat /\ FirstOf(r) \in Nat /\ FirstOf(r) < r.hi
           /\ FirstOf(r) - 1 \in FirstOf(r) - 1 .. r.hi - 1
           /\ FirstOf(r) \in Usable(r)
           /\ \A i \in FirstOf(r) - 1 .. r.hi - 1 : i \in Addrs /\ i \in Nat
           /\ \A i \in Usable(r) : i \in IPs /\ i \in FirstOf(r) - 1 .. r.hi - 1
<1>1. r.lo \in Nat /\ r.hi \in Nat /\ r.lo + 4 < r.hi
  BY PoolAssumption
<1>2. \A i \in r.lo..r.hi : i \in Addrs
  BY DEF Addrs
<1>3. \A i \in Usable(r) : i \in IPs
  BY DEF IPs
<1> QED BY <1>1, <1>2, <1>3 DEF FirstOf, Usable

LEMMA AddrsNat == ASSUME NEW i \in Addrs PROVE i \in Nat
  BY PoolAssumption DEF Addrs

LEMMA OffsetFacts == ASSUME TypeInv PROVE offset \in Addrs /\ offset \in Nat
  BY RangeFacts DEF TypeInv

LEMMA IdleFacts == Idle \in Ops /\ Idle.pc = "idle"
<1>1. 0 \in Addrs
  BY DEF Addrs
<1> QED BY <1>1 DEF Idle, Ops, OpPC

(* get stays below the broadcast address and starts again at the first one. *)
LEMMA AdvanceUsable ==
    ASSUME TypeInv, Advance
    PROVE  offset' \in Usable(range)
<1>1. /\ range \in Ranges /\ FirstOf(range) \in Nat /\ range.hi \in Nat
      /\ offset \in FirstOf(range) - 1 .. range.hi - 1 /\ FirstOf(range) \in Usable(range)
  BY RangeFacts DEF TypeInv
<1>2. CASE offset + 1 < range.hi
  <2>1. offset' = offset + 1
    BY <1>2 DEF Advance
  <2> QED BY <1>1, <1>2, <2>1 DEF Usable
<1>3. CASE ~(offset + 1 < range.hi)
  BY <1>1, <1>3 DEF Advance
<1> QED BY <1>2, <1>3

LEMMA OpTypes ==
    ASSUME TypeInv, OpNext
    PROVE  TypeInv'
<1>1. ASSUME NEW h \in Hosts, Lookup(h) PROVE TypeInv'
  <2>1. cacheIP' \in IPCache /\ Fits(cacheIP')
    BY <1>1, IPFits DEF TypeInv, Lookup
  <2>2. op' \in Ops /\ op'.host \in Hosts
    <3>1. CASE Has(cacheIP, h)
      <4>1. ValueOf(cacheIP, h) \in Addrs /\ "touchHost" \in OpPC
        BY <3>1, IPFits DEF TypeInv, OpPC
      <4>2. op' = [Idle EXCEPT !.pc = "touchHost", !.host = h, !.ip = ValueOf(cacheIP, h)]
        BY <1>1, <3>1 DEF Lookup
      <4> QED BY <4>1, <4>2, IdleFacts DEF Ops
    <3>2. CASE ~Has(cacheIP, h)
      <4>1. op' = [Idle EXCEPT !.pc = "advance", !.host = h] /\ "advance" \in OpPC
        BY <1>1, <3>2 DEF Lookup, OpPC
      <4> QED BY <4>1, IdleFacts DEF Ops
    <3> QED BY <3>1, <3>2
  <2>3. UNCHANGED <<cacheHost, counter, flush, next>>
    BY <1>1 DEF Lookup
  <2> QED BY <2>1, <2>2, <2>3 DEF TypeInv, counter, next
<1>2. ASSUME NEW ip \in IPs, LookBack(ip) PROVE TypeInv'
  <2>1. cacheHost' \in HostCache /\ Fits(cacheHost')
    BY <1>2, HostFits DEF TypeInv, LookBack
  <2>2. ValueOf(cacheHost, ip) \in Hosts /\ "touchIP" \in OpPC
    BY <1>2, HostFits DEF TypeInv, LookBack, OpPC
  <2>3. op' \in Ops /\ op'.host \in Hosts
    BY <1>2, <2>2, IdleFacts DEF LookBack, Ops
  <2>4. UNCHANGED <<cacheIP, counter, flush, next>>
    BY <1>2 DEF LookBack
  <2> QED BY <2>1, <2>3, <2>4 DEF TypeInv, counter, next
<1>3. CASE GetByHost
  BY <1>3, HostFits, IdleFacts DEF TypeInv, GetByHost, counter, next
<1>4. CASE Advance
  <2>1. offset' \in Usable(range) /\ cycle' \in BOOLEAN /\ range' = range
    BY <1>4, AdvanceUsable DEF TypeInv, Advance
  <2>2. op' \in Ops /\ op'.host = op.host /\ op.pc = "advance"
    BY <1>4 DEF TypeInv, Advance, Goto, Ops, OpPC
  <2>3. offset' \in FirstOf(range') - 1 .. range'.hi - 1
    BY <2>1, RangeFacts DEF TypeInv
  <2> QED BY <1>4, <2>1, <2>2, <2>3 DEF TypeInv, Advance, caches, next
<1>5. CASE Exist
  <2>1. op' \in Ops /\ op'.host = op.host /\ op.pc = "exist"
    BY <1>5 DEF TypeInv, Exist, Goto, Ops, OpPC
  <2> QED BY <1>5, <2>1 DEF TypeInv, Exist, caches, counter, next
<1>6. CASE DelGet
  <2>1. cacheHost' \in HostCache /\ Fits(cacheHost')
    BY <1>6, HostFits DEF TypeInv, DelGet
  <2>2. Has(cacheHost, offset) => ValueOf(cacheHost, offset) \in Hosts
    BY HostFits DEF TypeInv
  <2>3. op' \in Ops /\ op'.host = op.host /\ op.pc = "delGet"
    BY <1>6, <2>2, OffsetFacts DEF TypeInv, DelGet, Ops, OpPC
  <2> QED BY <1>6, <2>1, <2>3 DEF TypeInv, DelGet, counter, next
<1>7. CASE DelHost
  <2>1. cacheIP' \in IPCache /\ Fits(cacheIP')
    BY <1>7, IPFits DEF TypeInv, DelHost
  <2>2. op' \in Ops /\ op'.host = op.host /\ op.pc = "delHost"
    BY <1>7 DEF TypeInv, DelHost, Ops, OpPC
  <2> QED BY <1>7, <2>1, <2>2 DEF TypeInv, DelHost, counter, next
<1>8. CASE DelIP
  <2>1. cacheHost' \in HostCache /\ Fits(cacheHost')
    BY <1>8, HostFits DEF TypeInv, DelIP
  <2>2. op' \in Ops /\ op'.host = op.host /\ op.pc = "delIP"
    BY <1>8 DEF TypeInv, DelIP, Goto, Ops, OpPC
  <2> QED BY <1>8, <2>1, <2>2 DEF TypeInv, DelIP, counter, next
<1>9. CASE PutByIP
  <2>1. op.host \in Hosts /\ offset \in Addrs
    BY <1>9, OffsetFacts DEF TypeInv, PutByIP
  <2>2. cacheHost' \in HostCache /\ Fits(cacheHost')
    BY <1>9, <2>1, HostFits DEF TypeInv, PutByIP
  <2>3. op' \in Ops /\ op'.host = op.host
    BY <1>9 DEF TypeInv, PutByIP, Goto, Ops, OpPC
  <2> QED BY <1>9, <2>1, <2>2, <2>3 DEF TypeInv, PutByIP, counter, next
<1>10. CASE Return
  <2>1. op' \in Ops /\ op'.host = op.host /\ op.pc = "return"
    BY <1>10, OffsetFacts DEF TypeInv, Return, Ops, OpPC
  <2> QED BY <1>10, <2>1 DEF TypeInv, Return, caches, counter, next
<1>11. CASE PutByHost
  <2>1. op.host \in Hosts /\ op.ip \in Addrs
    BY <1>11 DEF TypeInv, PutByHost, Ops
  <2>2. cacheIP' \in IPCache /\ Fits(cacheIP')
    BY <1>11, <2>1, IPFits DEF TypeInv, PutByHost
  <2> QED BY <1>11, <2>2, IdleFacts DEF TypeInv, PutByHost, counter, next
<1>12. CASE GetByIP
  BY <1>12, IPFits, IdleFacts DEF TypeInv, GetByIP, counter, next
<1> QED BY <1>1, <1>2, <1>3, <1>4, <1>5, <1>6, <1>7, <1>8, <1>9, <1>10, <1>11, <1>12 DEF OpNext

LEMMA OtherTypes ==
    ASSUME TypeInv, FlushNext \/ ReloadNext
    PROVE  TypeInv'
<1>1. CASE FlushIP
  BY <1>1, EmptyFits DEF TypeInv, FlushIP, Clear, counter, next
<1>2. CASE FlushHost
  BY <1>2, EmptyFits DEF TypeInv, FlushHost, Clear, counter, next
<1>3. CASE FlushReset
  BY <1>3, RangeFacts DEF TypeInv, FlushReset, caches, next
<1>4. ASSUME NEW r \in Ranges, New(r) PROVE TypeInv'
  BY <1>4 DEF TypeInv, New, caches, counter
<1>5. CASE CloneIP
  BY <1>5 DEF TypeInv, CloneIP, CloneTo, caches, counter
<1>6. CASE CloneHost
  BY <1>6 DEF TypeInv, CloneHost, CloneTo, caches, counter
<1>7. CASE Switch
  BY <1>7, EmptyFits, IdleFacts, RangeFacts DEF TypeInv, Switch
<1> QED BY <1>1, <1>2, <1>3, <1>4, <1>5, <1>6, <1>7 DEF FlushNext, ReloadNext

LEMMA TypeInit == Init => TypeInv
  BY EmptyFits, IdleFacts, RangeFacts DEF Init, TypeInv

LEMMA TypeNext == TypeInv /\ [Next]_vars => TypeInv'
<1>1. TypeInv /\ UNCHANGED vars => TypeInv'
  BY DEF TypeInv, vars, caches, counter, next
<1> QED BY <1>1, OpTypes, OtherTypes DEF Next

LEMMA TypeAlways == Spec => []TypeInv
  BY TypeInit, TypeNext, PTL DEF Spec

(* No cache outgrows Options.Size and every variable has its type, whatever runs
   during a Lookup (pool.go, memory.go and LruCache.setWithExpire). *)
THEOREM TypeCorrect == Spec => []TypeOK
<1>1. TypeInv => TypeOK
  BY DEF TypeInv, TypeOK, IPCache, HostCache, Fits, Ops
<1> QED BY <1>1, TypeAlways, PTL

-----------------------------------------------------------------------------
(***************************************************************************)
(* Nothing runs during a Lookup.  Between two of its steps the caches      *)
(* differ by what the next steps will do to one of them: OpOrder says that *)
(* for every step, so that the last one restores the order.                *)
(***************************************************************************)
Lacks(c, k) == \A v : ~Maps(c, k, v)
Free(c, v) == \A k : ~Maps(c, k, v)
Assigning == {"advance", "exist", "delGet", "delHost", "delIP", "putIP", "return", "putHost"}

OpOrder ==
    /\ op.pc \in {"idle", "advance", "exist", "delGet", "putIP"} => Mirror(cacheIP, cacheHost)
    /\ op.pc = "touchHost" => Mirror(cacheIP, Touch(cacheHost, op.ip))
    /\ op.pc = "touchIP" => Mirror(Touch(cacheIP, op.host), cacheHost)
    /\ op.pc = "delHost" => /\ Mirror(Without(cacheIP, op.victim), Without(cacheHost, op.ip))
                            /\ op.ip = offset
    /\ op.pc = "delIP" => Mirror(cacheIP, Without(cacheHost, op.ip)) /\ op.ip = offset
    /\ op.pc = "return" => Mirror(Set(cacheIP, op.host, offset, Size), cacheHost)
    /\ op.pc = "putHost" => Mirror(Set(cacheIP, op.host, op.ip, Size), cacheHost)
OpFresh ==
    /\ op.pc \in Assigning => Lacks(cacheIP, op.host)
    /\ op.pc = "putIP" => Lacks(cacheHost, offset)
    /\ op.pc = "return" => Free(cacheIP, offset)
    /\ op.pc = "putHost" => Free(cacheIP, op.ip)
FlushOrder ==
    /\ flush # "idle" => op.pc = "idle" /\ cacheIP = <<>>
    /\ flush = "reset" => cacheHost = <<>>
ReloadOrder ==
    /\ reload \in {"idle", "new"} => nextIP = <<>> /\ nextHost = <<>>
    /\ reload = "cloneHost" => op.pc = "idle" /\ flush = "idle" /\ nextIP = cacheIP
    /\ reload = "switch" => Mirror(nextIP, nextHost)
OrderInv ==
    /\ flush = "idle" => OpOrder
    /\ OpFresh /\ FlushOrder /\ ReloadOrder

LEMMA EmptyMirror == Mirror(<<>>, <<>>) /\ \A k, v : ~Maps(<<>>, k, v)
<1>1. Len(<<>>) = 0 /\ 1..0 = {}
  OBVIOUS
<1> QED BY <1>1 DEF Mirror, Maps

LEMMA LacksHas ==
    ASSUME NEW K, NEW V, NEW c \in Seq(Pairs(K, V)), NEW k
    PROVE  Lacks(c, k) <=> ~Has(c, k)
  BY HasFacts DEF Lacks

(* The variables that no step of a Lookup changes. *)
OpFrame == flush' = flush /\ reload' = reload /\ nextIP' = nextIP /\ nextHost' = nextHost

(* A step of a Lookup that is not its first happens outside of a flush and a copy. *)
LEMMA OpFrameFacts ==
    ASSUME OrderInv, op.pc # "idle" \/ (flush = "idle" /\ reload # "cloneHost"), OpFrame
    PROVE  flush = "idle" /\ OpOrder /\ FlushOrder' /\ ReloadOrder'
<1>1. flush = "idle" /\ reload # "cloneHost" /\ OpOrder
  BY DEF OrderInv, FlushOrder, ReloadOrder
<1>2. FlushOrder'
  BY <1>1 DEF OpFrame, FlushOrder
<1>3. ReloadOrder'
  BY <1>1 DEF OpFrame, OrderInv, ReloadOrder
<1> QED BY <1>1, <1>2, <1>3

LEMMA LookupOrder ==
    ASSUME TypeInv, OrderInv, Overlap = {}, NEW h \in Hosts, Lookup(h)
    PROVE  OrderInv'
<1>1. /\ flush = "idle" /\ reload # "cloneHost" /\ op.pc = "idle" /\ OpFrame
      /\ cacheHost' = cacheHost /\ offset' = offset /\ cacheIP' = Touch(cacheIP, h)
  BY DEF Lookup, FlushQuiet, CloneQuiet, OpFrame, counter, next
<1>2. Mirror(cacheIP, cacheHost) /\ FlushOrder' /\ ReloadOrder'
  BY <1>1, OpFrameFacts DEF OpOrder
<1>3. /\ cacheIP \in IPCache /\ Keyed(cacheIP) /\ cacheHost \in HostCache /\ Keyed(cacheHost)
  BY DEF TypeInv, Fits
<1>4. CASE Has(cacheIP, h)
  <2> DEFINE ip == ValueOf(cacheIP, h)
  <2>1. op' = [Idle EXCEPT !.pc = "touchHost", !.host = h, !.ip = ip]
    BY <1>4 DEF Lookup
  <2>2. Maps(cacheIP, h, ip)
    BY <1>3, <1>4, HasFacts DEF IPCache
  <2> HIDE DEF ip
  <2>3. op'.pc = "touchHost" /\ op'.ip = ip
    BY <2>1 DEF Idle
  <2>4. Mirror(cacheIP', Touch(cacheHost, ip))
    BY <1>1, <1>2, <1>3, <2>2, MirrorTouch
  <2>5. OpOrder' /\ OpFresh'
    BY <1>1, <2>3, <2>4 DEF OpOrder, OpFresh, Assigning
  <2> QED BY <1>1, <1>2, <2>3, <2>5 DEF OrderInv
<1>5. CASE ~Has(cacheIP, h)
  <2>1. op' = [Idle EXCEPT !.pc = "advance", !.host = h] /\ cacheIP' = cacheIP
    BY <1>5 DEF Lookup, Touch
  <2>2. op'.pc = "advance" /\ op'.host = h
    BY <2>1 DEF Idle
  <2>3. Lacks(cacheIP, h)
    BY <1>3, <1>5, LacksHas DEF IPCache
  <2>4. OpOrder' /\ OpFresh'
    BY <1>1, <1>2, <2>1, <2>2, <2>3 DEF OpOrder, OpFresh
  <2> QED BY <1>1, <1>2, <2>2, <2>4 DEF OrderInv
<1> QED BY <1>4, <1>5

LEMMA LookBackOrder ==
    ASSUME TypeInv, OrderInv, Overlap = {}, NEW ip \in IPs, LookBack(ip)
    PROVE  OrderInv'
<1>1. /\ flush = "idle" /\ reload # "cloneHost" /\ op.pc = "idle" /\ OpFrame
      /\ cacheIP' = cacheIP /\ offset' = offset /\ cacheHost' = Touch(cacheHost, ip)
      /\ Has(cacheHost, ip)
  BY DEF LookBack, FlushQuiet, CloneQuiet, OpFrame, counter, next
<1>2. Mirror(cacheIP, cacheHost) /\ FlushOrder' /\ ReloadOrder'
  BY <1>1, OpFrameFacts DEF OpOrder
<1>3. /\ cacheIP \in IPCache /\ Keyed(cacheIP) /\ cacheHost \in HostCache /\ Keyed(cacheHost)
  BY DEF TypeInv, Fits
<1> DEFINE h == ValueOf(cacheHost, ip)
<1>4. op' = [Idle EXCEPT !.pc = "touchIP", !.host = h]
  BY DEF LookBack
<1>5. Maps(cacheHost, ip, h)
  BY <1>1, <1>3, HasFacts DEF HostCache
<1> HIDE DEF h
<1>6. op'.pc = "touchIP" /\ op'.host = h
  BY <1>4 DEF Idle
<1>7. Mirror(Touch(cacheIP, h), cacheHost')
  BY <1>1, <1>2, <1>3, <1>5, MirrorMaps, MirrorTouch
<1>8. OpOrder' /\ OpFresh'
  BY <1>1, <1>6, <1>7 DEF OpOrder, OpFresh, Assigning
<1> QED BY <1>1, <1>2, <1>6, <1>8 DEF OrderInv, OpFrame

(* The second step of a Lookup that finds its host, and of a LookBack. *)
LEMMA TouchOrder ==
    ASSUME TypeInv, OrderInv, GetByHost \/ GetByIP
    PROVE  OrderInv'
<1>1. OpFrame /\ op.pc \in {"touchHost", "touchIP"} /\ op' = Idle /\ offset' = offset
  BY DEF GetByHost, GetByIP, OpFrame, counter, next
<1>2. flush = "idle" /\ OpOrder /\ FlushOrder' /\ ReloadOrder'
  BY <1>1, OpFrameFacts
<1>3. op'.pc = "idle"
  BY <1>1, IdleFacts
<1>4. Mirror(cacheIP, cacheHost)'
  BY <1>2 DEF OpOrder, GetByHost, GetByIP
<1>5. OpOrder' /\ OpFresh'
  BY <1>3, <1>4 DEF OpOrder, OpFresh, Assigning
<1> QED BY <1>2, <1>5 DEF OrderInv

(* get: the next address and whether it is in use. *)
LEMMA AdvanceOrder ==
    ASSUME TypeInv, OrderInv, Advance
    PROVE  OrderInv'
<1>1. /\ OpFrame /\ op.pc = "advance" /\ op' = [op EXCEPT !.pc = "exist"]
      /\ cacheIP' = cacheIP /\ cacheHost' = cacheHost
  BY DEF Advance, Goto, OpFrame, caches, next
<1>2. op'.pc = "exist" /\ op'.host = op.host
  BY <1>1 DEF TypeInv, Ops
<1>3. flush = "idle" /\ OpOrder /\ FlushOrder' /\ ReloadOrder'
  BY <1>1, OpFrameFacts
<1>4. OpOrder' /\ OpFresh'
  BY <1>1, <1>2, <1>3 DEF OrderInv, OpOrder, OpFresh, Assigning
<1> QED BY <1>3, <1>4 DEF OrderInv

LEMMA ExistOrder ==
    ASSUME TypeInv, OrderInv, Exist
    PROVE  OrderInv'
<1>1. /\ OpFrame /\ op.pc = "exist" /\ offset' = offset
      /\ op' = [op EXCEPT !.pc = IF cycle \/ Has(cacheHost, offset) THEN "delGet" ELSE "putIP"]
      /\ cacheIP' = cacheIP /\ cacheHost' = cacheHost
  BY DEF Exist, Goto, OpFrame, caches, counter, next
<1>2. /\ op'.pc = (IF cycle \/ Has(cacheHost, offset) THEN "delGet" ELSE "putIP")
      /\ op'.host = op.host
  BY <1>1 DEF TypeInv, Ops
<1>3. flush = "idle" /\ OpOrder /\ FlushOrder' /\ ReloadOrder'
  BY <1>1, OpFrameFacts
<1>4. op'.pc = "putIP" => Lacks(cacheHost, offset)
  BY <1>2, LacksHas DEF TypeInv, HostCache
<1>5. Mirror(cacheIP, cacheHost) /\ Lacks(cacheIP, op.host)
  BY <1>1, <1>3 DEF OpOrder, OrderInv, OpFresh, Assigning
<1>6. op'.pc \in {"delGet", "putIP"}
  BY <1>2
<1>7. OpOrder' /\ OpFresh'
  BY <1>1, <1>2, <1>4, <1>5, <1>6 DEF OpOrder, OpFresh
<1> QED BY <1>3, <1>7 DEF OrderInv

(* DelByIP. *)
LEMMA DelGetOrder ==
    ASSUME TypeInv, OrderInv, DelGet
    PROVE  OrderInv'
<1>1. /\ OpFrame /\ op.pc = "delGet" /\ offset' = offset /\ cacheIP' = cacheIP
      /\ cacheHost' = Touch(cacheHost, offset)
  BY DEF DelGet, OpFrame, counter, next
<1>2. flush = "idle" /\ OpOrder /\ FlushOrder' /\ ReloadOrder'
  BY <1>1, OpFrameFacts
<1>3. Mirror(cacheIP, cacheHost) /\ Lacks(cacheIP, op.host)
  BY <1>1, <1>2 DEF OpOrder, OrderInv, OpFresh, Assigning
<1>4. /\ cacheIP \in IPCache /\ Keyed(cacheIP) /\ cacheHost \in HostCache /\ Keyed(cacheHost)
  BY DEF TypeInv, Fits
<1>5. Without(cacheHost', offset) = Without(cacheHost, offset)
  BY <1>1, <1>4, TouchFacts DEF HostCache
<1>6. CASE Has(cacheHost, offset)
  <2> DEFINE victim == ValueOf(cacheHost, offset)
  <2>1. Maps(cacheHost, offset, victim)
    BY <1>4, <1>6, HasFacts DEF HostCache
  <2>2. op' = [op EXCEPT !.pc = "delHost", !.ip = offset, !.victim = victim]
    BY <1>6 DEF DelGet
  <2> HIDE DEF victim
  <2>3. op'.pc = "delHost" /\ op'.ip = offset /\ op'.victim = victim /\ op'.host = op.host
    BY <2>2 DEF TypeInv, Ops
  <2>4. Mirror(Without(cacheIP, victim), Without(cacheHost, offset))
    BY <1>3, <1>4, <2>1, MirrorMaps, MirrorWithout
  <2>5. OpOrder' /\ OpFresh'
    BY <1>1, <1>3, <1>5, <2>3, <2>4 DEF OpOrder, OpFresh
  <2> QED BY <1>2, <2>5 DEF OrderInv
<1>7. CASE ~Has(cacheHost, offset)
  <2>1. op' = [op EXCEPT !.pc = "delIP", !.ip = offset]
    BY <1>7 DEF DelGet
  <2>2. op'.pc = "delIP" /\ op'.ip = offset /\ op'.host = op.host
    BY <2>1 DEF TypeInv, Ops
  <2>3. Without(cacheHost, offset) = cacheHost
    BY <1>7 DEF Without
  <2>4. OpOrder' /\ OpFresh'
    BY <1>1, <1>3, <1>5, <2>2, <2>3 DEF OpOrder, OpFresh
  <2> QED BY <1>2, <2>4 DEF OrderInv
<1> QED BY <1>6, <1>7

LEMMA DelHostOrder ==
    ASSUME TypeInv, OrderInv, DelHost
    PROVE  OrderInv'
<1>1. /\ OpFrame /\ op.pc = "delHost" /\ offset' = offset /\ cacheHost' = cacheHost
      /\ cacheIP' = Without(cacheIP, op.victim)
      /\ op' = [op EXCEPT !.pc = "delIP", !.victim = NoHost]
  BY DEF DelHost, OpFrame, counter, next
<1>2. flush = "idle" /\ OpOrder /\ FlushOrder' /\ ReloadOrder'
  BY <1>1, OpFrameFacts
<1>3. op'.pc = "delIP" /\ op'.ip = op.ip /\ op'.host = op.host
  BY <1>1 DEF TypeInv, Ops
<1>4. /\ Mirror(cacheIP', Without(cacheHost, op.ip)) /\ op.ip = offset
      /\ Lacks(cacheIP, op.host)
  BY <1>1, <1>2 DEF OpOrder, OrderInv, OpFresh, Assigning
<1>5. \A k, v : Maps(cacheIP', k, v) => Maps(cacheIP, k, v)
  BY <1>1, WithoutFacts DEF TypeInv, Fits, IPCache
<1>6. OpOrder' /\ OpFresh'
  BY <1>1, <1>3, <1>4, <1>5 DEF OpOrder, OpFresh, Lacks
<1> QED BY <1>2, <1>6 DEF OrderInv

LEMMA DelIPOrder ==
    ASSUME TypeInv, OrderInv, DelIP
    PROVE  OrderInv'
<1>1. /\ OpFrame /\ op.pc = "delIP" /\ offset' = offset /\ cacheIP' = cacheIP
      /\ cacheHost' = Without(cacheHost, op.ip)
      /\ op' = [op EXCEPT !.pc = "putIP"]
  BY DEF DelIP, Goto, OpFrame, counter, next
<1>2. flush = "idle" /\ OpOrder /\ FlushOrder' /\ ReloadOrder'
  BY <1>1, OpFrameFacts
<1>3. op'.pc = "putIP" /\ op'.host = op.host
  BY <1>1 DEF TypeInv, Ops
<1>4. /\ Mirror(cacheIP, cacheHost') /\ op.ip = offset
      /\ Lacks(cacheIP, op.host)
  BY <1>1, <1>2 DEF OpOrder, OrderInv, OpFresh, Assigning
<1>5. \A k, v : Maps(cacheHost', k, v) => k # op.ip
  BY <1>1, WithoutFacts DEF TypeInv, Fits, HostCache
<1>6. OpOrder' /\ OpFresh'
  BY <1>1, <1>3, <1>4, <1>5 DEF OpOrder, OpFresh, Lacks
<1> QED BY <1>2, <1>6 DEF OrderInv

(* The new record, ip --> host first. *)
LEMMA PutByIPOrder ==
    ASSUME TypeInv, OrderInv, PutByIP
    PROVE  OrderInv'
<1>1. /\ OpFrame /\ op.pc = "putIP" /\ offset' = offset /\ cacheIP' = cacheIP
      /\ cacheHost' = Set(cacheHost, offset, op.host, Size)
      /\ op' = [op EXCEPT !.pc = "return"]
  BY DEF PutByIP, Goto, OpFrame, counter, next
<1>2. flush = "idle" /\ OpOrder /\ FlushOrder' /\ ReloadOrder'
  BY <1>1, OpFrameFacts
<1>3. op'.pc = "return" /\ op'.host = op.host
  BY <1>1 DEF TypeInv, Ops
<1>4. /\ Mirror(cacheIP, cacheHost) /\ Lacks(cacheHost, offset)
      /\ Lacks(cacheIP, op.host)
  BY <1>1, <1>2 DEF OpOrder, OrderInv, OpFresh, Assigning
<1>5. /\ cacheIP \in IPCache /\ Keyed(cacheIP) /\ cacheHost \in HostCache /\ Keyed(cacheHost)
      /\ op.host \in Hosts /\ offset \in Addrs /\ Size \in Nat
  BY <1>1, PoolAssumption, OffsetFacts DEF TypeInv, Fits
<1>6. ~Has(cacheIP, op.host) /\ ~Has(cacheHost, offset)
  BY <1>4, <1>5, LacksHas DEF IPCache, HostCache
<1>7. Mirror(Set(cacheIP, op.host, offset, Size), cacheHost')
  BY <1>1, <1>4, <1>5, <1>6, MirrorSet
<1>8. Free(cacheIP, offset)
  BY <1>4, <1>5, MirrorMaps DEF Lacks, Free
<1>9. OpOrder' /\ OpFresh'
  BY <1>1, <1>3, <1>4, <1>7, <1>8 DEF OpOrder, OpFresh
<1> QED BY <1>2, <1>9 DEF OrderInv

LEMMA ReturnOrder ==
    ASSUME TypeInv, OrderInv, Return
    PROVE  OrderInv'
<1>1. /\ OpFrame /\ op.pc = "return" /\ offset' = offset
      /\ cacheIP' = cacheIP /\ cacheHost' = cacheHost
      /\ op' = [op EXCEPT !.pc = "putHost", !.ip = offset]
  BY DEF Return, OpFrame, caches, counter, next
<1>2. flush = "idle" /\ OpOrder /\ FlushOrder' /\ ReloadOrder'
  BY <1>1, OpFrameFacts
<1>3. op'.pc = "putHost" /\ op'.host = op.host /\ op'.ip = offset
  BY <1>1 DEF TypeInv, Ops
<1>4. /\ Mirror(Set(cacheIP, op.host, offset, Size), cacheHost)
      /\ Lacks(cacheIP, op.host) /\ Free(cacheIP, offset)
  BY <1>1, <1>2 DEF OpOrder, OrderInv, OpFresh, Assigning
<1>5. OpOrder' /\ OpFresh'
  BY <1>1, <1>3, <1>4 DEF OpOrder, OpFresh
<1> QED BY <1>2, <1>5 DEF OrderInv

LEMMA PutByHostOrder ==
    ASSUME TypeInv, OrderInv, PutByHost
    PROVE  OrderInv'
<1>1. /\ OpFrame /\ op.pc = "putHost" /\ offset' = offset /\ cacheHost' = cacheHost
      /\ cacheIP' = Set(cacheIP, op.host, op.ip, Size) /\ op' = Idle
  BY DEF PutByHost, OpFrame, counter, next
<1>2. flush = "idle" /\ OpOrder /\ FlushOrder' /\ ReloadOrder' /\ op'.pc = "idle"
  BY <1>1, OpFrameFacts, IdleFacts
<1>3. Mirror(cacheIP', cacheHost)
  BY <1>1, <1>2 DEF OpOrder
<1>4. OpOrder' /\ OpFresh'
  BY <1>1, <1>2, <1>3 DEF OpOrder, OpFresh, Assigning
<1> QED BY <1>2, <1>4 DEF OrderInv

LEMMA OpOrderStep ==
    ASSUME TypeInv, OrderInv, Overlap = {}, OpNext
    PROVE  OrderInv'
  BY LookupOrder, LookBackOrder, TouchOrder, AdvanceOrder, ExistOrder, DelGetOrder,
     DelHostOrder, DelIPOrder, PutByIPOrder, ReturnOrder, PutByHostOrder DEF OpNext

LEMMA FlushOrderStep ==
    ASSUME TypeInv, OrderInv, Overlap = {}, FlushNext
    PROVE  OrderInv'
<1>1. CASE FlushIP
  <2>1. /\ op.pc = "idle" /\ reload # "cloneHost" /\ cacheIP' = <<>> /\ flush' = "clearHost"
        /\ cacheHost' = cacheHost /\ offset' = offset /\ op' = op
        /\ reload' = reload /\ nextIP' = nextIP /\ nextHost' = nextHost
    BY <1>1 DEF FlushIP, OpQuiet, Clear, counter, next
  <2> QED BY <2>1 DEF OrderInv, OpFresh, FlushOrder, ReloadOrder, Assigning
<1>2. CASE FlushHost
  <2>1. /\ flush = "clearHost" /\ cacheHost' = <<>> /\ flush' = "reset"
        /\ cacheIP' = cacheIP /\ offset' = offset /\ op' = op
        /\ reload' = reload /\ nextIP' = nextIP /\ nextHost' = nextHost
    BY <1>2 DEF FlushHost, Clear, counter, next
  <2> QED BY <2>1 DEF OrderInv, OpFresh, FlushOrder, ReloadOrder, Assigning
<1>3. CASE FlushReset
  <2>1. /\ flush = "reset" /\ flush' = "idle" /\ offset' = FirstOf(range) - 1
        /\ cacheIP' = cacheIP /\ cacheHost' = cacheHost /\ op' = op
        /\ reload' = reload /\ nextIP' = nextIP /\ nextHost' = nextHost
    BY <1>3 DEF FlushReset, caches, next
  <2>2. op.pc = "idle" /\ cacheIP = <<>> /\ cacheHost = <<>> /\ reload # "cloneHost"
    BY <2>1 DEF OrderInv, FlushOrder, ReloadOrder
  <2>3. OpOrder' /\ OpFresh'
    BY <2>1, <2>2, EmptyMirror DEF OpOrder, OpFresh, Assigning
  <2>4. FlushOrder' /\ ReloadOrder'
    BY <2>1, <2>2 DEF OrderInv, FlushOrder, ReloadOrder
  <2> QED BY <2>3, <2>4 DEF OrderInv
<1> QED BY <1>1, <1>2, <1>3 DEF FlushNext

LEMMA ReloadOrderStep ==
    ASSUME TypeInv, OrderInv, Overlap = {}, ReloadNext
    PROVE  OrderInv'
<1>1. ASSUME NEW r \in Ranges, New(r) PROVE OrderInv'
  <2>1. /\ reload = "idle" /\ reload' = "new" /\ nextIP' = nextIP /\ nextHost' = nextHost
        /\ cacheIP' = cacheIP /\ cacheHost' = cacheHost /\ op' = op
        /\ offset' = offset /\ flush' = flush
    BY <1>1 DEF New, caches, counter
  <2> QED BY <2>1 DEF OrderInv, OpOrder, OpFresh, FlushOrder, ReloadOrder
<1>2. CASE CloneIP
  <2>1. /\ reload' = "cloneHost" /\ nextIP' = cacheIP
        /\ cacheIP' = cacheIP /\ cacheHost' = cacheHost /\ op' = op
        /\ offset' = offset /\ flush' = flush /\ op.pc = "idle" /\ flush = "idle"
    BY <1>2 DEF CloneIP, CloneTo, OpQuiet, FlushQuiet, caches, counter
  <2> QED BY <2>1 DEF OrderInv, OpOrder, OpFresh, FlushOrder, ReloadOrder
<1>3. CASE CloneHost
  <2>1. /\ reload = "cloneHost" /\ reload' = "switch" /\ nextHost' = cacheHost
        /\ nextIP' = nextIP /\ cacheIP' = cacheIP /\ cacheHost' = cacheHost /\ op' = op
        /\ offset' = offset /\ flush' = flush
    BY <1>3 DEF CloneHost, CloneTo, caches, counter
  <2>2. nextIP = cacheIP /\ Mirror(cacheIP, cacheHost)
    BY <2>1 DEF OrderInv, OpOrder, ReloadOrder
  <2> QED BY <2>1, <2>2 DEF OrderInv, OpOrder, OpFresh, FlushOrder, ReloadOrder
<1>4. CASE Switch
  <2>1. /\ reload = "switch" /\ reload' = "idle" /\ nextIP' = <<>> /\ nextHost' = <<>>
        /\ cacheIP' = nextIP /\ cacheHost' = nextHost /\ op'.pc = "idle"
        /\ flush' = "idle"
    BY <1>4, IdleFacts DEF Switch
  <2>2. Mirror(nextIP, nextHost)
    BY <2>1 DEF OrderInv, ReloadOrder
  <2> QED BY <2>1, <2>2 DEF OrderInv, OpOrder, OpFresh, FlushOrder, ReloadOrder, Assigning
<1> QED BY <1>1, <1>2, <1>3, <1>4 DEF ReloadNext

LEMMA OrderInit == Init => OrderInv
  BY EmptyMirror, IdleFacts, PoolAssumption
     DEF Init, OrderInv, OpOrder, OpFresh, FlushOrder, ReloadOrder, Assigning

LEMMA OrderNext ==
    ASSUME TypeInv, OrderInv, Overlap = {}, [Next]_vars
    PROVE  OrderInv'
<1>1. CASE UNCHANGED vars
  <2>1. /\ reload' = reload /\ nextIP' = nextIP /\ nextHost' = nextHost
        /\ cacheIP' = cacheIP /\ cacheHost' = cacheHost /\ op' = op
        /\ offset' = offset /\ flush' = flush
    BY <1>1 DEF vars, caches, counter, next
  <2> QED BY <2>1 DEF OrderInv, OpOrder, OpFresh, FlushOrder, ReloadOrder
<1> QED BY <1>1, OpOrderStep, FlushOrderStep, ReloadOrderStep DEF Next

-----------------------------------------------------------------------------
(***************************************************************************)
(* No flush runs during a Lookup, though a reload may: the address that    *)
(* the Lookup is about to record is a usable one of the serving pool.      *)
(***************************************************************************)
UsableInv ==
    /\ flush # "idle" => op.pc = "idle"
    /\ op.pc \in Assigning \ {"advance", "putHost"} => offset \in Usable(range)
    /\ op.pc = "putHost" => op.ip \in Usable(range)

LEMMA UsableInit == Init => UsableInv
  BY IdleFacts DEF Init, UsableInv, Assigning

LEMMA UsableNext ==
    ASSUME "flush" \notin Overlap, TypeInv, UsableInv, [Next]_vars
    PROVE  UsableInv'
<1>1. CASE op'.pc \in {"idle", "touchHost", "touchIP", "advance"}
           /\ (flush' # "idle" => op'.pc = "idle")
  BY <1>1 DEF UsableInv, Assigning
<1>2. ASSUME NEW h \in Hosts, Lookup(h) PROVE UsableInv'
  BY <1>1, <1>2 DEF Lookup, FlushQuiet, Idle
<1>3. ASSUME NEW ip \in IPs, LookBack(ip) PROVE UsableInv'
  BY <1>1, <1>3 DEF LookBack, FlushQuiet, Idle
<1>4. CASE GetByHost \/ GetByIP \/ PutByHost \/ Switch
  BY <1>1, <1>4, IdleFacts DEF GetByHost, GetByIP, PutByHost, Switch
<1>5. CASE Advance
  <2>1. op.pc = "advance" /\ op'.pc = "exist" /\ flush' = flush /\ range' = range
    BY <1>5 DEF Advance, Goto, TypeInv, Ops
  <2> QED BY <1>5, <2>1, AdvanceUsable DEF UsableInv
<1>6. CASE Exist \/ DelGet \/ DelHost \/ DelIP \/ PutByIP
  <2>1. /\ op.pc \in Assigning \ {"advance", "putHost"} /\ op'.pc # "putHost"
        /\ UNCHANGED <<flush, range, offset>>
    BY <1>6 DEF Exist, DelGet, DelHost, DelIP, PutByIP, Goto, TypeInv, Ops, counter, Assigning
  <2> QED BY <2>1 DEF UsableInv, Assigning
<1>7. CASE Return
  <2>1. /\ op.pc = "return" /\ op'.pc = "putHost" /\ op'.ip = offset
        /\ UNCHANGED <<flush, range, offset>>
    BY <1>7 DEF Return, TypeInv, Ops, counter
  <2> QED BY <2>1 DEF UsableInv, Assigning
<1>8. CASE FlushIP
  <2>1. op.pc = "idle" /\ op' = op
    BY <1>8 DEF FlushIP, OpQuiet
  <2> QED BY <1>1, <2>1
<1>9. CASE FlushHost \/ FlushReset
  <2>1. op.pc = "idle" /\ op' = op
    BY <1>9 DEF FlushHost, FlushReset, UsableInv
  <2> QED BY <1>1, <2>1
<1>10. CASE UNCHANGED <<flush, op, counter>>
  BY <1>10 DEF UsableInv, counter
<1>11. ASSUME NEW r \in Ranges, New(r) PROVE UsableInv'
  BY <1>10, <1>11 DEF New
<1>12. CASE CloneIP \/ CloneHost \/ UNCHANGED vars
  BY <1>10, <1>12 DEF CloneIP, CloneHost, vars
<1> QED BY <1>2, <1>3, <1>4, <1>5, <1>6, <1>7, <1>8, <1>9, <1>11, <1>12
        DEF Next, OpNext, FlushNext, ReloadNext

LEMMA UsableAlways == "flush" \notin Overlap => (Spec => [](TypeInv /\ UsableInv))
<1> SUFFICES ASSUME "flush" \notin Overlap PROVE Spec => [](TypeInv /\ UsableInv)
  OBVIOUS
<1>1. Init => TypeInv /\ UsableInv
  BY TypeInit, UsableInit
<1>2. TypeInv /\ UsableInv /\ [Next]_vars => (TypeInv /\ UsableInv)'
  BY TypeNext, UsableNext
<1> QED BY <1>1, <1>2, PTL DEF Spec

QuietInv == TypeInv /\ OrderInv /\ UsableInv

LEMMA QuietAlways == Overlap = {} => (Spec => []QuietInv)
<1> SUFFICES ASSUME Overlap = {} PROVE Spec => []QuietInv
  OBVIOUS
<1>1. Init => QuietInv
  BY TypeInit, OrderInit, UsableInit DEF QuietInv
<1>2. QuietInv /\ [Next]_vars => QuietInv'
  BY TypeNext, OrderNext, UsableNext DEF QuietInv
<1> QED BY <1>1, <1>2, PTL DEF Spec

(* Between operations both caches hold the same records in the same order of use,
   so they evict the same record: GetByHost, GetByIP, PutByIP, PutByHost, DelByIP,
   FlushFakeIP and CloneTo of memory.go treat both directions alike. *)
THEOREM OrderKept == Overlap = {} => (Spec => []SameOrder)
<1>1. QuietInv => SameOrder
  BY DEF QuietInv, OrderInv, OpOrder, Mirror, SameOrder, Settled
<1> QED BY <1>1, QuietAlways, PTL

(* LookBack undoes Lookup (pool.go), through eviction, wrap-around, flush and
   reload. *)
THEOREM LookBackUndoes == Overlap = {} => (Spec => []LookBackFinds)
<1>1. QuietInv => LookBackFinds
  <2> SUFFICES ASSUME QuietInv, Settled, NEW h \in Hosts, Has(cacheIP, h)
               PROVE  LET ip == ValueOf(cacheIP, h) IN
                      Has(cacheHost, ip) /\ ValueOf(cacheHost, ip) = h
    BY DEF LookBackFinds
  <2>1. /\ Mirror(cacheIP, cacheHost) /\ cacheIP \in IPCache /\ Keyed(cacheIP)
        /\ cacheHost \in HostCache /\ Keyed(cacheHost)
    BY DEF QuietInv, TypeInv, Fits, OrderInv, OpOrder, Settled
  <2>2. Maps(cacheIP, h, ValueOf(cacheIP, h))
    BY <2>1, HasFacts DEF IPCache
  <2>3. Maps(cacheHost, ValueOf(cacheIP, h), h)
    BY <2>1, <2>2, MirrorMaps
  <2> QED BY <2>1, <2>3, MapsValue DEF HostCache
<1> QED BY <1>1, QuietAlways, PTL

-----------------------------------------------------------------------------
(* The refinement. *)

LEMMA RecordsFacts ==
    ASSUME NEW c \in IPCache, Keyed(c), NEW h \in Hosts
    PROVE  /\ \A v : Maps(c, h, v) => Records(c)[h] = v
           /\ Lacks(c, h) => Records(c)[h] = -1
<1>1. \A v : Maps(c, h, v) => Records(c)[h] = v
  BY MapsValue DEF IPCache, Records
<1>2. Lacks(c, h) => Records(c)[h] = -1
  BY LacksHas DEF IPCache, Records
<1> QED BY <1>1, <1>2

LEMMA SameRecords ==
    ASSUME NEW c \in IPCache, Keyed(c), NEW d \in IPCache, Keyed(d),
           \A k, v : Maps(c, k, v) <=> Maps(d, k, v)
    PROVE  Records(c) = Records(d)
<1>1. ASSUME NEW h \in Hosts PROVE Records(c)[h] = Records(d)[h]
  <2>1. CASE Lacks(c, h)
    <3>1. Lacks(d, h)
      BY <2>1 DEF Lacks
    <3> QED BY <2>1, <3>1, RecordsFacts
  <2>2. CASE ~Lacks(c, h)
    <3>1. PICK v : Maps(c, h, v) /\ Maps(d, h, v)
      BY <2>2 DEF Lacks
    <3> QED BY <3>1, RecordsFacts
  <2> QED BY <2>1, <2>2
<1>2. Records(c) = [h \in Hosts |-> Records(c)[h]] /\ Records(d) = [h \in Hosts |-> Records(d)[h]]
  BY DEF Records
<1> QED BY <1>1, <1>2

LEMMA EmptyRecords == Records(<<>>) = Promise!Empty
<1>1. \A h : ~Has(<<>>, h)
  BY Len(<<>>) = 0 DEF Has
<1> QED BY <1>1 DEF Records, Promise!Empty

PromiseStep == [Promise!Next]_<<Records(cacheIP), Records(nextIP)>>

LEMMA SamePromise ==
    ASSUME Records(cacheIP') = Records(cacheIP), Records(nextIP') = Records(nextIP)
    PROVE  PromiseStep
  BY DEF PromiseStep

LEMMA TouchPromise ==
    ASSUME TypeInv, NEW k, cacheIP' = Touch(cacheIP, k), nextIP' = nextIP
    PROVE  PromiseStep
<1>1. cacheIP \in IPCache /\ Keyed(cacheIP)
  BY DEF TypeInv, Fits
<1>2. /\ cacheIP' \in IPCache /\ Keyed(cacheIP')
      /\ \A j, v : Maps(cacheIP', j, v) <=> Maps(cacheIP, j, v)
  BY <1>1, TouchFacts DEF IPCache
<1> QED BY <1>1, <1>2, SameRecords, SamePromise

LEMMA DelHostPromise ==
    ASSUME TypeInv, DelHost
    PROVE  PromiseStep
<1> DEFINE v == op.victim
           F == {v} \cap Hosts
<1>1. cacheIP \in IPCache /\ Keyed(cacheIP) /\ cacheIP' = Without(cacheIP, v) /\ nextIP' = nextIP
  BY DEF TypeInv, Fits, DelHost, next
<1>2. /\ cacheIP' \in IPCache /\ Keyed(cacheIP')
      /\ \A j, u : Maps(cacheIP', j, u) <=> Maps(cacheIP, j, u) /\ j # v
  BY <1>1, WithoutFacts DEF IPCache
<1> HIDE DEF v
<1>3. ASSUME NEW h \in Hosts
      PROVE  Records(cacheIP')[h] = IF h \in F THEN -1 ELSE Records(cacheIP)[h]
  <2>1. CASE h = v
    <3>1. Lacks(cacheIP', h)
      BY <1>2, <2>1 DEF Lacks
    <3> QED BY <1>2, <2>1, <3>1, RecordsFacts
  <2>2. CASE h # v /\ Lacks(cacheIP, h)
    <3>1. Lacks(cacheIP', h)
      BY <1>2, <2>2 DEF Lacks
    <3> QED BY <1>1, <1>2, <2>2, <3>1, RecordsFacts
  <2>3. CASE h # v /\ ~Lacks(cacheIP, h)
    <3>1. PICK u : Maps(cacheIP, h, u) /\ Maps(cacheIP', h, u)
      BY <1>2, <2>3 DEF Lacks
    <3> QED BY <1>1, <1>2, <2>3, <3>1, RecordsFacts
  <2> QED BY <2>1, <2>2, <2>3
<1>4. Records(cacheIP') = [h \in Hosts |-> Records(cacheIP')[h]]
  BY DEF Records
<1>5. Records(cacheIP') = Promise!Forgotten(Records(cacheIP), F)
  BY <1>3, <1>4 DEF Promise!Forgotten
<1>6. Promise!Forget(F)
  BY <1>1, <1>5 DEF Promise!Forget
<1>7. F \in SUBSET Hosts
  OBVIOUS
<1> QED BY <1>6, <1>7 DEF PromiseStep, Promise!Next

LEMMA PutByHostPromise ==
    ASSUME TypeInv, OrderInv, UsableInv, PutByHost
    PROVE  PromiseStep
<1> DEFINE h == op.host
           ip == op.ip
           rec == Records(cacheIP)
<1>1. /\ cacheIP \in IPCache /\ Keyed(cacheIP) /\ h \in Hosts /\ ip \in Addrs /\ Size \in Nat
      /\ cacheIP' = Set(cacheIP, h, ip, Size) /\ nextIP' = nextIP
      /\ ip \in IPs /\ Lacks(cacheIP, h) /\ Free(cacheIP, ip)
  BY PoolAssumption, RangeFacts
     DEF TypeInv, Fits, Ops, PutByHost, next, UsableInv, OrderInv, OpFresh, Assigning
<1> HIDE DEF h, ip
<1>2. cacheIP' \in IPCache /\ Keyed(cacheIP')
  BY <1>1, SetFacts DEF IPCache
<1>3. PICK F \in SUBSET Hosts : h \notin F /\ \A j, u : Maps(cacheIP', j, u) <=>
                 (j = h /\ u = ip) \/ (Maps(cacheIP, j, u) /\ j # h /\ j \notin F)
  BY <1>1, SetFacts DEF IPCache
<1>4. ASSUME NEW j \in Hosts
      PROVE  Records(cacheIP')[j] = IF j = h THEN ip ELSE IF j \in F THEN -1 ELSE rec[j]
  <2>1. CASE j = h
    <3>1. Maps(cacheIP', j, ip)
      BY <1>3, <2>1
    <3> QED BY <1>2, <2>1, <3>1, RecordsFacts
  <2>2. CASE j # h /\ (j \in F \/ Lacks(cacheIP, j))
    <3>1. Lacks(cacheIP', j)
      BY <1>3, <2>2 DEF Lacks
    <3> QED BY <1>1, <1>2, <2>2, <3>1, RecordsFacts
  <2>3. CASE j # h /\ j \notin F /\ ~Lacks(cacheIP, j)
    <3>1. PICK u : Maps(cacheIP, j, u) /\ Maps(cacheIP', j, u)
      BY <1>3, <2>3 DEF Lacks
    <3> QED BY <1>1, <1>2, <2>3, <3>1, RecordsFacts
  <2> QED BY <2>1, <2>2, <2>3
<1>5. Records(cacheIP') = [j \in Hosts |-> Records(cacheIP')[j]]
  BY DEF Records
<1>6. Records(cacheIP') = [Promise!Forgotten(rec, F) EXCEPT ![h] = ip]
  <2>1. [Promise!Forgotten(rec, F) EXCEPT ![h] = ip] =
            [j \in Hosts |-> IF j = h THEN ip ELSE IF j \in F THEN -1 ELSE rec[j]]
    BY <1>1 DEF Promise!Forgotten
  <2> QED BY <1>4, <1>5, <2>1
<1>7. rec[h] = -1
  BY <1>1, RecordsFacts
<1>8. Promise!NobodyHas(rec, ip)
  <2> SUFFICES ASSUME NEW j \in Hosts PROVE rec[j] # ip
    BY DEF Promise!NobodyHas
  <2>1. CASE Lacks(cacheIP, j)
    <3>1. rec[j] = -1 /\ ip \in Nat
      BY <1>1, <2>1, RecordsFacts, AddrsNat
    <3> QED BY <3>1
  <2>2. CASE ~Lacks(cacheIP, j)
    <3>1. PICK u : Maps(cacheIP, j, u)
      BY <2>2 DEF Lacks
    <3>2. rec[j] = u /\ u # ip
      BY <1>1, <3>1, RecordsFacts DEF Free
    <3> QED BY <3>2
  <2> QED BY <2>1, <2>2
<1> HIDE DEF rec
<1>9. Promise!Assign(h, ip, F)
  BY <1>1, <1>6, <1>7, <1>8 DEF Promise!Assign, rec
<1> QED BY <1>1, <1>9 DEF PromiseStep, Promise!Next

LEMMA QuietPromise ==
    ASSUME QuietInv, [Next]_vars
    PROVE  PromiseStep
<1>1. ASSUME cacheIP' = cacheIP, nextIP' = nextIP PROVE PromiseStep
  BY <1>1, SamePromise
<1>2. ASSUME NEW h \in Hosts, Lookup(h) PROVE PromiseStep
  BY <1>2, TouchPromise DEF QuietInv, Lookup, next
<1>3. CASE GetByIP
  BY <1>3, TouchPromise DEF QuietInv, GetByIP, next
<1>4. CASE DelHost
  BY <1>4, DelHostPromise DEF QuietInv
<1>5. CASE PutByHost
  BY <1>5, PutByHostPromise DEF QuietInv
<1>6. CASE FlushIP
  <2>1. cacheIP' = <<>> /\ nextIP' = nextIP
    BY <1>6 DEF FlushIP, Clear, next
  <2>2. Records(cacheIP') = Promise!Forgotten(Records(cacheIP), Hosts)
    BY <2>1, EmptyRecords DEF Promise!Forgotten, Promise!Empty
  <2>3. Promise!Forget(Hosts)
    BY <2>1, <2>2 DEF Promise!Forget
  <2>4. Hosts \in SUBSET Hosts
    OBVIOUS
  <2> QED BY <2>3, <2>4 DEF PromiseStep, Promise!Next
<1>7. CASE CloneIP
  <2>1. cacheIP' = cacheIP /\ nextIP' = cacheIP
    BY <1>7 DEF CloneIP, CloneTo, caches
  <2>2. Promise!Clone
    BY <2>1 DEF Promise!Clone
  <2> QED BY <2>2 DEF PromiseStep, Promise!Next
<1>8. CASE Switch
  <2>1. cacheIP' = nextIP /\ nextIP' = <<>>
    BY <1>8 DEF Switch
  <2>2. Promise!Reload
    BY <2>1, EmptyRecords DEF Promise!Reload
  <2> QED BY <2>2 DEF PromiseStep, Promise!Next
<1>9. CASE \/ \E ip \in IPs : LookBack(ip)
           \/ GetByHost \/ Advance \/ Exist \/ DelGet \/ DelIP \/ PutByIP \/ Return
           \/ FlushHost \/ FlushReset \/ (\E r \in Ranges : New(r)) \/ CloneHost \/ UNCHANGED vars
  <2>1. cacheIP' = cacheIP /\ nextIP' = nextIP
    BY <1>9 DEF LookBack, GetByHost, Advance, Exist, DelGet, DelIP, PutByIP, Return,
                FlushHost, FlushReset, New, CloneHost, vars, caches, next
  <2> QED BY <1>1, <2>1
<1> QED BY <1>2, <1>3, <1>4, <1>5, <1>6, <1>7, <1>8, <1>9
        DEF Next, OpNext, FlushNext, ReloadNext

(* The memory store implements what every fake-IP pool promises: a host keeps its
   address while it is remembered and no two hosts share one (pool.go, memory.go). *)
THEOREM ImplementsPromise == Overlap = {} => (Spec => KeepsPromise)
<1> SUFFICES ASSUME Overlap = {} PROVE Spec => Promise!Spec
  BY DEF KeepsPromise
<1>1. Init => Promise!Init
  BY EmptyRecords DEF Init, Promise!Init
<1>2. QuietInv /\ [Next]_vars => [Promise!Next]_<<Records(cacheIP), Records(nextIP)>>
  BY QuietPromise DEF PromiseStep
<1>3. Spec => []QuietInv
  BY QuietAlways
<1> QED BY <1>1, <1>2, <1>3, PTL DEF Spec, Promise!Spec

(* A record that a step of Next adds, other than by the switch of a reload, has a
   usable address. *)
LEMMA UsableStep ==
    ASSUME TypeInv, UsableInv, [Next]_vars, ~Switch, NEW h \in Hosts
    PROVE  Records(cacheIP')[h] \in {-1, Records(cacheIP)[h]} \cup Usable(range)
<1>1. ASSUME NEW c \in IPCache, Keyed(c), \A k, v : Maps(c, k, v) => Maps(cacheIP, k, v)
      PROVE  Records(c)[h] \in {-1, Records(cacheIP)[h]}
  <2>1. CASE Lacks(c, h)
    BY <1>1, <2>1, RecordsFacts
  <2>2. CASE ~Lacks(c, h)
    <3>1. PICK v : Maps(c, h, v) /\ Maps(cacheIP, h, v)
      BY <1>1, <2>2 DEF Lacks
    <3> QED BY <1>1, <3>1, RecordsFacts DEF TypeInv, Fits
  <2> QED BY <2>1, <2>2
<1>2. cacheIP \in IPCache /\ Keyed(cacheIP)
  BY DEF TypeInv, Fits
<1>3. ASSUME NEW k, cacheIP' = Touch(cacheIP, k) \/ cacheIP' = Without(cacheIP, k)
      PROVE  Records(cacheIP')[h] \in {-1, Records(cacheIP)[h]}
  <2>1. /\ cacheIP' \in IPCache /\ Keyed(cacheIP')
        /\ \A j, v : Maps(cacheIP', j, v) => Maps(cacheIP, j, v)
    BY <1>2, <1>3, TouchFacts, WithoutFacts DEF IPCache
  <2> QED BY <1>1, <2>1
<1>4. ASSUME NEW k \in Hosts, Lookup(k) PROVE Records(cacheIP')[h] \in {-1, Records(cacheIP)[h]}
  BY <1>3, <1>4 DEF Lookup
<1>5. CASE GetByIP \/ DelHost
  BY <1>3, <1>5 DEF GetByIP, DelHost
<1>6. CASE PutByHost
  <2>1. /\ op.host \in Hosts /\ op.ip \in Addrs /\ Size \in Nat /\ op.ip \in Usable(range)
        /\ cacheIP' = Set(cacheIP, op.host, op.ip, Size)
    BY <1>6, PoolAssumption DEF TypeInv, Ops, PutByHost, UsableInv
  <2>2. cacheIP' \in IPCache /\ Keyed(cacheIP')
    BY <1>2, <2>1, SetFacts DEF IPCache
  <2>3. \A j, v : Maps(cacheIP', j, v) => Maps(cacheIP, j, v) \/ v = op.ip
    BY <1>2, <2>1, SetFacts DEF IPCache
  <2>4. CASE Lacks(cacheIP', h)
    BY <2>2, <2>4, RecordsFacts
  <2>5. CASE ~Lacks(cacheIP', h)
    <3>1. PICK v : Maps(cacheIP', h, v)
      BY <2>5 DEF Lacks
    <3>2. Records(cacheIP')[h] = v
      BY <2>2, <3>1, RecordsFacts
    <3>3. Maps(cacheIP, h, v) => Records(cacheIP)[h] = v
      BY <1>2, RecordsFacts
    <3> QED BY <2>1, <2>3, <3>1, <3>2, <3>3
  <2> QED BY <2>4, <2>5
<1>7. CASE FlushIP
  <2>1. Records(cacheIP')[h] = -1
    BY <1>7, EmptyRecords DEF FlushIP, Clear, Promise!Empty
  <2> QED BY <2>1
<1>8. CASE cacheIP' = cacheIP
  BY <1>8
<1>9. ASSUME NEW r \in Ranges, New(r) PROVE cacheIP' = cacheIP
  BY <1>9 DEF New, caches
<1>10. ASSUME NEW ip \in IPs, LookBack(ip) PROVE cacheIP' = cacheIP
  BY <1>10 DEF LookBack
<1>11. CASE \/ GetByHost \/ Advance \/ Exist \/ DelGet \/ DelIP \/ PutByIP \/ Return
            \/ FlushHost \/ FlushReset \/ CloneIP \/ CloneHost \/ UNCHANGED vars
  <2>1. cacheIP' = cacheIP
    BY <1>11 DEF GetByHost, Advance, Exist, DelGet, DelIP, PutByIP, Return, FlushHost,
                 FlushReset, CloneIP, CloneHost, vars, caches
  <2> QED BY <2>1
<1> QED BY <1>4, <1>5, <1>6, <1>7, <1>8, <1>9, <1>10, <1>11
        DEF Next, OpNext, FlushNext, ReloadNext

(* If no flush overlaps a Lookup, then whatever the ranges are and although a reload may
   overlap it, a host gets a new address only among the usable ones of the serving pool;
   one of another range comes only with CloneFrom (pool.go, New, get and CloneFrom). *)
THEOREM AssignsUsableAddresses == "flush" \notin Overlap => (Spec => AssignsUsable)
<1> SUFFICES ASSUME "flush" \notin Overlap PROVE Spec => AssignsUsable
  OBVIOUS
<1> DEFINE A == \/ reload = "switch" /\ reload' = "idle" /\ cacheIP' = nextIP
                \/ \A h \in Hosts : Records(cacheIP')[h] \in
                       {-1, Records(cacheIP)[h]} \cup Usable(range)
<1>1. TypeInv /\ UsableInv /\ [Next]_vars => A
  <2>1. Switch => A
    BY DEF Switch
  <2> QED BY <2>1, UsableStep
<1>2. TypeInv /\ UsableInv /\ [Next]_vars => [A]_vars
  BY <1>1
<1>3. Spec => [](TypeInv /\ UsableInv)
  BY UsableAlways
<1> QED BY <1>2, <1>3, PTL DEF Spec, AssignsUsable
=============================================================================
