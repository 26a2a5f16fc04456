------------------------- MODULE FileWriterInvProofs -------------------------
(***************************************************************************)
(* Proofs about FileWriter, for every value of its constants: the steps of *)
(* abortMatching, expireIdleFiles and retireTemporary, the starts of calls,*)
(* initFile, the environment and a restart preserve IInv.  So IInv is an   *)
(* invariant as long as clients do not reuse the id of a session the       *)
(* server has forgotten, and some properties follow, among them the limits *)
(* on temporary files and on their bytes.                                  *)
(***************************************************************************)
EXTENDS FileWriterWriteProofs, FiniteSetTheorems

\* A leaf is for Zenon, with a minute of time, unless it names SMT.
USE ZenonT(60)

----------------------------------------------------------------------------
(* Sums over finite sets of uploads, which initFile compares with its     *)
(* limits: the sizes m[u].size, added in the order that a CHOOSE takes.    *)

Bytes(m, S) ==
  MapThenFoldSet(+, 0, LAMBDA u : m[u].size, LAMBDA T : CHOOSE u \in T : TRUE, S)

\* A set of numbers has a least one.
LEMMA LeastNumber ==
  ASSUME NEW I \in SUBSET Nat, I # {}
  PROVE  \E x \in I : \A y \in I : x <= y
<1> DEFINE R == OpToRel(<, Nat)
<1>1. \E x \in I : \A y \in I : <<y, x>> \notin R
  <2> HIDE DEF R
  <2>1. IsWellFoundedOn(R, Nat) BY NatLessThanWellFounded DEF R
  <2> QED BY <2>1, WFMin
<1>2. PICK x \in I : \A y \in I : <<y, x>> \notin R
  BY <1>1
<1>3. ASSUME NEW y \in I PROVE ~(y < x)
  BY <1>2, <1>3 DEF OpToRel
<1>4. \A y \in I : x <= y BY SMTT(60), <1>3
<1> QED BY <1>4

\* Induction: what holds of 0 and goes on from each number to the next holds up to n.
LEMMA CountUp ==
  ASSUME NEW n \in Nat, NEW S, 0 \in S, \A i \in 0 .. n - 1 : i \in S => i + 1 \in S
  PROVE  \A i \in 0 .. n : i \in S
<1> SUFFICES ASSUME NEW j \in 0 .. n, j \notin S PROVE FALSE
  OBVIOUS
<1> DEFINE I == {i \in 0 .. n : i \notin S}
<1>1. I \in SUBSET Nat /\ I # {}
  BY SMTT(60)
<1>2. PICK x \in I : \A y \in I : x <= y
  <2> HIDE DEF I
  <2> QED BY <1>1, LeastNumber
<1>3. x # 0 /\ x - 1 \in 0 .. n - 1 /\ (x - 1) + 1 = x
  BY SMTT(60)
<1>4. x - 1 \in S
  BY SMTT(60), <1>2, <1>3
<1> QED BY <1>3, <1>4

\* Induction over a finite set: what holds of the empty set, and of a set that
\* keeps it whichever element is taken away, holds of every subset.
LEMMA GrowSet ==
  ASSUME NEW S, IsFiniteSet(S), NEW P, {} \in P,
         \A T \in SUBSET S : T # {} /\ (\A x \in T : T \ {x} \in P) => T \in P
  PROVE  \A T \in SUBSET S : T \in P
<1> DEFINE N == {i \in Nat : \A T \in SUBSET S : Cardinality(T) = i => T \in P}
<1>1. Cardinality(S) \in Nat
  BY FS_CardinalityType
<1>2. ASSUME NEW T \in SUBSET S
      PROVE  IsFiniteSet(T) /\ Cardinality(T) \in 0 .. Cardinality(S)
  <2>1. IsFiniteSet(T) /\ Cardinality(T) <= Cardinality(S)
    BY FS_Subset
  <2>2. Cardinality(T) \in Nat
    BY <2>1, FS_CardinalityType
  <2> QED BY SMTT(60), <1>1, <2>1, <2>2
<1>3. 0 \in N
  BY <1>2, FS_EmptySet
<1>4. ASSUME NEW i \in 0 .. Cardinality(S) - 1, i \in N PROVE i + 1 \in N
  <2>1. i \in Nat /\ i + 1 # 0 /\ i + 1 \in Nat /\ (i + 1) - 1 = i
    BY SMTT(60), <1>1
  <2>2. ASSUME NEW T \in SUBSET S, Cardinality(T) = i + 1 PROVE T \in P
    <3>1. T # {}
      BY <2>1, <2>2, FS_EmptySet
    <3>2. ASSUME NEW x \in T PROVE T \ {x} \in P
      <4>1. Cardinality(T \ {x}) = i
        BY <1>2, <2>1, <2>2, FS_RemoveElement
      <4> QED BY <1>4, <4>1
    <3> QED BY <3>1, <3>2
  <2> QED BY <2>1, <2>2
<1>5. \A i \in 0 .. Cardinality(S) : i \in N
  <2> HIDE DEF N
  <2> QED BY <1>1, <1>3, <1>4, CountUp
<1> QED BY <1>2, <1>5

\* f is the table of the sums over the subsets of S.
First(T) == CHOOSE x \in T : TRUE
Sums(m, S, f) ==
  /\ IsFiniteSet(S) /\ \A x \in S : m[x].size \in Nat
  /\ f \in [SUBSET S -> Nat]
  /\ f = [T \in SUBSET S |-> IF T = {} THEN 0 ELSE m[First(T)].size + f[T \ {First(T)}]]

\* There is such a table, so the recursive definition of a sum defines one.
LEMMA SumsExist ==
  ASSUME NEW S, IsFiniteSet(S), NEW m, \A x \in S : m[x].size \in Nat
  PROVE  \E f : Sums(m, S, f)
<1> DEFINE B(i) == {T \in SUBSET S : Cardinality(T) <= i}
           E(f, T) == IF T = {} THEN 0 ELSE m[First(T)].size + f[T \ {First(T)}]
           N == {i \in Nat : \E f \in [B(i) -> Nat] : \A T \in B(i) : f[T] = E(f, T)}
<1>1. Cardinality(S) \in Nat
  BY FS_CardinalityType
<1>2. ASSUME NEW T \in SUBSET S
      PROVE  IsFiniteSet(T) /\ Cardinality(T) \in Nat /\ Cardinality(T) <= Cardinality(S)
  BY FS_Subset, FS_CardinalityType
<1>3. 0 \in N
  <2>1. \A T \in B(0) : T = {}
    <3> SUFFICES ASSUME NEW T \in SUBSET S, Cardinality(T) <= 0 PROVE T = {}
      OBVIOUS
    <3>1. Cardinality(T) = 0
      BY SMTT(60), <1>2
    <3> QED BY <1>2, <3>1, FS_EmptySet
  <2>2. [T \in B(0) |-> 0] \in [B(0) -> Nat]
    BY 0 \in Nat
  <2>3. \A T \in B(0) : [U \in B(0) |-> 0][T] = E([U \in B(0) |-> 0], T)
    BY <2>1
  <2> QED BY <2>2, <2>3, 0 \in Nat
<1>4. ASSUME NEW i \in 0 .. Cardinality(S) - 1, i \in N PROVE i + 1 \in N
  <2>1. i \in Nat /\ i + 1 \in Nat
    BY SMTT(60), <1>1
  <2>2. PICK f \in [B(i) -> Nat] : \A T \in B(i) : f[T] = E(f, T)
    BY <1>4
  <2>3. ASSUME NEW T \in B(i + 1), T # {}
        PROVE  T \ {First(T)} \in B(i) /\ m[First(T)].size \in Nat
    <3>1. First(T) \in T
      BY <2>3 DEF First
    <3>2. Cardinality(T \ {First(T)}) = Cardinality(T) - 1
      BY <1>2, <3>1, FS_RemoveElement
    <3>3. Cardinality(T) - 1 <= i
      BY SMTT(60), <1>2, <2>1
    <3> QED BY <3>1, <3>2, <3>3
  <2> DEFINE g == [T \in B(i + 1) |-> E(f, T)]
  <2>4. g \in [B(i + 1) -> Nat]
    <3>1. ASSUME NEW T \in B(i + 1) PROVE E(f, T) \in Nat
      <4>1. CASE T = {}
        BY <4>1
      <4>2. CASE T # {}
        BY SMTT(60), <2>2, <2>3, <4>2
      <4> QED BY <4>1, <4>2
    <3> HIDE DEF B, E
    <3> QED BY <3>1
  <2>5. ASSUME NEW T \in B(i) PROVE g[T] = f[T]
    <3>1. T \in B(i + 1)
      BY SMTT(60), <1>2, <2>1
    <3> HIDE DEF B
    <3> QED BY <2>2, <3>1
  <2>6. ASSUME NEW T \in B(i + 1) PROVE g[T] = E(g, T)
    <3>1. g[T] = E(f, T)
      <4> HIDE DEF B, E
      <4> QED OBVIOUS
    <3>2. CASE T = {}
      BY <3>1, <3>2
    <3>3. CASE T # {}
      <4>1. g[T \ {First(T)}] = f[T \ {First(T)}]
        <5> HIDE DEF g, B
        <5> QED BY <2>3, <2>5, <3>3
      <4> HIDE DEF g, B
      <4> QED BY <3>1, <3>3, <4>1
    <3> QED BY <3>2, <3>3
  <2> HIDE DEF g, B, E
  <2> QED BY <2>1, <2>4, <2>6
<1>5. Cardinality(S) \in N
  <2>1. \A i \in 0 .. Cardinality(S) : i \in N
    <3> HIDE DEF N
    <3> QED BY <1>1, <1>3, <1>4, CountUp
  <2> HIDE DEF N
  <2> QED BY SMTT(60), <1>1, <2>1
<1>6. B(Cardinality(S)) = SUBSET S
  BY <1>2
<1>7. PICK f \in [SUBSET S -> Nat] : \A T \in SUBSET S : f[T] = E(f, T)
  <2> HIDE DEF B, E
  <2> QED BY <1>5, <1>6
<1>8. f = [T \in SUBSET S |-> E(f, T)]
  <2> HIDE DEF E
  <2> QED BY <1>7
<1> QED BY <1>8 DEF Sums

\* The sum over S is read in a table.
LEMMA BytesFromTable ==
  ASSUME NEW S, IsFiniteSet(S), NEW m, \A x \in S : m[x].size \in Nat
  PROVE  \E f : Sums(m, S, f) /\ Bytes(m, S) = f[S]
<1> DEFINE Rule(f) == [T \in SUBSET S |-> IF T = {} THEN 0 ELSE m[First(T)].size + f[T \ {First(T)}]]
           h == CHOOSE f : f = Rule(f)
<1>1. Bytes(m, S) = h[S]
  BY DEF Bytes, MapThenFoldSet, First
<1>2. h = Rule(h)
  <2>1. \E f : f = Rule(f)
    <3>1. PICK f : Sums(m, S, f)
      BY SumsExist
    <3> QED BY <3>1 DEF Sums
  <2> HIDE DEF Rule
  <2> QED BY <2>1
<1>3. h \in [SUBSET S -> Nat]
  <2> HIDE DEF h
  <2> DEFINE P == {T \in SUBSET S : h[T] \in Nat}
  <2>1. {} \in P
    BY <1>2, 0 \in Nat
  <2>2. ASSUME NEW T \in SUBSET S, T # {}, \A x \in T : T \ {x} \in P PROVE T \in P
    <3>1. First(T) \in T
      BY <2>2 DEF First
    <3>2. h[T] = m[First(T)].size + h[T \ {First(T)}]
      BY <1>2, <2>2
    <3>3. m[First(T)].size \in Nat /\ h[T \ {First(T)}] \in Nat
      BY <2>2, <3>1
    <3>4. h[T] \in Nat
      BY SMTT(60), <3>2, <3>3
    <3> QED BY <3>4
  <2>3. \A T \in SUBSET S : T \in P
    <3> HIDE DEF P
    <3> QED BY <2>1, <2>2, GrowSet
  <2> QED BY <1>2, <2>3
<1> HIDE DEF h
<1> QED BY <1>1, <1>2, <1>3 DEF Sums

\* n gives the sizes that m gives on R, a part of S.
Within(m, S, n, R) == R \subseteq S /\ \A x \in R : n[x].size = m[x].size

\* Tables agree where they sum the same sizes.
LEMMA SumsAgree ==
  ASSUME NEW S, NEW R, NEW m, NEW n, NEW f, NEW g, Sums(m, S, f), Sums(n, R, g),
         Within(m, S, n, R)
  PROVE  g[R] = f[R]
<1> DEFINE P == {T \in SUBSET R : f[T] = g[T]}
<1>1. IsFiniteSet(R)
  BY DEF Sums
<1>2. {} \in P
  BY DEF Sums, Within
<1>3. ASSUME NEW T \in SUBSET R, T # {}, \A x \in T : T \ {x} \in P PROVE T \in P
  <2>1. First(T) \in T
    BY <1>3 DEF First
  <2>2. f[T] = m[First(T)].size + f[T \ {First(T)}]
    BY <1>3 DEF Sums, Within
  <2>3. g[T] = n[First(T)].size + g[T \ {First(T)}]
    BY <1>3 DEF Sums, Within
  <2>4. m[First(T)].size = n[First(T)].size /\ f[T \ {First(T)}] = g[T \ {First(T)}]
    BY <1>3, <2>1 DEF Within
  <2> QED BY <2>2, <2>3, <2>4
<1>4. \A T \in SUBSET R : T \in P
  <2> HIDE DEF P
  <2> QED BY <1>1, <1>2, <1>3, GrowSet
<1>5. R \in SUBSET R
  OBVIOUS
<1> QED BY <1>4, <1>5

Additive(m, S, f) == \A V \in SUBSET S : \A y \in S \ V : f[V \cup {y}] = f[V] + m[y].size

\* One element more adds its size, in whatever order the table sums.
LEMMA SumsAdd ==
  ASSUME NEW S, NEW m, NEW f, Sums(m, S, f)
  PROVE  Additive(m, S, f)
<1> DEFINE P == {T \in SUBSET S : \A x \in S \ T : f[T \cup {x}] = f[T] + m[x].size}
<1>1. ASSUME NEW T \in SUBSET S, T # {}
      PROVE  /\ First(T) \in T /\ f[T] = m[First(T)].size + f[T \ {First(T)}]
  BY <1>1 DEF Sums, First
<1>2. \A T \in SUBSET S : f[T] \in Nat
  BY DEF Sums
<1>3. {} \in P
  <2>1. f[{}] = 0
    BY DEF Sums
  <2>2. ASSUME NEW x \in S PROVE f[{} \cup {x}] = f[{}] + m[x].size
    <3>1. {x} \in SUBSET S /\ {x} # {} /\ {} \cup {x} = {x} /\ {x} \ {x} = {}
      OBVIOUS
    <3>2. First({x}) = x
      BY <1>1, <3>1
    <3>3. f[{x}] = m[x].size + f[{}]
      BY <1>1, <3>1, <3>2
    <3>4. m[x].size \in Nat
      BY DEF Sums
    <3> QED BY SMTT(60), <2>1, <3>1, <3>3, <3>4
  <2> QED BY <2>2
<1>4. ASSUME NEW T \in SUBSET S, T # {}, \A x \in T : T \ {x} \in P PROVE T \in P
  <2> SUFFICES ASSUME NEW x \in S \ T PROVE f[T \cup {x}] = f[T] + m[x].size
    OBVIOUS
  <2> DEFINE U == T \cup {x}
             z == First(U)
  <2>1. U \in SUBSET S /\ U # {}
    OBVIOUS
  <2>2. z \in U /\ f[U] = m[z].size + f[U \ {z}]
    <3> HIDE DEF U
    <3> QED BY <1>1, <2>1
  <2>3. CASE z = x
    <3>1. U \ {z} = T
      BY <2>3
    <3>2. f[U] = f[T] + m[x].size
      <4>1. f[T] \in Nat /\ m[x].size \in Nat
        BY <1>2 DEF Sums
      <4>2. f[U] = m[x].size + f[T]
        BY <2>2, <2>3, <3>1
      <4> HIDE DEF U
      <4> QED BY SMTT(60), <4>1, <4>2
    <3> QED BY <3>2
  <2>4. CASE z # x
    <3> HIDE DEF z
    <3>1. z \in T
      BY <2>2, <2>4
    <3>2. T \ {z} \in SUBSET S /\ z \in S \ (T \ {z}) /\ x \in S \ (T \ {z})
      BY <3>1
    <3>3. (T \ {z}) \cup {z} = T /\ (T \ {z}) \cup {x} = U \ {z}
      BY <2>4, <3>1
    <3>4. T \ {z} \in P
      BY <1>4, <3>1
    <3>5. f[T] = f[T \ {z}] + m[z].size /\ f[U \ {z}] = f[T \ {z}] + m[x].size
      BY <3>2, <3>3, <3>4
    <3>6. f[T \ {z}] \in Nat /\ m[z].size \in Nat /\ m[x].size \in Nat
      BY <1>2, <3>1, <3>2 DEF Sums
    <3>7. f[U] = f[T] + m[x].size
      <4> HIDE DEF U
      <4> QED BY SMTT(60), <2>2, <3>5, <3>6
    <3> QED BY <3>7
  <2> QED BY <2>3, <2>4
<1>5. \A V \in SUBSET S : V \in P
  <2>1. IsFiniteSet(S)
    BY DEF Sums
  <2> HIDE DEF P
  <2> QED BY <1>3, <1>4, <2>1, GrowSet
<1> QED BY <1>5 DEF Additive

\* A sum over more elements is no smaller.
LEMMA SumsGrow ==
  ASSUME NEW S, NEW m, NEW f, Sums(m, S, f),
         NEW V \in SUBSET S
  PROVE  f[V] <= f[S]
<1>0. Additive(m, S, f)
  BY SumsAdd
<1> DEFINE P == {T \in SUBSET S : f[V] <= f[V \cup T]}
<1>1. \A T \in SUBSET S : f[T] \in Nat
  BY DEF Sums
<1>2. {} \in P
  <2>1. V \cup {} = V /\ {} \in SUBSET S
    OBVIOUS
  <2>2. f[V] <= f[V]
    BY SMTT(60), <1>1
  <2> QED BY <2>1, <2>2
<1>3. ASSUME NEW T \in SUBSET S, T # {}, \A x \in T : T \ {x} \in P PROVE T \in P
  <2>1. PICK x \in T : TRUE
    BY <1>3
  <2> DEFINE R == V \cup (T \ {x})
  <2>2. f[V] <= f[R] /\ R \in SUBSET S /\ V \cup T \in SUBSET S /\ x \in S
    BY <1>3
  <2>3. CASE x \in R
    <3>1. V \cup T = R
      BY <2>3
    <3> QED BY <2>2, <3>1
  <2>4. CASE x \notin R
    <3>1. V \cup T = R \cup {x}
      OBVIOUS
    <3>2. f[R \cup {x}] = f[R] + m[x].size
      <4> HIDE DEF R
      <4> QED BY <1>0, <2>2, <2>4 DEF Additive
    <3>3. f[V] \in Nat /\ f[R] \in Nat /\ m[x].size \in Nat
      <4> HIDE DEF R
      <4> QED BY <1>1, <2>2 DEF Sums
    <3>4. f[V] <= f[R \cup {x}]
      <4> HIDE DEF R
      <4> QED BY SMTT(60), <2>2, <3>2, <3>3
    <3> QED BY <2>2, <3>1, <3>4
  <2> QED BY <2>3, <2>4
<1>4. S \in P
  <2>1. IsFiniteSet(S)
    BY DEF Sums
  <2> HIDE DEF P
  <2> QED BY <1>2, <1>3, <2>1, GrowSet
<1>5. V \cup S = S
  OBVIOUS
<1> QED BY <1>4, <1>5

\* The sum of the same sizes over fewer elements is no larger.
LEMMA BytesOfFewer ==
  ASSUME NEW S, IsFiniteSet(S), NEW m, \A x \in S : m[x].size \in Nat,
         NEW T \in SUBSET S, NEW n, \A x \in T : n[x].size = m[x].size
  PROVE  /\ Bytes(m, S) \in Nat /\ Bytes(n, T) \in Nat
         /\ Bytes(n, T) <= Bytes(m, S)
<1>1. PICK f : Sums(m, S, f) /\ Bytes(m, S) = f[S]
  BY BytesFromTable
<1>2. IsFiniteSet(T) /\ \A x \in T : n[x].size \in Nat
  BY FS_Subset
<1>3. PICK g : Sums(n, T, g) /\ Bytes(n, T) = g[T]
  BY <1>2, BytesFromTable
<1>4. g[T] = f[T]
  <2>1. Within(m, S, n, T)
    BY DEF Within
  <2> QED BY SMTT(60), <1>1, <1>3, <2>1, SumsAgree
<1>5. f[T] <= f[S]
  BY <1>1, SumsGrow
<1>6. f[T] \in Nat /\ f[S] \in Nat
  <2>1. S \in SUBSET S
    OBVIOUS
  <2> QED BY <1>1, <2>1 DEF Sums
<1> QED BY <1>1, <1>3, <1>4, <1>5, <1>6

\* One element more adds at most its size.
LEMMA BytesOfOneMore ==
  ASSUME NEW S, IsFiniteSet(S), NEW m, \A x \in S : m[x].size \in Nat,
         NEW y, NEW T \in SUBSET (S \cup {y}), NEW n, n[y].size \in Nat,
         \A x \in S \ {y} : n[x].size = m[x].size
  PROVE  /\ Bytes(m, S) \in Nat /\ Bytes(n, T) \in Nat
         /\ Bytes(n, T) <= Bytes(m, S) + n[y].size
<1> DEFINE R == T \ {y}
<1>1. R \in SUBSET S /\ R \in SUBSET T /\ \A x \in R : n[x].size = m[x].size
  OBVIOUS
<1>2. /\ Bytes(m, S) \in Nat /\ Bytes(n, R) \in Nat
      /\ Bytes(n, R) <= Bytes(m, S)
  <2> HIDE DEF R
  <2> QED BY <1>1, BytesOfFewer
<1>3. CASE y \notin T
  <2>1. R = T
    BY <1>3
  <2>2. Bytes(n, R) <= Bytes(m, S) + n[y].size
    <3> HIDE DEF R
    <3> QED BY SMTT(60), <1>2
  <2> QED BY <1>2, <2>1, <2>2
<1>4. CASE y \in T
  <2>1. IsFiniteSet(T)
    <3>1. IsFiniteSet(S \cup {y})
      BY FS_AddElement
    <3> QED BY <3>1, FS_Subset
  <2>2. \A x \in T : n[x].size \in Nat
    <3> SUFFICES ASSUME NEW x \in T PROVE n[x].size \in Nat
      OBVIOUS
    <3>1. CASE x = y
      BY <3>1
    <3>2. CASE x # y
      BY <3>2
    <3> QED BY <3>1, <3>2
  <2>3. PICK f : Sums(n, T, f) /\ Bytes(n, T) = f[T]
    BY <2>1, <2>2, BytesFromTable
  <2>4. Additive(n, T, f)
    BY <2>3, SumsAdd
  <2>5. y \notin R /\ R \cup {y} = T
    BY <1>4
  <2>6. f[T] = f[R] + n[y].size
    <3>1. f[R \cup {y}] = f[R] + n[y].size
      <4> HIDE DEF R
      <4> QED BY <1>1, <1>4, <2>4, <2>5 DEF Additive
    <3> QED BY <2>5, <3>1
  <2>7. IsFiniteSet(R) /\ \A x \in R : n[x].size \in Nat
    <3>1. IsFiniteSet(R)
      <4> HIDE DEF R
      <4> QED BY <1>1, <2>1, FS_Subset
    <3> QED BY <2>2, <3>1
  <2>8. PICK g : Sums(n, R, g) /\ Bytes(n, R) = g[R]
    <3> HIDE DEF R
    <3> QED BY <2>7, BytesFromTable
  <2>9. f[R] = g[R]
    <3> HIDE DEF R
    <3>1. Within(n, T, n, R)
      BY <1>1 DEF Within
    <3> QED BY SMTT(60), <2>3, <2>8, <3>1, SumsAgree
  <2> HIDE DEF R
  <2> QED BY SMTT(60), <1>2, <2>3, <2>6, <2>8, <2>9
<1> QED BY <1>3, <1>4

----------------------------------------------------------------------------
(* What initFile charges to its limits *)

\* Only ids that were in the queue, or the one just added, are in it afterwards,
\* and only the session of such an id can be evicted.
LEMMA QueueEffect ==
  ASSUME NEW s, NEW id \in FileIds, order \in Seq(FileIds), RememberCompletedSession(s, id)
  PROVE  /\ order' \in Seq(FileIds)
         /\ \A k \in 1 .. Len(order') :
              order'[k] = id \/ \E j \in 1 .. Len(order) : order'[k] = order[j]
         /\ \/ sessions' = s
            \/ \E h \in FileIds :
                 /\ h = id \/ \E j \in 1 .. Len(order) : h = order[j]
                 /\ handles[h] = Nil
                 /\ sessions' = [s EXCEPT ![h] = Nil]
<1> DEFINE q == Append(order, id)
<1>1. /\ q \in Seq(FileIds) /\ Len(q) = Len(order) + 1 /\ Len(q) \in Nat /\ Len(order) \in Nat
      /\ \A k \in 1 .. Len(q) : q[k] = id \/ \E j \in 1 .. Len(order) : q[k] = order[j]
  BY SMTT(60)
<1>2. /\ Tail(q) \in Seq(FileIds) /\ Len(Tail(q)) = Len(order)
      /\ \A k \in 1 .. Len(order) : Tail(q)[k] = q[k + 1]
      /\ Head(q) = q[1] /\ Head(q) \in FileIds
  <2> HIDE DEF q
  <2>1. q # <<>>
    BY SMTT(60), <1>1
  <2> QED BY SMTT(60), <1>1, <2>1
<1>3. \A k \in 1 .. Len(order) :
        Tail(q)[k] = id \/ \E j \in 1 .. Len(order) : Tail(q)[k] = order[j]
  <2> HIDE DEF q
  <2> SUFFICES ASSUME NEW k \in 1 .. Len(order)
               PROVE  Tail(q)[k] = id \/ \E j \in 1 .. Len(order) : Tail(q)[k] = order[j]
    OBVIOUS
  <2>1. k + 1 \in 1 .. Len(q)
    BY SMTT(60), <1>1
  <2> QED BY <1>1, <1>2, <2>1
<1>4. Head(q) = id \/ \E j \in 1 .. Len(order) : Head(q) = order[j]
  <2> HIDE DEF q
  <2>1. 1 \in 1 .. Len(q)
    BY SMTT(60), <1>1
  <2> QED BY <1>1, <1>2, <2>1
<1>5. \/ /\ order' = Tail(q)
         /\ \/ handles[Head(q)] = Nil /\ sessions' = [s EXCEPT ![Head(q)] = Nil]
            \/ sessions' = s
      \/ order' = q /\ sessions' = s
  BY DEF RememberCompletedSession
<1> HIDE DEF q
<1>6. order' \in Seq(FileIds)
  BY <1>1, <1>2, <1>5
<1>7. \A k \in 1 .. Len(order') :
        order'[k] = id \/ \E j \in 1 .. Len(order) : order'[k] = order[j]
  <2>1. CASE order' = Tail(q)
    BY <1>2, <1>3, <2>1
  <2>2. CASE order' = q
    BY <1>1, <2>2
  <2> QED BY <1>5, <2>1, <2>2
<1> QED BY <1>2, <1>4, <1>5, <1>6, <1>7

\* What initFile checks and reserves: the sessions it charges are within limits.
ChargesBounded ==
  /\ Cardinality(Charged) <= MaxActiveFiles
  /\ \A o : Cardinality(ChargedTo(o)) <= MaxOwnerFiles
BytesBounded ==
  /\ BytesOf(Charged) <= MaxReservedBytes
  /\ \A o : BytesOf(ChargedTo(o)) <= MaxOwnerBytes

\* The charged sessions are uploads, so there are finitely many.
LEMMA ChargedIsFinite ==
  ASSUME ConstantsAssumption, TypeOK
  PROVE  /\ IsFiniteSet(Charged) /\ Cardinality(Charged) \in Nat
         /\ \A o : IsFiniteSet(ChargedTo(o)) /\ Cardinality(ChargedTo(o)) \in Nat
<1>1. IsFiniteSet(Uploads) /\ Charged \subseteq Uploads
  BY DEF ConstantsAssumption, TypeOK, UploadTypes, Charged
<1>2. \A o : ChargedTo(o) \subseteq Uploads
  BY <1>1 DEF ChargedTo
<1> QED BY <1>1, <1>2, FS_Subset, FS_CardinalityType

\* What is charged has a size.
LEMMA ChargedHasSize ==
  ASSUME ConstantsAssumption, IInv
  PROVE  \A u \in Charged : metaOf[u] \in Metas /\ metaOf[u].size \in Nat
<1> SUFFICES ASSUME NEW u \in Charged PROVE metaOf[u] \in Metas /\ metaOf[u].size \in Nat
  OBVIOUS
<1>1. u \in reserved /\ reserved \subseteq Uploads
  BY DEF Charged, IInv, TypeOK, UploadTypes
<1>2. u \notin Fresh
  BY <1>1 DEF IInv, UploadsGood, FreshIsClean
<1>3. metaOf[u] \in Maybe(Metas) /\ metaOf[u] # Nil
  BY <1>1, <1>2 DEF IInv, TypeOK, UploadTypes, Fresh
<1>4. metaOf[u] \in Metas
  BY <1>3 DEF Maybe
<1> QED BY <1>4 DEF ConstantsAssumption

\* Nothing but initFile adds to what is charged.
LEMMA ChargesShrink ==
  ASSUME ConstantsAssumption, IInv, UNCHANGED idOf, reserved' \subseteq reserved,
         \A i \in FileIds : sessions'[i] \in {sessions[i], Nil}
  PROVE  Charged' \subseteq Charged /\ \A o : ChargedTo(o)' \subseteq ChargedTo(o)
<1>1. Nil \notin reserved
  BY DEF IInv, TypeOK, UploadTypes, ConstantsAssumption
<1>2. Charged' \subseteq Charged
  BY <1>1 DEF Charged
<1> QED BY <1>2 DEF ChargedTo

\* No step other than initFile charges a session.
LEMMA StepsThatShrink ==
  ASSUME ConstantsAssumption, IInv, [Next]_vars,
         ~\E id \in FileIds, m \in Metas : InitFile(id, m)
  PROVE  /\ Charged' \subseteq Charged /\ \A o : ChargedTo(o)' \subseteq ChargedTo(o)
         /\ UNCHANGED metaOf
<1> DEFINE Q == /\ UNCHANGED <<idOf, metaOf>> /\ reserved' \subseteq reserved
                /\ \A i \in FileIds : sessions'[i] \in {sessions[i], Nil}
<1>1. ASSUME UNCHANGED vars PROVE Q
  BY <1>1 DEF vars, maps, uploadVars, fixed, flags
<1>2. ASSUME NEW t, NEW M, NEW j, AbortMatching(t, M, j) PROVE Q
  BY <1>2 DEF AbortMatching, Matched, fixed
<1>3. ASSUME NEW t, NEW c, NEW label, Lookup(t, c, label) PROVE Q
  BY <1>3 DEF Lookup, maps, uploadVars, fixed, flags
<1>4. ASSUME Environment PROVE Q
  <2>1. ASSUME NEW u, TimePasses(u) PROVE Q
    BY <2>1 DEF TimePasses, maps, fixed
  <2>2. ASSUME NEW f, IndexFile(f) PROVE Q
    BY <2>2 DEF IndexFile, maps, uploadVars, fixed, flags
  <2>3. ASSUME NEW f, NEW c, ExternalChange(f, c) PROVE Q
    BY <2>3 DEF ExternalChange, maps, uploadVars, fixed, flags
  <2>4. ASSUME Restart PROVE Q
    BY <2>4 DEF Restart, fixed, flags
  <2> QED BY <1>4, <2>1, <2>2, <2>3, <2>4 DEF Environment
<1>5. ASSUME NEW t \in Threads, ThreadStep(t) PROVE Q
  <2>1. CASE WriteLocked(t) \/ WriteMappedRange(t) \/ CommitChunk(t) \/ AwaitReturn(t)
    BY <2>1 DEF WriteLocked, WriteMappedRange, CommitChunk, AwaitReturn, maps, fixed, flags
  <2>2. CASE FinalizeLocked(t) \/ Seal(t) \/ Complete(t) \/ FailFinalization(t)
    BY <2>2 DEF FinalizeLocked, Seal, Complete, FailFinalization, maps, fixed, flags
  <2>3. CASE Decide(t) \/ Publish(t)
    BY <2>3 DEF Decide, Publish, maps, uploadVars, fixed, flags
  <2>4. CASE AbortFile(t)
    BY <1>2, <2>4 DEF AbortFile
  <2>5. CASE NextInLoop(t) \/ CloseAborted(t) \/ RetireTemporary(t)
    BY <2>5 DEF NextInLoop, CloseAborted, RetireTemporary, maps, fixed, flags
  <2>6. CASE RememberCompleted(t)
    <3>1. call[t].id \in FileIds /\ order \in Seq(FileIds)
          /\ sessions \in [FileIds -> Maybe(Uploads)]
      BY <2>6, SecondLook DEF RememberCompleted, IInv, TypeOK, MapTypes
    <3>2. sessions' = sessions \/ \E h \in FileIds : sessions' = [sessions EXCEPT ![h] = Nil]
      BY <2>6, <3>1, QueueEffect DEF RememberCompleted
    <3> QED BY <2>6, <3>1, <3>2 DEF RememberCompleted, fixed, flags
  <2> QED BY <1>5, <2>1, <2>2, <2>3, <2>4, <2>5, <2>6 DEF ThreadStep
<1>6. Q
  <2> HIDE DEF Q
  <2>1. ASSUME NEW t \in Workers, Request(t) PROVE Q
    BY <1>2, <1>3, <2>1
       DEF Request, WriteChunk, FinalizeFile, RequestAbort, AbortFilesWithPrefix
  <2>2. ASSUME ExpireIdleFiles PROVE Q
    BY <1>2, <2>2 DEF ExpireIdleFiles
  <2> QED BY <1>1, <1>4, <1>5, <2>1, <2>2 DEF Next
<1> QED BY <1>6, ChargesShrink

\* A temporary file belongs to a session that is charged.
LEMMA TemporariesAreCharged ==
  ASSUME IInv
  PROVE  Temporaries \subseteq Charged
<1> SUFFICES ASSUME NEW u \in Live, tmp[u] # NoFile PROVE u \in Charged
  BY DEF Temporaries
<1>1. u \in Uploads /\ idOf[u] # Nil /\ idOf[u] \in Maybe(FileIds)
  BY DEF Live, IInv, TypeOK, UploadTypes
<1>2. u \in reserved /\ sessions[idOf[u]] = u
  BY DEF IInv, UploadsGood, ReservationsKept
<1> QED BY <1>1, <1>2 DEF Charged, Maybe

\* u is the upload that initFile charges, if any, to the owner of the id.
OneCharged(u, id, m) ==
  /\ u \in Uploads /\ u \notin Charged
  /\ Charged' \subseteq Charged \cup {u}
  /\ \A o : ChargedTo(o)' \subseteq ChargedTo(o) \cup {u}
  /\ \A o : o # Owner[id] => ChargedTo(o)' \subseteq ChargedTo(o)
  /\ metaOf' = [metaOf EXCEPT ![u] = m]

\* initFile charges at most the upload it creates.
LEMMA AdmissionChargesOne ==
  ASSUME ConstantsAssumption, IInv, NEW id \in FileIds, NEW m \in Metas,
         InitFile(id, m), TypeOK'
  PROVE  \E u : OneCharged(u, id, m)
<1>1. PICK u \in Fresh :
        /\ idOf' = [idOf EXCEPT ![u] = id] /\ metaOf' = [metaOf EXCEPT ![u] = m]
        /\ reserved' \subseteq reserved \cup {u}
        /\ \A i \in FileIds : sessions'[i] \in {sessions[i], u, Nil}
  <2>1. sessions \in [FileIds -> Maybe(Uploads)] /\ order \in Seq(FileIds)
    BY DEF IInv, TypeOK, MapTypes
  <2>2. ASSUME NEW u, NEW s, s = [sessions EXCEPT ![id] = u], RememberCompletedSession(s, id)
        PROVE  \A i \in FileIds : sessions'[i] \in {sessions[i], u, Nil}
    <3>1. sessions' = s \/ \E h \in FileIds : sessions' = [s EXCEPT ![h] = Nil]
      BY <2>1, <2>2, QueueEffect
    <3> QED BY <2>1, <2>2, <3>1
  <2> QED BY <2>1, <2>2 DEF InitFile
<1>2. /\ u \in Uploads /\ u \notin Charged /\ idOf'[u] = id
      /\ \A v \in Uploads \ {u} : idOf'[v] = idOf[v]
  BY SMTT(60), <1>1 DEF Fresh, Charged, IInv, UploadsGood, FreshIsClean, TypeOK, UploadTypes
<1>3. Nil \notin reserved' /\ reserved' \subseteq Uploads
  BY DEF TypeOK, UploadTypes, ConstantsAssumption
<1>4. Charged' \subseteq Charged \cup {u}
  BY <1>1, <1>3 DEF Charged
<1>5. \A o : ChargedTo(o)' \subseteq ChargedTo(o) \cup {u}
  BY <1>2, <1>3, <1>4 DEF ChargedTo, Charged
<1>6. \A o : o # Owner[id] => ChargedTo(o)' \subseteq ChargedTo(o)
  BY <1>2, <1>5 DEF ChargedTo
<1> QED BY <1>1, <1>2, <1>4, <1>5, <1>6 DEF OneCharged

\* initFile admits an upload only below the limits on files.
LEMMA AdmissionKeepsLimits ==
  ASSUME ConstantsAssumption, IInv, ChargesBounded, NEW id \in FileIds, NEW m \in Metas,
         InitFile(id, m), TypeOK'
  PROVE  ChargesBounded'
<1>1. PICK u : OneCharged(u, id, m)
  BY AdmissionChargesOne
<1>2. Charged' \subseteq Charged \cup {u}
  BY <1>1 DEF OneCharged
<1>3. \A o : ChargedTo(o)' \subseteq ChargedTo(o) \cup {u}
  BY <1>1 DEF OneCharged
<1>4. \A o : o # Owner[id] => ChargedTo(o)' \subseteq ChargedTo(o)
  BY <1>1 DEF OneCharged
<1>5. /\ Cardinality(Charged) < MaxActiveFiles /\ MaxActiveFiles \in Nat
      /\ Cardinality(ChargedTo(Owner[id])) < MaxOwnerFiles /\ MaxOwnerFiles \in Nat
  BY DEF InitFile, WithinAdmissionLimits, ConstantsAssumption
<1>6. /\ IsFiniteSet(Charged) /\ Cardinality(Charged) \in Nat
      /\ \A o : IsFiniteSet(ChargedTo(o)) /\ Cardinality(ChargedTo(o)) \in Nat
  BY ChargedIsFinite DEF IInv
<1>7. ASSUME NEW S, NEW T, NEW n \in Nat, IsFiniteSet(S), Cardinality(S) \in Nat,
             Cardinality(S) < n, T \subseteq S \cup {u}
      PROVE  Cardinality(T) <= n
  <2>1. /\ IsFiniteSet(S \cup {u})
        /\ Cardinality(S \cup {u}) \in {Cardinality(S), Cardinality(S) + 1}
    BY <1>7, FS_AddElement
  <2>2. IsFiniteSet(T) /\ Cardinality(T) <= Cardinality(S \cup {u})
    BY <1>7, <2>1, FS_Subset
  <2>3. Cardinality(T) \in Nat
    BY <2>2, FS_CardinalityType
  <2> QED BY SMTT(60), <1>7, <2>1, <2>2, <2>3
<1>8. Cardinality(Charged') <= MaxActiveFiles
  BY <1>2, <1>5, <1>6, <1>7
<1>9. ASSUME NEW o PROVE Cardinality(ChargedTo(o)') <= MaxOwnerFiles
  <2>1. CASE o = Owner[id]
    BY <1>3, <1>5, <1>6, <1>7, <2>1
  <2>2. CASE o # Owner[id]
    <3>1. Cardinality(ChargedTo(o)') <= Cardinality(ChargedTo(o)) /\ IsFiniteSet(ChargedTo(o)')
      BY <1>4, <1>6, <2>2, FS_Subset
    <3>2. Cardinality(ChargedTo(o)') \in Nat
      BY <3>1, FS_CardinalityType
    <3> QED BY SMTT(60), <1>5, <1>6, <3>1, <3>2 DEF ChargesBounded
  <2> QED BY <2>1, <2>2
<1> QED BY <1>8, <1>9 DEF ChargesBounded

\* The sums after a step are over the sizes and the charges after it.
LEMMA BytesAfterStep ==
  /\ BytesOf(Charged)' = Bytes(metaOf', Charged')
  /\ \A o : BytesOf(ChargedTo(o))' = Bytes(metaOf', ChargedTo(o)')
BY DEF BytesOf, Bytes, MapThenFoldSet

\* initFile admits an upload only if its size, added to what is charged, is
\* within the limits on bytes.
LEMMA AdmissionKeepsBytes ==
  ASSUME ConstantsAssumption, IInv, BytesBounded, NEW id \in FileIds, NEW m \in Metas,
         InitFile(id, m), TypeOK'
  PROVE  BytesBounded'
<1>1. PICK u : OneCharged(u, id, m)
  BY AdmissionChargesOne
<1>2. m.size \in Nat /\ MaxReservedBytes \in Nat /\ MaxOwnerBytes \in Nat
  BY DEF ConstantsAssumption
<1>3. /\ BytesOf(Charged) + m.size <= MaxReservedBytes
      /\ BytesOf(ChargedTo(Owner[id])) + m.size <= MaxOwnerBytes
  BY DEF InitFile, WithinAdmissionLimits
<1>4. /\ IsFiniteSet(Charged) /\ \A v \in Charged : metaOf[v].size \in Nat
      /\ \A o : IsFiniteSet(ChargedTo(o)) /\ ChargedTo(o) \subseteq Charged
  BY ChargedIsFinite, ChargedHasSize DEF IInv, ChargedTo
<1>5. metaOf'[u].size \in Nat /\ metaOf'[u].size = m.size
      /\ \A v \in Charged : metaOf'[v] = metaOf[v]
  <2>1. metaOf \in [Uploads -> Maybe(Metas)] /\ Charged \subseteq Uploads
    BY DEF IInv, TypeOK, UploadTypes, Charged
  <2> QED BY <1>1, <1>2, <2>1 DEF OneCharged
<1>6. ASSUME NEW S \in SUBSET Charged, IsFiniteSet(S), NEW T \in SUBSET (S \cup {u}),
             NEW n \in Nat, Bytes(metaOf, S) + m.size <= n
      PROVE  Bytes(metaOf', T) <= n
  <2>1. /\ \A v \in S : metaOf[v].size \in Nat
        /\ \A v \in S \ {u} : metaOf'[v].size = metaOf[v].size
    BY <1>4, <1>5
  <2>2. /\ Bytes(metaOf, S) \in Nat /\ Bytes(metaOf', T) \in Nat
        /\ Bytes(metaOf', T) <= Bytes(metaOf, S) + metaOf'[u].size
    BY <1>5, <1>6, <2>1, BytesOfOneMore
  <2> QED BY SMTT(60), <1>2, <1>5, <1>6, <2>2
<1>7. Bytes(metaOf', Charged') <= MaxReservedBytes
  <2>1. Charged' \in SUBSET (Charged \cup {u}) /\ Charged \in SUBSET Charged
    BY <1>1 DEF OneCharged
  <2>2. Bytes(metaOf, Charged) + m.size <= MaxReservedBytes
    BY <1>3 DEF BytesOf, Bytes
  <2> QED BY <1>2, <1>4, <1>6, <2>1, <2>2
<1>8. ASSUME NEW o PROVE Bytes(metaOf', ChargedTo(o)') <= MaxOwnerBytes
  <2>1. ChargedTo(o) \in SUBSET Charged /\ IsFiniteSet(ChargedTo(o))
    BY <1>4
  <2>2. CASE o = Owner[id]
    <3>1. Bytes(metaOf, ChargedTo(o)) + m.size <= MaxOwnerBytes
      BY <1>3, <2>2 DEF BytesOf, Bytes
    <3>2. ChargedTo(o)' \in SUBSET (ChargedTo(o) \cup {u})
      BY <1>1 DEF OneCharged
    <3> QED BY <1>2, <1>6, <2>1, <3>1, <3>2
  <2>3. CASE o # Owner[id]
    <3>1. ChargedTo(o)' \in SUBSET ChargedTo(o)
      BY <1>1, <2>3 DEF OneCharged
    <3>2. /\ \A v \in ChargedTo(o) : metaOf[v].size \in Nat
          /\ \A v \in ChargedTo(o)' : metaOf'[v].size = metaOf[v].size
      BY <1>4, <1>5, <2>1, <3>1
    <3>3. /\ Bytes(metaOf, ChargedTo(o)) \in Nat /\ Bytes(metaOf', ChargedTo(o)') \in Nat
          /\ Bytes(metaOf', ChargedTo(o)') <= Bytes(metaOf, ChargedTo(o))
      BY <2>1, <3>1, <3>2, BytesOfFewer
    <3>4. Bytes(metaOf, ChargedTo(o)) <= MaxOwnerBytes
      BY DEF BytesBounded, BytesOf, Bytes
    <3> QED BY SMTT(60), <1>2, <3>3, <3>4
  <2> QED BY <2>2, <2>3
<1> QED BY <1>7, <1>8, BytesAfterStep DEF BytesBounded

----------------------------------------------------------------------------
(* abortMatching, the loops over what it collects, and retireTemporary *)

\* Moving handles out of m_handles and failing them keeps the invariant: the
\* uploads were active, so no thread finalizes them.
LEMMA AbortMatchingStep ==
  ASSUME ConstantsAssumption, IInv, NEW t \in Threads, NEW M \in SUBSET FileIds,
         NEW j \in {"abort", "expire"}, AbortMatching(t, M, j)
  PROVE  IInv'
<1> DEFINE S == {handles[i] : i \in M} \ {Nil}
<1>1. UNCHANGED <<sessions, order, idOf, metaOf, bytes, sizes, hashValid, finalizing, completed,
                  reserved, idle, dead, result, open, writeMutex, tmp, disk, index, published,
                  finalizeMutex, suffix, hashCtx, verdict>>
  BY DEF AbortMatching, Matched, fixed, progress, diskVars, miscVars
<1>2. /\ handles' = [i \in FileIds |-> IF i \in M THEN Nil ELSE handles[i]]
      /\ failed' = failed \cup S
      /\ job' = [job EXCEPT ![t] = j]
      /\ todo' = [todo EXCEPT ![t] = S]
      /\ pc' = [pc EXCEPT ![t] = "next"]
      /\ call' = [call EXCEPT ![t] = NoCall]
      /\ cur' = [cur EXCEPT ![t] = Nil]
      /\ own' = [own EXCEPT ![t] = Nil]
  BY DEF AbortMatching, Matched, Goto
<1>3. \A v \in S : /\ v \in Live /\ v \in Uploads /\ IsActive(v) /\ v \notin finalizing
                   /\ v \notin completed /\ published[v] = {}
  <2> SUFFICES ASSUME NEW v \in S
               PROVE  /\ v \in Live /\ v \in Uploads /\ IsActive(v) /\ v \notin finalizing
                      /\ v \notin completed /\ published[v] = {}
    OBVIOUS
  <2>1. PICK i \in M : handles[i] = v
    OBVIOUS
  <2>2. v \in Live /\ v \in Uploads /\ IsActive(v)
    BY <2>1 DEF IInv, UploadsGood, MapsAgree, IsActive, Live
  <2> QED BY <2>2 DEF IInv, UploadsGood, ActiveIsIntact
<1>4. \A i \in FileIds : handles'[i] # Nil => handles'[i] = handles[i] /\ handles'[i] \notin S
  <2> SUFFICES ASSUME NEW i \in FileIds, handles'[i] # Nil
               PROVE  handles'[i] = handles[i] /\ handles'[i] \notin S
    OBVIOUS
  <2>1. handles'[i] = handles[i] /\ i \notin M
    BY <1>2
  <2>2. \A k \in M : handles[k] = handles[i] => k = i
    BY SMTT(60), <2>1 DEF IInv, UploadsGood, MapsAgree
  <2> QED BY <2>1, <2>2
<1> HIDE DEF S
<1>5. TypeOK'
  <2>1. handles' \in [FileIds -> Maybe(Uploads)]
    BY <1>2 DEF IInv, TypeOK, MapTypes, Maybe
  <2>2. MapTypes'
    BY <1>1, <2>1 DEF IInv, TypeOK, MapTypes
  <2>3. UploadTypes'
    BY <1>1, <1>2, <1>3 DEF IInv, TypeOK, UploadTypes
  <2>4. DiskTypes'
    BY <1>1 DEF IInv, TypeOK, DiskTypes
  <2>5. NoCall \in Calls
    BY DEF NoCall, Calls, Maybe
  <2>6. ThreadTypes'
    BY <1>1, <1>2, <1>3, <2>5 DEF IInv, TypeOK, ThreadTypes, Labels, Maybe
  <2> QED BY <2>2, <2>3, <2>4, <2>6 DEF TypeOK
<1>6. UploadsGood'
  <2>1. MapsAgree' /\ IdsUnique'
    BY <1>1, <1>4, MapsKept DEF IInv, UploadsGood
  <2>2. FreshIsClean'
    BY <1>1, <1>2, <1>3 DEF IInv, UploadsGood, FreshIsClean, Fresh, Live
  <2>3. ActiveIsIntact'
    BY <1>1, <1>2, <1>4 DEF IInv, UploadsGood, ActiveIsIntact, IsActive, ConstantsAssumption
  <2>4. ReservationsKept'
    BY <1>1 DEF IInv, UploadsGood, ReservationsKept, Live
  <2>5. OutcomesGood'
    BY <1>1, <1>2, <1>3 DEF IInv, UploadsGood, OutcomesGood
  <2> QED BY <2>1, <2>2, <2>3, <2>4, <2>5 DEF UploadsGood
<1>7. Others(t) /\ pc'[t] = "next" /\ todo'[t] = S
  BY <1>1, <1>2 DEF IInv, TypeOK, ThreadTypes, Others, SameThread
<1>8. ThreadsGood'
  <2>1. ThreadGood(t)'
    BY <1>1, <1>2, <1>3, <1>7, FreeThreadGood DEF Live
  <2>2. ASSUME NEW r \in Threads \ {t} PROVE ThreadGood(r)'
    <3>1. ThreadGood(r) /\ SameThread(r)
      BY <1>7 DEF IInv, ThreadsGood, Others
    <3>2. Finalizing(r) => cur[r] \in finalizing \ (completed \cup failed)
      BY <3>1 DEF ThreadGood, FinalizerGood
    <3> QED BY <1>1, <1>2, <1>3, <3>1, <3>2, OtherThreadGood
  <2> QED BY <2>1, <2>2 DEF ThreadsGood
<1>9. OneFinalizer'
  BY <1>7, OneFinalizerKept DEF IInv, Finalizing, Writing
<1> QED BY <1>5, <1>6, <1>8, <1>9 DEF IInv

\* The loops of abortMatching and of the sweep take only failed uploads.
LEMMA NextInLoopStep ==
  ASSUME ConstantsAssumption, IInv, NEW t \in Threads, NextInLoop(t)
  PROVE  IInv'
<1>1. /\ UNCHANGED <<maps, fixed, progress, flags, result, open, diskVars, suffix, hashCtx,
                      dead>>
      /\ pc[t] = "next"
  BY DEF NextInLoop
<1>2. UNCHANGED Shared /\ UNCHANGED bytes
  BY <1>1 DEF Shared, maps, fixed, progress, flags, diskVars
<1>3. MapTypes'
  BY <1>1 DEF IInv, TypeOK, MapTypes, maps
<1>4. UploadTypes'
  BY <1>1 DEF IInv, TypeOK, UploadTypes, fixed, progress, flags
<1>5. DiskTypes'
  BY <1>1 DEF IInv, TypeOK, DiskTypes, diskVars
<1>6. UploadsGood'
  BY <1>2, SharedKept DEF IInv
<1>7. UNCHANGED <<idOf, dead, failed>>
  BY <1>2 DEF Shared
<1>8. todo[t] \subseteq Live /\ todo[t] \subseteq failed
  BY DEF IInv, ThreadsGood, ThreadGood, PointerGood
<1>9. ASSUME NEW u \in todo[t],
             todo' = [todo EXCEPT ![t] = @ \ {u}],
             cur' = [cur EXCEPT ![t] = u],
             call' = [call EXCEPT ![t] = [NoCall EXCEPT !.id = idOf[u]]],
             Goto(t, IF job[t] = "sweep" THEN "retire" ELSE "close"),
             UNCHANGED <<job, own, verdict, writeMutex, finalizeMutex>>
      PROVE  IInv'
  <2>1. u \in Live /\ u \in Uploads /\ u \in failed /\ idOf[u] \in FileIds
    BY <1>8 DEF Live, IInv, TypeOK, UploadTypes, Maybe
  <2>2. /\ [NoCall EXCEPT !.id = idOf[u]] \in Calls
        /\ [NoCall EXCEPT !.id = idOf[u]].id = idOf[u]
    BY <2>1 DEF NoCall, Calls, Maybe
  <2>3. pc' \in [Threads -> Labels] /\ pc'[t] \in {"retire", "close"}
        /\ \A r \in Threads \ {t} : pc'[r] = pc[r]
    BY <1>9 DEF Goto, IInv, TypeOK, ThreadTypes, Labels
  <2>4. /\ call' \in [Threads -> Calls] /\ call'[t].id = idOf[u]
        /\ \A r \in Threads \ {t} : call'[r] = call[r]
    BY <1>9, <2>2 DEF IInv, TypeOK, ThreadTypes
  <2>5. ThreadTypes' /\ cur'[t] = u /\ todo'[t] \subseteq todo[t]
    BY <1>9, <2>1, <2>3, <2>4 DEF IInv, TypeOK, ThreadTypes, Maybe
  <2>6. Others(t)
    BY <1>9, <2>3, <2>4 DEF Others, SameThread, IInv, TypeOK, ThreadTypes
  <2>7. ThreadGood(t)'
    <3>1. PointerGood(t)'
      BY <1>7, <1>8, <2>1, <2>3, <2>4, <2>5 DEF PointerGood, Live
    <3> QED BY <2>3, <3>1 DEF ThreadGood, WriterGood, FinalizerGood, Writing, Finalizing
  <2>8. ThreadsGood'
    BY <1>2, <1>9, <2>6, <2>7, QuietOthers DEF ThreadsGood, IInv
  <2>9. OneFinalizer'
    BY <2>3, <2>6, OneFinalizerKept DEF IInv, Finalizing, Writing
  <2> QED BY <1>3, <1>4, <1>5, <1>6, <2>5, <2>8, <2>9 DEF IInv, TypeOK
<1>10. CASE /\ todo' = [todo EXCEPT ![t] = Charged \cap failed]
            /\ job' = [job EXCEPT ![t] = "sweep"]
            /\ UNCHANGED <<pc, call, cur, own, verdict, writeMutex, finalizeMutex>>
  <2>1. Charged \subseteq Live /\ Charged \subseteq Uploads
    BY SMTT(60), <1>10 DEF Charged, IInv, UploadsGood, MapsAgree, TypeOK, UploadTypes, ConstantsAssumption
  <2>2. ThreadTypes' /\ Others(t) /\ pc'[t] = "next" /\ todo'[t] = Charged \cap failed
    BY <1>1, <1>10, <2>1 DEF IInv, TypeOK, ThreadTypes, Others, SameThread
  <2>3. ThreadGood(t)'
    BY <1>7, <2>1, <2>2, FreeThreadGood DEF Live
  <2>4. ThreadsGood'
    BY <1>2, <1>10, <2>2, <2>3, QuietOthers DEF ThreadsGood, IInv
  <2>5. OneFinalizer'
    BY <2>2, OneFinalizerKept DEF IInv, Finalizing, Writing
  <2> QED BY <1>3, <1>4, <1>5, <1>6, <2>2, <2>4, <2>5 DEF IInv, TypeOK
<1>11. CASE Finish(t)
  BY <1>2, <1>3, <1>4, <1>5, <1>11, QuietFinish
<1> QED BY <1>9, <1>10, <1>11 DEF NextInLoop

\* Closing an aborted upload with its writeMutex held finds no writer in it.
LEMMA CloseAbortedStep ==
  ASSUME ConstantsAssumption, IInv, NEW t \in Threads, CloseAborted(t)
  PROVE  IInv'
<1> DEFINE u == cur[t]
<1>1. /\ pc[t] = "close" /\ writeMutex[u] = Nil /\ u \in Live /\ u \in Uploads /\ u \in failed
      /\ call[t].id \in FileIds
  <2>1. pc[t] = "close" /\ writeMutex[u] = Nil
    BY DEF CloseAborted
  <2> QED BY <2>1, SecondLook DEF IInv, ThreadsGood, ThreadGood, PointerGood
<1>2. UNCHANGED <<handles, sessions, order, idOf, metaOf, bytes, sizes, hashValid, completed,
                  reserved, idle, dead, result, tmp, disk, index, published, finalizeMutex,
                  suffix, job, call, cur, own, todo, verdict>>
  BY DEF CloseAborted, maps, fixed, progress, diskVars
<1>3. /\ writeMutex' = [writeMutex EXCEPT ![u] = t]
      /\ open' = open \ {u} /\ finalizing' = finalizing \ {u}
      /\ failed' = failed \cup {u} /\ pc' = [pc EXCEPT ![t] = "retire"]
  BY DEF CloseAborted, Goto
<1>4. TypeOK'
  <2>1. hashCtx' \in [FileIds -> Contents \cup {NoFile}]
    BY DEF CloseAborted, IInv, TypeOK, MapTypes
  <2>2. MapTypes'
    BY <1>2, <2>1 DEF IInv, TypeOK, MapTypes
  <2>3. UploadTypes'
    BY <1>1, <1>2, <1>3 DEF IInv, TypeOK, UploadTypes
  <2>4. DiskTypes'
    BY <1>2 DEF IInv, TypeOK, DiskTypes
  <2>5. ThreadTypes'
    BY <1>2, <1>3 DEF IInv, TypeOK, ThreadTypes, Labels, Maybe
  <2> QED BY <2>2, <2>3, <2>4, <2>5 DEF TypeOK
<1>5. UploadsGood'
  <2>1. MapsAgree' /\ IdsUnique' /\ ReservationsKept'
    BY <1>2 DEF IInv, UploadsGood, MapsAgree, IdsUnique, ReservationsKept, Live
  <2>2. FreshIsClean'
    BY <1>1, <1>2, <1>3 DEF IInv, UploadsGood, FreshIsClean, Fresh, Live
  <2>3. ActiveIsIntact'
    BY <1>1, <1>2, <1>3 DEF IInv, UploadsGood, ActiveIsIntact, IsActive
  <2>4. OutcomesGood'
    BY <1>1, <1>2, <1>3 DEF IInv, UploadsGood, OutcomesGood
  <2> QED BY <2>1, <2>2, <2>3, <2>4 DEF UploadsGood
<1>6. Others(t) /\ pc'[t] = "retire"
  BY <1>2, <1>3 DEF Others, SameThread, IInv, TypeOK, ThreadTypes
<1>7. ThreadsGood'
  <2>1. ThreadGood(t)'
    <3>1. PointerGood(t)
      BY DEF IInv, ThreadsGood, ThreadGood
    <3>2. PointerGood(t)'
      BY <1>1, <1>2, <1>3, <1>6, <3>1 DEF PointerGood, Live
    <3> QED BY <1>6, <3>2 DEF ThreadGood, WriterGood, FinalizerGood, Writing, Finalizing
  <2>2. ASSUME NEW r \in Threads \ {t} PROVE ThreadGood(r)'
    <3>1. ThreadGood(r) /\ SameThread(r)
      BY <1>6 DEF IInv, ThreadsGood, Others
    <3>2. Finalizing(r) => cur[r] \in finalizing \ (completed \cup failed)
      BY <3>1 DEF ThreadGood, FinalizerGood
    <3>3. Nil \notin Threads
      BY DEF ConstantsAssumption, Threads
    <3>4. Writing(r) => cur[r] # u /\ cur[r] \in Uploads
      BY <1>1, <3>1, <3>3 DEF ThreadGood, WriterGood, PointerGood, Live, Writing
    <3>5. pc[r] = "write" => Writing(r)
      BY DEF Writing
    <3>6. /\ writeMutex \in [Uploads -> Maybe(Threads)]
      BY DEF IInv, TypeOK, ThreadTypes
    <3> QED BY <1>1, <1>2, <1>3, <3>1, <3>2, <3>4, <3>5, <3>6, OtherThreadGood
  <2> QED BY <2>1, <2>2 DEF ThreadsGood
<1>8. OneFinalizer'
  BY <1>6, OneFinalizerKept DEF IInv, Finalizing, Writing
<1> QED BY <1>4, <1>5, <1>7, <1>8 DEF IInv

\* A deletion releases the reservation with the file, a refused one neither.
LEMMA RetireTemporaryStep ==
  ASSUME ConstantsAssumption, IInv, NEW t \in Threads, RetireTemporary(t)
  PROVE  IInv'
<1> DEFINE u == cur[t]
<1>1. pc[t] = "retire" /\ u \in Live /\ u \in Uploads /\ u \in failed
  <2>1. pc[t] = "retire"
    BY DEF RetireTemporary
  <2> QED BY <2>1, SecondLook DEF IInv, ThreadsGood, ThreadGood, PointerGood
<1>2. UNCHANGED <<handles, sessions, order, idOf, metaOf, bytes, sizes, hashValid, finalizing,
                  completed, failed, idle, dead, result, open, disk, index, published, suffix,
                  hashCtx>>
  BY DEF RetireTemporary, maps, fixed, progress
<1>3. MapTypes'
  BY <1>2 DEF IInv, TypeOK, MapTypes
<1>4. CASE /\ u \notin open
           /\ tmp' = [tmp EXCEPT ![u] = NoFile]
           /\ reserved' = reserved \ {u}
           /\ Goto(t, "remember")
           /\ UNCHANGED <<job, call, cur, own, todo, verdict, writeMutex, finalizeMutex>>
  <2>1. /\ tmp' \in [Uploads -> Contents \cup {NoFile}] /\ tmp'[u] = NoFile
        /\ \A v \in Uploads \ {u} : tmp'[v] = tmp[v]
    BY <1>1, <1>4 DEF IInv, TypeOK, DiskTypes
  <2>2. UploadTypes' /\ DiskTypes'
    BY <1>2, <1>4, <2>1 DEF IInv, TypeOK, UploadTypes, DiskTypes
  <2>3. ThreadTypes' /\ Others(t) /\ pc'[t] = "remember"
    BY <1>4 DEF Goto, IInv, TypeOK, ThreadTypes, Labels, Others, SameThread
  <2>4. UploadsGood'
    <3>1. MapsAgree' /\ IdsUnique'
      BY <1>2 DEF IInv, UploadsGood, MapsAgree, IdsUnique, Live
    <3>2. ReservationsKept'
      BY <1>1, <1>2, <1>4, <2>1 DEF IInv, UploadsGood, ReservationsKept, Live
    <3>3. FreshIsClean'
      BY <1>1, <1>2, <1>4, <2>1 DEF IInv, UploadsGood, FreshIsClean, Fresh, Live
    <3>4. ActiveIsIntact'
      BY <1>1, <1>2, <1>4, <2>1 DEF IInv, UploadsGood, ActiveIsIntact, IsActive
    <3>5. OutcomesGood'
      BY <1>2 DEF IInv, UploadsGood, OutcomesGood
    <3> QED BY <3>1, <3>2, <3>3, <3>4, <3>5 DEF UploadsGood
  <2>5. ThreadsGood'
    <3>1. ThreadGood(t)'
      <4>1. PointerGood(t)
        BY DEF IInv, ThreadsGood, ThreadGood
      <4>2. PointerGood(t)'
        BY <1>1, <1>2, <1>4, <2>3, <4>1 DEF PointerGood, Live
      <4> QED BY <2>3, <4>2 DEF ThreadGood, WriterGood, FinalizerGood, Writing, Finalizing
    <3>2. ASSUME NEW r \in Threads \ {t} PROVE ThreadGood(r)'
      <4>1. ThreadGood(r) /\ SameThread(r)
        BY <2>3 DEF IInv, ThreadsGood, Others
      <4>2. Finalizing(r) => /\ cur[r] \in finalizing \ (completed \cup failed)
                             /\ cur[r] # u /\ cur[r] \in Uploads
        BY <1>1, <4>1 DEF ThreadGood, FinalizerGood, PointerGood, Live, Finalizing
      <4>3. pc[r] = "write" => cur[r] # u /\ cur[r] \in Uploads
        BY <1>4, <4>1 DEF ThreadGood, WriterGood, PointerGood, Live
      <4> QED BY <1>2, <1>4, <2>1, <4>1, <4>2, <4>3, OtherThreadGood
    <3> QED BY <3>1, <3>2 DEF ThreadsGood
  <2>6. OneFinalizer'
    BY <2>3, OneFinalizerKept DEF IInv, Finalizing, Writing
  <2> QED BY <1>3, <2>2, <2>3, <2>4, <2>5, <2>6 DEF IInv, TypeOK
<1>5. CASE ReturnFromRetire(t) /\ UNCHANGED <<tmp, reserved>>
  <2>1. UploadTypes' /\ DiskTypes'
    BY <1>2, <1>5 DEF IInv, TypeOK, UploadTypes, DiskTypes
  <2>2. UNCHANGED Shared
    BY <1>2, <1>5 DEF Shared
  <2>3. UploadsGood'
    BY <2>2, SharedKept DEF IInv
  <2>4. /\ ThreadTypes' /\ Others(t) /\ pc'[t] \in {"idle", "next"} /\ todo'[t] \subseteq todo[t]
        /\ \A v \in Uploads : writeMutex[v] # t => writeMutex'[v] = writeMutex[v]
    BY <1>5, ReturnEffect DEF IInv, TypeOK
  <2>5. ThreadsGood'
    <3>1. todo[t] \subseteq Live /\ todo[t] \subseteq failed
      BY DEF IInv, ThreadsGood, ThreadGood, PointerGood
    <3>2. ThreadGood(t)'
      BY <1>2, <2>4, <3>1, FreeThreadGood DEF Live
    <3>3. ASSUME NEW r \in Threads \ {t} PROVE ThreadGood(r)'
      <4>1. Writing(r) => cur[r] \in Uploads /\ writeMutex[cur[r]] = r
        BY DEF IInv, ThreadsGood, ThreadGood, WriterGood, PointerGood, Live, Writing
      <4> QED BY <1>2, <2>2, <2>4, <4>1, QuietOthers DEF IInv
    <3> QED BY <3>2, <3>3 DEF ThreadsGood
  <2>6. OneFinalizer'
    BY <2>4, OneFinalizerKept DEF IInv, Finalizing, Writing
  <2> QED BY <1>3, <2>1, <2>3, <2>4, <2>5, <2>6 DEF IInv, TypeOK
<1> QED BY <1>4, <1>5 DEF RetireTemporary

----------------------------------------------------------------------------
(* rememberCompletedSessionLocked *)

\* Remembering a released session evicts only sessions without reservation.
LEMMA RememberCompletedStep ==
  ASSUME ConstantsAssumption, IInv, NEW t \in Threads, RememberCompleted(t)
  PROVE  IInv'
<1> DEFINE u == cur[t]
           id == call[t].id
<1>1. /\ u \in Live /\ u \in Uploads /\ u \notin reserved /\ id \in FileIds /\ id = idOf[u]
      /\ sessions[id] \in {u, Nil}
  <2>1. pc[t] = "remember"
    BY DEF RememberCompleted
  <2> QED BY <2>1, SecondLook DEF IInv, ThreadsGood, ThreadGood, PointerGood
<1>2. UNCHANGED <<handles, idOf, metaOf, bytes, sizes, hashValid, finalizing, completed, failed,
                  reserved, idle, dead, result, open, tmp, disk, index, published, suffix,
                  hashCtx>>
  BY DEF RememberCompleted, fixed, progress, flags, diskVars
<1>3. /\ order' \in Seq(FileIds)
      /\ \A k \in 1 .. Len(order') :
           order'[k] = id \/ \E j \in 1 .. Len(order) : order'[k] = order[j]
      /\ \/ sessions' = sessions
         \/ \E h \in FileIds :
              /\ h = id \/ \E j \in 1 .. Len(order) : h = order[j]
              /\ handles[h] = Nil
              /\ sessions' = [sessions EXCEPT ![h] = Nil]
  BY <1>1, QueueEffect DEF RememberCompleted, IInv, TypeOK, MapTypes
<1>4. Nil \notin reserved
  BY DEF IInv, TypeOK, UploadTypes, ConstantsAssumption
<1>5. sessions \in [FileIds -> Maybe(Uploads)]
  BY DEF IInv, TypeOK, MapTypes
<1>6. \A i \in FileIds :
        \/ sessions'[i] = sessions[i]
        \/ sessions'[i] = Nil /\ handles[i] = Nil /\ sessions[i] \notin reserved
  <2>1. CASE sessions' = sessions
    BY <2>1
  <2>2. ASSUME NEW h \in FileIds,
               h = id \/ \E j \in 1 .. Len(order) : h = order[j],
               handles[h] = Nil,
               sessions' = [sessions EXCEPT ![h] = Nil]
        PROVE  \A i \in FileIds :
                 \/ sessions'[i] = sessions[i]
                 \/ sessions'[i] = Nil /\ handles[i] = Nil /\ sessions[i] \notin reserved
    <3>1. \A j \in 1 .. Len(order) : sessions[order[j]] \notin reserved
      BY DEF IInv, UploadsGood, ReservationsKept
    <3>2. sessions[h] \notin reserved
      BY <1>1, <1>4, <2>2, <3>1
    <3>3. \A i \in FileIds : sessions'[i] = IF i = h THEN Nil ELSE sessions[i]
      BY <1>5, <2>2
    <3> QED BY <2>2, <3>2, <3>3
  <2> QED BY <1>3, <2>1, <2>2
<1>7. sessions' \in [FileIds -> Maybe(Uploads)]
  BY <1>3, <1>5 DEF Maybe
<1>8. /\ ThreadTypes' /\ Others(t) /\ pc'[t] \in {"idle", "next"} /\ todo'[t] \subseteq todo[t]
      /\ \A v \in Uploads : writeMutex[v] # t => writeMutex'[v] = writeMutex[v]
  BY ReturnEffect DEF RememberCompleted, IInv, TypeOK
<1>9. TypeOK'
  <2>1. MapTypes'
    BY <1>2, <1>3, <1>7 DEF IInv, TypeOK, MapTypes
  <2>2. UploadTypes' /\ DiskTypes'
    BY <1>2 DEF IInv, TypeOK, UploadTypes, DiskTypes
  <2> QED BY <1>8, <2>1, <2>2 DEF TypeOK
<1>10. UploadsGood'
  <2>1. MapsAgree' /\ IdsUnique'
    BY <1>2, <1>6, MapsKept DEF IInv, UploadsGood
  <2>2. FreshIsClean' /\ ActiveIsIntact'
    BY <1>2 DEF IInv, UploadsGood, FreshIsClean, Fresh, ActiveIsIntact, IsActive
  <2>3. OutcomesGood'
    BY <1>2 DEF IInv, UploadsGood, OutcomesGood
  <2>4. \A v \in Live : v \in reserved => sessions'[idOf[v]] = v
    <3> SUFFICES ASSUME NEW v \in Live, v \in reserved
                 PROVE  sessions'[idOf[v]] = v
      OBVIOUS
    <3>1. idOf[v] \in FileIds /\ sessions[idOf[v]] = v
      BY SMTT(60) DEF IInv, UploadsGood, ReservationsKept, Live, TypeOK, UploadTypes, Maybe
    <3> QED BY <1>6, <3>1
  <2>5. ASSUME NEW k \in 1 .. Len(order')
        PROVE  (\E v \in Live : idOf[v] = order'[k]) /\ sessions'[order'[k]] \notin reserved
    <3>1. order'[k] \in FileIds
      BY SMTT(60), <1>3, <2>5
    <3>2. /\ \E v \in Live : idOf[v] = order'[k]
          /\ sessions[order'[k]] \notin reserved
      <4>1. CASE order'[k] = id
        BY <1>1, <1>4, <4>1
      <4>2. CASE \E j \in 1 .. Len(order) : order'[k] = order[j]
        BY SMTT(60), <4>2 DEF IInv, UploadsGood, ReservationsKept
      <4> QED BY <1>3, <2>5, <4>1, <4>2
    <3> QED BY <1>4, <1>6, <3>1, <3>2
  <2>6. ReservationsKept'
    BY <1>2, <2>4, <2>5 DEF IInv, UploadsGood, ReservationsKept, Live
  <2> QED BY <2>1, <2>2, <2>3, <2>6 DEF UploadsGood
<1>11. ThreadsGood'
  <2>1. todo[t] \subseteq Live /\ todo[t] \subseteq failed
    BY DEF IInv, ThreadsGood, ThreadGood, PointerGood
  <2>2. ThreadGood(t)'
    BY <1>2, <1>8, <2>1, FreeThreadGood DEF Live
  <2>3. ASSUME NEW r \in Threads \ {t} PROVE ThreadGood(r)'
    <3>1. ThreadGood(r) /\ SameThread(r)
      BY <1>8 DEF IInv, ThreadsGood, Others
    <3>2. Finalizing(r) => cur[r] \in finalizing \ (completed \cup failed)
      BY <3>1 DEF ThreadGood, FinalizerGood
    <3>3. Writing(r) => cur[r] \in Uploads /\ writeMutex[cur[r]] = r
      BY <3>1 DEF ThreadGood, WriterGood, PointerGood, Live, Writing
    <3> QED BY <1>2, <1>8, <3>1, <3>2, <3>3, OtherThreadGood
  <2> QED BY <2>2, <2>3 DEF ThreadsGood
<1>12. OneFinalizer'
  BY <1>8, OneFinalizerKept DEF IInv, Finalizing, Writing
<1> QED BY <1>9, <1>10, <1>11, <1>12 DEF IInv

----------------------------------------------------------------------------
(* Requests *)

\* The first lookup of a call leaves it with an upload of its id.
LEMMA LookupStep ==
  ASSUME ConstantsAssumption, IInv, NEW t \in Workers, NEW c \in Calls, c.id \in FileIds,
         NEW label \in {"writeLock", "finalLock"}, Lookup(t, c, label)
  PROVE  IInv'
<1>1. /\ UNCHANGED <<maps, uploadVars, diskVars, miscVars, job, own, todo, verdict>>
      /\ pc[t] = "idle" /\ sessions[c.id] # Nil /\ t \in Threads
      /\ call' = [call EXCEPT ![t] = c]
  BY DEF Lookup, Threads
<1>2. UNCHANGED Shared /\ UNCHANGED <<bytes, writeMutex>>
  BY <1>1 DEF Shared, maps, uploadVars, fixed, progress, flags, diskVars, miscVars
<1>3. PICK u \in Live : /\ u \in Uploads /\ idOf[u] = c.id
                        /\ cur' = [cur EXCEPT ![t] = u]
                        /\ \/ pc' = [pc EXCEPT ![t] = label]
                           \/ pc' = [pc EXCEPT ![t] = "await"]
  <2>1. sessions[c.id] \in Live /\ sessions[c.id] \in Uploads /\ idOf[sessions[c.id]] = c.id
    BY <1>1 DEF IInv, UploadsGood, MapsAgree, Live
  <2>2. handles[c.id] # Nil => handles[c.id] = sessions[c.id]
    BY DEF IInv, UploadsGood, MapsAgree
  <2> QED BY <2>1, <2>2 DEF Lookup, Goto
<1>4. TypeOK'
  <2>1. MapTypes'
    BY <1>1 DEF IInv, TypeOK, MapTypes, maps, miscVars
  <2>2. UploadTypes'
    BY <1>1 DEF IInv, TypeOK, UploadTypes, uploadVars, fixed, progress, flags, miscVars
  <2>3. DiskTypes'
    BY <1>1 DEF IInv, TypeOK, DiskTypes, diskVars
  <2>4. pc' \in [Threads -> Labels]
    BY <1>3 DEF IInv, TypeOK, ThreadTypes, Labels
  <2>5. ThreadTypes'
    BY <1>1, <1>2, <1>3, <2>4 DEF IInv, TypeOK, ThreadTypes, Maybe, miscVars
  <2> QED BY <2>1, <2>2, <2>3, <2>5 DEF TypeOK
<1>5. UploadsGood'
  BY <1>2, SharedKept DEF IInv
<1>6. /\ Others(t) /\ pc'[t] \in {"writeLock", "finalLock", "await"} /\ cur'[t] = u
      /\ call'[t] = c
  BY <1>1, <1>3 DEF IInv, TypeOK, ThreadTypes, Others, SameThread
<1>7. ThreadsGood'
  <2>1. ThreadGood(t)'
    <3>1. PointerGood(t)
      BY <1>1 DEF IInv, ThreadsGood, ThreadGood
    <3>2. UNCHANGED <<idOf, dead, failed, reserved>>
      BY <1>2 DEF Shared
    <3>3. PointerGood(t)'
      BY <1>1, <1>3, <1>6, <3>1, <3>2 DEF PointerGood, Live
    <3> QED BY <1>6, <3>3 DEF ThreadGood, WriterGood, FinalizerGood, Writing, Finalizing
  <2>2. \A r \in Threads \ {t} : ThreadGood(r)'
    BY <1>1, <1>2, <1>6, QuietOthers DEF IInv
  <2> QED BY <2>1, <2>2 DEF ThreadsGood
<1>8. OneFinalizer'
  BY <1>1, <1>6, OneFinalizerKept DEF IInv, Finalizing, Writing
<1> QED BY <1>4, <1>5, <1>7, <1>8 DEF IInv

\* initFile gives an unused object to an id no upload of this process has.
LEMMA InitFileStep ==
  ASSUME ConstantsAssumption, IInv, ~ReuseIds, NEW id \in FileIds, NEW m \in Metas,
         InitFile(id, m)
  PROVE  IInv'
<1>1. PICK u \in Fresh :
       /\ idOf' = [idOf EXCEPT ![u] = id]
       /\ metaOf' = [metaOf EXCEPT ![u] = m]
       /\ \/ /\ sessions' = [sessions EXCEPT ![id] = u]
             /\ handles' = [handles EXCEPT ![id] = u]
             /\ open' = open \cup {u}
             /\ reserved' = reserved \cup {u}
             /\ tmp' = [tmp EXCEPT ![u] = BlankFile(m.size)]
             /\ \/ /\ hashValid' = hashValid \cup {u}
                   /\ hashCtx' = [hashCtx EXCEPT ![id] = <<>>]
                \/ UNCHANGED <<hashValid, hashCtx>>
             /\ UNCHANGED <<order, failed>>
          \/ /\ failed' = failed \cup {u}
             /\ RememberCompletedSession([sessions EXCEPT ![id] = u], id)
             /\ UNCHANGED <<handles, open, reserved, tmp, hashValid, hashCtx>>
          \/ /\ sessions' = [sessions EXCEPT ![id] = u]
             /\ failed' = failed \cup {u}
             /\ reserved' = reserved \cup {u}
             /\ tmp' = [tmp EXCEPT ![u] = BlankFile(m.size)]
             /\ UNCHANGED <<handles, order, open, hashValid, hashCtx>>
  BY DEF InitFile
<1>2. /\ handles[id] = Nil /\ sessions[id] = Nil /\ \A v \in Live : idOf[v] # id
      /\ UNCHANGED <<bytes, sizes, finalizing, completed, idle, result, writeMutex,
                     finalizeMutex, suffix, disk, index, dead, published>>
      /\ UNCHANGED <<pc, job, call, cur, own, todo, verdict>>
  BY DEF InitFile, IdIsAdmissible, threadVars
<1>3. /\ u \in Uploads /\ idOf[u] = Nil /\ u \notin Live /\ u \notin dead /\ tmp[u] = NoFile
      /\ published[u] = {} /\ u \notin finalizing /\ u \notin completed /\ u \notin failed
      /\ u \notin reserved /\ id # Nil /\ u # Nil
  BY DEF Fresh, Live, IInv, UploadsGood, FreshIsClean, ConstantsAssumption
<1>4. /\ Live' = Live \cup {u} /\ Fresh' = Fresh \ {u} /\ idOf'[u] = id
      /\ \A v \in Uploads \ {u} : idOf'[v] = idOf[v]
  <2>1. idOf \in [Uploads -> Maybe(FileIds)]
    BY DEF IInv, TypeOK, UploadTypes
  <2>2. idOf'[u] = id /\ \A v \in Uploads \ {u} : idOf'[v] = idOf[v]
    BY <1>1, <1>3, <2>1
  <2> QED BY <1>2, <1>3, <2>2 DEF Live, Fresh
<1>5. \A i \in FileIds : handles[i] # u /\ sessions[i] # u
  BY SMTT(60), <1>3 DEF IInv, UploadsGood, MapsAgree
<1>6. BlankFile(m.size) \in Contents /\ BlankFile(m.size) # NoFile
  <2>1. m.size \in Nat
    BY DEF ConstantsAssumption
  <2>2. BlankFile(m.size) \in [1 .. m.size -> Data \cup {Blank}]
    BY DEF BlankFile
  <2> QED BY <2>1, <2>2, FunctionIsContent DEF ConstantsAssumption
<1>7. /\ tmp' \in [Uploads -> Contents \cup {NoFile}]
      /\ \A v \in Uploads \ {u} : tmp'[v] = tmp[v]
      /\ tmp'[u] # NoFile => u \in reserved'
  <2>1. tmp \in [Uploads -> Contents \cup {NoFile}]
    BY DEF IInv, TypeOK, DiskTypes
  <2>2. \/ tmp' = tmp
        \/ /\ tmp' = [tmp EXCEPT ![u] = BlankFile(m.size)]
           /\ u \in reserved'
    BY <1>1
  <2> QED BY ONLY ZenonT(60), <1>3, <1>6, <2>1, <2>2
<1>8. /\ reserved' \subseteq reserved \cup {u} /\ reserved \subseteq reserved'
      /\ failed' \subseteq failed \cup {u} /\ failed \subseteq failed'
      /\ open' \subseteq open \cup {u} /\ open \subseteq open'
  BY <1>1
<1>9. sessions \in [FileIds -> Maybe(Uploads)] /\ order \in Seq(FileIds)
      /\ handles \in [FileIds -> Maybe(Uploads)]
  BY DEF IInv, TypeOK, MapTypes
\* Either the new session is in the map, or initFile failed and left nothing;
\* the queue may then have evicted a session, this one included.
<1>10. \/ /\ sessions' = [sessions EXCEPT ![id] = u]
          /\ UNCHANGED order
       \/ /\ UNCHANGED <<handles, reserved, tmp>>
          /\ order' \in Seq(FileIds)
          /\ \A k \in 1 .. Len(order') :
               order'[k] = id \/ \E j \in 1 .. Len(order) : order'[k] = order[j]
          /\ \/ sessions' = [sessions EXCEPT ![id] = u]
             \/ \E h \in FileIds :
                  /\ h = id \/ \E j \in 1 .. Len(order) : h = order[j]
                  /\ handles[h] = Nil
                  /\ sessions' = [[sessions EXCEPT ![id] = u] EXCEPT ![h] = Nil]
  <2> DEFINE s == [sessions EXCEPT ![id] = u]
  <2>1. CASE sessions' = s /\ UNCHANGED order
    BY <2>1
  <2>2. CASE RememberCompletedSession(s, id) /\ UNCHANGED <<handles, reserved, tmp>>
    <3> HIDE DEF s
    <3>1. /\ order' \in Seq(FileIds)
          /\ \A k \in 1 .. Len(order') :
               order'[k] = id \/ \E j \in 1 .. Len(order) : order'[k] = order[j]
          /\ \/ sessions' = s
             \/ \E h \in FileIds :
                  /\ h = id \/ \E j \in 1 .. Len(order) : h = order[j]
                  /\ handles[h] = Nil
                  /\ sessions' = [s EXCEPT ![h] = Nil]
      BY <1>9, <2>2, QueueEffect
    <3> QED BY <2>2, <3>1 DEF s
  <2> QED BY <1>1, <2>1, <2>2
<1>11. /\ order' \in Seq(FileIds) /\ sessions' \in [FileIds -> Maybe(Uploads)]
       /\ sessions'[id] \in {u, Nil} /\ (u \in reserved' => sessions'[id] = u)
  <2> DEFINE s == [sessions EXCEPT ![id] = u]
  <2>1. s \in [FileIds -> Maybe(Uploads)] /\ s[id] = u
    BY <1>3, <1>9 DEF Maybe
  <2>2. CASE sessions' = s
    BY <1>9, <1>10, <2>1, <2>2
  <2>3. ASSUME NEW h \in FileIds, sessions' = [s EXCEPT ![h] = Nil], order' \in Seq(FileIds),
               UNCHANGED reserved
        PROVE  /\ order' \in Seq(FileIds) /\ sessions' \in [FileIds -> Maybe(Uploads)]
               /\ sessions'[id] \in {u, Nil} /\ (u \in reserved' => sessions'[id] = u)
    <3> HIDE DEF s
    <3> QED BY <1>3, <2>1, <2>3 DEF Maybe
  <2> QED BY <1>10, <2>2, <2>3
<1>12. Nil \notin reserved
  BY DEF IInv, TypeOK, UploadTypes, ConstantsAssumption
<1>13. \A i \in FileIds \ {id} :
         \/ sessions'[i] = sessions[i]
         \/ sessions'[i] = Nil /\ handles[i] = Nil /\ sessions[i] \notin reserved
  <2> SUFFICES ASSUME NEW i \in FileIds \ {id}
               PROVE  \/ sessions'[i] = sessions[i]
                      \/ sessions'[i] = Nil /\ handles[i] = Nil /\ sessions[i] \notin reserved
    OBVIOUS
  <2>1. CASE sessions' = [sessions EXCEPT ![id] = u]
    BY <1>9, <2>1
  <2>2. ASSUME NEW h \in FileIds,
               h = id \/ \E j \in 1 .. Len(order) : h = order[j],
               handles[h] = Nil,
               sessions' = [[sessions EXCEPT ![id] = u] EXCEPT ![h] = Nil]
        PROVE  \/ sessions'[i] = sessions[i]
               \/ sessions'[i] = Nil /\ handles[i] = Nil /\ sessions[i] \notin reserved
    <3>1. CASE i = h
      <4>1. \E j \in 1 .. Len(order) : h = order[j]
        BY <2>2, <3>1
      <4>2. sessions[h] \notin reserved
        BY <4>1 DEF IInv, UploadsGood, ReservationsKept
      <4>3. sessions'[h] = Nil
        BY <1>9, <2>2
      <4> QED BY <2>2, <3>1, <4>2, <4>3
    <3>2. CASE i # h
      BY <1>9, <2>2, <3>2
    <3> QED BY <3>1, <3>2
  <2> QED BY <1>10, <2>1, <2>2
<1>14. /\ handles' \in [FileIds -> Maybe(Uploads)]
       /\ handles'[id] # Nil => handles'[id] = u /\ sessions'[id] = u
       /\ \A i \in FileIds \ {id} : handles'[i] = handles[i]
  <2>1. CASE handles' = [handles EXCEPT ![id] = u] /\ sessions' = [sessions EXCEPT ![id] = u]
    BY <1>3, <1>9, <2>1 DEF Maybe
  <2>2. CASE handles' = handles
    BY <1>2, <1>9, <2>2
  <2> QED BY <1>1, <2>1, <2>2
<1>15. TypeOK'
  <2>1. hashCtx' \in [FileIds -> Contents \cup {NoFile}]
    <3>1. <<>> \in Contents /\ hashCtx \in [FileIds -> Contents \cup {NoFile}]
      BY EmptyIsContent DEF IInv, TypeOK, MapTypes
    <3> QED BY <1>1, <3>1
  <2>2. MapTypes'
    BY <1>2, <1>11, <1>14, <2>1 DEF IInv, TypeOK, MapTypes
  <2>3. DiskTypes'
    BY <1>2, <1>7 DEF IInv, TypeOK, DiskTypes
  <2>4. ThreadTypes'
    BY <1>2 DEF IInv, TypeOK, ThreadTypes
  <2>5. /\ idOf' \in [Uploads -> Maybe(FileIds)] /\ metaOf' \in [Uploads -> Maybe(Metas)]
        /\ \A v \in Uploads : idOf'[v] = Nil <=> metaOf'[v] = Nil
    <3>1. /\ idOf \in [Uploads -> Maybe(FileIds)] /\ metaOf \in [Uploads -> Maybe(Metas)]
          /\ \A v \in Uploads : idOf[v] = Nil <=> metaOf[v] = Nil
      BY DEF IInv, TypeOK, UploadTypes
    <3>2. m # Nil
      BY DEF ConstantsAssumption
    <3> QED BY <1>1, <1>3, <3>1, <3>2 DEF Maybe
  <2>6. hashValid' \subseteq Uploads
    BY <1>1, <1>3 DEF IInv, TypeOK, UploadTypes
  <2>7. UploadTypes'
    BY <1>2, <1>3, <1>8, <2>5, <2>6 DEF IInv, TypeOK, UploadTypes
  <2> QED BY <2>2, <2>3, <2>4, <2>7 DEF TypeOK
<1>16. UploadsGood'
  <2>1. IdsUnique'
    <3>1. IdsUnique /\ \A v \in Live : v \in Uploads \ {u}
      BY <1>3 DEF IInv, UploadsGood, Live
    <3> QED BY <1>2, <1>4, <3>1 DEF IdsUnique
  <2>2. MapsAgree'
    <3> SUFFICES ASSUME NEW i \in FileIds
                 PROVE  /\ sessions'[i] # Nil => sessions'[i] \in Live' /\ idOf'[sessions'[i]] = i
                        /\ handles'[i] # Nil => handles'[i] = sessions'[i]
      BY DEF MapsAgree
    <3>1. CASE i = id
      BY <1>4, <1>11, <1>14, <3>1
    <3>2. CASE i # id
      <4>1. /\ sessions[i] # Nil => /\ sessions[i] \in Live /\ sessions[i] \in Uploads \ {u}
                                    /\ idOf[sessions[i]] = i
            /\ handles[i] # Nil => handles[i] = sessions[i]
        BY <1>5 DEF IInv, UploadsGood, MapsAgree, Live
      <4> QED BY <1>4, <1>13, <1>14, <3>2, <4>1
    <3> QED BY <3>1, <3>2
  <2>3. FreshIsClean'
    BY <1>2, <1>4, <1>7, <1>8 DEF IInv, UploadsGood, FreshIsClean, Fresh
  <2>4. ActiveIsIntact'
    <3> SUFFICES ASSUME NEW v \in Uploads, NEW i \in FileIds, handles'[i] = v
                 PROVE  /\ v \in open' \cap reserved'
                        /\ v \notin finalizing' \cup completed' \cup failed'
                        /\ tmp'[v] # NoFile /\ published'[v] = {}
      BY DEF ActiveIsIntact, IsActive
    <3>1. CASE v = u
      <4>1. handles' # handles
        BY <1>5, <3>1
      <4>2. /\ u \in open' /\ u \in reserved' /\ failed' = failed
            /\ tmp' = [tmp EXCEPT ![u] = BlankFile(m.size)]
        BY <1>1, <4>1
      <4>3. tmp'[u] # NoFile
        BY <1>3, <1>6, <4>2 DEF IInv, TypeOK, DiskTypes
      <4> QED BY <1>2, <1>3, <3>1, <4>2, <4>3
    <3>2. CASE v # u
      <4>1. v # Nil
        BY DEF ConstantsAssumption
      <4>2. i # id
        BY <1>14, <3>2, <4>1
      <4>3. handles[i] = v
        BY <1>14, <4>2
      <4>4. /\ v \in open \cap reserved /\ v \notin finalizing \cup completed \cup failed
            /\ tmp[v] # NoFile /\ published[v] = {}
        BY <4>3 DEF IInv, UploadsGood, ActiveIsIntact, IsActive
      <4> QED BY <1>2, <1>7, <1>8, <3>2, <4>4
    <3> QED BY <3>1, <3>2
  <2>5. ReservationsKept'
    <3>1. \A v \in Live' : tmp'[v] # NoFile => v \in reserved'
      <4>1. \A v \in Live : v \in Uploads /\ (tmp[v] # NoFile => v \in reserved)
        BY DEF IInv, UploadsGood, ReservationsKept, Live
      <4> QED BY ONLY ZenonT(60), <1>4, <1>7, <1>8, <4>1
    <3>2. ASSUME NEW v \in Live', v \in reserved' PROVE sessions'[idOf'[v]] = v
      <4>1. CASE v = u
        BY <1>4, <1>11, <3>2, <4>1
      <4>2. CASE v # u
        <5>1. v \in Live /\ v \in Uploads /\ v \in reserved /\ idOf'[v] = idOf[v]
          BY <1>4, <1>8, <3>2, <4>2 DEF Live
        <5>2. sessions[idOf[v]] = v /\ idOf[v] # id /\ idOf[v] \in FileIds
          <6>1. sessions[idOf[v]] = v
            BY <5>1 DEF IInv, UploadsGood, ReservationsKept
          <6>2. idOf[v] \in Maybe(FileIds) /\ idOf[v] # Nil
            BY <5>1 DEF IInv, TypeOK, UploadTypes, Live
          <6> QED BY <1>2, <5>1, <6>1, <6>2 DEF Maybe
        <5> QED BY <1>13, <5>1, <5>2
      <4> QED BY <4>1, <4>2
    <3>3. \A k \in 1 .. Len(order) : order[k] # id
      BY <1>2 DEF IInv, UploadsGood, ReservationsKept
    <3>4. \A k \in 1 .. Len(order) : (\E v \in Live' : idOf'[v] = order[k])
      <4> SUFFICES ASSUME NEW k \in 1 .. Len(order) PROVE \E v \in Live' : idOf'[v] = order[k]
        OBVIOUS
      <4>1. PICK v \in Live : idOf[v] = order[k]
        BY DEF IInv, UploadsGood, ReservationsKept
      <4> QED BY <1>3, <1>4, <4>1 DEF Live
    <3>5. \A k \in 1 .. Len(order) : sessions'[order[k]] \notin reserved'
      <4> SUFFICES ASSUME NEW k \in 1 .. Len(order) PROVE sessions'[order[k]] \notin reserved'
        OBVIOUS
      <4>1. order[k] \in FileIds \ {id} /\ sessions[order[k]] \notin reserved
        BY SMTT(60), <1>9, <3>3 DEF IInv, UploadsGood, ReservationsKept
      <4>2. sessions[order[k]] # u /\ u # Nil
        BY <1>3, <1>5, <4>1
      <4> QED BY <1>8, <1>12, <1>13, <4>1, <4>2
    <3>6. ASSUME NEW k \in 1 .. Len(order')
          PROVE  (\E v \in Live' : idOf'[v] = order'[k]) /\ sessions'[order'[k]] \notin reserved'
      <4>1. CASE order' = order
        BY <3>4, <3>5, <3>6, <4>1
      <4>2. CASE /\ reserved' = reserved
                 /\ order'[k] = id \/ \E j \in 1 .. Len(order) : order'[k] = order[j]
        <5>1. (\E v \in Live' : idOf'[v] = id) /\ sessions'[id] \notin reserved
          BY <1>3, <1>4, <1>11, <1>12
        <5> QED BY <3>4, <3>5, <4>2, <5>1
      <4> QED BY <1>10, <3>6, <4>1, <4>2
    <3> QED BY <3>1, <3>2, <3>6 DEF ReservationsKept
  <2>6. OutcomesGood'
    BY SMTT(60), <1>2, <1>3, <1>8 DEF IInv, UploadsGood, OutcomesGood
  <2> QED BY <2>1, <2>2, <2>3, <2>4, <2>5, <2>6 DEF UploadsGood
<1>17. ThreadsGood'
  <2> SUFFICES ASSUME NEW r \in Threads PROVE ThreadGood(r)'
    BY DEF ThreadsGood
  <2>1. ThreadGood(r)
    BY DEF IInv, ThreadsGood
  <2>2. \A v \in Live : v \in Uploads \ {u}
    BY <1>3 DEF Live
  <2>3. PointerGood(r)'
    BY <1>2, <1>4, <1>8, <2>1, <2>2 DEF ThreadGood, PointerGood
  <2>4. pc[r] \notin {"idle", "abort", "next"} => cur[r] \in Uploads \ {u}
    BY <2>1, <2>2 DEF ThreadGood, PointerGood
  <2>5. WriterGood(r)'
    BY <1>2, <1>7, <1>8, <2>1, <2>4 DEF ThreadGood, WriterGood, Writing
  <2>6. FinalizerGood(r)'
    BY <1>2, <1>7, <1>8, <2>1, <2>4 DEF ThreadGood, FinalizerGood, Finalizing
  <2> QED BY <2>3, <2>5, <2>6 DEF ThreadGood
<1>18. OneFinalizer'
  BY <1>2 DEF IInv, OneFinalizer, Finalizing, Writing
<1> QED BY <1>15, <1>16, <1>17, <1>18 DEF IInv

----------------------------------------------------------------------------
(* The environment *)

\* A step of the environment that leaves maps, flags and threads alone.
LEMMA QuietEnvironment ==
  ASSUME IInv, UNCHANGED Shared, UNCHANGED <<bytes, writeMutex>>, UNCHANGED threadVars, TypeOK'
  PROVE  IInv'
<1>1. UNCHANGED <<pc, job, call, cur, own, todo, verdict>>
  BY DEF threadVars
<1>2. UploadsGood'
  BY SharedKept DEF IInv
<1>3. ThreadsGood'
  <2> SUFFICES ASSUME NEW r \in Threads PROVE ThreadGood(r)'
    BY DEF ThreadsGood
  <2>1. ThreadGood(r) /\ SameThread(r)
    BY <1>1 DEF IInv, ThreadsGood, SameThread
  <2>2. Finalizing(r) => cur[r] \in finalizing \ (completed \cup failed)
    BY <2>1 DEF ThreadGood, FinalizerGood
  <2>3. UNCHANGED <<idOf, dead, failed, reserved, finalizing, completed, published, tmp, open>>
    BY DEF Shared
  <2> QED BY <2>1, <2>2, <2>3, OtherThreadGood
<1>4. OneFinalizer'
  BY <1>1 DEF IInv, OneFinalizer, Finalizing, Writing
<1> QED BY <1>2, <1>3, <1>4 DEF IInv

\* The passing of time changes nothing that IInv speaks of.
LEMMA TimePassesStep ==
  ASSUME IInv, NEW u \in Uploads, TimePasses(u)
  PROVE  IInv'
<1>1. /\ UNCHANGED <<maps, fixed, progress, finalizing, completed, failed, reserved, result,
                      open, writeMutex, diskVars, miscVars, threadVars>>
      /\ idle' = idle \cup {u}
  BY DEF TimePasses
<1>2. UNCHANGED Shared /\ UNCHANGED <<bytes, writeMutex>>
  BY <1>1 DEF Shared, maps, fixed, progress, diskVars, miscVars
<1>3. MapTypes' /\ DiskTypes'
  BY <1>1 DEF IInv, TypeOK, MapTypes, DiskTypes, maps, diskVars, miscVars
<1>4. UploadTypes'
  BY <1>1 DEF IInv, TypeOK, UploadTypes, fixed, progress, miscVars
<1>5. ThreadTypes'
  BY <1>1 DEF IInv, TypeOK, ThreadTypes, threadVars, miscVars
<1> QED BY <1>1, <1>2, <1>3, <1>4, <1>5, QuietEnvironment DEF TypeOK

\* Changes of the upload directory and of the inventory keep the invariant.
LEMMA DirectoryStep ==
  ASSUME ConstantsAssumption, IInv, NEW f \in Filenames,
         IndexFile(f) \/ \E c \in External : ExternalChange(f, c)
  PROVE  IInv'
<1>1. UNCHANGED <<maps, uploadVars, miscVars, threadVars, tmp, published>>
  BY DEF IndexFile, ExternalChange
<1>2. UNCHANGED Shared /\ UNCHANGED <<bytes, writeMutex>>
  BY <1>1 DEF Shared, maps, uploadVars, fixed, progress, flags, miscVars
<1>3. MapTypes'
  BY <1>1 DEF IInv, TypeOK, MapTypes, maps, miscVars
<1>4. UploadTypes'
  BY <1>1 DEF IInv, TypeOK, UploadTypes, uploadVars, fixed, progress, flags, miscVars
<1>5. ThreadTypes'
  BY <1>1 DEF IInv, TypeOK, ThreadTypes, uploadVars, threadVars, miscVars
<1>6. DiskTypes'
  <2>1. /\ disk \in [Filenames -> Contents \cup {NoFile}]
        /\ index \in [Filenames -> Contents \cup {NoFile}]
    BY DEF IInv, TypeOK, DiskTypes
  <2>2. External \subseteq Contents \cup {NoFile}
    BY DEF ConstantsAssumption
  <2>3. /\ disk' \in [Filenames -> Contents \cup {NoFile}]
        /\ index' \in [Filenames -> Contents \cup {NoFile}]
    BY <2>1, <2>2 DEF IndexFile, ExternalChange
  <2> QED BY <1>1, <2>3 DEF IInv, TypeOK, DiskTypes
<1> QED BY <1>1, <1>2, <1>3, <1>4, <1>5, <1>6, QuietEnvironment DEF TypeOK

\* A new process starts with empty maps, and its predecessor's uploads are dead.
LEMMA RestartStep ==
  ASSUME ConstantsAssumption, IInv, Restart
  PROVE  IInv'
<1>1. UNCHANGED <<idOf, metaOf, bytes, sizes, hashValid, finalizing, completed, failed, reserved,
                  idle, result, disk, published>>
  BY DEF Restart, fixed, progress, flags
<1>2. /\ handles' = [i \in FileIds |-> Nil] /\ sessions' = [i \in FileIds |-> Nil]
      /\ order' = <<>> /\ open' = {} /\ dead' = {u \in Uploads : idOf[u] # Nil}
      /\ pc' = [t \in Threads |-> "idle"] /\ todo' = [t \in Threads |-> {}]
  BY DEF Restart
<1>3. /\ tmp' \in [Uploads -> Contents \cup {NoFile}]
      /\ \A u \in Uploads : tmp[u] = NoFile => tmp'[u] = NoFile
  BY DEF Restart, IInv, TypeOK, DiskTypes
<1>4. Live' = {} /\ Fresh' = Fresh
  BY <1>1, <1>2 DEF Live, Fresh
<1>5. TypeOK'
  <2>1. MapTypes'
    <3>1. suffix' \in [{SafeName[x] : x \in DOMAIN SafeName} -> Nat]
      BY DEF Restart, IInv, TypeOK, MapTypes
    <3>2. hashCtx' \in [FileIds -> Contents \cup {NoFile}]
      BY DEF Restart
    <3> QED BY SMTT(60), <1>2, <3>1, <3>2 DEF MapTypes, Maybe
  <2>2. UploadTypes'
    BY <1>1, <1>2 DEF IInv, TypeOK, UploadTypes
  <2>3. index' \in [Filenames -> Contents \cup {NoFile}]
    BY DEF Restart, IInv, TypeOK, DiskTypes
  <2>4. DiskTypes'
    BY <1>1, <1>3, <2>3 DEF IInv, TypeOK, DiskTypes
  <2>5. NoCall \in Calls /\ NoVerdict \in Verdicts
    BY DEF NoCall, Calls, NoVerdict, Verdicts, Maybe, Dispositions
  <2>6. ThreadTypes'
    BY <2>5 DEF Restart, ThreadTypes, Labels, Maybe
  <2> QED BY <2>1, <2>2, <2>4, <2>6 DEF TypeOK
<1>6. UploadsGood'
  <2>1. MapsAgree' /\ IdsUnique'
    BY <1>2, <1>4 DEF MapsAgree, IdsUnique
  <2>2. FreshIsClean'
    BY <1>1, <1>2, <1>3, <1>4 DEF IInv, UploadsGood, FreshIsClean, Fresh
  <2>3. ActiveIsIntact'
    BY <1>2 DEF ActiveIsIntact, IsActive, ConstantsAssumption
  <2>4. ReservationsKept'
    BY SMTT(60), <1>2, <1>4 DEF ReservationsKept
  <2>5. OutcomesGood'
    BY <1>1 DEF IInv, UploadsGood, OutcomesGood
  <2> QED BY <2>1, <2>2, <2>3, <2>4, <2>5 DEF UploadsGood
<1>7. ThreadsGood'
  BY <1>2, FreeThreadGood DEF ThreadsGood
<1>8. OneFinalizer'
  BY <1>2 DEF OneFinalizer, Finalizing
<1> QED BY <1>5, <1>6, <1>7, <1>8 DEF IInv

----------------------------------------------------------------------------
(* The invariant *)

\* The invariant holds of a server that has just started.
LEMMA InitIInv ==
  ASSUME ConstantsAssumption, Init
  PROVE  IInv
<1>1. NoCall \in Calls /\ NoVerdict \in Verdicts
  <2>1. Nil \in Maybe(FileIds) /\ Nil \in Maybe(Filenames)
    BY DEF Maybe
  <2>2. "Error" \in Dispositions /\ Blank \in Data \cup {Blank} /\ NoFile \in Contents \cup {NoFile}
    BY DEF Dispositions
  <2> QED BY ONLY SMTT(60), <2>1, <2>2 DEF NoCall, Calls, NoVerdict, Verdicts
<1>2. MapTypes
  BY SMTT(60) DEF Init, MapTypes, Maybe
<1>3. UploadTypes
  <2>1. idOf \in [Uploads -> Maybe(FileIds)] /\ metaOf \in [Uploads -> Maybe(Metas)]
    BY DEF Init, Maybe
  <2>2. \A u \in Uploads : idOf[u] = Nil <=> metaOf[u] = Nil
    BY DEF Init
  <2>3. bytes = [u \in Uploads |-> 0] /\ sizes = [u \in Uploads |-> <<>>]
    BY DEF Init
  <2>4. bytes \in [Uploads -> Nat] /\ sizes \in [Uploads -> Seq(Nat)]
    BY ONLY SMTT(60), <2>3
  <2>5. /\ finalizing \subseteq Uploads /\ completed \subseteq Uploads
        /\ failed \subseteq Uploads /\ reserved \subseteq Uploads
        /\ idle \subseteq Uploads /\ hashValid \subseteq Uploads
        /\ open \subseteq Uploads /\ dead \subseteq Uploads
    BY DEF Init
  <2>6. result \in [Uploads -> Verdicts]
    BY <1>1 DEF Init
  <2> QED BY <2>1, <2>2, <2>4, <2>5, <2>6 DEF UploadTypes
<1>4. DiskTypes
  BY DEF Init, DiskTypes
<1>5. ThreadTypes
  BY <1>1 DEF Init, ThreadTypes, Labels, Maybe
<1>6. Live = {}
  BY DEF Init, Live
<1>7. MapsAgree /\ IdsUnique
  BY <1>6 DEF Init, MapsAgree, IdsUnique
<1>8. FreshIsClean
  BY DEF Init, FreshIsClean, Fresh
<1>9. ActiveIsIntact
  BY DEF Init, ActiveIsIntact, IsActive, ConstantsAssumption
<1>10. ReservationsKept /\ OutcomesGood
  <2>1. order = <<>> /\ failed = {} /\ completed = {}
    BY DEF Init
  <2>2. \A k : k \notin 1 .. Len(order)
    BY ONLY SMTT(60), <2>1
  <2> QED BY <1>6, <2>1, <2>2 DEF ReservationsKept, OutcomesGood
<1>11. ThreadsGood
  BY DEF Init, ThreadsGood, ThreadGood, PointerGood, WriterGood, FinalizerGood, Writing, Finalizing
<1>12. OneFinalizer
  BY DEF Init, OneFinalizer, Finalizing
<1> QED BY <1>2, <1>3, <1>4, <1>5, <1>7, <1>8, <1>9, <1>10, <1>11, <1>12 DEF IInv, TypeOK, UploadsGood

\* Every step inside a call keeps the invariant.
LEMMA ThreadStepIInv ==
  ASSUME ConstantsAssumption, IInv, NEW t \in Threads, ThreadStep(t)
  PROVE  IInv'
<1>1. CASE AbortFile(t)
  <2>1. call[t].id \in FileIds
    BY <1>1 DEF AbortFile, IInv, ThreadsGood, ThreadGood, PointerGood
  <2> QED BY <1>1, <2>1, AbortMatchingStep DEF AbortFile
<1> QED
  BY <1>1, WriteLockedStep, WriteMappedRangeStep, CommitChunkStep, AwaitReturnStep,
     FinalizeLockedStep, SealStep, DecideStep, PublishStep, CompleteStep, FailFinalizationStep,
     NextInLoopStep, CloseAbortedStep, RetireTemporaryStep, RememberCompletedStep
     DEF ThreadStep

\* Every start of a call keeps the invariant.
LEMMA RequestIInv ==
  ASSUME ConstantsAssumption, IInv, NEW t \in Workers, Request(t)
  PROVE  IInv'
<1>1. t \in Threads
  BY DEF Threads
<1>2. ASSUME NEW id \in FileIds, NEW i \in 0 .. MaxChunks - 1, NEW n \in ChunkSizes, NEW d \in Data,
             WriteChunk(t, id, i, n, d)
      PROVE  IInv'
  <2> DEFINE c == [NoCall EXCEPT !.id = id, !.index = i, !.size = n, !.data = d]
  <2>1. i \in Nat /\ n \in Nat
    BY SMTT(60) DEF ConstantsAssumption
  <2>2. c \in Calls /\ c.id \in FileIds
    BY <2>1 DEF NoCall, Calls, Maybe
  <2>3. Lookup(t, c, "writeLock")
    BY <1>2 DEF WriteChunk
  <2> HIDE DEF c
  <2> QED BY <2>2, <2>3, LookupStep
<1>3. ASSUME NEW id \in FileIds, FinalizeFile(t, id) PROVE IInv'
  <2> DEFINE c == [NoCall EXCEPT !.id = id]
  <2>1. c \in Calls /\ c.id \in FileIds
    BY DEF NoCall, Calls, Maybe
  <2>2. Lookup(t, c, "finalLock")
    BY <1>3 DEF FinalizeFile
  <2> HIDE DEF c
  <2> QED BY <2>1, <2>2, LookupStep
<1>4. ASSUME NEW id \in FileIds, RequestAbort(t, id) PROVE IInv'
  BY <1>1, <1>4, AbortMatchingStep DEF RequestAbort
<1>5. ASSUME NEW o, AbortFilesWithPrefix(t, o) PROVE IInv'
  <2>1. {i \in FileIds : Owner[i] = o} \in SUBSET FileIds
    OBVIOUS
  <2> QED BY <1>1, <1>5, <2>1, AbortMatchingStep DEF AbortFilesWithPrefix
<1> QED BY <1>2, <1>3, <1>4, <1>5 DEF Request

\* IInv is inductive: every step of every thread keeps it, unless a client may
\* come back with an id whose session the server has forgotten.
LEMMA NextIInv ==
  ASSUME ConstantsAssumption, ~ReuseIds, IInv, [Next]_vars
  PROVE  IInv'
<1>1. CASE UNCHANGED vars
  <2>1. UNCHANGED <<maps, uploadVars, diskVars, miscVars, threadVars>>
    BY <1>1 DEF vars
  <2>2. UNCHANGED Shared /\ UNCHANGED <<bytes, writeMutex>>
    BY <2>1 DEF Shared, maps, uploadVars, fixed, progress, flags, diskVars, miscVars
  <2>3. MapTypes' /\ DiskTypes'
    BY <2>1 DEF IInv, TypeOK, MapTypes, DiskTypes, maps, diskVars, miscVars
  <2>4. UploadTypes'
    BY <2>1 DEF IInv, TypeOK, UploadTypes, uploadVars, fixed, progress, flags, miscVars
  <2>5. ThreadTypes'
    BY <2>1 DEF IInv, TypeOK, ThreadTypes, uploadVars, threadVars, miscVars
  <2> QED BY <2>1, <2>2, <2>3, <2>4, <2>5, QuietEnvironment DEF TypeOK
<1>2. CASE ExpireIdleFiles
  <2>1. Reaper \in Threads
    BY DEF Threads
  <2>2. {i \in FileIds : handles[i] # Nil /\ handles[i] \in idle} \in SUBSET FileIds
    OBVIOUS
  <2> QED BY <1>2, <2>1, <2>2, AbortMatchingStep DEF ExpireIdleFiles
<1>3. CASE Environment
  BY <1>3, TimePassesStep, DirectoryStep, RestartStep DEF Environment
<1> QED BY <1>1, <1>2, <1>3, InitFileStep, RequestIInv, ThreadStepIInv DEF Next

\* IInv is an invariant of the upload writer: whatever HTTP threads, the reaper,
\* other programs and restarts do, uploads, maps, reservations and threads fit
\* together as FileWriterInv says.
THEOREM Invariance ==
  ASSUME ~ReuseIds
  PROVE  Spec => []IInv
<1>1. Init => IInv
  BY ConstantsAssumption, InitIInv
<1>2. IInv /\ [Next]_vars => IInv'
  BY ConstantsAssumption, NextIInv
<1> QED BY <1>1, <1>2, PTL DEF Spec

----------------------------------------------------------------------------
(* What follows from it *)

\* The variables keep to their types: no pointer of FileWriter.cpp is followed
\* when it is null, and every name and digest it computes is one.
THEOREM TypeCorrect ==
  ASSUME ~ReuseIds
  PROVE  Spec => []TypeOK
<1>1. IInv => TypeOK
  BY DEF IInv
<1> QED BY <1>1, Invariance, PTL

\* The disk space of a temporary file is charged until the file is gone,
\* whatever fails or is aborted in between.
THEOREM SpaceStaysCharged ==
  ASSUME ~ReuseIds
  PROVE  Spec => []TempIsCharged
<1>1. IInv => TempIsCharged
  <2> SUFFICES ASSUME IInv, NEW u \in Live, tmp[u] # NoFile
               PROVE  u \in Charged
    BY DEF TempIsCharged
  <2>1. u \in reserved /\ sessions[idOf[u]] = u /\ idOf[u] \in FileIds
    BY SMTT(60) DEF IInv, UploadsGood, ReservationsKept, Live, TypeOK, UploadTypes, Maybe
  <2> QED BY <2>1 DEF Charged
<1> QED BY <1>1, Invariance, PTL

\* No abort, expiry or finalization closes or deletes a file under a writer.
THEOREM MappingsOutliveWriters ==
  ASSUME ~ReuseIds
  PROVE  Spec => []NoWriteAfterClose
<1>1. IInv => NoWriteAfterClose
  <2> SUFFICES ASSUME IInv, NEW t \in Threads, pc[t] = "write"
               PROVE  own[t] \in open /\ tmp[own[t]] # NoFile
    BY DEF NoWriteAfterClose
  <2> QED BY DEF IInv, ThreadsGood, ThreadGood, WriterGood, Writing
<1> QED BY <1>1, Invariance, PTL

\* Chunks of one upload are written one after the other, each where the last
\* accepted one ended.
THEOREM WritesAreSerial ==
  ASSUME ~ReuseIds
  PROVE  Spec => []SerialWrites
<1>1. IInv => SerialWrites
  <2> SUFFICES ASSUME IInv, NEW t \in Threads, Writing(t)
               PROVE  /\ call[t].offset = bytes[own[t]]
                      /\ \A r \in Threads \ {t} : Writing(r) => own[r] # own[t]
    BY DEF SerialWrites, Writing
  <2> QED BY SMTT(60) DEF IInv, ThreadsGood, ThreadGood, WriterGood
<1> QED BY <1>1, Invariance, PTL

\* A failed upload has published nothing and never completes; one reported as
\* saved has published.
THEOREM FailureIsClean ==
  ASSUME ~ReuseIds
  PROVE  Spec => []NoPublishAfterFailure
<1>1. IInv => NoPublishAfterFailure
  BY DEF IInv, UploadsGood, OutcomesGood, NoPublishAfterFailure
<1> QED BY <1>1, Invariance, PTL

\* Every step keeps the outcomes that waiting retries may already have read.
THEOREM OutcomesAreFinal ==
  ASSUME ~ReuseIds
  PROVE  Spec => OutcomeIsFinal
<1> DEFINE A == /\ failed \subseteq failed' /\ completed \subseteq completed'
                /\ failed' \cap completed' = {}
                /\ \A u \in completed : result'[u] = result[u]
<1>1. IInv /\ IInv' /\ [Next]_vars => [A]_vars
  <2> SUFFICES ASSUME IInv, IInv', Next PROVE A
    OBVIOUS
  <2>1. failed' \cap completed' = {}
    BY DEF IInv, UploadsGood, OutcomesGood
  <2> DEFINE Q == failed \subseteq failed' /\ UNCHANGED <<completed, result>>
  <2>2. ASSUME NEW t \in Threads, Complete(t) PROVE A
    <3>1. cur[t] \notin completed
      BY <2>2, FinalizerFacts DEF Complete, Finalizing
    <3>2. /\ completed' = completed \cup {cur[t]} /\ failed' = failed
          /\ result' = [result EXCEPT ![cur[t]] = verdict[t]]
      BY <2>2 DEF Complete
    <3>3. completed \subseteq Uploads /\ result \in [Uploads -> Verdicts]
      BY DEF IInv, TypeOK, UploadTypes
    <3> QED BY <2>1, <3>1, <3>2, <3>3
  <2>3. ASSUME NEW id \in FileIds, NEW m \in Metas, InitFile(id, m) PROVE Q
    BY <2>3 DEF InitFile
  <2>4. ASSUME NEW t \in Threads, NEW M, NEW j, AbortMatching(t, M, j) PROVE Q
    BY <2>4 DEF AbortMatching, Matched
  <2>5. ASSUME NEW t \in Threads, NEW c, NEW label, Lookup(t, c, label) PROVE Q
    BY <2>5 DEF Lookup, uploadVars, flags
  <2>6. ASSUME Environment PROVE Q
    <3>1. ASSUME NEW u, TimePasses(u) PROVE Q
      BY <3>1 DEF TimePasses
    <3>2. ASSUME NEW f, IndexFile(f) PROVE Q
      BY <3>2 DEF IndexFile, uploadVars, flags
    <3>3. ASSUME NEW f, NEW c, ExternalChange(f, c) PROVE Q
      BY <3>3 DEF ExternalChange, uploadVars, flags
    <3>4. ASSUME Restart PROVE Q
      BY <3>4 DEF Restart, flags
    <3> QED BY <2>6, <3>1, <3>2, <3>3, <3>4 DEF Environment
  <2>7. ASSUME NEW t \in Threads,
               WriteLocked(t) \/ WriteMappedRange(t) \/ CommitChunk(t) \/ AwaitReturn(t)
        PROVE  Q
    BY <2>7 DEF WriteLocked, WriteMappedRange, CommitChunk, AwaitReturn, flags
  <2>8. ASSUME NEW t \in Threads, FinalizeLocked(t) \/ Seal(t) \/ FailFinalization(t) PROVE Q
    BY <2>8 DEF FinalizeLocked, Seal, FailFinalization, flags
  <2>9. ASSUME NEW t \in Threads, Decide(t) \/ Publish(t) PROVE Q
    BY <2>9 DEF Decide, Publish, uploadVars, flags
  <2>10. ASSUME NEW t \in Threads, NextInLoop(t) \/ CloseAborted(t) \/ RetireTemporary(t)
                                   \/ RememberCompleted(t)
         PROVE  Q
    BY <2>10 DEF NextInLoop, CloseAborted, RetireTemporary, RememberCompleted, flags
  <2>11. Q => A
    BY <2>1
  <2> HIDE DEF A, Q
  <2>12. ASSUME NEW t \in Threads, ThreadStep(t) PROVE A
    BY <2>2, <2>4, <2>7, <2>8, <2>9, <2>10, <2>11, <2>12 DEF ThreadStep, AbortFile
  <2>13. ASSUME NEW t \in Workers, Request(t) PROVE A
    <3>1. t \in Threads
      BY DEF Threads
    <3> QED BY <2>4, <2>5, <2>11, <2>13, <3>1
            DEF Request, WriteChunk, FinalizeFile, RequestAbort, AbortFilesWithPrefix
  <2>14. CASE ExpireIdleFiles
    <3>1. Reaper \in Threads
      BY DEF Threads
    <3> QED BY <2>4, <2>11, <2>14, <3>1 DEF ExpireIdleFiles
  <2> QED BY <2>3, <2>6, <2>11, <2>12, <2>13, <2>14 DEF Next
<1>2. IInv /\ [Next]_vars => IInv'
  BY ConstantsAssumption, NextIInv
<1> QED BY <1>1, <1>2, Invariance, PTL DEF Spec, OutcomeIsFinal

\* A step of the server changes a file of the directory only from absent.
THEOREM FilesAreNeverReplaced ==
  ASSUME ~ReuseIds
  PROVE  Spec => NeverReplaces
<1> DEFINE A == (\E t \in Threads : ThreadStep(t)) =>
                  \A f \in Filenames : disk[f] # NoFile => disk'[f] = disk[f]
<1>1. IInv => [A]_vars
  <2> SUFFICES ASSUME IInv, NEW t \in Threads, ThreadStep(t), NEW f \in Filenames,
                      disk[f] # NoFile
               PROVE  disk'[f] = disk[f]
    OBVIOUS
  <2>1. CASE Publish(t)
    <3>1. \/ UNCHANGED disk
          \/ /\ disk[verdict[t].filename] = NoFile
             /\ disk' = [disk EXCEPT ![verdict[t].filename] = tmp[own[t]]]
      BY <2>1 DEF Publish, MayRename
    <3> QED BY <3>1 DEF IInv, TypeOK, DiskTypes
  <2>2. ~Publish(t) => UNCHANGED disk
    <3>1. CASE WriteLocked(t) \/ WriteMappedRange(t) \/ CommitChunk(t) \/ AwaitReturn(t)
      BY <3>1 DEF WriteLocked, WriteMappedRange, CommitChunk, AwaitReturn, diskVars
    <3>2. CASE FinalizeLocked(t) \/ Seal(t) \/ Decide(t) \/ Complete(t) \/ FailFinalization(t)
      BY <3>2 DEF FinalizeLocked, Seal, Decide, Complete, FailFinalization, diskVars
    <3>3. CASE AbortFile(t) \/ NextInLoop(t) \/ CloseAborted(t)
      BY <3>3 DEF AbortFile, AbortMatching, NextInLoop, CloseAborted, diskVars
    <3>4. CASE RetireTemporary(t) \/ RememberCompleted(t)
      BY <3>4 DEF RetireTemporary, RememberCompleted, diskVars
    <3> QED BY <3>1, <3>2, <3>3, <3>4 DEF ThreadStep
  <2> QED BY <2>1, <2>2
<1> QED BY <1>1, Invariance, PTL DEF NeverReplaces

----------------------------------------------------------------------------
(* The limits of initFile *)

\* However uploads are aborted, expire, fail or cannot be deleted, the temporary
\* files on disk stay within the limits that initFile enforces on admission.
THEOREM FileLimitsHold ==
  ASSUME ~ReuseIds
  PROVE  Spec => []WithinFileLimits
<1>1. Init => ChargesBounded
  <2> SUFFICES ASSUME Init PROVE ChargesBounded
    OBVIOUS
  <2>1. Charged = {} /\ \A o : ChargedTo(o) = {}
    BY DEF Init, Charged, ChargedTo
  <2> QED BY SMTT(60), <2>1, FS_EmptySet, ConstantsAssumption DEF ChargesBounded, ConstantsAssumption
<1>2. IInv /\ ChargesBounded /\ [Next]_vars => ChargesBounded'
  <2> SUFFICES ASSUME IInv, ChargesBounded, [Next]_vars PROVE ChargesBounded'
    OBVIOUS
  <2>1. TypeOK'
    BY ConstantsAssumption, NextIInv DEF IInv
  <2>2. CASE \E id \in FileIds, m \in Metas : InitFile(id, m)
    BY <2>1, <2>2, ConstantsAssumption, AdmissionKeepsLimits
  <2>3. CASE ~\E id \in FileIds, m \in Metas : InitFile(id, m)
    <3>1. Charged' \subseteq Charged /\ \A o : ChargedTo(o)' \subseteq ChargedTo(o)
      BY <2>3, ConstantsAssumption, StepsThatShrink
    <3>2. /\ IsFiniteSet(Charged) /\ Cardinality(Charged) \in Nat
          /\ \A o : IsFiniteSet(ChargedTo(o)) /\ Cardinality(ChargedTo(o)) \in Nat
      BY ConstantsAssumption, ChargedIsFinite DEF IInv
    <3>3. ASSUME NEW S, NEW T, NEW n \in Nat, IsFiniteSet(S), Cardinality(S) \in Nat,
                 Cardinality(S) <= n, T \subseteq S
          PROVE  Cardinality(T) <= n
      <4>1. IsFiniteSet(T) /\ Cardinality(T) <= Cardinality(S)
        BY <3>3, FS_Subset
      <4>2. Cardinality(T) \in Nat
        BY <4>1, FS_CardinalityType
      <4> QED BY SMTT(60), <3>3, <4>1, <4>2
    <3>4. MaxActiveFiles \in Nat /\ MaxOwnerFiles \in Nat
      BY ConstantsAssumption DEF ConstantsAssumption
    <3> QED BY <3>1, <3>2, <3>3, <3>4 DEF ChargesBounded
  <2> QED BY <2>2, <2>3
<1>3. IInv /\ ChargesBounded => WithinFileLimits
  <2> SUFFICES ASSUME IInv, ChargesBounded PROVE WithinFileLimits
    OBVIOUS
  <2>1. Temporaries \subseteq Charged
    BY TemporariesAreCharged
  <2>2. \A o : {u \in Temporaries : Owner[idOf[u]] = o} \subseteq ChargedTo(o)
    BY <2>1 DEF ChargedTo
  <2>3. /\ IsFiniteSet(Charged) /\ Cardinality(Charged) \in Nat
        /\ \A o : IsFiniteSet(ChargedTo(o)) /\ Cardinality(ChargedTo(o)) \in Nat
    BY ConstantsAssumption, ChargedIsFinite DEF IInv
  <2>4. MaxActiveFiles \in Nat /\ MaxOwnerFiles \in Nat
    BY ConstantsAssumption DEF ConstantsAssumption
  <2>5. ASSUME NEW S, NEW T, NEW n \in Nat, IsFiniteSet(S), Cardinality(S) \in Nat,
               Cardinality(S) <= n, T \subseteq S
        PROVE  Cardinality(T) <= n
    <3>1. IsFiniteSet(T) /\ Cardinality(T) <= Cardinality(S)
      BY <2>5, FS_Subset
    <3>2. Cardinality(T) \in Nat
      BY <3>1, FS_CardinalityType
    <3> QED BY SMTT(60), <2>5, <3>1, <3>2
  <2>6. Cardinality(Temporaries) <= MaxActiveFiles
    BY <2>1, <2>3, <2>4, <2>5 DEF ChargesBounded
  <2>7. ASSUME NEW o PROVE Cardinality({u \in Temporaries : Owner[idOf[u]] = o}) <= MaxOwnerFiles
    BY <2>2, <2>3, <2>4, <2>5 DEF ChargesBounded
  <2> QED BY <2>6, <2>7 DEF WithinFileLimits
<1> QED BY <1>1, <1>2, <1>3, Invariance, PTL DEF Spec

\* The same of the limits on bytes: the sizes of the temporary files on disk add
\* up to no more than initFile allows, for the server and for each client.
THEOREM ByteLimitsHold ==
  ASSUME ~ReuseIds
  PROVE  Spec => []WithinByteLimits
<1>1. Init => BytesBounded
  <2> SUFFICES ASSUME Init PROVE BytesBounded
    OBVIOUS
  <2>1. Charged = {} /\ \A o : ChargedTo(o) = {}
    BY DEF Init, Charged, ChargedTo
  <2>2. Bytes(metaOf, {}) = 0
    <3>1. IsFiniteSet({}) /\ \A x \in {} : metaOf[x].size \in Nat
      BY FS_EmptySet
    <3>2. PICK f : Sums(metaOf, {}, f) /\ Bytes(metaOf, {}) = f[{}]
      BY <3>1, BytesFromTable
    <3> QED BY <3>2 DEF Sums
  <2>3. 0 <= MaxReservedBytes /\ 0 <= MaxOwnerBytes
    BY SMTT(60), ConstantsAssumption DEF ConstantsAssumption
  <2> QED BY <2>1, <2>2, <2>3 DEF BytesBounded, BytesOf, Bytes
<1>2. ASSUME IInv, NEW S, NEW T, IsFiniteSet(S), S \subseteq Charged, T \subseteq S,
             NEW m, \A u \in T : m[u] = metaOf[u], NEW n \in Nat, Bytes(metaOf, S) <= n
      PROVE  Bytes(m, T) <= n
  <2>1. \A u \in S : metaOf[u].size \in Nat
    BY <1>2, ConstantsAssumption, ChargedHasSize
  <2>2. T \in SUBSET S /\ \A u \in T : m[u].size = metaOf[u].size
    BY <1>2
  <2>3. Bytes(metaOf, S) \in Nat /\ Bytes(m, T) \in Nat /\ Bytes(m, T) <= Bytes(metaOf, S)
    BY <1>2, <2>1, <2>2, BytesOfFewer
  <2> QED BY SMTT(60), <1>2, <2>3
<1>3. MaxReservedBytes \in Nat /\ MaxOwnerBytes \in Nat
  BY ConstantsAssumption DEF ConstantsAssumption
<1>4. IInv => IsFiniteSet(Charged) /\ \A o : IsFiniteSet(ChargedTo(o)) /\ ChargedTo(o) \subseteq Charged
  BY ConstantsAssumption, ChargedIsFinite DEF IInv, ChargedTo
<1>5. IInv /\ BytesBounded /\ [Next]_vars => BytesBounded'
  <2> SUFFICES ASSUME IInv, BytesBounded, [Next]_vars PROVE BytesBounded'
    OBVIOUS
  <2>1. TypeOK'
    BY ConstantsAssumption, NextIInv DEF IInv
  <2>2. CASE \E id \in FileIds, m \in Metas : InitFile(id, m)
    BY <2>1, <2>2, ConstantsAssumption, AdmissionKeepsBytes
  <2>3. CASE ~\E id \in FileIds, m \in Metas : InitFile(id, m)
    <3>1. /\ Charged' \subseteq Charged /\ \A o : ChargedTo(o)' \subseteq ChargedTo(o)
          /\ \A u : metaOf'[u] = metaOf[u]
      BY <2>3, ConstantsAssumption, StepsThatShrink
    <3>2. /\ Bytes(metaOf, Charged) <= MaxReservedBytes
          /\ \A o : Bytes(metaOf, ChargedTo(o)) <= MaxOwnerBytes
      BY DEF BytesBounded, BytesOf, Bytes
    <3>3. Bytes(metaOf', Charged') <= MaxReservedBytes
      BY <1>2, <1>3, <1>4, <3>1, <3>2
    <3>4. ASSUME NEW o PROVE Bytes(metaOf', ChargedTo(o)') <= MaxOwnerBytes
      <4>1. IsFiniteSet(ChargedTo(o)) /\ ChargedTo(o) \subseteq Charged
        BY <1>4
      <4>2. ChargedTo(o)' \subseteq ChargedTo(o) /\ Bytes(metaOf, ChargedTo(o)) <= MaxOwnerBytes
        BY <3>1, <3>2
      <4>3. \A u \in ChargedTo(o)' : metaOf'[u] = metaOf[u]
        BY <3>1
      <4> QED BY <1>2, <1>3, <4>1, <4>2, <4>3
    <3> QED BY <3>3, <3>4, BytesAfterStep DEF BytesBounded
  <2> QED BY <2>2, <2>3
<1>6. IInv /\ BytesBounded => WithinByteLimits
  <2> SUFFICES ASSUME IInv, BytesBounded PROVE WithinByteLimits
    OBVIOUS
  <2>1. Temporaries \subseteq Charged
    BY TemporariesAreCharged
  <2>2. \A o : {u \in Temporaries : Owner[idOf[u]] = o} \subseteq ChargedTo(o)
    BY <2>1 DEF ChargedTo
  <2>3. /\ Bytes(metaOf, Charged) <= MaxReservedBytes
        /\ \A o : Bytes(metaOf, ChargedTo(o)) <= MaxOwnerBytes
    BY DEF BytesBounded, BytesOf, Bytes
  <2>4. Bytes(metaOf, Temporaries) <= MaxReservedBytes
    BY <1>2, <1>3, <1>4, <2>1, <2>3
  <2>5. ASSUME NEW o
        PROVE  Bytes(metaOf, {u \in Temporaries : Owner[idOf[u]] = o}) <= MaxOwnerBytes
    <3> DEFINE T == {u \in Temporaries : Owner[idOf[u]] = o}
    <3>1. T \subseteq ChargedTo(o)
      BY <2>2
    <3> HIDE DEF T
    <3>2. Bytes(metaOf, T) <= MaxOwnerBytes
      BY <1>2, <1>3, <1>4, <2>3, <3>1
    <3> QED BY <3>2 DEF T
  <2> QED BY <2>4, <2>5 DEF WithinByteLimits, BytesOf, Bytes
<1> QED BY <1>1, <1>5, <1>6, Invariance, PTL DEF Spec
==============================================================================
