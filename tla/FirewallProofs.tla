--------------------------- MODULE FirewallProofs ---------------------------
(***************************************************************************)
(* The kernel holds what the files say whenever no run is under way;       *)
(* profiles that share a main config keep out of each other's way; and the *)
(* read-back tells rulesets apart that treat a packet differently: proofs  *)
(* for any profiles, tables, rulesets, packets and main configs, any       *)
(* number of runs and of faults.                                           *)
(*                                                                         *)
(* The rulesets come first.  The proofs about them are about sequences     *)
(* made by FlattenSeq, and follow what such a sequence has, and what       *)
(* before it (LeadsIn); that a packet meets a rule first is such a fact.   *)
(***************************************************************************)
EXTENDS Firewall, FiniteSetTheorems, SequenceTheorems, WellFoundedInduction, TLAPS

-----------------------------------------------------------------------------
(* A set of numbers has a least one.                                       *)
LEMMA LeastNumber ==
    ASSUME NEW T \in SUBSET Nat, T # {}
    PROVE  \E n \in T : \A m \in T : n <= m
  <1> DEFINE R == OpToRel(<, Nat)
  <1>1. PICK n \in T : \A m \in T : ~ (<<m, n>> \in R)
    BY NatLessThanWellFounded, WFMin, Zenon
  <1>2. \A m \in T : m < n => <<m, n>> \in R  BY DEF OpToRel
  <1> HIDE DEF R
  <1>3. ASSUME NEW m \in T PROVE n <= m
    <2>1. m \in Nat /\ n \in Nat  OBVIOUS
    <2>2. ~ (m < n)  BY <1>1, <1>2
    <2>3. QED  BY <2>1, <2>2
  <1>4. QED  BY <1>3

(* A set of the numbers up to n that has 1, and the next of what it has,   *)
(* has all.                                                                *)
LEMMA OneByOne ==
    ASSUME NEW n \in Nat, NEW Good \in SUBSET (1..n),
           n # 0 => 1 \in Good, \A i \in 2..n : i - 1 \in Good => i \in Good
    PROVE  Good = 1..n
  <1> DEFINE Bad == (1..n) \ Good
  <1>1. SUFFICES ASSUME Bad # {} PROVE FALSE
    OBVIOUS
  <1>2. Bad \in SUBSET Nat  OBVIOUS
  <1> HIDE DEF Bad
  <1>3. PICK k \in Bad : \A m \in Bad : k <= m  BY <1>1, <1>2, LeastNumber
  <1>4. k \in 1..n /\ k \notin Good  BY DEF Bad
  <1>5. k # 1  BY <1>4
  <1>6. k \in 2..n /\ k - 1 \in 1..n /\ k - 1 < k  BY <1>4, <1>5
  <1>7. k - 1 \in Good  BY <1>3, <1>6 DEF Bad
  <1>8. QED  BY <1>4, <1>6, <1>7

-----------------------------------------------------------------------------
(* s has x, before anything in S; s has nothing in S.                      *)
LeadsIn(s, x, S) == \E i \in DOMAIN s : s[i] = x /\ \A j \in 1..i - 1 : s[j] \notin S
Free(s, S) == \A i \in DOMAIN s : s[i] \notin S

(* What a concatenation leads with.                                        *)
LEMMA ConcatLeads ==
    ASSUME NEW X, NEW s \in Seq(X), NEW t \in Seq(X), NEW x, NEW S
    PROVE  /\ LeadsIn(s \o t, x, S) <=> LeadsIn(s, x, S) \/ (Free(s, S) /\ LeadsIn(t, x, S))
           /\ Free(s \o t, S) <=> Free(s, S) /\ Free(t, S)
  <1> DEFINE u == s \o t
             m == Len(s)
             n == Len(t)
  <1>1. /\ m \in Nat /\ n \in Nat /\ DOMAIN s = 1..m /\ DOMAIN t = 1..n
        /\ DOMAIN u = 1..(m + n)
        /\ \A i \in 1..m : u[i] = s[i]
        /\ \A i \in 1..n : u[m + i] = t[i]
    BY ConcatProperties
  <1> HIDE DEF u, m, n
  <1>2. \A i \in 1..(m + n) : i \in 1..m \/ (i - m \in 1..n /\ i = m + (i - m))  BY <1>1
  <1>3. Free(u, S) <=> Free(s, S) /\ Free(t, S)
    <2>1. ASSUME Free(u, S) PROVE Free(s, S) /\ Free(t, S)
      <3>1. \A i \in 1..m : i \in 1..(m + n)  BY <1>1
      <3>2. \A i \in 1..n : m + i \in 1..(m + n)  BY <1>1
      <3>3. QED  BY <1>1, <2>1, <3>1, <3>2 DEF Free
    <2>2. ASSUME Free(s, S), Free(t, S) PROVE Free(u, S)
      <3>1. ASSUME NEW i \in 1..(m + n) PROVE u[i] \notin S
        <4>1. CASE i \in 1..m  BY <1>1, <2>2, <4>1 DEF Free
        <4>2. CASE i \notin 1..m
          <5>1. PICK k \in 1..n : i = m + k  BY <1>2, <4>2
          <5>2. QED  BY <1>1, <2>2, <5>1 DEF Free
        <4>3. QED  BY <4>1, <4>2
      <3>2. QED  BY <1>1, <3>1 DEF Free
    <2>3. QED  BY <2>1, <2>2
  <1>4. ASSUME LeadsIn(u, x, S) PROVE LeadsIn(s, x, S) \/ (Free(s, S) /\ LeadsIn(t, x, S))
    <2>1. PICK i \in 1..(m + n) : u[i] = x /\ \A j \in 1..i - 1 : u[j] \notin S
      BY <1>1, <1>4 DEF LeadsIn
    <2>2. CASE i \in 1..m
      <3>1. \A j \in 1..i - 1 : j \in 1..m  BY <1>1, <2>2
      <3>2. QED  BY <1>1, <2>1, <2>2, <3>1 DEF LeadsIn
    <2>3. CASE i \notin 1..m
      <3> DEFINE k == i - m
      <3>1. k \in 1..n /\ i = m + k  BY <1>2, <2>3
      <3>2. \A j \in 1..k - 1 : j \in 1..n /\ m + j \in 1..i - 1  BY <1>1, <3>1
      <3>3. \A j \in 1..m : j \in 1..i - 1  BY <1>1, <3>1
      <3> HIDE DEF k
      <3>4. LeadsIn(t, x, S)  BY <1>1, <2>1, <3>1, <3>2 DEF LeadsIn
      <3>5. Free(s, S)  BY <1>1, <2>1, <3>3 DEF Free
      <3>6. QED  BY <3>4, <3>5
    <2>4. QED  BY <2>2, <2>3
  <1>5. ASSUME LeadsIn(s, x, S) PROVE LeadsIn(u, x, S)
    <2>1. PICK i \in 1..m : s[i] = x /\ \A j \in 1..i - 1 : s[j] \notin S
      BY <1>1, <1>5 DEF LeadsIn
    <2>2. i \in 1..(m + n) /\ \A j \in 1..i - 1 : j \in 1..m  BY <1>1
    <2>3. QED  BY <1>1, <2>1, <2>2 DEF LeadsIn
  <1>6. ASSUME Free(s, S), LeadsIn(t, x, S) PROVE LeadsIn(u, x, S)
    <2>1. PICK i \in 1..n : t[i] = x /\ \A j \in 1..i - 1 : t[j] \notin S
      BY <1>1, <1>6 DEF LeadsIn
    <2> DEFINE k == m + i
    <2>2. k \in 1..(m + n)  BY <1>1
    <2>3. \A j \in 1..k - 1 : j \in 1..m \/ (j - m \in 1..i - 1 /\ j - m \in 1..n /\ j = m + (j - m))
      BY <1>1
    <2>4. u[k] = x  BY <1>1, <2>1
    <2> HIDE DEF k
    <2>5. \A j \in 1..k - 1 : u[j] \notin S  BY <1>1, <1>6, <2>1, <2>3 DEF Free
    <2>6. QED  BY <1>1, <2>2, <2>4, <2>5 DEF LeadsIn
  <1>7. QED  BY <1>3, <1>4, <1>5, <1>6 DEF u

-----------------------------------------------------------------------------
(* FlattenSeq as the last of its steps: there is such a function of them.  *)
FlatBy(ss, F, i) == IF i = 1 THEN ss[i] ELSE F[i - 1] \o ss[i]

LEMMA FlatExists ==
    ASSUME NEW X, NEW ss \in Seq(Seq(X)), NEW n \in 1..Len(ss)
    PROVE  \E F \in [1..n -> Seq(X)] : F = [i \in 1..n |-> FlatBy(ss, F, i)]
  <1> DEFINE Has(m) == \E F \in [1..m -> Seq(X)] : F = [i \in 1..m |-> FlatBy(ss, F, i)]
             Good == {m \in 1..Len(ss) : Has(m)}
  <1>1. Len(ss) \in Nat /\ \A i \in 1..Len(ss) : ss[i] \in Seq(X)  OBVIOUS
  <1>2. Len(ss) # 0 => 1 \in Good
    <2> DEFINE F == [i \in 1..1 |-> ss[i]]
    <2>1. ASSUME Len(ss) # 0 PROVE Has(1)
      <3>1. 1 \in 1..Len(ss) /\ \A i \in 1..1 : i = 1  BY <1>1, <2>1
      <3>2. F \in [1..1 -> Seq(X)]  BY <1>1, <3>1
      <3>3. \A i \in 1..1 : FlatBy(ss, F, i) = ss[i]  BY <3>1 DEF FlatBy
      <3>4. F = [i \in 1..1 |-> FlatBy(ss, F, i)]  BY <3>3
      <3>5. QED  BY <3>2, <3>4
    <2>2. Len(ss) # 0 => 1 \in 1..Len(ss)  BY <1>1
    <2> HIDE DEF Has
    <2>3. QED  BY <2>1, <2>2
  <1>3. ASSUME NEW m \in 2..Len(ss), m - 1 \in Good PROVE m \in Good
    <2> DEFINE b == m - 1
    <2>1. PICK F \in [1..b -> Seq(X)] : F = [i \in 1..b |-> FlatBy(ss, F, i)]  BY <1>3
    <2>2. b \in 1..b /\ m \in 1..Len(ss) /\ m # 1 /\ b \in Nat /\ m = b + 1  BY <1>1
    <2> HIDE DEF b
    <2> DEFINE H == [i \in 1..m |-> IF i = m THEN F[b] \o ss[m] ELSE F[i]]
    <2>3. H \in [1..m -> Seq(X)]
      <3>1. F[b] \o ss[m] \in Seq(X)  BY <1>1, <2>1, <2>2
      <3>2. \A i \in 1..m : i = m \/ i \in 1..b  BY <2>2
      <3>3. QED  BY <2>1, <3>1, <3>2
    <2>4. \A i \in 1..b : H[i] = F[i]  BY <2>2
    <2>5. H[m] = F[b] \o ss[m]  BY <2>2
    <2> HIDE DEF H
    <2>6. ASSUME NEW i \in 1..m PROVE H[i] = FlatBy(ss, H, i)
      <3>1. CASE i = m
        <4>1. i - 1 = b /\ i # 1  BY <2>2, <3>1
        <4>2. H[i - 1] = F[b]  BY <2>2, <2>4, <4>1
        <4>3. QED  BY <2>5, <3>1, <4>1, <4>2 DEF FlatBy
      <3>2. CASE i # m
        <4>1. i \in 1..b /\ (i # 1 => i - 1 \in 1..b)  BY <2>2, <3>2
        <4>2. F[i] = FlatBy(ss, F, i)  BY <2>1, <4>1
        <4>3. QED  BY <2>4, <4>1, <4>2 DEF FlatBy
      <3>3. QED  BY <3>1, <3>2
    <2>7. H = [i \in 1..m |-> FlatBy(ss, H, i)]  BY <2>3, <2>6
    <2>8. QED  BY <2>2, <2>3, <2>7
  <1>4. Good \in SUBSET (1..Len(ss))  OBVIOUS
  <1> HIDE DEF Good
  <1>5. Good = 1..Len(ss)  BY <1>1, <1>2, <1>3, <1>4, OneByOne
  <1>6. n \in Good  BY <1>5
  <1>7. QED  BY <1>6 DEF Good

(* FlattenSeq of no sequence, of one, and of one more.                     *)
LEMMA FlatFacts ==
    ASSUME NEW X, NEW ss \in Seq(Seq(X)), ss # <<>>
    PROVE  \E F \in [1..Len(ss) -> Seq(X)] :
             /\ F[1] = ss[1] /\ FlattenSeq(ss) = F[Len(ss)]
             /\ \A i \in 2..Len(ss) : F[i] = F[i - 1] \o ss[i]
  <1> DEFINE n == Len(ss)
             Is(F) == F = [i \in 1..n |-> FlatBy(ss, F, i)]
             N == CHOOSE F : Is(F)
  <1>1. n \in Nat /\ n # 0 /\ n \in 1..n  OBVIOUS
  <1>2. PICK G \in [1..n -> Seq(X)] : Is(G)  BY <1>1, FlatExists
  <1>3. Is(N)  BY <1>2
  <1>4. FlattenSeq(ss) = N[n]
    BY <1>1, Zenon DEF FlattenSeq, FlatBy
  <1> HIDE DEF N, n
  <1>5. \A i \in 1..n : N[i] = FlatBy(ss, N, i) /\ G[i] = FlatBy(ss, G, i)  BY <1>2, <1>3
  <1>6. DOMAIN N = 1..n  BY <1>3
  <1> DEFINE Good == {i \in 1..n : N[i] = G[i]}
  <1>7. 1 \in 1..n /\ \A i \in 2..n : i \in 1..n /\ i # 1  BY <1>1
  <1>8. 1 \in Good  BY <1>5, <1>7 DEF FlatBy
  <1>9. \A i \in 2..n : i - 1 \in Good => i \in Good  BY <1>5, <1>7 DEF FlatBy
  <1>10. Good \in SUBSET (1..n)  OBVIOUS
  <1> HIDE DEF Good
  <1>11. Good = 1..n  BY <1>1, <1>8, <1>9, <1>10, OneByOne
  <1>12. \A i \in 1..n : N[i] = G[i]  BY <1>11 DEF Good
  <1>13. G[1] = ss[1] /\ \A i \in 2..n : G[i] = G[i - 1] \o ss[i]  BY <1>5, <1>7 DEF FlatBy
  <1>14. FlattenSeq(ss) = G[n]  BY <1>1, <1>4, <1>12
  <1>15. QED  BY <1>2, <1>13, <1>14 DEF n

LEMMA FlatEmpty == FlattenSeq(<<>>) = <<>>
  BY Zenon DEF FlattenSeq

(* Concatenated, the sequences of ss have what they have in their order.   *)
FlatLead(s, ss, n, x, S) ==
    LeadsIn(s, x, S) <=> \E k \in 1..n : LeadsIn(ss[k], x, S) /\ \A j \in 1..k - 1 : Free(ss[j], S)

FlatFree(s, ss, n, S) == Free(s, S) <=> \A k \in 1..n : Free(ss[k], S)

LEMMA FlatLeads ==
    ASSUME NEW X, NEW ss \in Seq(Seq(X)), NEW x, NEW S
    PROVE  /\ FlattenSeq(ss) \in Seq(X)
           /\ FlatLead(FlattenSeq(ss), ss, Len(ss), x, S)
           /\ FlatFree(FlattenSeq(ss), ss, Len(ss), S)
  <1>1. CASE ss = <<>>
    <2>1. Len(ss) = 0 /\ FlattenSeq(ss) = <<>>  BY <1>1, FlatEmpty
    <2>2. \A k \in 1..0 : FALSE  OBVIOUS
    <2>3. ~LeadsIn(<<>>, x, S) /\ Free(<<>>, S)  BY DEF LeadsIn, Free
    <2>4. QED  BY <2>1, <2>2, <2>3 DEF FlatLead, FlatFree
  <1>2. CASE ss # <<>>
    <2> DEFINE n == Len(ss)
               Holds(F, i) == FlatLead(F[i], ss, i, x, S) /\ FlatFree(F[i], ss, i, S)
    <2>1. n \in Nat /\ n # 0 /\ n \in 1..n /\ \A i \in 1..n : ss[i] \in Seq(X)
      BY <1>2
    <2>2. PICK F \in [1..n -> Seq(X)] :
            /\ F[1] = ss[1] /\ FlattenSeq(ss) = F[n]
            /\ \A i \in 2..n : F[i] = F[i - 1] \o ss[i]
      BY <1>2, FlatFacts
    <2> HIDE DEF n
    <2> DEFINE Good == {i \in 1..n : Holds(F, i)}
    <2>3. 1 \in Good
      <3>1. 1 \in 1..n /\ 1..1 = {1} /\ 1..1 - 1 = {}  BY <2>1
      <3>2. FlatLead(F[1], ss, 1, x, S)  BY <2>2, <3>1 DEF FlatLead
      <3>3. FlatFree(F[1], ss, 1, S)  BY <2>2, <3>1 DEF FlatFree
      <3>4. QED  BY <3>1, <3>2, <3>3
    <2>4. ASSUME NEW i \in 2..n, i - 1 \in Good PROVE i \in Good
      <3> DEFINE b == i - 1
      <3>1. b \in 1..n /\ i \in 1..n /\ i \in Nat /\ b \in Nat /\ i = b + 1  BY <2>1
      <3>2. F[i] = F[b] \o ss[i] /\ F[b] \in Seq(X) /\ ss[i] \in Seq(X)  BY <2>1, <2>2, <3>1
      <3>3. FlatLead(F[b], ss, b, x, S) /\ FlatFree(F[b], ss, b, S)  BY <2>4
      <3> HIDE DEF b
      <3>4. /\ LeadsIn(F[i], x, S) <=> LeadsIn(F[b], x, S) \/ (Free(F[b], S) /\ LeadsIn(ss[i], x, S))
            /\ Free(F[i], S) <=> Free(F[b], S) /\ Free(ss[i], S)
        <4>1. /\ LeadsIn(F[b] \o ss[i], x, S)
                   <=> LeadsIn(F[b], x, S) \/ (Free(F[b], S) /\ LeadsIn(ss[i], x, S))
              /\ Free(F[b] \o ss[i], S) <=> Free(F[b], S) /\ Free(ss[i], S)
          BY <3>2, ConcatLeads, Zenon
        <4>2. QED  BY <3>2, <4>1, Zenon
      <3>5. 1..i = 1..b \cup {i} /\ 1..i - 1 = 1..b  BY <3>1
      <3>6. FlatFree(F[i], ss, i, S)  BY <3>3, <3>4, <3>5 DEF FlatFree
      <3>7. FlatLead(F[i], ss, i, x, S)
        <4> DEFINE At(k) == LeadsIn(ss[k], x, S) /\ \A j \in 1..k - 1 : Free(ss[j], S)
        <4>1. LeadsIn(F[b], x, S) <=> \E k \in 1..b : At(k)  BY <3>3, Zenon DEF FlatLead
        <4>2. Free(F[b], S) /\ LeadsIn(ss[i], x, S) <=> At(i)  BY <3>3, <3>5 DEF FlatFree
        <4> HIDE DEF At
        <4>3. LeadsIn(F[i], x, S) <=> \E k \in 1..i : At(k)  BY <3>4, <3>5, <4>1, <4>2, Zenon
        <4>4. QED  BY <4>3, Zenon DEF FlatLead, At
      <3>8. QED  BY <3>1, <3>6, <3>7
    <2>5. Good \in SUBSET (1..n)  OBVIOUS
    <2> HIDE DEF Good
    <2>6. Good = 1..n  BY <2>1, <2>3, <2>4, <2>5, OneByOne
    <2>7. Holds(F, n)  BY <2>1, <2>6 DEF Good
    <2>8. QED  BY <2>1, <2>2, <2>7 DEF n
  <1>3. QED  BY <1>1, <1>2

(* What is in one of two disjoint sequences without repetitions only.      *)
LEMMA ConcatInjective ==
    ASSUME NEW X, NEW s \in Seq(X), NEW t \in Seq(X), IsInjective(s), IsInjective(t),
           \A i \in DOMAIN s, j \in DOMAIN t : s[i] # t[j]
    PROVE  IsInjective(s \o t)
  <1> DEFINE u == s \o t
             m == Len(s)
             n == Len(t)
  <1>1. /\ m \in Nat /\ n \in Nat /\ DOMAIN s = 1..m /\ DOMAIN t = 1..n
        /\ DOMAIN u = 1..(m + n)
        /\ \A i \in 1..m : u[i] = s[i]
        /\ \A i \in 1..n : u[m + i] = t[i]
    BY ConcatProperties
  <1> HIDE DEF u, m, n
  <1>2. \A i \in 1..(m + n) : i \in 1..m \/ \E k \in 1..n : i = m + k
    <2>1. \A i \in 1..(m + n) : i \in 1..m \/ (i - m \in 1..n /\ i = m + (i - m))  BY <1>1
    <2>2. QED  BY <2>1
  <1>3. ASSUME NEW i \in 1..(m + n), NEW j \in 1..(m + n), u[i] = u[j] PROVE i = j
    <2>1. CASE i \in 1..m /\ j \in 1..m  BY <1>1, <1>3, <2>1 DEF IsInjective
    <2>2. CASE i \in 1..m /\ j \notin 1..m
      <3>1. PICK k \in 1..n : j = m + k  BY <1>2, <2>2
      <3>2. QED  BY <1>1, <1>3, <2>2, <3>1
    <2>3. CASE i \notin 1..m /\ j \in 1..m
      <3>1. PICK k \in 1..n : i = m + k  BY <1>2, <2>3
      <3>2. QED  BY <1>1, <1>3, <2>3, <3>1
    <2>4. CASE i \notin 1..m /\ j \notin 1..m
      <3>1. PICK k \in 1..n : i = m + k  BY <1>2, <2>4
      <3>2. PICK l \in 1..n : j = m + l  BY <1>2, <2>4
      <3>3. t[k] = t[l]  BY <1>1, <1>3, <3>1, <3>2
      <3>4. k = l  BY <1>1, <3>3 DEF IsInjective
      <3>5. QED  BY <3>1, <3>2, <3>4
    <2>5. QED  BY <2>1, <2>2, <2>3, <2>4
  <1>4. QED  BY <1>1, <1>3 DEF u, IsInjective

Disjoint(s, t) == \A i \in DOMAIN s, j \in DOMAIN t : s[i] # t[j]

LEMMA FlatInjective ==
    ASSUME NEW X, NEW ss \in Seq(Seq(X)),
           \A k \in 1..Len(ss) : IsInjective(ss[k]),
           \A k, l \in 1..Len(ss) : k < l => Disjoint(ss[k], ss[l])
    PROVE  IsInjective(FlattenSeq(ss))
  <1>1. CASE ss = <<>>
    BY <1>1, FlatEmpty DEF IsInjective
  <1>2. CASE ss # <<>>
    <2> DEFINE n == Len(ss)
    <2>1. n \in Nat /\ n # 0 /\ n \in 1..n /\ \A i \in 1..n : ss[i] \in Seq(X)
      BY <1>2
    <2>2. PICK F \in [1..n -> Seq(X)] :
            /\ F[1] = ss[1] /\ FlattenSeq(ss) = F[n]
            /\ \A i \in 2..n : F[i] = F[i - 1] \o ss[i]
      BY <1>2, FlatFacts
    <2>3. /\ \A k \in 1..n : IsInjective(ss[k])
          /\ \A k, l \in 1..n : k < l => Disjoint(ss[k], ss[l])
      OBVIOUS
    <2> HIDE DEF n
    <2> DEFINE Good == {i \in 1..n : IsInjective(F[i]) /\ \A l \in 1..n : i < l => Disjoint(F[i], ss[l])}
    <2>4. 1 \in Good  BY <2>1, <2>2, <2>3
    <2>5. ASSUME NEW i \in 2..n, i - 1 \in Good PROVE i \in Good
      <3> DEFINE b == i - 1
      <3>1. b \in 1..n /\ i \in 1..n /\ i \in Nat /\ b \in Nat /\ i = b + 1 /\ b < i  BY <2>1
      <3>2. F[i] = F[b] \o ss[i] /\ F[b] \in Seq(X) /\ ss[i] \in Seq(X)  BY <2>1, <2>2, <3>1
      <3>3. IsInjective(F[b]) /\ \A l \in 1..n : b < l => Disjoint(F[b], ss[l])  BY <2>5
      <3> HIDE DEF b
      <3>4. IsInjective(F[i])
        <4>1. Disjoint(F[b], ss[i]) /\ IsInjective(ss[i])  BY <2>3, <3>1, <3>3
        <4>2. QED  BY <3>2, <3>3, <4>1, ConcatInjective DEF Disjoint
      <3>5. ASSUME NEW l \in 1..n, i < l PROVE Disjoint(F[i], ss[l])
        <4>1. b < l  BY <3>1, <3>5
        <4>2. Disjoint(F[b], ss[l]) /\ Disjoint(ss[i], ss[l])  BY <2>3, <3>1, <3>3, <3>5, <4>1
        <4> DEFINE S == {ss[l][j] : j \in DOMAIN ss[l]}
        <4>3. Free(F[b], S) /\ Free(ss[i], S)  BY <4>2 DEF Disjoint, Free
        <4>4. Free(F[i], S)  BY <3>2, <4>3, ConcatLeads
        <4>5. QED  BY <4>4 DEF Disjoint, Free
      <3>6. QED  BY <3>1, <3>4, <3>5
    <2>6. Good \in SUBSET (1..n)  OBVIOUS
    <2> HIDE DEF Good
    <2>7. Good = 1..n  BY <2>1, <2>4, <2>5, <2>6, OneByOne
    <2>8. QED  BY <2>1, <2>2, <2>7 DEF Good
  <1>3. QED  BY <1>1, <1>2
(* A sequence of one element.                                              *)
LEMMA SingleFacts ==
    ASSUME NEW e, NEW x, NEW S
    PROVE  /\ LeadsIn(<<e>>, x, S) <=> e = x
           /\ Free(<<e>>, S) <=> e \notin S
           /\ IsInjective(<<e>>) /\ IsInjective(<<>>)
           /\ ~LeadsIn(<<>>, x, S) /\ Free(<<>>, S)
  <1>1. DOMAIN <<e>> = {1} /\ <<e>>[1] = e /\ 1..1 - 1 = {}  OBVIOUS
  <1>2. DOMAIN <<>> = {}  OBVIOUS
  <1>3. (LeadsIn(<<e>>, x, S) <=> e = x) /\ (Free(<<e>>, S) <=> e \notin S)
    BY <1>1 DEF LeadsIn, Free
  <1>4. IsInjective(<<e>>) /\ IsInjective(<<>>)  BY <1>1, <1>2 DEF IsInjective
  <1>5. ~LeadsIn(<<>>, x, S) /\ Free(<<>>, S)  BY <1>2 DEF LeadsIn, Free
  <1>6. QED  BY <1>3, <1>4, <1>5

(* One element, or none.                                                   *)
LEMMA IfFacts ==
    ASSUME NEW X, NEW e \in X, NEW cond \in BOOLEAN, NEW x, NEW S
    PROVE  /\ If(cond, <<e>>) \in Seq(X)
           /\ LeadsIn(If(cond, <<e>>), x, S) <=> cond /\ e = x
           /\ Free(If(cond, <<e>>), S) <=> ~(cond /\ e \in S)
           /\ IsInjective(If(cond, <<e>>))
  <1>1. cond => If(cond, <<e>>) = <<e>>  BY DEF If
  <1>2. ~cond => If(cond, <<e>>) = <<>>  BY DEF If
  <1>3. <<e>> \in Seq(X) /\ <<>> \in Seq(X)  OBVIOUS
  <1>4. If(cond, <<e>>) \in Seq(X)  BY <1>1, <1>2, <1>3
  <1>5. LeadsIn(If(cond, <<e>>), x, S) <=> cond /\ e = x  BY <1>1, <1>2, SingleFacts
  <1>6. Free(If(cond, <<e>>), S) <=> ~(cond /\ e \in S)
    <2>1. (Free(<<e>>, S) <=> e \notin S) /\ Free(<<>>, S)  BY SingleFacts
    <2>2. QED  BY <1>1, <1>2, <2>1
  <1>7. IsInjective(If(cond, <<e>>))  BY <1>1, <1>2, SingleFacts
  <1>8. QED  BY <1>4, <1>5, <1>6, <1>7

-----------------------------------------------------------------------------
(* The elements of a sequence at the positions Keep.                       *)
Select(s, Keep) == FlattenSeq([k \in DOMAIN s |-> If(k \in Keep, <<s[k]>>)])

(* The elements kept, in their order.                                      *)
LEMMA Selected ==
    ASSUME NEW X, NEW s \in Seq(X), NEW Keep \in SUBSET (1..Len(s)), NEW x, NEW S
    PROVE  /\ Select(s, Keep) \in Seq(X)
           /\ LeadsIn(Select(s, Keep), x, S) <=>
                \E k \in Keep : s[k] = x /\ \A j \in 1..k - 1 : j \in Keep => s[j] \notin S
           /\ Free(Select(s, Keep), S) <=> \A k \in Keep : s[k] \notin S
           /\ (\A k, l \in Keep : s[k] = s[l] => k = l) => IsInjective(Select(s, Keep))
  <1> DEFINE n == Len(s)
             ss == [k \in DOMAIN s |-> If(k \in Keep, <<s[k]>>)]
             t == FlattenSeq(ss)
  <1>1. n \in Nat /\ DOMAIN s = 1..n /\ \A k \in 1..n : s[k] \in X  OBVIOUS
  <1> HIDE DEF n
  <1>2. \A k \in 1..n :
          /\ ss[k] \in Seq(X)
          /\ LeadsIn(ss[k], x, S) <=> k \in Keep /\ s[k] = x
          /\ Free(ss[k], S) <=> ~(k \in Keep /\ s[k] \in S)
          /\ IsInjective(ss[k])
    <2>1. TAKE k \in 1..n
    <2>2. ss[k] = If(k \in Keep, <<s[k]>>)  BY <1>1
    <2>3. (k \in Keep) \in BOOLEAN /\ s[k] \in X  BY <1>1
    <2> HIDE DEF ss
    <2> DEFINE e == s[k]
               kept == k \in Keep
    <2>4. e \in X /\ kept \in BOOLEAN  BY <2>3
    <2> HIDE DEF e, kept
    <2>5. If(kept, <<e>>) \in Seq(X)  BY <2>4, IfFacts
    <2>6. LeadsIn(If(kept, <<e>>), x, S) <=> kept /\ e = x  BY <2>4, IfFacts
    <2>7. Free(If(kept, <<e>>), S) <=> ~(kept /\ e \in S)  BY <2>4, IfFacts
    <2>8. IsInjective(If(kept, <<e>>))  BY <2>4, IfFacts
    <2>9. ss[k] = If(kept, <<e>>)  BY <2>2 DEF e, kept
    <2>10. QED  BY <2>5, <2>6, <2>7, <2>8, <2>9 DEF e, kept
  <1>3. ss \in Seq(Seq(X)) /\ Len(ss) = n
    <2>1. ss = [k \in 1..n |-> ss[k]]  BY <1>1
    <2> HIDE DEF ss
    <2>2. ss \in [1..n -> Seq(X)]  BY <1>2, <2>1
    <2>3. QED  BY <1>1, <2>2
  <1> HIDE DEF ss
  <1>4. t \in Seq(X) /\ FlatLead(t, ss, n, x, S) /\ FlatFree(t, ss, n, S)
    BY <1>3, FlatLeads
  <1>5. Keep \subseteq 1..n  BY DEF n
  <1>6. \A k \in 1..n : \A j \in 1..k - 1 : j \in 1..n  BY <1>1
  <1>7. LeadsIn(t, x, S) <=>
          \E k \in Keep : s[k] = x /\ \A j \in 1..k - 1 : j \in Keep => s[j] \notin S
    <2>1. LeadsIn(t, x, S) <=>
            \E k \in 1..n : LeadsIn(ss[k], x, S) /\ \A j \in 1..k - 1 : Free(ss[j], S)
      BY <1>4, Zenon DEF FlatLead
    <2> HIDE DEF t
    <2>2. QED  BY <1>2, <1>5, <1>6, <2>1
  <1>8. Free(t, S) <=> \A k \in Keep : s[k] \notin S
    BY <1>2, <1>4, <1>5 DEF FlatFree
  <1>9. ASSUME \A k, l \in Keep : s[k] = s[l] => k = l
        PROVE  IsInjective(t)
    <2>1. ASSUME NEW k \in 1..n, NEW l \in 1..n, k < l PROVE Disjoint(ss[k], ss[l])
      <3>1. k # l  BY <2>1
      <3>2. DOMAIN ss = 1..n /\ ss[k] = If(k \in Keep, <<s[k]>>) /\ ss[l] = If(l \in Keep, <<s[l]>>)
        BY <1>1 DEF ss
      <3>3. CASE k \in Keep /\ l \in Keep
        <4>1. s[k] # s[l]  BY <1>9, <3>1, <3>3
        <4>2. ss[k] = <<s[k]>> /\ ss[l] = <<s[l]>>  BY <3>2, <3>3 DEF If
        <4>3. QED  BY <4>1, <4>2 DEF Disjoint
      <3>4. CASE ~(k \in Keep /\ l \in Keep)
        <4>1. ss[k] = <<>> \/ ss[l] = <<>>  BY <3>2, <3>4 DEF If
        <4>2. QED  BY <4>1 DEF Disjoint
      <3>5. QED  BY <3>3, <3>4
    <2>2. QED  BY <1>2, <1>3, <2>1, FlatInjective
  <1>10. QED  BY <1>4, <1>7, <1>8, <1>9 DEF ss, Select

(* The elements of a set, in their order.                                  *)
LEMMA ThoseFacts ==
    ASSUME NEW X, NEW s \in Seq(X), NEW P, NEW x, NEW S
    PROVE  /\ Those(s, P) \in Seq(X)
           /\ LeadsIn(Those(s, P), x, S) <=> x \in P /\ LeadsIn(s, x, S \cap P)
           /\ Free(Those(s, P), S) <=> Free(s, S \cap P)
           /\ IsInjective(s) => IsInjective(Those(s, P))
  <1> DEFINE Keep == {k \in 1..Len(s) : s[k] \in P}
             t == Select(s, Keep)
  <1>1. DOMAIN s = 1..Len(s) /\ Len(s) \in Nat /\ Keep \in SUBSET (1..Len(s))  OBVIOUS
  <1>2. \A k \in DOMAIN s : k \in Keep <=> s[k] \in P  BY <1>1
  <1>3. Those(s, P) = t
    <2> HIDE DEF Keep
    <2>1. \A k \in DOMAIN s : If(k \in Keep, <<s[k]>>) = If(s[k] \in P, <<s[k]>>)
      BY <1>2 DEF If
    <2>2. QED  BY <2>1, Zenon DEF Those, Select
  <1> HIDE DEF Keep
  <1>4. /\ t \in Seq(X)
        /\ LeadsIn(t, x, S) <=>
             \E k \in Keep : s[k] = x /\ \A j \in 1..k - 1 : j \in Keep => s[j] \notin S
        /\ Free(t, S) <=> \A k \in Keep : s[k] \notin S
        /\ (\A k, l \in Keep : s[k] = s[l] => k = l) => IsInjective(t)
    <2>1. t \in Seq(X)  BY <1>1, Selected
    <2>2. LeadsIn(t, x, S) <=>
            \E k \in Keep : s[k] = x /\ \A j \in 1..k - 1 : j \in Keep => s[j] \notin S
      BY <1>1, Selected
    <2>3. Free(t, S) <=> \A k \in Keep : s[k] \notin S  BY <1>1, Selected
    <2>4. (\A k, l \in Keep : s[k] = s[l] => k = l) => IsInjective(t)  BY <1>1, Selected
    <2>5. QED  BY <2>1, <2>2, <2>3, <2>4
  <1> HIDE DEF t
  <1>5. \A k \in DOMAIN s : \A j \in 1..k - 1 : j \in DOMAIN s  BY <1>1
  <1>6. Keep \subseteq DOMAIN s  BY <1>1
  <1>7. LeadsIn(t, x, S) <=> x \in P /\ LeadsIn(s, x, S \cap P)
    BY <1>2, <1>4, <1>5, <1>6 DEF LeadsIn
  <1>8. Free(t, S) <=> Free(s, S \cap P)  BY <1>2, <1>4, <1>6 DEF Free
  <1>9. IsInjective(s) => IsInjective(t)  BY <1>4, <1>6 DEF IsInjective
  <1>10. QED  BY <1>3, <1>4, <1>7, <1>8, <1>9

(* The first of every value: no value twice, and in the same order.        *)
LEMMA DistinctFacts ==
    ASSUME NEW X, NEW s \in Seq(X), NEW x, NEW S
    PROVE  /\ Distinct(s) \in Seq(X) /\ IsInjective(Distinct(s))
           /\ LeadsIn(Distinct(s), x, S) <=> LeadsIn(s, x, S)
           /\ Free(Distinct(s), S) <=> Free(s, S)
  <1> DEFINE Keep == {k \in 1..Len(s) : \A l \in 1..k - 1 : s[l] # s[k]}
             t == Select(s, Keep)
  <1>1. DOMAIN s = 1..Len(s) /\ Len(s) \in Nat /\ Keep \in SUBSET (1..Len(s))  OBVIOUS
  <1>2. \A k \in DOMAIN s : k \in Keep <=> \A l \in 1..k - 1 : s[l] # s[k]  BY <1>1
  <1>3. Distinct(s) = t
    <2> HIDE DEF Keep
    <2>1. \A k \in DOMAIN s :
            If(k \in Keep, <<s[k]>>) = If(\A l \in 1..k - 1 : s[l] # s[k], <<s[k]>>)
      BY <1>2, Zenon DEF If
    <2>2. QED  BY <2>1, Zenon DEF Distinct, Select
  <1>4. ASSUME NEW k \in DOMAIN s PROVE \E f \in Keep : s[f] = s[k] /\ f <= k
    <2> DEFINE T == {f \in 1..Len(s) : s[f] = s[k]}
    <2>1. T \in SUBSET Nat /\ k \in T  BY <1>1
    <2>2. PICK f \in T : \A g \in T : f <= g  BY <2>1, LeastNumber
    <2>3. f \in 1..Len(s) /\ s[f] = s[k] /\ f <= k  BY <2>1, <2>2
    <2>4. ASSUME NEW l \in 1..f - 1 PROVE s[l] # s[f]
      <3>1. l \in 1..Len(s) /\ ~(f <= l)  BY <1>1, <2>3
      <3>2. QED  BY <2>2, <2>3, <3>1
    <2>5. QED  BY <2>3, <2>4
  <1> HIDE DEF Keep
  <1>5. /\ t \in Seq(X)
        /\ LeadsIn(t, x, S) <=>
             \E k \in Keep : s[k] = x /\ \A j \in 1..k - 1 : j \in Keep => s[j] \notin S
        /\ Free(t, S) <=> \A k \in Keep : s[k] \notin S
        /\ (\A k, l \in Keep : s[k] = s[l] => k = l) => IsInjective(t)
    <2>1. t \in Seq(X)  BY <1>1, Selected
    <2>2. LeadsIn(t, x, S) <=>
            \E k \in Keep : s[k] = x /\ \A j \in 1..k - 1 : j \in Keep => s[j] \notin S
      BY <1>1, Selected
    <2>3. Free(t, S) <=> \A k \in Keep : s[k] \notin S  BY <1>1, Selected
    <2>4. (\A k, l \in Keep : s[k] = s[l] => k = l) => IsInjective(t)  BY <1>1, Selected
    <2>5. QED  BY <2>1, <2>2, <2>3, <2>4
  <1> HIDE DEF t
  <1>6. \A k \in DOMAIN s : \A j \in 1..k - 1 : j \in DOMAIN s  BY <1>1
  <1>7. Keep \subseteq DOMAIN s  BY <1>1
  <1>8. ASSUME LeadsIn(t, x, S) PROVE LeadsIn(s, x, S)
    <2>1. PICK k \in Keep : s[k] = x /\ \A j \in 1..k - 1 : j \in Keep => s[j] \notin S
      BY <1>5, <1>8
    <2>2. ASSUME NEW j \in 1..k - 1 PROVE s[j] \notin S
      <3>1. j \in DOMAIN s  BY <1>6, <1>7, <2>2
      <3>2. PICK f \in Keep : s[f] = s[j] /\ f <= j  BY <1>4, <3>1
      <3>3. f \in 1..k - 1  BY <1>1, <1>7, <2>2, <3>2
      <3>4. QED  BY <2>1, <3>2, <3>3
    <2>3. QED  BY <1>7, <2>1, <2>2 DEF LeadsIn
  <1>9. ASSUME LeadsIn(s, x, S) PROVE LeadsIn(t, x, S)
    <2>1. PICK k \in DOMAIN s : s[k] = x /\ \A j \in 1..k - 1 : s[j] \notin S
      BY <1>9 DEF LeadsIn
    <2>2. PICK f \in Keep : s[f] = s[k] /\ f <= k  BY <1>4
    <2>3. \A j \in 1..f - 1 : j \in 1..k - 1  BY <1>1, <1>7, <2>2
    <2>4. QED  BY <1>5, <2>1, <2>2, <2>3
  <1>10. Free(t, S) <=> Free(s, S)
    <2>1. ASSUME Free(t, S), NEW k \in DOMAIN s PROVE s[k] \notin S
      BY <1>4, <1>5, <2>1
    <2>2. QED  BY <1>5, <1>7, <2>1 DEF Free
  <1>11. IsInjective(t)
    <2>1. ASSUME NEW k \in Keep, NEW l \in Keep, s[k] = s[l] PROVE k = l
      <3>1. k \in 1..Len(s) /\ l \in 1..Len(s)  BY <1>1
      <3>2. k \notin 1..l - 1 /\ l \notin 1..k - 1  BY <1>2, <1>7, <2>1
      <3>3. QED  BY <1>1, <3>1, <3>2
    <2>2. QED  BY <1>5, <2>1
  <1>12. QED  BY <1>3, <1>5, <1>8, <1>9, <1>10, <1>11

-----------------------------------------------------------------------------
(* Two sequences without repetitions that have the same in the same order  *)
(* are the same sequence.                                                  *)
Pre(s, x) == {y \in ToSet(s) : y # x /\ LeadsIn(s, y, {x})}

(* Where an element is in a sequence without repetitions is how many are   *)
(* before it.                                                              *)
LEMMA Position ==
    ASSUME NEW X, NEW s \in Seq(X), IsInjective(s), NEW k \in DOMAIN s
    PROVE  IsFiniteSet(Pre(s, s[k])) /\ Cardinality(Pre(s, s[k])) = k - 1
  <1>1. Len(s) \in Nat /\ DOMAIN s = 1..Len(s)  OBVIOUS
  <1> DEFINE f == [i \in 1..k - 1 |-> s[i]]
  <1>2. Pre(s, s[k]) = {s[i] : i \in 1..k - 1}
    <2>1. ASSUME NEW i \in 1..k - 1 PROVE s[i] \in Pre(s, s[k])
      <3>1. i \in DOMAIN s /\ i # k  BY <1>1
      <3>2. s[i] # s[k]  BY <3>1 DEF IsInjective
      <3>3. ASSUME NEW j \in 1..i - 1 PROVE s[j] \notin {s[k]}
        <4>1. j \in DOMAIN s /\ j # k  BY <1>1
        <4>2. QED  BY <4>1 DEF IsInjective
      <3>4. LeadsIn(s, s[i], {s[k]})  BY <3>1, <3>3 DEF LeadsIn
      <3>5. QED  BY <3>1, <3>2, <3>4 DEF Pre, ToSet
    <2>2. ASSUME NEW y \in Pre(s, s[k]) PROVE \E i \in 1..k - 1 : y = s[i]
      <3>1. y # s[k] /\ LeadsIn(s, y, {s[k]})  BY DEF Pre
      <3>2. PICK i \in DOMAIN s : s[i] = y /\ \A j \in 1..i - 1 : s[j] \notin {s[k]}
        BY <3>1 DEF LeadsIn
      <3>3. k \notin 1..i - 1 /\ i # k  BY <3>1, <3>2
      <3>4. i \in 1..k - 1  BY <1>1, <3>3
      <3>5. QED  BY <3>2, <3>4
    <2>3. QED  BY <2>1, <2>2
  <1>3. f \in Bijection(1..k - 1, Pre(s, s[k]))
    <2>1. \A i, j \in 1..k - 1 : s[i] = s[j] => i = j  BY <1>1 DEF IsInjective
    <2>2. f \in [1..k - 1 -> Pre(s, s[k])]  BY <1>2
    <2>3. f \in Injection(1..k - 1, Pre(s, s[k]))  BY <2>1, <2>2 DEF Injection, IsInjective
    <2>4. f \in Surjection(1..k - 1, Pre(s, s[k]))  BY <1>2, <2>2 DEF Surjection
    <2>5. QED  BY <2>3, <2>4 DEF Bijection
  <1>4. k - 1 \in Nat /\ IsFiniteSet(1..k - 1) /\ Cardinality(1..k - 1) = k - 1
    <2> DEFINE b == k - 1
    <2>1. b \in Nat /\ b \in Int  BY <1>1
    <2> HIDE DEF b
    <2>2. IsFiniteSet(1..b)  BY <2>1, FS_Interval
    <2>3. Cardinality(1..b) = IF 1 > b THEN 0 ELSE b - 1 + 1  BY <2>1, FS_Interval
    <2>4. Cardinality(1..b) = b  BY <2>1, <2>3
    <2>5. QED  BY <2>1, <2>2, <2>4 DEF b
  <1> HIDE DEF f
  <1> DEFINE T == Pre(s, s[k])
             I == 1..k - 1
  <1>5. ExistsBijection(I, T)  BY <1>3 DEF ExistsBijection
  <1>6. IsFiniteSet(I) /\ Cardinality(I) = k - 1  BY <1>4
  <1> HIDE DEF T, I
  <1>7. IsFiniteSet(T)  BY <1>5, <1>6, FS_Bijection
  <1>8. Cardinality(T) = Cardinality(I)  BY <1>5, <1>6, FS_Bijection
  <1>9. QED  BY <1>6, <1>7, <1>8 DEF T

LEMMA SameOrder ==
    ASSUME NEW X, NEW s \in Seq(X), NEW t \in Seq(X), IsInjective(s), IsInjective(t),
           \A x, S : LeadsIn(s, x, S) <=> LeadsIn(t, x, S)
    PROVE  s = t
  <1>1. ToSet(s) = ToSet(t)
    <2>1. \A x : x \in ToSet(s) <=> LeadsIn(s, x, {})  BY DEF ToSet, LeadsIn
    <2>2. \A x : x \in ToSet(t) <=> LeadsIn(t, x, {})  BY DEF ToSet, LeadsIn
    <2>3. \A x : LeadsIn(s, x, {}) <=> LeadsIn(t, x, {})  OBVIOUS
    <2>4. QED  BY <2>1, <2>2, <2>3
  <1>2. \A x : Pre(s, x) = Pre(t, x)  BY <1>1 DEF Pre
  <1>3. ASSUME NEW k \in DOMAIN s PROVE k \in DOMAIN t /\ t[k] = s[k]
    <2>1. PICK j \in DOMAIN t : t[j] = s[k]  BY <1>1 DEF ToSet
    <2>2. Cardinality(Pre(s, s[k])) = k - 1 /\ Cardinality(Pre(t, t[j])) = j - 1  BY Position
    <2>3. k - 1 = j - 1  BY <1>2, <2>1, <2>2
    <2>4. k = j  BY <2>3
    <2>5. QED  BY <2>1, <2>4
  <1>4. ASSUME NEW k \in DOMAIN t PROVE k \in DOMAIN s
    <2>1. PICK j \in DOMAIN s : s[j] = t[k]  BY <1>1 DEF ToSet
    <2>2. Cardinality(Pre(t, t[k])) = k - 1 /\ Cardinality(Pre(s, s[j])) = j - 1  BY Position
    <2>3. k - 1 = j - 1  BY <1>2, <2>1, <2>2
    <2>4. k = j  BY <2>3
    <2>5. QED  BY <2>4
  <1>5. Len(s) = Len(t)
    <2>1. Len(s) \in Nat /\ Len(t) \in Nat /\ DOMAIN s = 1..Len(s) /\ DOMAIN t = 1..Len(t)
      OBVIOUS
    <2> DEFINE m == Len(s)
               n == Len(t)
    <2>2. \A k : k \in 1..m <=> k \in 1..n  BY <1>3, <1>4, <2>1
    <2>3. m \in Nat /\ n \in Nat  BY <2>1
    <2> HIDE DEF m, n
    <2>4. ~(m < n) /\ ~(n < m)
      <3>1. m < n => n \in 1..n /\ n \notin 1..m  BY <2>3
      <3>2. n < m => m \in 1..m /\ m \notin 1..n  BY <2>3
      <3>3. QED  BY <2>2, <3>1, <3>2
    <2>5. QED  BY <2>3, <2>4 DEF m, n
  <1>6. QED  BY <1>3, <1>5, SeqEqual

(* To be in a sequence is to be in it before anything of no set.           *)
LEMMA Has == \A s, x : x \in ToSet(s) <=> LeadsIn(s, x, {})
  BY DEF ToSet, LeadsIn

-----------------------------------------------------------------------------
(* The expressions a rule is rendered to.                                  *)
Match(left, right) == [left |-> left, right |-> right]
InMatch(n) == Match(<<"meta", "iif">>, n.in_interface)
OutMatch(n) == Match(<<"meta", "oif">>, n.out_interface)
SourceMatch(family, n) == Match(<<AddressKeyword(family, n.source), "saddr">>, n.source)
DestinationMatch(family, n) == Match(<<AddressKeyword(family, n.destination), "daddr">>, n.destination)
StateMatch(n) == Match(<<"ct", "state">>, n.ct_states)
PortMatch(n) == Match(<<n.proto, "dport">>, n.port)
IcmpMatch == Match(<<"ip", "protocol">>, "icmp")
Icmpv6Match == Match(<<"ip6", "nexthdr">>, "icmpv6")
Outcome(n) == Match(<<"verdict">>, n.action)

Renders(family, n, e) ==
    \/ n.in_interface # Unset /\ InMatch(n) = e
    \/ n.out_interface # Unset /\ OutMatch(n) = e
    \/ n.source # Unset /\ SourceMatch(family, n) = e
    \/ n.destination # Unset /\ DestinationMatch(family, n) = e
    \/ n.ct_states # {} /\ StateMatch(n) = e
    \/ n.proto \in {"tcp", "udp"} /\ PortMatch(n) = e
    \/ n.proto = "icmp" /\ IcmpMatch = e
    \/ n.proto = "icmpv6" /\ Icmpv6Match = e
    \/ Outcome(n) = e

AllMatches(family, n) ==
    { InMatch(n), OutMatch(n), SourceMatch(family, n), DestinationMatch(family, n), StateMatch(n),
      PortMatch(n), IcmpMatch, Icmpv6Match, Outcome(n) }

(* A rendered rule is its matches and its verdict, each at one place.      *)
LEMMA Rendered ==
    ASSUME NEW family, NEW n, NEW e
    PROVE  /\ RenderNormalizedRule(family, n) \in Seq(AllMatches(family, n))
           /\ e \in ToSet(RenderNormalizedRule(family, n)) <=> Renders(family, n, e)
  <1> DEFINE X == AllMatches(family, n)
             c1 == n.in_interface # Unset
             c2 == n.out_interface # Unset
             c3 == n.source # Unset
             c4 == n.destination # Unset
             c5 == n.ct_states # {}
             c6 == n.proto \in {"tcp", "udp"}
             c7 == n.proto = "icmp"
             c8 == n.proto = "icmpv6"
             m1 == InMatch(n)
             m2 == OutMatch(n)
             m3 == SourceMatch(family, n)
             m4 == DestinationMatch(family, n)
             m5 == StateMatch(n)
             m6 == PortMatch(n)
             m7 == IcmpMatch
             m8 == Icmpv6Match
             m9 == Outcome(n)
             ss == << If(c1, <<m1>>), If(c2, <<m2>>), If(c3, <<m3>>), If(c4, <<m4>>), If(c5, <<m5>>),
                      If(c6, <<m6>>), If(c7, <<m7>>), If(c8, <<m8>>), <<m9>> >>
             E == FlattenSeq(ss)
  <1>1. RenderNormalizedRule(family, n) = E
    BY Zenon DEF RenderNormalizedRule, Expr, InMatch, OutMatch, SourceMatch, DestinationMatch, StateMatch,
              PortMatch, IcmpMatch, Icmpv6Match, Outcome, Match
  <1>2. /\ m1 \in X /\ m2 \in X /\ m3 \in X /\ m4 \in X /\ m5 \in X /\ m6 \in X
        /\ m7 \in X /\ m8 \in X /\ m9 \in X
    BY DEF AllMatches
  <1>3. Renders(family, n, e) <=>
          \/ c1 /\ m1 = e
          \/ c2 /\ m2 = e
          \/ c3 /\ m3 = e
          \/ c4 /\ m4 = e
          \/ c5 /\ m5 = e
          \/ c6 /\ m6 = e
          \/ c7 /\ m7 = e
          \/ c8 /\ m8 = e
          \/ m9 = e
    BY Zenon DEF Renders
  <1>4. /\ c1 \in BOOLEAN /\ c2 \in BOOLEAN /\ c3 \in BOOLEAN /\ c4 \in BOOLEAN /\ c5 \in BOOLEAN
        /\ c6 \in BOOLEAN /\ c7 \in BOOLEAN /\ c8 \in BOOLEAN
    OBVIOUS
  <1> HIDE DEF X, c1, c2, c3, c4, c5, c6, c7, c8, m1, m2, m3, m4, m5, m6, m7, m8, m9
  <1>5. /\ If(c1, <<m1>>) \in Seq(X) /\ If(c2, <<m2>>) \in Seq(X) /\ If(c3, <<m3>>) \in Seq(X)
        /\ If(c4, <<m4>>) \in Seq(X) /\ If(c5, <<m5>>) \in Seq(X) /\ If(c6, <<m6>>) \in Seq(X)
        /\ If(c7, <<m7>>) \in Seq(X) /\ If(c8, <<m8>>) \in Seq(X) /\ <<m9>> \in Seq(X)
    BY <1>2, <1>4, IfFacts
  <1>6. /\ LeadsIn(If(c1, <<m1>>), e, {}) <=> c1 /\ m1 = e
        /\ LeadsIn(If(c2, <<m2>>), e, {}) <=> c2 /\ m2 = e
        /\ LeadsIn(If(c3, <<m3>>), e, {}) <=> c3 /\ m3 = e
        /\ LeadsIn(If(c4, <<m4>>), e, {}) <=> c4 /\ m4 = e
        /\ LeadsIn(If(c5, <<m5>>), e, {}) <=> c5 /\ m5 = e
        /\ LeadsIn(If(c6, <<m6>>), e, {}) <=> c6 /\ m6 = e
        /\ LeadsIn(If(c7, <<m7>>), e, {}) <=> c7 /\ m7 = e
        /\ LeadsIn(If(c8, <<m8>>), e, {}) <=> c8 /\ m8 = e
        /\ LeadsIn(<<m9>>, e, {}) <=> m9 = e
    BY <1>2, <1>4, IfFacts, SingleFacts
  <1> DEFINE s1 == If(c1, <<m1>>)
             s2 == If(c2, <<m2>>)
             s3 == If(c3, <<m3>>)
             s4 == If(c4, <<m4>>)
             s5 == If(c5, <<m5>>)
             s6 == If(c6, <<m6>>)
             s7 == If(c7, <<m7>>)
             s8 == If(c8, <<m8>>)
             s9 == <<m9>>
             P(s) == LeadsIn(s, e, {})
  <1>7. /\ s1 \in Seq(X) /\ s2 \in Seq(X) /\ s3 \in Seq(X) /\ s4 \in Seq(X) /\ s5 \in Seq(X)
        /\ s6 \in Seq(X) /\ s7 \in Seq(X) /\ s8 \in Seq(X) /\ s9 \in Seq(X)
    BY <1>5
  <1>8. ss = <<s1, s2, s3, s4, s5, s6, s7, s8, s9>>  OBVIOUS
  <1>9. Renders(family, n, e) <=> P(s1) \/ P(s2) \/ P(s3) \/ P(s4) \/ P(s5) \/ P(s6) \/ P(s7) \/ P(s8) \/ P(s9)
    <2>1. /\ P(s1) <=> c1 /\ m1 = e
          /\ P(s2) <=> c2 /\ m2 = e
          /\ P(s3) <=> c3 /\ m3 = e
          /\ P(s4) <=> c4 /\ m4 = e
          /\ P(s5) <=> c5 /\ m5 = e
          /\ P(s6) <=> c6 /\ m6 = e
          /\ P(s7) <=> c7 /\ m7 = e
          /\ P(s8) <=> c8 /\ m8 = e
          /\ P(s9) <=> m9 = e
      BY <1>6
    <2> HIDE DEF P, s1, s2, s3, s4, s5, s6, s7, s8, s9
    <2>2. QED  BY <1>3, <2>1, Zenon
  <1> HIDE DEF s1, s2, s3, s4, s5, s6, s7, s8, s9, ss
  <1>10. ss \in Seq(Seq(X)) /\ Len(ss) = 9  BY <1>7, <1>8
  <1>11. 1..9 = {1, 2, 3, 4, 5, 6, 7, 8, 9}  OBVIOUS
  <1>12. (\E k \in 1..9 : P(ss[k])) <=>
          P(s1) \/ P(s2) \/ P(s3) \/ P(s4) \/ P(s5) \/ P(s6) \/ P(s7) \/ P(s8) \/ P(s9)
    <2> HIDE DEF P
    <2>1. /\ ss[1] = s1 /\ ss[2] = s2 /\ ss[3] = s3 /\ ss[4] = s4 /\ ss[5] = s5
          /\ ss[6] = s6 /\ ss[7] = s7 /\ ss[8] = s8 /\ ss[9] = s9
      BY <1>8
    <2>2. QED  BY <1>11, <2>1
  <1>13. E \in Seq(X) /\ FlatLead(E, ss, 9, e, {})  BY <1>10, FlatLeads
  <1>14. \A s : Free(s, {})  BY DEF Free
  <1>15. LeadsIn(E, e, {}) <=> \E k \in 1..9 : P(ss[k])  BY <1>13, <1>14 DEF FlatLead
  <1>16. QED  BY <1>1, <1>9, <1>12, <1>13, <1>15, Has DEF X

(* The last of some positions.                                             *)
LEMMA GreatestIndex ==
    ASSUME NEW n \in Nat, NEW T \in SUBSET (1..n), T # {}
    PROVE  Max(T) \in T
  <1> DEFINE U == {n - k : k \in T}
  <1>1. U \in SUBSET Nat /\ U # {}  OBVIOUS
  <1> HIDE DEF U
  <1>2. PICK u \in U : \A v \in U : u <= v  BY <1>1, LeastNumber
  <1>3. PICK m \in T : u = n - m  BY DEF U
  <1>4. ASSUME NEW k \in T PROVE m >= k
    <2>1. n - k \in U  BY DEF U
    <2>2. n - m <= n - k  BY <1>2, <1>3, <2>1
    <2>3. m \in Nat /\ k \in Nat  OBVIOUS
    <2>4. QED  BY <2>2, <2>3
  <1>5. \E x \in T : \A y \in T : x >= y  BY <1>4
  <1>6. QED  BY <1>5 DEF Max

(* The right side that is read for a set of left sides.                    *)
LEMMA RightIs ==
    ASSUME NEW X, NEW exprs \in Seq(X), NEW lefts, NEW e \in ToSet(exprs), e.left \in lefts,
           \A d \in ToSet(exprs) : d.left \in lefts => d = e
    PROVE  /\ With(exprs, lefts) # {} /\ exprs[Max(With(exprs, lefts))] = e
           /\ Right(exprs, lefts) = e.right
  <1> DEFINE T == With(exprs, lefts)
             n == Len(exprs)
  <1>1. n \in Nat /\ DOMAIN exprs = 1..n  OBVIOUS
  <1> HIDE DEF n
  <1>2. T \in SUBSET (1..n)  BY <1>1 DEF With
  <1>3. T # {}  BY DEF With, ToSet
  <1>4. \A k \in T : exprs[k] = e  BY DEF With, ToSet
  <1> HIDE DEF T
  <1>5. Max(T) \in T  BY <1>1, <1>2, <1>3, GreatestIndex
  <1>6. exprs[Max(T)] = e  BY <1>4, <1>5
  <1>7. Right(exprs, lefts) = e.right  BY <1>3, <1>6 DEF Right, T
  <1>8. QED  BY <1>3, <1>6, <1>7 DEF T

LEMMA RightNone ==
    ASSUME NEW exprs, NEW lefts, \A d \in ToSet(exprs) : d.left \notin lefts
    PROVE  With(exprs, lefts) = {} /\ Right(exprs, lefts) = Unset
  BY DEF With, Right, ToSet

-----------------------------------------------------------------------------
NormalAddresses == {a \in Addresses : a.bits # Width /\ ~HasHostBits(a)}

NormalRule ==
    { n \in [ chain : Chains, action : Actions, proto : Protocols \cup {Unset}, port : Nat \cup {Unset},
              source : NormalAddresses \cup {Unset}, destination : NormalAddresses \cup {Unset},
              in_interface : Interfaces \cup {Unset}, out_interface : Interfaces \cup {Unset},
              ct_states : SUBSET CTStates ] :
        /\ n.proto \in {"tcp", "udp"} <=> n.port # Unset
        /\ n.ct_states # {} \/ ~NoMatcher(n) }

(* The address of a normal rule is not changed by how nft spells it, nor by*)
(* what hardline makes of that.                                            *)
LEMMA AddressFacts ==
    ASSUME NEW a \in NormalAddresses \cup {Unset}
    PROVE  a # Unset => SpeltAddress(a) = a /\ CollapseFullPrefix(a) = a
  <1> SUFFICES ASSUME a # Unset PROVE SpeltAddress(a) = a /\ CollapseFullPrefix(a) = a
    OBVIOUS
  <1>1. a \in Addresses /\ a.bits # Width /\ ~HasHostBits(a)  BY DEF NormalAddresses
  <1>2. CollapseFullPrefix(a) = a  BY <1>1 DEF CollapseFullPrefix, Addresses
  <1>3. CASE a.bits = Bare
    <2>1. SpeltAddress(a) = a  BY <1>1, <1>3 DEF SpeltAddress
    <2>2. QED  BY <1>2, <2>1
  <1>4. CASE a.bits # Bare
    <2> DEFINE host == a.base % 2^(Width - a.bits)
    <2>1. host = 0  BY <1>1, <1>4 DEF HasHostBits
    <2> HIDE DEF host
    <2>2. SpeltAddress(a) = [a EXCEPT !.base = @ - host]
      BY <1>1, <1>4 DEF SpeltAddress, host
    <2>3. [a EXCEPT !.base = @ - host] = a  BY <1>1, <2>1 DEF Addresses
    <2>4. QED  BY <1>2, <2>2, <2>3
  <1>5. QED  BY <1>3, <1>4

(* The keywords of addresses.                                              *)
LEMMA Keywords ==
    ASSUME NEW family \in Families, NEW a
    PROVE  AddressKeyword(family, a) \in {"ip", "ip6"}
  BY DEF AddressKeyword, Families

SpeltIcmpv6 == Match(<<"ip6", "nexthdr">>, "ipv6-icmp")

Reads(family, n, e) ==
    \/ n.in_interface # Unset /\ InMatch(n) = e
    \/ n.out_interface # Unset /\ OutMatch(n) = e
    \/ n.source # Unset /\ SourceMatch(family, n) = e
    \/ n.destination # Unset /\ DestinationMatch(family, n) = e
    \/ n.ct_states # {} /\ StateMatch(n) = e
    \/ n.proto \in {"tcp", "udp"} /\ PortMatch(n) = e
    \/ n.proto = "icmp" /\ IcmpMatch = e
    \/ n.proto = "icmpv6" /\ SpeltIcmpv6 = e
    \/ Outcome(n) = e

SpeltRule(E) == [l \in DOMAIN E |-> Spelt(E[l])]

LEMMA SpeltOther ==
    ASSUME NEW left, NEW right, left \notin {"ip", "ip6"} \X {"saddr", "daddr"}, left # <<"ip6", "nexthdr">>
    PROVE  Spelt(Match(left, right)) = Match(left, right)
  BY DEF Spelt, Match

(* What nft makes of a rule, expression by expression.                     *)
LEMMA SpeltAt ==
    ASSUME NEW keyword \in {"ip", "ip6"}, NEW end \in {"saddr", "daddr"},
           NEW a \in NormalAddresses, a # Unset
    PROVE  Spelt(Match(<<keyword, end>>, a)) = Match(<<keyword, end>>, a)
  <1>1. SpeltAddress(a) = a  BY AddressFacts
  <1>2. <<keyword, end>> \in {"ip", "ip6"} \X {"saddr", "daddr"}  OBVIOUS
  <1>3. QED  BY <1>1, <1>2 DEF Spelt, Match

LEMMA SpeltFacts ==
    ASSUME NEW family \in Families, NEW n \in NormalRule
    PROVE  /\ Spelt(InMatch(n)) = InMatch(n)
           /\ Spelt(OutMatch(n)) = OutMatch(n)
           /\ n.source # Unset => Spelt(SourceMatch(family, n)) = SourceMatch(family, n)
           /\ n.destination # Unset => Spelt(DestinationMatch(family, n)) = DestinationMatch(family, n)
           /\ Spelt(StateMatch(n)) = StateMatch(n)
           /\ n.proto \in {"tcp", "udp"} => Spelt(PortMatch(n)) = PortMatch(n)
           /\ Spelt(IcmpMatch) = IcmpMatch
           /\ Spelt(Icmpv6Match) = SpeltIcmpv6
           /\ Spelt(Outcome(n)) = Outcome(n)
  <1>1. Spelt(InMatch(n)) = InMatch(n)  BY SpeltOther DEF InMatch
  <1>2. Spelt(OutMatch(n)) = OutMatch(n)  BY SpeltOther DEF OutMatch
  <1>3. n.source # Unset => Spelt(SourceMatch(family, n)) = SourceMatch(family, n)
    BY SpeltAt, Keywords DEF SourceMatch, NormalRule
  <1>4. n.destination # Unset => Spelt(DestinationMatch(family, n)) = DestinationMatch(family, n)
    BY SpeltAt, Keywords DEF DestinationMatch, NormalRule
  <1>5. Spelt(StateMatch(n)) = StateMatch(n)  BY SpeltOther DEF StateMatch
  <1>6. n.proto \in {"tcp", "udp"} => Spelt(PortMatch(n)) = PortMatch(n)
    BY SpeltOther DEF PortMatch
  <1>7. Spelt(IcmpMatch) = IcmpMatch  BY SpeltOther DEF IcmpMatch
  <1>8. Spelt(Icmpv6Match) = SpeltIcmpv6  BY DEF Spelt, Icmpv6Match, SpeltIcmpv6, Match
  <1>9. Spelt(Outcome(n)) = Outcome(n)  BY SpeltOther DEF Outcome
  <1>10. QED  BY <1>1, <1>2, <1>3, <1>4, <1>5, <1>6, <1>7, <1>8, <1>9

LEMMA SpeltRendered ==
    ASSUME NEW family \in Families, NEW n \in NormalRule, NEW e
    PROVE  /\ \E X : SpeltRule(RenderNormalizedRule(family, n)) \in Seq(X)
           /\ e \in ToSet(SpeltRule(RenderNormalizedRule(family, n))) <=> Reads(family, n, e)
  <1> DEFINE E == RenderNormalizedRule(family, n)
             S == SpeltRule(E)
             Y == AllMatches(family, n)
  <1>1. E \in Seq(Y) /\ \A d : d \in ToSet(E) <=> Renders(family, n, d)  BY Rendered
  <1> HIDE DEF E
  <1>2. S \in Seq({Spelt(d) : d \in Y})  BY <1>1 DEF SpeltRule
  <1>3. e \in ToSet(S) <=> \E d \in ToSet(E) : e = Spelt(d)  BY <1>1 DEF SpeltRule, ToSet
  <1>4. e \in ToSet(S) <=> \E d : Renders(family, n, d) /\ e = Spelt(d)  BY <1>1, <1>3
  <1>5. (\E d : Renders(family, n, d) /\ e = Spelt(d)) <=> Reads(family, n, e)
    BY SpeltFacts DEF Renders, Reads
  <1>6. QED  BY <1>2, <1>4, <1>5 DEF E

(* The expression with one of these left sides, when there is one at most. *)
LEMMA RightOf ==
    ASSUME NEW X, NEW exprs \in Seq(X), NEW lefts, NEW e, e.left \in lefts,
           \A d \in ToSet(exprs) : d.left \in lefts => d = e
    PROVE  Right(exprs, lefts) = IF e \in ToSet(exprs) THEN e.right ELSE Unset
  <1>1. CASE e \in ToSet(exprs)  BY <1>1, RightIs
  <1>2. CASE e \notin ToSet(exprs)  BY <1>2, RightNone
  <1>3. QED  BY <1>1, <1>2

(* No two expressions of a rule have the left sides that are read as one.  *)
LEMMA LeftFacts ==
    ASSUME NEW family \in Families, NEW n \in NormalRule, NEW e, Reads(family, n, e)
    PROVE  /\ e.left \in {"meta"} \X {"iif", "iifname"} => n.in_interface # Unset /\ e = InMatch(n)
           /\ e.left \in {"meta"} \X {"oif", "oifname"} => n.out_interface # Unset /\ e = OutMatch(n)
           /\ e.left \in {"ip", "ip6"} \X {"saddr"} => n.source # Unset /\ e = SourceMatch(family, n)
           /\ e.left \in {"ip", "ip6"} \X {"daddr"} =>
                n.destination # Unset /\ e = DestinationMatch(family, n)
           /\ e.left \in {<<"ct", "state">>} => n.ct_states # {} /\ e = StateMatch(n)
           /\ e.left \in {"tcp", "udp"} \X {"dport"} => n.proto \in {"tcp", "udp"} /\ e = PortMatch(n)
           /\ e.left \in {<<"ip", "protocol">>} => n.proto = "icmp" /\ e = IcmpMatch
           /\ e.left \in {<<"ip6", "nexthdr">>} => n.proto = "icmpv6" /\ e = SpeltIcmpv6
           /\ e.left \in {<<"verdict">>} => e = Outcome(n)
  <1>1. CASE n.in_interface # Unset /\ InMatch(n) = e
    <2>1. e.left = <<"meta", "iif">>  BY <1>1 DEF InMatch, Match
    <2>2. QED  BY <1>1, <2>1
  <1>2. CASE n.out_interface # Unset /\ OutMatch(n) = e
    <2>1. e.left = <<"meta", "oif">>  BY <1>2 DEF OutMatch, Match
    <2>2. QED  BY <1>2, <2>1
  <1>3. CASE n.source # Unset /\ SourceMatch(family, n) = e
    <2>1. PICK keyword \in {"ip", "ip6"} : e.left = <<keyword, "saddr">>
      BY <1>3, Keywords DEF SourceMatch, Match
    <2>2. QED  BY <1>3, <2>1
  <1>4. CASE n.destination # Unset /\ DestinationMatch(family, n) = e
    <2>1. PICK keyword \in {"ip", "ip6"} : e.left = <<keyword, "daddr">>
      BY <1>4, Keywords DEF DestinationMatch, Match
    <2>2. QED  BY <1>4, <2>1
  <1>5. CASE n.ct_states # {} /\ StateMatch(n) = e
    <2>1. e.left = <<"ct", "state">>  BY <1>5 DEF StateMatch, Match
    <2>2. QED  BY <1>5, <2>1
  <1>6. CASE n.proto \in {"tcp", "udp"} /\ PortMatch(n) = e
    <2>1. PICK proto \in {"tcp", "udp"} : e.left = <<proto, "dport">>
      BY <1>6 DEF PortMatch, Match
    <2>2. QED  BY <1>6, <2>1
  <1>7. CASE n.proto = "icmp" /\ IcmpMatch = e
    <2>1. e.left = <<"ip", "protocol">>  BY <1>7 DEF IcmpMatch, Match
    <2>2. QED  BY <1>7, <2>1
  <1>8. CASE n.proto = "icmpv6" /\ SpeltIcmpv6 = e
    <2>1. e.left = <<"ip6", "nexthdr">>  BY <1>8 DEF SpeltIcmpv6, Match
    <2>2. QED  BY <1>8, <2>1
  <1>9. CASE Outcome(n) = e
    <2>1. e.left = <<"verdict">>  BY <1>9 DEF Outcome, Match
    <2>2. QED  BY <1>9, <2>1
  <1>10. QED  BY <1>1, <1>2, <1>3, <1>4, <1>5, <1>6, <1>7, <1>8, <1>9 DEF Reads

(* What hardline reads of a rule that it rendered is that rule.            *)
LEMMA RuleReadsBack ==
    ASSUME NEW family \in Families, NEW n \in NormalRule
    PROVE  NormalizeNftRuleExpr(n.chain, SpeltRule(RenderNormalizedRule(family, n))) = <<n>>
  <1> DEFINE E == SpeltRule(RenderNormalizedRule(family, n))
  <1>1. PICK X : E \in Seq(X)  BY SpeltRendered
  <1>2. \A e : e \in ToSet(E) <=> Reads(family, n, e)  BY SpeltRendered
  <1> HIDE DEF E
  <1>3. Right(E, {"meta"} \X {"iif", "iifname"}) = n.in_interface
    <2> DEFINE c == n.in_interface # Unset
               m == InMatch(n)
               lefts == {"meta"} \X {"iif", "iifname"}
    <2>1. m.left \in lefts /\ m.right = n.in_interface  BY DEF InMatch, Match
    <2>2. c => m \in ToSet(E)  BY <1>2 DEF Reads
    <2>3. \A d \in ToSet(E) : d.left \in lefts => c /\ d = m  BY <1>2, LeftFacts
    <2>4. m \in ToSet(E) <=> c  BY <2>1, <2>2, <2>3
    <2> HIDE DEF lefts, m
    <2>5. Right(E, lefts) = IF m \in ToSet(E) THEN m.right ELSE Unset  BY <1>1, <2>1, <2>3, RightOf
    <2>6. QED  BY <2>1, <2>4, <2>5 DEF lefts
  <1>4. Right(E, {"meta"} \X {"oif", "oifname"}) = n.out_interface
    <2> DEFINE c == n.out_interface # Unset
               m == OutMatch(n)
               lefts == {"meta"} \X {"oif", "oifname"}
    <2>1. m.left \in lefts /\ m.right = n.out_interface  BY DEF OutMatch, Match
    <2>2. c => m \in ToSet(E)  BY <1>2 DEF Reads
    <2>3. \A d \in ToSet(E) : d.left \in lefts => c /\ d = m  BY <1>2, LeftFacts
    <2>4. m \in ToSet(E) <=> c  BY <2>1, <2>2, <2>3
    <2> HIDE DEF lefts, m
    <2>5. Right(E, lefts) = IF m \in ToSet(E) THEN m.right ELSE Unset  BY <1>1, <2>1, <2>3, RightOf
    <2>6. QED  BY <2>1, <2>4, <2>5 DEF lefts
  <1>5. Right(E, {"ip", "ip6"} \X {"saddr"}) = n.source
    <2> DEFINE c == n.source # Unset
               m == SourceMatch(family, n)
               lefts == {"ip", "ip6"} \X {"saddr"}
    <2>1. m.left \in lefts /\ m.right = n.source  BY Keywords DEF SourceMatch, Match
    <2>2. c => m \in ToSet(E)  BY <1>2 DEF Reads
    <2>3. \A d \in ToSet(E) : d.left \in lefts => c /\ d = m  BY <1>2, LeftFacts
    <2>4. m \in ToSet(E) <=> c  BY <2>1, <2>2, <2>3
    <2> HIDE DEF lefts, m
    <2>5. Right(E, lefts) = IF m \in ToSet(E) THEN m.right ELSE Unset  BY <1>1, <2>1, <2>3, RightOf
    <2>6. QED  BY <2>1, <2>4, <2>5 DEF lefts
  <1>6. Right(E, {"ip", "ip6"} \X {"daddr"}) = n.destination
    <2> DEFINE c == n.destination # Unset
               m == DestinationMatch(family, n)
               lefts == {"ip", "ip6"} \X {"daddr"}
    <2>1. m.left \in lefts /\ m.right = n.destination  BY Keywords DEF DestinationMatch, Match
    <2>2. c => m \in ToSet(E)  BY <1>2 DEF Reads
    <2>3. \A d \in ToSet(E) : d.left \in lefts => c /\ d = m  BY <1>2, LeftFacts
    <2>4. m \in ToSet(E) <=> c  BY <2>1, <2>2, <2>3
    <2> HIDE DEF lefts, m
    <2>5. Right(E, lefts) = IF m \in ToSet(E) THEN m.right ELSE Unset  BY <1>1, <2>1, <2>3, RightOf
    <2>6. QED  BY <2>1, <2>4, <2>5 DEF lefts
  <1>7. Or(Right(E, {<<"ct", "state">>}), {}) = n.ct_states
    <2> DEFINE c == n.ct_states # {}
               m == StateMatch(n)
               lefts == {<<"ct", "state">>}
    <2>1. m.left \in lefts /\ m.right = n.ct_states  BY DEF StateMatch, Match
    <2>2. c => m \in ToSet(E)  BY <1>2 DEF Reads
    <2>3. \A d \in ToSet(E) : d.left \in lefts => c /\ d = m  BY <1>2, LeftFacts
    <2>4. m \in ToSet(E) <=> c  BY <2>1, <2>2, <2>3
    <2>5. n.ct_states # Unset  BY FirewallRulesAssumption DEF NormalRule
    <2> HIDE DEF lefts, m
    <2>6. Right(E, lefts) = IF m \in ToSet(E) THEN m.right ELSE Unset  BY <1>1, <2>1, <2>3, RightOf
    <2>7. QED  BY <2>1, <2>4, <2>5, <2>6 DEF lefts, Or
  <1>8. Right(E, {<<"verdict">>}) = n.action
    <2> DEFINE c == TRUE
               m == Outcome(n)
               lefts == {<<"verdict">>}
    <2>1. m.left \in lefts /\ m.right = n.action  BY DEF Outcome, Match
    <2>2. c => m \in ToSet(E)  BY <1>2 DEF Reads
    <2>3. \A d \in ToSet(E) : d.left \in lefts => c /\ d = m  BY <1>2, LeftFacts
    <2>4. m \in ToSet(E) <=> c  BY <2>1, <2>2, <2>3
    <2> HIDE DEF lefts, m
    <2>5. Right(E, lefts) = IF m \in ToSet(E) THEN m.right ELSE Unset  BY <1>1, <2>1, <2>3, RightOf
    <2>6. QED  BY <2>1, <2>4, <2>5 DEF lefts
  <1>9. Right(E, {<<"ip", "protocol">>}) = IF n.proto = "icmp" THEN "icmp" ELSE Unset
    <2> DEFINE c == n.proto = "icmp"
               m == IcmpMatch
               lefts == {<<"ip", "protocol">>}
    <2>1. m.left \in lefts /\ m.right = "icmp"  BY DEF IcmpMatch, Match
    <2>2. c => m \in ToSet(E)  BY <1>2 DEF Reads
    <2>3. \A d \in ToSet(E) : d.left \in lefts => c /\ d = m  BY <1>2, LeftFacts
    <2>4. m \in ToSet(E) <=> c  BY <2>1, <2>2, <2>3
    <2> HIDE DEF lefts, m
    <2>5. Right(E, lefts) = IF m \in ToSet(E) THEN m.right ELSE Unset  BY <1>1, <2>1, <2>3, RightOf
    <2>6. QED  BY <2>1, <2>4, <2>5 DEF lefts
  <1>10. Right(E, {<<"ip6", "nexthdr">>}) = IF n.proto = "icmpv6" THEN "ipv6-icmp" ELSE Unset
    <2> DEFINE c == n.proto = "icmpv6"
               m == SpeltIcmpv6
               lefts == {<<"ip6", "nexthdr">>}
    <2>1. m.left \in lefts /\ m.right = "ipv6-icmp"  BY DEF SpeltIcmpv6, Match
    <2>2. c => m \in ToSet(E)  BY <1>2 DEF Reads
    <2>3. \A d \in ToSet(E) : d.left \in lefts => c /\ d = m  BY <1>2, LeftFacts
    <2>4. m \in ToSet(E) <=> c  BY <2>1, <2>2, <2>3
    <2> HIDE DEF lefts, m
    <2>5. Right(E, lefts) = IF m \in ToSet(E) THEN m.right ELSE Unset  BY <1>1, <2>1, <2>3, RightOf
    <2>6. QED  BY <2>1, <2>4, <2>5 DEF lefts
  <1> DEFINE ported == With(E, {"tcp", "udp"} \X {"dport"})
  <1>11. /\ ported # {} <=> n.proto \in {"tcp", "udp"}
         /\ n.proto \in {"tcp", "udp"} =>
              E[Max(ported)].left[1] = n.proto /\ E[Max(ported)].right = n.port
    <2> DEFINE c == n.proto \in {"tcp", "udp"}
               m == PortMatch(n)
               lefts == {"tcp", "udp"} \X {"dport"}
    <2>0. c => m.left \in lefts  BY DEF PortMatch, Match
    <2>1. m.left[1] = n.proto /\ m.right = n.port  BY DEF PortMatch, Match
    <2>2. c => m \in ToSet(E)  BY <1>2 DEF Reads
    <2>3. \A d \in ToSet(E) : d.left \in lefts => c /\ d = m  BY <1>2, LeftFacts
    <2>4. c \in BOOLEAN  OBVIOUS
    <2> HIDE DEF lefts, m, c
    <2>5. CASE c
      <3>1. With(E, lefts) # {} /\ E[Max(With(E, lefts))] = m
        BY <1>1, <2>0, <2>2, <2>3, <2>5, RightIs
      <3>2. QED  BY <2>1, <2>5, <3>1 DEF lefts, c
    <2>6. CASE ~c
      <3>1. With(E, lefts) = {}  BY <2>3, <2>6, RightNone
      <3>2. QED  BY <2>6, <3>1 DEF lefts, c
    <2>7. QED  BY <2>5, <2>6
  <1> HIDE DEF ported
  <1> DEFINE normal ==
               [ chain |-> n.chain, action |-> Right(E, {<<"verdict">>}),
                 proto |-> IF ported # {} THEN E[Max(ported)].left[1]
                           ELSE IF Right(E, {<<"ip", "protocol">>}) = "icmp" THEN "icmp"
                           ELSE IF Right(E, {<<"ip6", "nexthdr">>}) \in {"icmpv6", "ipv6-icmp"}
                                THEN "icmpv6" ELSE Unset,
                 port |-> IF ported = {} THEN Unset ELSE E[Max(ported)].right,
                 source |-> CollapseFullPrefix(Right(E, {"ip", "ip6"} \X {"saddr"})),
                 destination |-> CollapseFullPrefix(Right(E, {"ip", "ip6"} \X {"daddr"})),
                 in_interface |-> Right(E, {"meta"} \X {"iif", "iifname"}),
                 out_interface |-> Right(E, {"meta"} \X {"oif", "oifname"}),
                 ct_states |-> Or(Right(E, {<<"ct", "state">>}), {}) ]
  <1>12. NormalizeNftRuleExpr(n.chain, E) =
           If(normal.action # Unset /\ (normal.ct_states # {} \/ ~NoMatcher(normal)), <<normal>>)
    BY Zenon DEF NormalizeNftRuleExpr, ported
  <1>13. normal.proto = n.proto /\ normal.port = n.port
    <2>1. Unset \notin {"icmp", "icmpv6", "ipv6-icmp", "tcp", "udp"}
      BY FirewallRulesAssumption DEF Protocols
    <2>2. QED  BY <1>9, <1>10, <1>11, <2>1 DEF NormalRule, Protocols
  <1>14. /\ CollapseFullPrefix(n.source) = n.source
         /\ CollapseFullPrefix(n.destination) = n.destination
    <2>1. CollapseFullPrefix(Unset) = Unset  BY DEF CollapseFullPrefix
    <2>2. QED  BY <2>1, AddressFacts DEF NormalRule
  <1>15. normal = n
    <2>1. normal = [ chain |-> n.chain, action |-> n.action, proto |-> n.proto, port |-> n.port,
                     source |-> n.source, destination |-> n.destination, in_interface |-> n.in_interface,
                     out_interface |-> n.out_interface, ct_states |-> n.ct_states ]
      BY <1>3, <1>4, <1>5, <1>6, <1>7, <1>8, <1>13, <1>14
    <2> HIDE DEF normal
    <2>2. QED  BY <2>1 DEF NormalRule
  <1>16. n.action # Unset /\ (n.ct_states # {} \/ ~NoMatcher(n))
    BY FirewallRulesAssumption DEF NormalRule
  <1> HIDE DEF normal
  <1>17. QED  BY <1>12, <1>15, <1>16 DEF If, E

-----------------------------------------------------------------------------
(* What a normal rule says of a packet of its chain.                       *)
Meets(n, packet) ==
    /\ n.proto \in {Unset, packet.proto}
    /\ n.port # Unset => packet.port = n.port
    /\ n.source # Unset => Covers(n.source, packet.v6, packet.source)
    /\ n.destination # Unset => Covers(n.destination, packet.v6, packet.destination)
    /\ n.in_interface \in {Unset, packet.iif} /\ n.out_interface \in {Unset, packet.oif}
    /\ n.ct_states # {} => packet.ct \in n.ct_states

(* What a packet is matched against.                                       *)
LEMMA HitFacts ==
    ASSUME NEW left, NEW right, NEW packet
    PROVE  /\ left = <<"meta", "iif">> => (Hits(Match(left, right), packet) <=> packet.iif = right)
           /\ left = <<"meta", "oif">> => (Hits(Match(left, right), packet) <=> packet.oif = right)
           /\ left = <<"ct", "state">> => (Hits(Match(left, right), packet) <=> packet.ct \in right)
           /\ left = <<"verdict">> => Hits(Match(left, right), packet)
           /\ left \in {"ip", "ip6"} \X {"saddr"} =>
                (Hits(Match(left, right), packet) <=> Covers(right, packet.v6, packet.source))
           /\ left \in {"ip", "ip6"} \X {"daddr"} =>
                (Hits(Match(left, right), packet) <=> Covers(right, packet.v6, packet.destination))
           /\ left \in {"tcp", "udp"} \X {"dport"} =>
                (Hits(Match(left, right), packet) <=> packet.proto = left[1] /\ packet.port = right)
           /\ left \in {<<"ip", "protocol">>, <<"ip6", "nexthdr">>} =>
                (Hits(Match(left, right), packet) <=> packet.proto = right)
  <1>1. Match(left, right).left = left /\ Match(left, right).right = right  BY DEF Match
  <1> DEFINE e == Match(left, right)
  <1> HIDE DEF e
  <1>2. left = <<"meta", "iif">> => (Hits(e, packet) <=> packet.iif = right)  BY <1>1 DEF Hits, e
  <1>3. left = <<"meta", "oif">> => (Hits(e, packet) <=> packet.oif = right)  BY <1>1 DEF Hits, e
  <1>4. left = <<"ct", "state">> => (Hits(e, packet) <=> packet.ct \in right)  BY <1>1 DEF Hits, e
  <1>5. left = <<"verdict">> => Hits(e, packet)  BY <1>1 DEF Hits, e
  <1>6. left \in {"ip", "ip6"} \X {"saddr"} =>
          (Hits(e, packet) <=> Covers(right, packet.v6, packet.source))
    BY <1>1 DEF Hits, e
  <1>7. left \in {"ip", "ip6"} \X {"daddr"} =>
          (Hits(e, packet) <=> Covers(right, packet.v6, packet.destination))
    BY <1>1 DEF Hits, e
  <1>8. left \in {"tcp", "udp"} \X {"dport"} =>
          (Hits(e, packet) <=> packet.proto = left[1] /\ packet.port = right)
    BY <1>1 DEF Hits, e
  <1>9. left \in {<<"ip", "protocol">>, <<"ip6", "nexthdr">>} =>
          (Hits(e, packet) <=> packet.proto = right)
    BY <1>1 DEF Hits, e
  <1>10. QED  BY <1>2, <1>3, <1>4, <1>5, <1>6, <1>7, <1>8, <1>9 DEF e

(* A packet passes every expression of a rendered rule when it meets the   *)
(* rule.                                                                   *)
LEMMA HitsMeets ==
    ASSUME NEW family \in Families, NEW n \in NormalRule, NEW packet
    PROVE  (\A e \in ToSet(RenderNormalizedRule(family, n)) : Hits(e, packet)) <=> Meets(n, packet)
  <1> DEFINE H(e) == Hits(e, packet)
  <1>1. H(InMatch(n)) <=> packet.iif = n.in_interface  BY HitFacts DEF InMatch
  <1>2. H(OutMatch(n)) <=> packet.oif = n.out_interface  BY HitFacts DEF OutMatch
  <1>3. H(SourceMatch(family, n)) <=> Covers(n.source, packet.v6, packet.source)
    BY HitFacts, Keywords DEF SourceMatch
  <1>4. H(DestinationMatch(family, n)) <=> Covers(n.destination, packet.v6, packet.destination)
    BY HitFacts, Keywords DEF DestinationMatch
  <1>5. H(StateMatch(n)) <=> packet.ct \in n.ct_states  BY HitFacts DEF StateMatch
  <1>6. n.proto \in {"tcp", "udp"} =>
          (H(PortMatch(n)) <=> packet.proto = n.proto /\ packet.port = n.port)
    BY HitFacts DEF PortMatch
  <1>7. H(IcmpMatch) <=> packet.proto = "icmp"  BY HitFacts DEF IcmpMatch
  <1>8. H(Icmpv6Match) <=> packet.proto = "icmpv6"  BY HitFacts DEF Icmpv6Match
  <1>9. H(Outcome(n))  BY HitFacts DEF Outcome
  <1> HIDE DEF H
  <1>10. (\A e \in ToSet(RenderNormalizedRule(family, n)) : H(e)) <=>
           \A e : Renders(family, n, e) => H(e)
    BY Rendered
  <1>11. (\A e : Renders(family, n, e) => H(e)) <=>
           /\ n.in_interface # Unset => H(InMatch(n))
           /\ n.out_interface # Unset => H(OutMatch(n))
           /\ n.source # Unset => H(SourceMatch(family, n))
           /\ n.destination # Unset => H(DestinationMatch(family, n))
           /\ n.ct_states # {} => H(StateMatch(n))
           /\ n.proto \in {"tcp", "udp"} => H(PortMatch(n))
           /\ n.proto = "icmp" => H(IcmpMatch)
           /\ n.proto = "icmpv6" => H(Icmpv6Match)
           /\ H(Outcome(n))
    BY DEF Renders
  <1>12. n.proto \in {"tcp", "udp", "icmp", "icmpv6", Unset} /\ (n.proto \in {"tcp", "udp"} <=> n.port # Unset)
    BY DEF NormalRule, Protocols
  <1>13. Unset \notin {"tcp", "udp", "icmp", "icmpv6"}  BY FirewallRulesAssumption DEF Protocols
  <1> DEFINE hits == \A e \in ToSet(RenderNormalizedRule(family, n)) : H(e)
  <1>14. hits <=>
           /\ n.in_interface # Unset => packet.iif = n.in_interface
           /\ n.out_interface # Unset => packet.oif = n.out_interface
           /\ n.source # Unset => Covers(n.source, packet.v6, packet.source)
           /\ n.destination # Unset => Covers(n.destination, packet.v6, packet.destination)
           /\ n.ct_states # {} => packet.ct \in n.ct_states
           /\ n.proto # Unset => packet.proto = n.proto
           /\ n.port # Unset => packet.port = n.port
    BY <1>1, <1>2, <1>3, <1>4, <1>5, <1>6, <1>7, <1>8, <1>9, <1>10, <1>11, <1>12, <1>13
  <1> HIDE DEF hits
  <1>15. QED  BY <1>14 DEF Meets, hits, H

(* The verdict of a rendered rule.                                         *)
LEMMA VerdictIs ==
    ASSUME NEW family \in Families, NEW n \in NormalRule
    PROVE  Right(RenderNormalizedRule(family, n), {<<"verdict">>}) = n.action
  <1> DEFINE E == RenderNormalizedRule(family, n)
             Y == AllMatches(family, n)
             m == Outcome(n)
             lefts == {<<"verdict">>}
  <1>1. E \in Seq(Y) /\ \A d : d \in ToSet(E) <=> Renders(family, n, d)  BY Rendered
  <1>2. m.left \in lefts /\ m.right = n.action  BY DEF Outcome, Match
  <1>3. m \in ToSet(E)  BY <1>1 DEF Renders
  <1>4. ASSUME NEW d \in ToSet(E), d.left \in lefts PROVE d = m
    <2>1. CASE n.proto = "icmpv6" /\ Icmpv6Match = d
      BY <1>4, <2>1 DEF Icmpv6Match, Match
    <2>2. CASE ~(n.proto = "icmpv6" /\ Icmpv6Match = d)
      <3>1. Renders(family, n, d)  BY <1>1, <1>4
      <3>2. Reads(family, n, d)  BY <2>2, <3>1 DEF Renders, Reads
      <3>3. QED  BY <1>4, <3>2, LeftFacts
    <2>3. QED  BY <2>1, <2>2
  <1> HIDE DEF E, Y, m, lefts
  <1>5. Right(E, lefts) = m.right  BY <1>1, <1>2, <1>3, <1>4, RightIs
  <1>6. QED  BY <1>2, <1>5 DEF E, lefts

-----------------------------------------------------------------------------
(* A full prefix covers what its host does.                                *)
LEMMA CollapseFacts ==
    ASSUME NEW a \in Addresses \cup {Unset}, ~HasHostBits(a), NEW v6, NEW addr \in Nat
    PROVE  /\ CollapseFullPrefix(a) \in NormalAddresses \cup {Unset}
           /\ CollapseFullPrefix(a) # Unset <=> a # Unset
           /\ a # Unset => (Covers(CollapseFullPrefix(a), v6, addr) <=> Covers(a, v6, addr))
  <1>1. CASE a = Unset  BY <1>1 DEF CollapseFullPrefix
  <1>2. CASE a # Unset
    <2> DEFINE b == [a EXCEPT !.bits = Bare]
    <2>1. a \in Addresses /\ b \in Addresses /\ Bare # Width /\ Unset \notin Addresses
      BY <1>2, FirewallRulesAssumption DEF Addresses
    <2>2. CASE a.bits = Width
      <3>1. CollapseFullPrefix(a) = b  BY <1>2, <2>2 DEF CollapseFullPrefix
      <3>2. b.bits = Bare /\ b.base = a.base /\ b.v6 = a.v6 /\ a.base \in Nat  BY <2>1 DEF Addresses
      <3>3. Width - a.bits = 0 /\ 2^0 = 1  BY <2>2, FirewallRulesAssumption
      <3>4. a.base \div 1 = a.base /\ addr \div 1 = addr  BY <3>2
      <3>5. b \in NormalAddresses  BY <2>1, <3>2 DEF NormalAddresses, HasHostBits
      <3>6. Covers(b, v6, addr) <=> Covers(a, v6, addr)
        BY <2>1, <2>2, <3>2, <3>3, <3>4 DEF Covers
      <3>7. QED  BY <1>2, <2>1, <3>1, <3>5, <3>6
    <2>3. CASE a.bits # Width
      <3>1. CollapseFullPrefix(a) = a  BY <1>2, <2>1, <2>3 DEF CollapseFullPrefix, Addresses
      <3>2. QED  BY <1>2, <2>1, <2>3, <3>1 DEF NormalAddresses
    <2>4. QED  BY <2>2, <2>3
  <1>3. QED  BY <1>1, <1>2

(* The elements of a sequence that are in a set.                           *)
LEMMA ThoseHave ==
    ASSUME NEW X, NEW s \in Seq(X), NEW P
    PROVE  Those(s, P) \in Seq(X) /\ ToSet(Those(s, P)) = ToSet(s) \cap P
  <1>1. ASSUME NEW x PROVE x \in ToSet(Those(s, P)) <=> x \in P /\ x \in ToSet(s)
    <2>1. LeadsIn(Those(s, P), x, {}) <=> x \in P /\ LeadsIn(s, x, {} \cap P)  BY ThoseFacts
    <2>2. {} \cap P = {}  OBVIOUS
    <2>3. QED  BY <2>1, <2>2, Has
  <1>2. QED  BY <1>1, ThoseFacts

(* The parts of a rule that its ports leave alone.                         *)
Whole(r) ==
    [ chain |-> r.chain, action |-> r.action, proto |-> r.proto, port |-> Unset,
      source |-> CollapseFullPrefix(r.source), destination |-> CollapseFullPrefix(r.destination),
      in_interface |-> r.in_interface, out_interface |-> r.out_interface,
      ct_states |-> ToSet(r.ct_states) ]

AtPort(r, port) == [Whole(r) EXCEPT !.port = port]

(* The normal rules of a declared one: one for each of its ports, or one.  *)
LEMMA NormalHas ==
    ASSUME NEW r \in Rule, ~RefusedRule(r), NEW n
    PROVE  n \in ToSet(NormalizeDesiredRule(r)) <=>
             \/ r.ports = <<>> /\ n = Whole(r)
             \/ \E port \in ToSet(r.ports) : n = AtPort(r, port)
  <1> DEFINE s == [port \in 1..MaxPort |-> AtPort(r, port)]
             P == {AtPort(r, port) : port \in ToSet(r.ports)}
             N == NormalizeDesiredRule(r)
             X == {AtPort(r, port) : port \in 1..MaxPort}
  <1>1. N = IF r.ports = <<>> THEN <<Whole(r)>> ELSE Those(s, P)
    BY Zenon DEF NormalizeDesiredRule, Whole, AtPort
  <1>2. ToSet(r.ports) \subseteq 1..MaxPort  BY DEF RefusedRule
  <1>3. CASE r.ports = <<>>
    <2>1. ToSet(<<Whole(r)>>) = {Whole(r)}  BY DEF ToSet
    <2>2. ToSet(r.ports) = {}  BY <1>3 DEF ToSet
    <2>3. QED  BY <1>1, <1>3, <2>1, <2>2
  <1>4. CASE r.ports # <<>>
    <2>1. s \in Seq(X)  BY FirewallRulesAssumption
    <2>2. ToSet(s) = X  BY DEF ToSet
    <2> HIDE DEF s
    <2>3. ToSet(Those(s, P)) = ToSet(s) \cap P  BY <2>1, ThoseHave
    <2>4. P \subseteq X  BY <1>2
    <2> HIDE DEF X
    <2>5. ToSet(N) = P  BY <1>1, <1>4, <2>2, <2>3, <2>4
    <2>6. QED  BY <1>4, <2>5
  <1>5. QED  BY <1>3, <1>4

LEMMA AtPortParts ==
    ASSUME NEW r, NEW port
    PROVE  AtPort(r, port) =
             [ chain |-> r.chain, action |-> r.action, proto |-> r.proto, port |-> port,
               source |-> CollapseFullPrefix(r.source), destination |-> CollapseFullPrefix(r.destination),
               in_interface |-> r.in_interface, out_interface |-> r.out_interface,
               ct_states |-> ToSet(r.ct_states) ]
  BY DEF AtPort, Whole

LEMMA SequenceHas ==
    ASSUME NEW X, NEW s \in Seq(X)
    PROVE  /\ ToSet(s) \in SUBSET X
           /\ ToSet(s) # {} <=> s # <<>>
           /\ \A x : x \in ToSet(s) <=> Contains(s, x)
  <1>1. DOMAIN s = 1..Len(s) /\ Len(s) \in Nat /\ \A i \in 1..Len(s) : s[i] \in X  OBVIOUS
  <1>2. ToSet(s) \in SUBSET X /\ \A x : x \in ToSet(s) <=> Contains(s, x)
    BY <1>1 DEF ToSet, Contains
  <1>3. s = <<>> => ToSet(s) = {}  BY DEF ToSet
  <1>4. ASSUME s # <<>> PROVE ToSet(s) # {}
    <2>1. Len(s) # 0  BY <1>4, EmptySeq
    <2>2. s[1] \in ToSet(s)  BY <1>1, <2>1 DEF ToSet
    <2>3. QED  BY <2>2
  <1>5. QED  BY <1>2, <1>3, <1>4

LEMMA SomePort ==
    ASSUME NEW r \in Rule
    PROVE  r.ports # <<>> <=> ToSet(r.ports) # {}
  <1>1. r.ports \in Seq(Int)  BY DEF Rule
  <1>2. QED  BY <1>1, SequenceHas

LEMMA StateFacts ==
    ASSUME NEW r \in Rule
    PROVE  /\ ToSet(r.ct_states) \in SUBSET CTStates
           /\ ToSet(r.ct_states) # {} <=> r.ct_states # <<>>
           /\ \A x : x \in ToSet(r.ct_states) <=> Contains(r.ct_states, x)
           /\ \A x : x \in ToSet(r.ports) <=> Contains(r.ports, x)
  <1>1. r.ct_states \in Seq(CTStates) /\ r.ports \in Seq(Int)  BY DEF Rule
  <1>2. QED  BY <1>1, SequenceHas

(* They are normal, and a packet meets one of them when it has what the    *)
(* parts and the port ask for.                                             *)
LEMMA PartsNormal ==
    ASSUME NEW r \in Rule, ~RefusedRule(r), NEW port,
           \/ r.ports = <<>> /\ port = Unset
           \/ port \in ToSet(r.ports)
    PROVE  AtPort(r, port) \in NormalRule
  <1> DEFINE n == AtPort(r, port)
             src == CollapseFullPrefix(r.source)
             dst == CollapseFullPrefix(r.destination)
  <1>1. src \in NormalAddresses \cup {Unset} /\ (src # Unset <=> r.source # Unset)
    <2>1. r.source \in Addresses \cup {Unset} /\ ~HasHostBits(r.source)  BY DEF Rule, RefusedRule
    <2>2. QED  BY <2>1, CollapseFacts
  <1>2. dst \in NormalAddresses \cup {Unset} /\ (dst # Unset <=> r.destination # Unset)
    <2>1. r.destination \in Addresses \cup {Unset} /\ ~HasHostBits(r.destination)
      BY DEF Rule, RefusedRule
    <2>2. QED  BY <2>1, CollapseFacts
  <1>3. n = [ chain |-> r.chain, action |-> r.action, proto |-> r.proto, port |-> port,
              source |-> src, destination |-> dst,
              in_interface |-> r.in_interface, out_interface |-> r.out_interface,
              ct_states |-> ToSet(r.ct_states) ]
    BY AtPortParts
  <1>4. /\ ToSet(r.ports) \subseteq 1..MaxPort
        /\ r.proto \in {"tcp", "udp"} <=> r.ports # <<>>
        /\ ~(NoMatcher(r) /\ r.ct_states = <<>>)
    BY DEF RefusedRule
  <1>5. port \in Nat \cup {Unset} /\ (port # Unset <=> r.ports # <<>>)
    BY <1>4, SomePort, FirewallRulesAssumption
  <1> HIDE DEF n, src, dst
  <1>6. NoMatcher(n) <=> NoMatcher(r)  BY <1>1, <1>2, <1>3 DEF NoMatcher
  <1>7. n.ct_states # {} \/ ~NoMatcher(n)  BY <1>3, <1>4, <1>6, StateFacts
  <1>8. n.proto \in {"tcp", "udp"} <=> n.port # Unset  BY <1>3, <1>4, <1>5
  <1>9. /\ r.chain \in Chains /\ r.action \in Actions /\ r.proto \in Protocols \cup {Unset}
        /\ r.in_interface \in Interfaces \cup {Unset} /\ r.out_interface \in Interfaces \cup {Unset}
    BY DEF Rule
  <1>10. n \in [ chain : Chains, action : Actions, proto : Protocols \cup {Unset}, port : Nat \cup {Unset},
              source : NormalAddresses \cup {Unset}, destination : NormalAddresses \cup {Unset},
              in_interface : Interfaces \cup {Unset}, out_interface : Interfaces \cup {Unset},
              ct_states : SUBSET CTStates ]
    BY <1>1, <1>2, <1>3, <1>5, <1>9, StateFacts
  <1>11. QED  BY <1>7, <1>8, <1>10 DEF n, NormalRule

LEMMA PartsMeet ==
    ASSUME NEW r \in Rule, ~RefusedRule(r), NEW packet \in Packets, NEW port
    PROVE  Meets(AtPort(r, port), packet) <=>
             /\ r.proto \in {Unset, packet.proto}
             /\ port # Unset => packet.port = port
             /\ r.source # Unset => Covers(r.source, packet.v6, packet.source)
             /\ r.destination # Unset => Covers(r.destination, packet.v6, packet.destination)
             /\ r.in_interface \in {Unset, packet.iif} /\ r.out_interface \in {Unset, packet.oif}
             /\ r.ct_states # <<>> => Contains(r.ct_states, packet.ct)
  <1> DEFINE n == AtPort(r, port)
             src == CollapseFullPrefix(r.source)
             dst == CollapseFullPrefix(r.destination)
  <1>0. packet.source \in Nat /\ packet.destination \in Nat  BY FirewallRulesAssumption
  <1>1. /\ src # Unset <=> r.source # Unset
        /\ r.source # Unset =>
             (Covers(src, packet.v6, packet.source) <=> Covers(r.source, packet.v6, packet.source))
    <2>1. r.source \in Addresses \cup {Unset} /\ ~HasHostBits(r.source)  BY DEF Rule, RefusedRule
    <2>2. QED  BY <1>0, <2>1, CollapseFacts
  <1>2. /\ dst # Unset <=> r.destination # Unset
        /\ r.destination # Unset =>
             (Covers(dst, packet.v6, packet.destination)
                <=> Covers(r.destination, packet.v6, packet.destination))
    <2>1. r.destination \in Addresses \cup {Unset} /\ ~HasHostBits(r.destination)
      BY DEF Rule, RefusedRule
    <2>2. QED  BY <1>0, <2>1, CollapseFacts
  <1>3. n = [ chain |-> r.chain, action |-> r.action, proto |-> r.proto, port |-> port,
              source |-> src, destination |-> dst,
              in_interface |-> r.in_interface, out_interface |-> r.out_interface,
              ct_states |-> ToSet(r.ct_states) ]
    BY AtPortParts
  <1> HIDE DEF n, src, dst
  <1>4. /\ n.proto = r.proto /\ n.port = port /\ n.source = src /\ n.destination = dst
        /\ n.in_interface = r.in_interface /\ n.out_interface = r.out_interface
        /\ n.ct_states = ToSet(r.ct_states)
    BY <1>3
  <1>5. (n.ct_states # {} => packet.ct \in n.ct_states) <=>
          (r.ct_states # <<>> => Contains(r.ct_states, packet.ct))
    BY <1>4, StateFacts
  <1>6. QED  BY <1>1, <1>2, <1>4, <1>5 DEF n, Meets

(* A declared rule applies to a packet as one of its normal rules does.    *)
LEMMA RuleNormal ==
    ASSUME NEW r \in Rule, ~RefusedRule(r)
    PROVE  /\ NormalizeDesiredRule(r) \in Seq(NormalRule)
           /\ \A n \in ToSet(NormalizeDesiredRule(r)) : n.chain = r.chain /\ n.action = r.action
           /\ \A packet \in Packets :
                Applies(r, packet) <=>
                  /\ r.chain = packet.chain
                  /\ \E n \in ToSet(NormalizeDesiredRule(r)) : Meets(n, packet)
  <1> DEFINE N == NormalizeDesiredRule(r)
  <1>1. Whole(r) = AtPort(r, Unset)  BY AtPortParts DEF Whole
  <1>2. \A n : n \in ToSet(N) <=>
          \E port : /\ \/ r.ports = <<>> /\ port = Unset
                       \/ port \in ToSet(r.ports)
                    /\ n = AtPort(r, port)
    BY <1>1, NormalHas
  <1>3. \A n \in ToSet(N) : n \in NormalRule  BY <1>2, PartsNormal
  <1>4. N \in Seq(ToSet(N))
    <2> DEFINE s == [port \in 1..MaxPort |-> AtPort(r, port)]
               P == {AtPort(r, port) : port \in ToSet(r.ports)}
    <2>1. N = IF r.ports = <<>> THEN <<Whole(r)>> ELSE Those(s, P)
      BY Zenon DEF NormalizeDesiredRule, Whole, AtPort
    <2>2. s \in Seq({AtPort(r, port) : port \in 1..MaxPort})  BY FirewallRulesAssumption
    <2> HIDE DEF s, P
    <2>3. \E X : N \in Seq(X)
      <3>1. CASE r.ports = <<>>
        <4>1. <<Whole(r)>> \in Seq({Whole(r)})  OBVIOUS
        <4>2. QED  BY <2>1, <3>1, <4>1
      <3>2. CASE r.ports # <<>>
        <4>1. Those(s, P) \in Seq({AtPort(r, port) : port \in 1..MaxPort})  BY <2>2, ThoseHave
        <4>2. QED  BY <2>1, <3>2, <4>1
      <3>3. QED  BY <3>1, <3>2
    <2> HIDE DEF N
    <2>4. QED  BY <2>3 DEF ToSet
  <1>5. N \in Seq(NormalRule)  BY <1>3, <1>4
  <1>6. \A n \in ToSet(N) : n.chain = r.chain /\ n.action = r.action  BY <1>2, AtPortParts
  <1>7. ASSUME NEW packet \in Packets
        PROVE  Applies(r, packet) <=> r.chain = packet.chain /\ \E n \in ToSet(N) : Meets(n, packet)
    <2>1. (\E n \in ToSet(N) : Meets(n, packet)) <=>
            \E port : /\ \/ r.ports = <<>> /\ port = Unset
                         \/ port \in ToSet(r.ports)
                      /\ Meets(AtPort(r, port), packet)
      BY <1>2
    <2>2. Unset \notin ToSet(r.ports)
      BY FirewallRulesAssumption DEF RefusedRule
    <2>3. r.ports # <<>> <=> ToSet(r.ports) # {}  BY SomePort
    <2>4. \A x : x \in ToSet(r.ports) <=> Contains(r.ports, x)  BY StateFacts
    <2> HIDE DEF N
    <2>5. QED  BY <2>1, <2>2, <2>3, <2>4, PartsMeet DEF Applies
  <1>8. QED  BY <1>5, <1>6, <1>7

-----------------------------------------------------------------------------
(* The rules of s in the order they are declared, each in its normal form. *)
Groups(s) == [k \in DOMAIN s.rules |-> NormalizeDesiredRule(s.rules[k])]
Order(s) == NormalizeDesiredSpec(s).rules
Managed(s) == DOMAIN NormalizeDesiredSpec(s).policies
PoliciesFor(s, c) == {k \in DOMAIN s.policies : s.policies[k].chain = c}
Mine(s, c) == RulesOf(Order(s), c)

(* The parts of a normal form.                                             *)
LEMMA SpecParts ==
    ASSUME NEW s
    PROVE  /\ Order(s) = Distinct(FlattenSeq(Groups(s)))
           /\ Managed(s) = {s.policies[k].chain : k \in DOMAIN s.policies}
           /\ \A c \in Managed(s) :
                NormalizeDesiredSpec(s).policies[c] = s.policies[Max(PoliciesFor(s, c))].policy
  <1> DEFINE last == [ c \in {s.policies[k].chain : k \in DOMAIN s.policies} |->
                         s.policies[Max(PoliciesFor(s, c))].policy ]
             r == Distinct(FlattenSeq(Groups(s)))
  <1>1. NormalizeDesiredSpec(s) = [policies |-> last, rules |-> r]
    BY Zenon DEF NormalizeDesiredSpec, PoliciesFor, Groups
  <1> HIDE DEF r
  <1>2. NormalizeDesiredSpec(s).policies = last /\ NormalizeDesiredSpec(s).rules = r
    BY <1>1
  <1>3. QED  BY <1>2, Zenon DEF Order, Managed, r

(* What is accepted has rules that are not refused, in chains that it      *)
(* manages.                                                                *)
LEMMA AcceptedFacts ==
    ASSUME NEW s \in Accepted
    PROVE  /\ s.family \in Families
           /\ s.policies \in Seq([chain : Chains, policy : Actions])
           /\ s.rules \in Seq(Rule)
           /\ \A k \in DOMAIN s.rules :
                ~RefusedRule(s.rules[k]) /\ s.rules[k] \in Rule /\ s.rules[k].chain \in Managed(s)
  <1>1. s \in FirewallSpec /\ ~Refused(s)  BY FirewallRulesAssumption DEF Accepted
  <1>2. /\ s.family \in Families
        /\ s.policies \in Seq([chain : Chains, policy : Actions])
        /\ s.rules \in Seq(Rule)
    BY <1>1 DEF FirewallSpec
  <1>3. ASSUME NEW k \in DOMAIN s.rules
        PROVE  ~RefusedRule(s.rules[k]) /\ s.rules[k] \in Rule /\ s.rules[k].chain \in Managed(s)
    <2>1. ~RefusedRule(s.rules[k]) /\ \E l \in DOMAIN s.policies : s.policies[l].chain = s.rules[k].chain
      BY <1>1 DEF Refused
    <2>2. s.rules[k] \in Rule  BY <1>2
    <2>3. Managed(s) = {s.policies[l].chain : l \in DOMAIN s.policies}  BY SpecParts
    <2>4. QED  BY <2>1, <2>2, <2>3
  <1>4. QED  BY <1>2, <1>3

LEMMA GroupFacts ==
    ASSUME NEW s \in Accepted
    PROVE  /\ Groups(s) \in Seq(Seq(NormalRule))
           /\ Len(Groups(s)) = Len(s.rules) /\ DOMAIN s.rules = 1..Len(s.rules)
           /\ \A k \in DOMAIN s.rules : Groups(s)[k] = NormalizeDesiredRule(s.rules[k])
  <1>1. s.rules \in Seq(Rule)  BY AcceptedFacts
  <1>2. \A k \in DOMAIN s.rules : NormalizeDesiredRule(s.rules[k]) \in Seq(NormalRule)
    BY AcceptedFacts, RuleNormal
  <1>3. QED  BY <1>1, <1>2 DEF Groups

(* The normal form has the rules of the groups, each once and in their     *)
(* order.                                                                  *)
LEMMA OrderLeads ==
    ASSUME NEW s \in Accepted, NEW x, NEW S
    PROVE  /\ Order(s) \in Seq(NormalRule) /\ IsInjective(Order(s))
           /\ LeadsIn(Order(s), x, S) <=>
                \E k \in DOMAIN s.rules :
                   /\ LeadsIn(Groups(s)[k], x, S)
                   /\ \A j \in 1..k - 1 : Free(Groups(s)[j], S)
           /\ Free(Order(s), S) <=> \A k \in DOMAIN s.rules : Free(Groups(s)[k], S)
  <1> DEFINE G == Groups(s)
             F == FlattenSeq(G)
  <1>1. G \in Seq(Seq(NormalRule)) /\ Len(G) = Len(s.rules) /\ DOMAIN s.rules = 1..Len(s.rules)
    BY GroupFacts
  <1>2. Order(s) = Distinct(F)  BY SpecParts
  <1> HIDE DEF G
  <1>3. F \in Seq(NormalRule) /\ FlatLead(F, G, Len(G), x, S) /\ FlatFree(F, G, Len(G), S)
    BY <1>1, FlatLeads
  <1> HIDE DEF F
  <1>4. /\ Distinct(F) \in Seq(NormalRule) /\ IsInjective(Distinct(F))
        /\ LeadsIn(Distinct(F), x, S) <=> LeadsIn(F, x, S)
        /\ Free(Distinct(F), S) <=> Free(F, S)
    BY <1>3, DistinctFacts
  <1>5. QED  BY <1>1, <1>2, <1>3, <1>4 DEF FlatLead, FlatFree, G

LEMMA OrderChains ==
    ASSUME NEW s \in Accepted, NEW n \in ToSet(Order(s))
    PROVE  n.chain \in Managed(s)
  <1>1. LeadsIn(Order(s), n, {})  BY Has
  <1>2. PICK k \in DOMAIN s.rules : LeadsIn(Groups(s)[k], n, {})  BY <1>1, OrderLeads
  <1>3. n \in ToSet(NormalizeDesiredRule(s.rules[k]))  BY <1>2, Has, GroupFacts
  <1>4. /\ ~RefusedRule(s.rules[k]) /\ s.rules[k] \in Rule
        /\ s.rules[k].chain \in Managed(s)
    BY AcceptedFacts
  <1>5. n.chain = s.rules[k].chain  BY <1>3, <1>4, RuleNormal
  <1>6. QED  BY <1>4, <1>5

(* Those of a chain, in the order of all.                                  *)
LEMMA MineFacts ==
    ASSUME NEW s \in Accepted, NEW c, NEW x, NEW S
    PROVE  /\ Mine(s, c) \in Seq(NormalRule) /\ IsInjective(Mine(s, c))
           /\ ToSet(Mine(s, c)) = {r \in ToSet(Order(s)) : r.chain = c}
           /\ LeadsIn(Mine(s, c), x, S) <=>
                x \in ToSet(Mine(s, c)) /\ LeadsIn(Order(s), x, S \cap ToSet(Mine(s, c)))
  <1> DEFINE P == {r \in ToSet(Order(s)) : r.chain = c}
  <1>1. Order(s) \in Seq(NormalRule) /\ IsInjective(Order(s))  BY OrderLeads
  <1>2. Mine(s, c) = Those(Order(s), P)  BY DEF Mine, RulesOf
  <1>3. ToSet(Mine(s, c)) = P  BY <1>1, <1>2, ThoseHave
  <1> HIDE DEF P
  <1>4. /\ Those(Order(s), P) \in Seq(NormalRule)
        /\ LeadsIn(Those(Order(s), P), x, S) <=> x \in P /\ LeadsIn(Order(s), x, S \cap P)
        /\ IsInjective(Those(Order(s), P))
    BY <1>1, ThoseFacts
  <1>5. QED  BY <1>2, <1>3, <1>4 DEF P

(* The chains a ruleset manages, and their policies.                       *)
LEMMA PolicyFacts ==
    ASSUME NEW s \in Accepted, NEW c
    PROVE  /\ Managed(s) \subseteq Chains
           /\ c \in Managed(s) <=> PoliciesFor(s, c) # {}
           /\ c \in Managed(s) => NormalizeDesiredSpec(s).policies[c] \in Actions
  <1>1. Managed(s) = {s.policies[k].chain : k \in DOMAIN s.policies}  BY SpecParts
  <1> DEFINE E == [chain : Chains, policy : Actions]
             ps == s.policies
  <1>0. ps \in Seq(E)  BY AcceptedFacts
  <1> HIDE DEF E, ps
  <1>2. DOMAIN ps = 1..Len(ps) /\ Len(ps) \in Nat /\ \A k \in DOMAIN ps : ps[k] \in E
    BY <1>0
  <1> USE DEF ps
  <1>3. \A k \in DOMAIN s.policies : s.policies[k].chain \in Chains /\ s.policies[k].policy \in Actions
    BY <1>2 DEF E
  <1>4. Managed(s) \subseteq Chains /\ (c \in Managed(s) <=> PoliciesFor(s, c) # {})
    BY <1>1, <1>3 DEF PoliciesFor
  <1>5. ASSUME c \in Managed(s) PROVE NormalizeDesiredSpec(s).policies[c] \in Actions
    <2> DEFINE T == PoliciesFor(s, c)
    <2>1. T # {} /\ T \in SUBSET (1..Len(s.policies))  BY <1>2, <1>4, <1>5 DEF PoliciesFor
    <2> HIDE DEF T
    <2>2. Max(T) \in T  BY <1>2, <2>1, GreatestIndex
    <2>3. NormalizeDesiredSpec(s).policies[c] = s.policies[Max(T)].policy  BY <1>5, SpecParts DEF T
    <2>4. QED  BY <1>2, <1>3, <2>1, <2>2, <2>3
  <1>6. QED  BY <1>4, <1>5

(* The first of some positions, and the element there.                     *)
LEMMA LeastIndex ==
    ASSUME NEW n \in Nat, NEW T \in SUBSET (1..n), T # {}
    PROVE  Min(T) \in T /\ \A k \in T : Min(T) <= k
  <1>1. T \in SUBSET Nat  OBVIOUS
  <1>2. \E m \in T : \A k \in T : m <= k  BY <1>1, LeastNumber
  <1>3. QED  BY <1>2 DEF Min

LEMMA FirstOf ==
    ASSUME NEW X, NEW s \in Seq(X), NEW H, ~Free(s, H)
    PROVE  \E x \in H : LeadsIn(s, x, H)
  <1> DEFINE T == {k \in DOMAIN s : s[k] \in H}
  <1>1. DOMAIN s = 1..Len(s) /\ Len(s) \in Nat  OBVIOUS
  <1>2. T \in SUBSET (1..Len(s)) /\ T # {}  BY <1>1 DEF Free
  <1> DEFINE m == Min(T)
  <1> HIDE DEF T
  <1>3. m \in T /\ \A k \in T : m <= k  BY <1>1, <1>2, LeastIndex
  <1> HIDE DEF m
  <1>4. m \in 1..Len(s) /\ s[m] \in H  BY <1>1, <1>3 DEF T
  <1>5. ASSUME NEW j \in 1..m - 1 PROVE s[j] \notin H
    <2>1. j \in 1..Len(s) /\ ~(m <= j)  BY <1>1, <1>4
    <2>2. QED  BY <1>1, <1>3, <2>1 DEF T
  <1>6. QED  BY <1>1, <1>4, <1>5 DEF LeadsIn

-----------------------------------------------------------------------------
(* The text of the rules of a chain.                                       *)
Written(s, c) == [k \in DOMAIN Mine(s, c) |-> RenderNormalizedRule(s.family, Mine(s, c)[k])]

(* The text of a ruleset: for each chain it manages, the policy and the    *)
(* rules.                                                                  *)
LEMMA TextParts ==
    ASSUME NEW s \in Accepted
    PROVE  /\ DOMAIN TextOf[s] = Managed(s)
           /\ \A c \in Managed(s) :
                /\ TextOf[s][c].policy = NormalizeDesiredSpec(s).policies[c]
                /\ TextOf[s][c].rules = Written(s, c)
  <1> DEFINE D == NormalizeDesiredSpec(s)
             C == DOMAIN D.policies \cup {D.rules[k].chain : k \in DOMAIN D.rules}
             P(c) == IF c \in DOMAIN D.policies THEN D.policies[c] ELSE Unset
             W(c) == Written(s, c)
             t == [c \in C |-> [policy |-> P(c), rules |-> W(c)]]
  <1>1. TextOf[s] = t
    BY Zenon DEF TextOf, Desired, RenderNormalized, Written, Mine, Order
  <1>2. C = Managed(s)
    <2>1. \A k \in DOMAIN Order(s) : Order(s)[k] \in ToSet(Order(s))  BY DEF ToSet
    <2>2. \A k \in DOMAIN Order(s) : Order(s)[k].chain \in Managed(s)  BY <2>1, OrderChains
    <2>3. QED  BY <2>2 DEF Order, Managed
  <1> HIDE DEF W
  <1>3. \A c \in Managed(s) : t[c].policy = P(c) /\ t[c].rules = W(c)  BY <1>2
  <1> HIDE DEF t
  <1>4. \A c \in Managed(s) : P(c) = D.policies[c]  BY DEF Managed
  <1> HIDE DEF P
  <1>5. DOMAIN t = Managed(s)  BY <1>2 DEF t
  <1>6. QED  BY <1>1, <1>3, <1>4, <1>5, Zenon DEF W

(* The rules that a packet meets.                                          *)
Met(packet) == {n \in NormalRule : Meets(n, packet)}

(* A rule is hit by the packets that meet it.                              *)
LEMMA WrittenHits ==
    ASSUME NEW s \in Accepted, NEW c, NEW packet, NEW k \in DOMAIN Mine(s, c)
    PROVE  /\ (\A l \in DOMAIN Written(s, c)[k] : Hits(Written(s, c)[k][l], packet))
                <=> Mine(s, c)[k] \in Met(packet)
           /\ Right(Written(s, c)[k], {<<"verdict">>}) = Mine(s, c)[k].action
  <1> DEFINE n == Mine(s, c)[k]
             E == RenderNormalizedRule(s.family, n)
  <1>1. s.family \in Families  BY AcceptedFacts
  <1>2. Mine(s, c) \in Seq(NormalRule)  BY MineFacts
  <1>3. n \in NormalRule  BY <1>2
  <1>4. Written(s, c)[k] = E  BY DEF Written
  <1> HIDE DEF n
  <1>5. (\A e \in ToSet(E) : Hits(e, packet)) <=> Meets(n, packet)  BY <1>1, <1>3, HitsMeets
  <1>6. Right(E, {<<"verdict">>}) = n.action  BY <1>1, <1>3, VerdictIs
  <1> HIDE DEF E
  <1>7. (\A l \in DOMAIN E : Hits(E[l], packet)) <=> \A e \in ToSet(E) : Hits(e, packet)
    BY DEF ToSet
  <1>8. QED  BY <1>3, <1>4, <1>5, <1>6, <1>7 DEF Met, n

(* What the kernel does with a packet is what the first rule of the text   *)
(* that the packet meets says, or the policy.                              *)
LEMMA VerdictFirst ==
    ASSUME NEW s \in Accepted, NEW packet, packet.chain \in Managed(s)
    PROVE  /\ Free(Mine(s, packet.chain), Met(packet)) =>
                Verdict(TextOf[s], packet) = NormalizeDesiredSpec(s).policies[packet.chain]
           /\ \A x \in Met(packet) : LeadsIn(Mine(s, packet.chain), x, Met(packet)) =>
                Verdict(TextOf[s], packet) = x.action
  <1> DEFINE c == packet.chain
             m == Mine(s, c)
             W == Written(s, c)
             H == Met(packet)
             T == {k \in DOMAIN W : \A l \in DOMAIN W[k] : Hits(W[k][l], packet)}
             policy == NormalizeDesiredSpec(s).policies[c]
  <1>1. Verdict(TextOf[s], packet) =
          IF T = {} THEN policy ELSE Right(W[Min(T)], {<<"verdict">>})
    <2>1. /\ c \in DOMAIN TextOf[s] /\ TextOf[s][c].policy = policy
          /\ TextOf[s][c].rules = W
      BY TextParts
    <2> DEFINE rules == TextOf[s][c].rules
               hits == {k \in DOMAIN rules : \A l \in DOMAIN rules[k] : Hits(rules[k][l], packet)}
    <2>2. Verdict(TextOf[s], packet) =
            IF hits = {} THEN TextOf[s][c].policy ELSE Right(rules[Min(hits)], {<<"verdict">>})
      BY <2>1, Zenon DEF Verdict
    <2> HIDE DEF W, policy
    <2>3. hits = T  BY <2>1
    <2> HIDE DEF T, hits
    <2>4. QED  BY <2>1, <2>2, <2>3
  <1>2. DOMAIN W = DOMAIN m  BY DEF Written
  <1>3. \A k \in DOMAIN m : /\ (\A l \in DOMAIN W[k] : Hits(W[k][l], packet)) <=> m[k] \in H
                            /\ Right(W[k], {<<"verdict">>}) = m[k].action
    BY WrittenHits
  <1>4. m \in Seq(NormalRule)  BY MineFacts
  <1>5. DOMAIN m = 1..Len(m) /\ Len(m) \in Nat  BY <1>4
  <1> HIDE DEF m, W, H
  <1>6. T = {k \in DOMAIN m : m[k] \in H}  BY <1>2, <1>3
  <1> HIDE DEF T
  <1>7. Free(m, H) => T = {}  BY <1>6 DEF Free
  <1>8. ASSUME NEW x \in H, LeadsIn(m, x, H)
        PROVE  T # {} /\ Right(W[Min(T)], {<<"verdict">>}) = x.action
    <2>1. PICK i \in DOMAIN m : m[i] = x /\ \A j \in 1..i - 1 : m[j] \notin H  BY <1>8 DEF LeadsIn
    <2>2. i \in T /\ T \in SUBSET (1..Len(m))  BY <1>5, <1>6, <2>1, <1>8
    <2> DEFINE k == Min(T)
    <2>3. k \in T /\ k <= i  BY <1>5, <2>2, LeastIndex
    <2> HIDE DEF k
    <2>4. k \in DOMAIN m /\ m[k] \in H  BY <1>6, <2>3
    <2>5. k = i
      <3>1. k \in Nat /\ i \in Nat /\ 1 <= k  BY <1>5, <2>4
      <3>2. ~(k \in 1..i - 1)  BY <2>1, <2>4
      <3>3. QED  BY <2>3, <3>1, <3>2
    <2>6. Right(W[k], {<<"verdict">>}) = x.action  BY <1>3, <2>1, <2>4, <2>5
    <2>7. QED  BY <2>2, <2>6 DEF k
  <1>9. QED  BY <1>1, <1>7, <1>8 DEF m, H

(* What a declared ruleset says of a packet is the same of its normal form.*)
LEMMA SaysFirst ==
    ASSUME NEW s \in Accepted, NEW packet \in Packets, packet.chain \in Managed(s)
    PROVE  \/ /\ Free(Mine(s, packet.chain), Met(packet))
              /\ Says(s, packet) = NormalizeDesiredSpec(s).policies[packet.chain]
           \/ \E x \in Met(packet) :
                LeadsIn(Mine(s, packet.chain), x, Met(packet)) /\ Says(s, packet) = x.action
  <1> DEFINE c == packet.chain
             m == Mine(s, c)
             H == Met(packet)
             R == {k \in DOMAIN s.rules : Applies(s.rules[k], packet)}
             policy == NormalizeDesiredSpec(s).policies[c]
  <1>1. Says(s, packet) = IF R = {} THEN policy ELSE s.rules[Min(R)].action
    <2> DEFINE P == {k \in DOMAIN s.policies : s.policies[k].chain = packet.chain}
    <2>1. Says(s, packet) = IF P = {} THEN Unset
            ELSE IF R = {} THEN s.policies[Max(P)].policy ELSE s.rules[Min(R)].action
      BY Zenon DEF Says
    <2>2. P = PoliciesFor(s, c)  BY DEF PoliciesFor
    <2>3. P # {}  BY <2>2, PolicyFacts
    <2>5. policy = s.policies[Max(P)].policy
      <3>1. policy = s.policies[Max(PoliciesFor(s, c))].policy  BY SpecParts
      <3> HIDE DEF P
      <3>2. QED  BY <2>2, <3>1
    <2> HIDE DEF P, R, policy
    <2>4. QED  BY <2>1, <2>3, <2>5
  <1>2. DOMAIN s.rules = 1..Len(s.rules) /\ Len(s.rules) \in Nat
    <2>1. s.rules \in Seq(Rule)  BY AcceptedFacts
    <2>2. QED  BY <2>1
  <1>3. ASSUME NEW k \in DOMAIN s.rules
        PROVE  k \in R <=> s.rules[k].chain = c /\ \E n \in ToSet(Groups(s)[k]) : Meets(n, packet)
    <2>1. s.rules[k] \in Rule /\ ~RefusedRule(s.rules[k])  BY AcceptedFacts
    <2>2. Groups(s)[k] = NormalizeDesiredRule(s.rules[k])  BY GroupFacts
    <2>3. QED  BY <2>1, <2>2, RuleNormal
  <1>4. ASSUME NEW k \in DOMAIN s.rules, NEW n \in ToSet(Groups(s)[k])
        PROVE  n \in NormalRule /\ n.chain = s.rules[k].chain /\ n.action = s.rules[k].action
    <2>1. s.rules[k] \in Rule /\ ~RefusedRule(s.rules[k])  BY AcceptedFacts
    <2>2. Groups(s)[k] = NormalizeDesiredRule(s.rules[k])  BY GroupFacts
    <2>3. Groups(s)[k] \in Seq(NormalRule)  BY <2>1, <2>2, RuleNormal
    <2>4. n \in NormalRule  BY <2>3 DEF ToSet
    <2>5. QED  BY <2>1, <2>2, <2>4, RuleNormal
  <1>9. ToSet(m) = {r \in ToSet(Order(s)) : r.chain = c}  BY MineFacts
  <1>5. ASSUME NEW k \in R PROVE \E n \in ToSet(Groups(s)[k]) : n \in ToSet(m) /\ n \in H
    <2>1. PICK n \in ToSet(Groups(s)[k]) : Meets(n, packet)  BY <1>3
    <2>2. s.rules[k].chain = c  BY <1>3
    <2>3. n \in NormalRule /\ n.chain = c  BY <1>4, <2>2
    <2>4. n \in ToSet(Order(s))
      <3>1. \E i \in DOMAIN s.rules : LeadsIn(Groups(s)[i], n, {})  BY Has
      <3>2. \A j : Free(Groups(s)[j], {})  BY DEF Free
      <3>3. LeadsIn(Order(s), n, {})  BY <3>1, <3>2, OrderLeads
      <3>4. QED  BY <3>3, Has
    <2>5. n \in ToSet(m)  BY <1>9, <2>3, <2>4
    <2>6. QED  BY <2>1, <2>3, <2>5 DEF Met
  <1>6. CASE Free(m, H)
    <2>1. R = {}  BY <1>5, <1>6 DEF Free, ToSet
    <2>2. QED  BY <1>1, <1>6, <2>1
  <1>7. CASE ~Free(m, H)
    <2>1. m \in Seq(NormalRule)  BY MineFacts
    <2>2. PICK x \in H : LeadsIn(m, x, H)  BY <1>7, <2>1, FirstOf
    <2>3. x \in ToSet(m) /\ LeadsIn(Order(s), x, H \cap ToSet(m))  BY <2>2, MineFacts
    <2>4. PICK k \in DOMAIN s.rules :
            /\ LeadsIn(Groups(s)[k], x, H \cap ToSet(m))
            /\ \A j \in 1..k - 1 : Free(Groups(s)[j], H \cap ToSet(m))
      BY <2>3, OrderLeads
    <2>5. x \in ToSet(Groups(s)[k])  BY <2>4 DEF LeadsIn, ToSet
    <2>6. x.chain = c  BY <1>9, <2>3
    <2>7. s.rules[k].chain = c /\ x.action = s.rules[k].action  BY <1>4, <2>5, <2>6
    <2>8. k \in R  BY <1>3, <2>5, <2>7 DEF Met
    <2>9. ASSUME NEW j \in R PROVE k <= j
      <3>1. PICK n \in ToSet(Groups(s)[j]) : n \in ToSet(m) /\ n \in H  BY <1>5
      <3>2. ~Free(Groups(s)[j], H \cap ToSet(m))  BY <3>1 DEF Free, ToSet
      <3>3. j \notin 1..k - 1  BY <2>4, <3>2
      <3>4. j \in 1..Len(s.rules) /\ k \in 1..Len(s.rules)  BY <1>2
      <3>5. QED  BY <1>2, <3>3, <3>4
    <2>10. R \in SUBSET (1..Len(s.rules)) /\ R # {}  BY <1>2, <2>8
    <2> DEFINE i == Min(R)
    <2> HIDE DEF R
    <2>11. i \in R /\ i <= k  BY <1>2, <2>8, <2>10, LeastIndex
    <2> HIDE DEF i
    <2>12. k <= i /\ i \in Nat /\ k \in Nat  BY <1>2, <2>9, <2>10, <2>11
    <2>13. i = k  BY <2>11, <2>12
    <2>14. Says(s, packet) = x.action  BY <1>1, <2>7, <2>8, <2>13 DEF i
    <2>15. QED  BY <2>2, <2>14
  <1>8. QED  BY <1>6, <1>7

-----------------------------------------------------------------------------
(* SetToSeq lists every element of a finite set once.                      *)
LEMMA Enumerated ==
    ASSUME NEW S, IsFiniteSet(S)
    PROVE  /\ SetToSeq(S) \in Seq(S) /\ IsInjective(SetToSeq(S))
           /\ ToSet(SetToSeq(S)) = S
  <1> DEFINE n == Cardinality(S)
             f == SetToSeq(S)
  <1>1. n \in Nat /\ ExistsBijection(1..n, S)  BY FS_CardinalityType
  <1>2. \E g \in [1..n -> S] : IsInjective(g)
    <2> HIDE DEF n
    <2>1. PICK g : g \in Bijection(1..n, S)  BY <1>1 DEF ExistsBijection
    <2>2. g \in [1..n -> S] /\ IsInjective(g)  BY <2>1 DEF Bijection, Injection
    <2>3. QED  BY <2>2
  <1>4. f \in [1..n -> S] /\ IsInjective(f)
    <2>1. f = CHOOSE h \in [1..n -> S] : IsInjective(h)  BY Zenon DEF SetToSeq
    <2> HIDE DEF f, n
    <2>2. QED  BY <1>2, <2>1
  <1> HIDE DEF f
  <1>5. IsFiniteSet(1..n) /\ Cardinality(1..n) = n  BY <1>1, FS_CountingElements, FS_Interval
  <1>6. f \in Injection(1..n, S)  BY <1>4 DEF Injection, IsInjective
  <1>7. f \in Surjection(1..n, S)  BY <1>5, <1>6, FS_Injection
  <1> HIDE DEF n
  <1>8. ToSet(f) = S  BY <1>4, <1>7 DEF ToSet, Surjection
  <1>9. f \in Seq(S)  BY <1>1, <1>4
  <1>10. QED  BY <1>4, <1>8, <1>9 DEF f

(* Concatenated with copies of itself a sequence leads as it does alone.   *)
LEMMA Repeated ==
    ASSUME NEW X, NEW t \in Seq(X), NEW ss \in Seq(Seq(X)), NEW i \in 1..Len(ss), ss[i] = t,
           \A k \in 1..Len(ss) : ss[k] = t \/ ss[k] = <<>>, NEW x, NEW S
    PROVE  /\ FlattenSeq(ss) \in Seq(X)
           /\ LeadsIn(FlattenSeq(ss), x, S) <=> LeadsIn(t, x, S)
  <1> DEFINE F == FlattenSeq(ss)
             n == Len(ss)
  <1>1. F \in Seq(X) /\ FlatLead(F, ss, n, x, S)  BY FlatLeads
  <1> HIDE DEF F
  <1>2. n \in Nat  OBVIOUS
  <1>3. ~LeadsIn(<<>>, x, S) /\ Free(<<>>, S)  BY SingleFacts
  <1> HIDE DEF n
  <1>4. LeadsIn(F, x, S) => LeadsIn(t, x, S)
    BY <1>1, <1>3 DEF FlatLead, n
  <1>5. ASSUME LeadsIn(t, x, S) PROVE LeadsIn(F, x, S)
    <2> DEFINE T == {k \in 1..n : ss[k] = t}
    <2>1. T \in SUBSET (1..n) /\ T # {}  BY DEF n
    <2> DEFINE k == Min(T)
    <2> HIDE DEF T
    <2>2. k \in T /\ \A l \in T : k <= l  BY <1>2, <2>1, LeastIndex
    <2> HIDE DEF k
    <2>3. k \in 1..n /\ ss[k] = t  BY <2>2 DEF T
    <2>4. ASSUME NEW j \in 1..k - 1 PROVE Free(ss[j], S)
      <3>1. j \in 1..n /\ ~(k <= j)  BY <1>2, <2>3
      <3>2. ss[j] # t  BY <2>2, <3>1 DEF T
      <3>3. ss[j] = <<>>  BY <3>1, <3>2 DEF n
      <3>4. QED  BY <1>3, <3>3
    <2>5. QED  BY <1>1, <1>5, <2>3, <2>4 DEF FlatLead
  <1>6. QED  BY <1>1, <1>4, <1>5 DEF F

(* The rules hardline reads in the rules of a chain.                       *)
ReadFrom(c, rs) == FlattenSeq([k \in DOMAIN rs |-> NormalizeNftRuleExpr(c, SpeltRule(rs[k]))])

(* What is read in the rules of a chain of a text is the rules it was made *)
(* from.                                                                   *)
LEMMA ReadChain ==
    ASSUME NEW s \in Accepted, NEW c, NEW Y, NEW rs \in Seq(Y),
           \A y, R : LeadsIn(rs, y, R) <=> LeadsIn(Written(s, c), y, R), NEW x, NEW S
    PROVE  /\ ReadFrom(c, rs) \in Seq(NormalRule)
           /\ LeadsIn(ReadFrom(c, rs), x, S) <=> LeadsIn(Mine(s, c), x, S)
  <1> DEFINE m == Mine(s, c)
             M == ToSet(m)
             W == Written(s, c)
             Ren(n) == RenderNormalizedRule(s.family, n)
             Q == {Ren(n) : n \in M \cap S}
             ss == [k \in DOMAIN rs |-> NormalizeNftRuleExpr(c, SpeltRule(rs[k]))]
             F == FlattenSeq(ss)
  <1>1. ASSUME NEW n \in M
        PROVE  n \in NormalRule /\ NormalizeNftRuleExpr(c, SpeltRule(Ren(n))) = <<n>>
    <2>1. m \in Seq(NormalRule)  BY MineFacts
    <2>2. n \in NormalRule  BY <2>1 DEF ToSet
    <2>3. M = {r \in ToSet(Order(s)) : r.chain = c}  BY MineFacts
    <2>4. n.chain = c  BY <2>3
    <2>5. s.family \in Families  BY AcceptedFacts
    <2>6. QED  BY <2>2, <2>4, <2>5, RuleReadsBack
  <1>2. DOMAIN W = DOMAIN m /\ \A k \in DOMAIN m : W[k] = Ren(m[k])  BY DEF Written
  <1> HIDE DEF W, Ren
  <1>3. DOMAIN rs = 1..Len(rs) /\ Len(rs) \in Nat  OBVIOUS
  <1>4. ASSUME NEW k \in DOMAIN rs PROVE \E n \in M : rs[k] = Ren(n)
    <2>1. LeadsIn(rs, rs[k], {})  BY <1>4 DEF LeadsIn
    <2>2. LeadsIn(W, rs[k], {})  BY <2>1 DEF W
    <2>3. PICK i \in DOMAIN W : W[i] = rs[k]  BY <2>2 DEF LeadsIn
    <2>4. m[i] \in M  BY <1>2, <2>3 DEF ToSet
    <2>5. QED  BY <1>2, <2>3, <2>4
  <1>5. ASSUME NEW k \in DOMAIN rs, NEW n \in M, rs[k] = Ren(n) PROVE ss[k] = <<n>>
    BY <1>1, <1>5
  <1>6. DOMAIN ss = 1..Len(rs) /\ Len(ss) = Len(rs)  BY <1>3
  <1>7. ss \in Seq(Seq(NormalRule))
    <2>1. ASSUME NEW k \in 1..Len(rs) PROVE ss[k] \in Seq(NormalRule)
      <3>1. PICK n \in M : rs[k] = Ren(n)  BY <1>3, <1>4
      <3>2. ss[k] = <<n>>  BY <1>3, <1>5, <3>1
      <3>3. n \in NormalRule  BY <1>1
      <3> HIDE DEF ss
      <3>4. QED  BY <3>2, <3>3
    <2>2. QED  BY <1>3, <2>1
  <1> HIDE DEF ss
  <1>8. F \in Seq(NormalRule) /\ FlatLead(F, ss, Len(ss), x, S)  BY <1>7, FlatLeads
  <1> HIDE DEF F
  <1>9. \A n, l \in M : Ren(n) = Ren(l) => n = l
    <2>1. ASSUME NEW n \in M, NEW l \in M, Ren(n) = Ren(l) PROVE n = l
      <3>1. <<n>> = <<l>>  BY <1>1, <2>1
      <3>2. QED  BY <3>1
    <2>2. QED  BY <2>1
  <1> HIDE DEF M
  <1>10. \A n \in M : Ren(n) \in Q <=> n \in S  BY <1>9
  <1> HIDE DEF Q
  <1>11. ASSUME NEW k \in DOMAIN rs
         PROVE  /\ Free(ss[k], S) <=> rs[k] \notin Q
                /\ LeadsIn(ss[k], x, S) <=> x \in M /\ rs[k] = Ren(x)
    <2>1. PICK n \in M : rs[k] = Ren(n)  BY <1>4
    <2>2. ss[k] = <<n>>  BY <1>5, <2>1
    <2>3. (LeadsIn(<<n>>, x, S) <=> n = x) /\ (Free(<<n>>, S) <=> n \notin S)  BY SingleFacts
    <2>4. x \in M /\ Ren(n) = Ren(x) <=> n = x  BY <1>9
    <2>5. QED  BY <1>10, <2>1, <2>2, <2>3, <2>4
  <1>12. LeadsIn(F, x, S) <=>
           \E k \in 1..Len(rs) : LeadsIn(ss[k], x, S) /\ \A j \in 1..k - 1 : Free(ss[j], S)
    BY <1>6, <1>8 DEF FlatLead
  <1>13. \A k \in 1..Len(rs) : \A j \in 1..k - 1 : j \in 1..Len(rs)  BY <1>3
  <1>14. LeadsIn(F, x, S) <=> x \in M /\ LeadsIn(rs, Ren(x), Q)
    BY <1>3, <1>11, <1>12, <1>13 DEF LeadsIn
  <1>15. LeadsIn(rs, Ren(x), Q) <=> LeadsIn(W, Ren(x), Q)  BY DEF W
  <1>16. m \in Seq(NormalRule)  BY MineFacts
  <1>17. /\ \A k \in DOMAIN m : m[k] \in M
         /\ \A k \in DOMAIN m : \A j \in 1..k - 1 : j \in DOMAIN m
    BY <1>16 DEF M, ToSet
  <1> HIDE DEF m
  <1>18. x \in M => (LeadsIn(W, Ren(x), Q) <=> LeadsIn(m, x, S))
    BY <1>2, <1>9, <1>10, <1>17 DEF LeadsIn
  <1>19. LeadsIn(m, x, S) => x \in M  BY <1>17 DEF LeadsIn
  <1>20. LeadsIn(F, x, S) <=> LeadsIn(m, x, S)  BY <1>14, <1>15, <1>18, <1>19
  <1>21. ReadFrom(c, rs) = F  BY Zenon DEF ReadFrom, F, ss
  <1>22. QED  BY <1>8, <1>20, <1>21 DEF m

(* The texts a table holds when s is what was loaded into it.              *)
Holds(texts, s) == texts \in Seq({<<>>, TextOf[s]}) /\ TextOf[s] \in ToSet(texts)

LoadedRules(texts, c) ==
    FlattenSeq([k \in DOMAIN texts |-> If(c \in DOMAIN texts[k], texts[k][c].rules)])

(* What a table has of a chain leads as the rules of one of its texts.     *)
LEMMA LoadedLeads ==
    ASSUME NEW s \in Accepted, NEW texts, Holds(texts, s), NEW c \in Managed(s)
    PROVE  \E Y : /\ LoadedRules(texts, c) \in Seq(Y)
                  /\ \A y, R : LeadsIn(LoadedRules(texts, c), y, R) <=> LeadsIn(Written(s, c), y, R)
  <1> DEFINE W == Written(s, c)
             Y == {RenderNormalizedRule(s.family, Mine(s, c)[k]) : k \in DOMAIN Mine(s, c)}
             ss == [k \in DOMAIN texts |-> If(c \in DOMAIN texts[k], texts[k][c].rules)]
  <1>1. W \in Seq(Y)
    <2>1. Mine(s, c) \in Seq(NormalRule)  BY MineFacts
    <2>2. DOMAIN Mine(s, c) = 1..Len(Mine(s, c)) /\ Len(Mine(s, c)) \in Nat  BY <2>1
    <2>3. QED  BY <2>2 DEF Written
  <1>2. texts \in Seq({<<>>, TextOf[s]}) /\ TextOf[s] \in ToSet(texts)  BY DEF Holds
  <1>3. DOMAIN texts = 1..Len(texts) /\ Len(texts) \in Nat
        /\ \A k \in DOMAIN texts : texts[k] = <<>> \/ texts[k] = TextOf[s]
    BY <1>2
  <1>4. DOMAIN TextOf[s] = Managed(s) /\ TextOf[s][c].rules = W  BY TextParts
  <1> HIDE DEF W, Y
  <1>5. DOMAIN <<>> = {}  OBVIOUS
  <1>6. \A k \in DOMAIN texts : /\ texts[k] = <<>> => ss[k] = <<>>
                                /\ texts[k] = TextOf[s] => ss[k] = W
    BY <1>4, <1>5 DEF If
  <1>7. DOMAIN ss = 1..Len(texts) /\ Len(ss) = Len(texts)  BY <1>3
  <1>8. ss \in Seq(Seq(Y))
    <2>1. <<>> \in Seq(Y)  OBVIOUS
    <2>2. \A k \in 1..Len(texts) : ss[k] \in Seq(Y)  BY <1>1, <1>3, <1>6, <2>1
    <2>3. QED  BY <1>3, <2>2
  <1> HIDE DEF ss
  <1>9. PICK i \in DOMAIN texts : texts[i] = TextOf[s]  BY <1>2 DEF ToSet
  <1>10. i \in 1..Len(ss) /\ ss[i] = W  BY <1>3, <1>6, <1>7, <1>9
  <1>11. \A k \in 1..Len(ss) : ss[k] = W \/ ss[k] = <<>>  BY <1>3, <1>6, <1>7
  <1>12. ASSUME NEW y, NEW R
         PROVE  FlattenSeq(ss) \in Seq(Y) /\ (LeadsIn(FlattenSeq(ss), y, R) <=> LeadsIn(W, y, R))
    BY <1>1, <1>8, <1>10, <1>11, Repeated
  <1>13. LoadedRules(texts, c) = FlattenSeq(ss)  BY DEF LoadedRules, ss
  <1>14. QED  BY <1>12, <1>13 DEF W

(* What nft lists of such a table.                                         *)
LEMMA ListingParts ==
    ASSUME NEW s \in Accepted, NEW texts, Holds(texts, s)
    PROVE  /\ DOMAIN Listing(texts) = Managed(s)
           /\ \A c \in Managed(s) :
                /\ Listing(texts)[c].policy = NormalizeDesiredSpec(s).policies[c]
                /\ Listing(texts)[c].rules =
                     [k \in DOMAIN LoadedRules(texts, c) |-> SpeltRule(LoadedRules(texts, c)[k])]
  <1> DEFINE C == UNION {DOMAIN texts[k] : k \in DOMAIN texts}
             those(c) == {k \in DOMAIN texts : c \in DOMAIN texts[k]}
             ss(c) == [k \in DOMAIN texts |-> If(k \in those(c), texts[k][c].rules)]
             rs(c) == FlattenSeq(ss(c))
             P(c) == texts[Max(those(c))][c].policy
             W(c) == [k \in DOMAIN rs(c) |-> [l \in DOMAIN rs(c)[k] |-> Spelt(rs(c)[k][l])]]
             L == [c \in C |-> [policy |-> P(c), rules |-> W(c)]]
  <1>1. Listing(texts) = L  BY Zenon DEF Listing
  <1>2. texts \in Seq({<<>>, TextOf[s]}) /\ TextOf[s] \in ToSet(texts)  BY DEF Holds
  <1>3. DOMAIN texts = 1..Len(texts) /\ Len(texts) \in Nat
        /\ \A k \in DOMAIN texts : texts[k] = <<>> \/ texts[k] = TextOf[s]
    BY <1>2
  <1>4. PICK i \in DOMAIN texts : texts[i] = TextOf[s]  BY <1>2 DEF ToSet
  <1>5. DOMAIN TextOf[s] = Managed(s) /\ DOMAIN <<>> = {}  BY TextParts
  <1>6. C = Managed(s)  BY <1>3, <1>4, <1>5
  <1> HIDE DEF C
  <1>7. ASSUME NEW c \in Managed(s)
        PROVE  /\ P(c) = NormalizeDesiredSpec(s).policies[c]
               /\ W(c) = [k \in DOMAIN LoadedRules(texts, c) |-> SpeltRule(LoadedRules(texts, c)[k])]
    <2>1. i \in those(c) /\ those(c) \in SUBSET (1..Len(texts))  BY <1>3, <1>4, <1>5
    <2>2. \A k \in those(c) : texts[k] = TextOf[s]  BY <1>3, <1>5
    <2> DEFINE T == those(c)
    <2> HIDE DEF those
    <2>3. Max(T) \in T  BY <1>3, <2>1, GreatestIndex
    <2>4. texts[Max(T)] = TextOf[s]  BY <2>2, <2>3
    <2>5. P(c) = NormalizeDesiredSpec(s).policies[c]  BY <2>4, TextParts
    <2>6. \A k \in DOMAIN texts : k \in T <=> c \in DOMAIN texts[k]  BY DEF those
    <2> HIDE DEF T
    <2>7. ss(c) = [k \in DOMAIN texts |-> If(c \in DOMAIN texts[k], texts[k][c].rules)]
      BY <2>6 DEF T, If
    <2> HIDE DEF ss
    <2>8. rs(c) = LoadedRules(texts, c)  BY <2>7 DEF LoadedRules
    <2> HIDE DEF rs
    <2>9. W(c) = [k \in DOMAIN rs(c) |-> SpeltRule(rs(c)[k])]  BY DEF SpeltRule
    <2> HIDE DEF W
    <2>10. QED  BY <2>5, <2>8, <2>9 DEF T
  <1> HIDE DEF P, W
  <1>8. DOMAIN L = C /\ \A c \in C : L[c].policy = P(c) /\ L[c].rules = W(c)  OBVIOUS
  <1> HIDE DEF L
  <1>9. QED  BY <1>1, <1>6, <1>7, <1>8

-----------------------------------------------------------------------------
(* What hardline makes of a table that holds the text of s is the same     *)
(* wherever in the table, and how often, that text is.                     *)
ChainsOf(s) == SetToSeq(Managed(s))

ReadFirst(s, x, S) ==
    \E k \in DOMAIN ChainsOf(s) :
       /\ LeadsIn(Mine(s, ChainsOf(s)[k]), x, S)
       /\ \A j \in 1..k - 1 : Free(Mine(s, ChainsOf(s)[j]), S)

LEMMA ChainFacts ==
    ASSUME NEW s \in Accepted
    PROVE  /\ ChainsOf(s) \in Seq(Managed(s)) /\ IsInjective(ChainsOf(s))
           /\ ToSet(ChainsOf(s)) = Managed(s)
  <1>1. IsFiniteSet(Managed(s))
    <2>1. IsFiniteSet(Chains)
      <3>1. IsFiniteSet({"input"}) /\ IsFiniteSet({"output"}) /\ IsFiniteSet({"forward"})
        BY FS_Singleton
      <3>2. IsFiniteSet(({"input"} \cup {"output"}) \cup {"forward"})  BY <3>1, FS_Union
      <3>3. Chains = ({"input"} \cup {"output"}) \cup {"forward"}  BY DEF Chains
      <3>4. QED  BY <3>2, <3>3
    <2>2. QED  BY <2>1, PolicyFacts, FS_Subset
  <1>2. QED  BY <1>1, Enumerated DEF ChainsOf

(* The rules read back lead as the rules of the chains, one chain after the*)
(* other.                                                                  *)
LEMMA CurrentLeads ==
    ASSUME NEW s \in Accepted, NEW texts, Holds(texts, s)
    PROVE  /\ NormalizeCurrentState(Listing(texts)) =
                [ policies |-> [c \in Managed(s) |-> NormalizeDesiredSpec(s).policies[c]],
                  rules |-> NormalizeCurrentState(Listing(texts)).rules ]
           /\ NormalizeCurrentState(Listing(texts)).rules \in Seq(NormalRule)
           /\ IsInjective(NormalizeCurrentState(Listing(texts)).rules)
           /\ \A x, S : LeadsIn(NormalizeCurrentState(Listing(texts)).rules, x, S) <=> ReadFirst(s, x, S)
  <1> DEFINE L == Listing(texts)
             cur == NormalizeCurrentState(L)
             seq == SetToSeq(DOMAIN L)
             Read(c) == FlattenSeq([k \in DOMAIN L[c].rules |-> NormalizeNftRuleExpr(c, L[c].rules[k])])
             ss == [k \in DOMAIN seq |-> Read(seq[k])]
             F == FlattenSeq(ss)
             policies == [c \in {d \in DOMAIN L : L[d].policy # Unset} |-> L[c].policy]
  <1>1. cur = [policies |-> policies, rules |-> Distinct(F)]  BY Zenon DEF NormalizeCurrentState
  <1>2. cur.rules = Distinct(F) /\ cur = [policies |-> policies, rules |-> cur.rules]
    <2> HIDE DEF cur, policies, F
    <2>1. QED  BY <1>1
  <1>3. /\ DOMAIN L = Managed(s)
        /\ \A c \in Managed(s) :
             /\ L[c].policy = NormalizeDesiredSpec(s).policies[c]
             /\ L[c].rules = [k \in DOMAIN LoadedRules(texts, c) |-> SpeltRule(LoadedRules(texts, c)[k])]
    BY ListingParts
  <1> HIDE DEF L
  <1>4. policies = [c \in Managed(s) |-> NormalizeDesiredSpec(s).policies[c]]
    <2>1. \A c \in Managed(s) : NormalizeDesiredSpec(s).policies[c] # Unset
      BY PolicyFacts, FirewallRulesAssumption
    <2>2. {d \in DOMAIN L : L[d].policy # Unset} = Managed(s)  BY <1>3, <2>1
    <2>3. \A c \in Managed(s) : L[c].policy = NormalizeDesiredSpec(s).policies[c]  BY <1>3
    <2>4. QED  BY <2>2, <2>3
  <1> HIDE DEF policies, cur
  <1>5. ASSUME NEW c \in Managed(s)
        PROVE  /\ Read(c) \in Seq(NormalRule)
               /\ \A x, S : LeadsIn(Read(c), x, S) <=> LeadsIn(Mine(s, c), x, S)
               /\ \A S : Free(Read(c), S) <=> Free(Mine(s, c), S)
    <2> DEFINE rs == LoadedRules(texts, c)
    <2>1. L[c].rules = [k \in DOMAIN rs |-> SpeltRule(rs[k])]  BY <1>3
    <2>2. PICK Y : rs \in Seq(Y) /\ \A y, R : LeadsIn(rs, y, R) <=> LeadsIn(Written(s, c), y, R)
      BY LoadedLeads
    <2> HIDE DEF rs
    <2>3. Read(c) = ReadFrom(c, rs)
      <3>1. DOMAIN L[c].rules = DOMAIN rs /\ \A k \in DOMAIN rs : L[c].rules[k] = SpeltRule(rs[k])
        BY <2>1
      <3>2. QED  BY <3>1 DEF ReadFrom
    <2> HIDE DEF Read
    <2>4. /\ Read(c) \in Seq(NormalRule)
          /\ \A x, S : LeadsIn(Read(c), x, S) <=> LeadsIn(Mine(s, c), x, S)
      BY <2>2, <2>3, ReadChain
    <2>5. \A x : x \in ToSet(Read(c)) <=> x \in ToSet(Mine(s, c))  BY <2>4, Has
    <2>6. \A S : Free(Read(c), S) <=> Free(Mine(s, c), S)  BY <2>5 DEF Free, ToSet
    <2>7. QED  BY <2>4, <2>6
  <1>6. seq = ChainsOf(s)  BY <1>3 DEF ChainsOf
  <1> HIDE DEF seq, Read
  <1>7. seq \in Seq(Managed(s))  BY <1>6, ChainFacts
  <1>8. DOMAIN seq = 1..Len(seq) /\ Len(seq) \in Nat /\ \A k \in DOMAIN seq : seq[k] \in Managed(s)
    BY <1>7
  <1>9. ss \in Seq(Seq(NormalRule)) /\ Len(ss) = Len(seq) /\ \A k \in 1..Len(seq) : ss[k] = Read(seq[k])
    BY <1>5, <1>8
  <1> HIDE DEF ss
  <1>10. ASSUME NEW x, NEW S
         PROVE  F \in Seq(NormalRule) /\ (LeadsIn(F, x, S) <=> ReadFirst(s, x, S))
    <2>1. F \in Seq(NormalRule) /\ FlatLead(F, ss, Len(ss), x, S)  BY <1>9, FlatLeads
    <2> HIDE DEF F
    <2>2. \A k \in 1..Len(seq) : LeadsIn(ss[k], x, S) <=> LeadsIn(Mine(s, seq[k]), x, S)
      BY <1>5, <1>8, <1>9
    <2>3. \A k \in 1..Len(seq) : \A j \in 1..k - 1 : Free(ss[j], S) <=> Free(Mine(s, seq[j]), S)
      <3>1. \A j \in 1..Len(seq) : Free(ss[j], S) <=> Free(Mine(s, seq[j]), S)
        BY <1>5, <1>8, <1>9
      <3>2. \A k \in 1..Len(seq) : \A j \in 1..k - 1 : j \in 1..Len(seq)  BY <1>8
      <3>3. QED  BY <3>1, <3>2
    <2>4. LeadsIn(F, x, S) <=> \E k \in 1..Len(seq) :
            LeadsIn(Mine(s, seq[k]), x, S) /\ \A j \in 1..k - 1 : Free(Mine(s, seq[j]), S)
      BY <1>9, <2>1, <2>2, <2>3 DEF FlatLead
    <2>5. QED  BY <1>6, <1>8, <2>1, <2>4 DEF ReadFirst
  <1> HIDE DEF F
  <1>11. ASSUME NEW x, NEW S
         PROVE  /\ cur.rules \in Seq(NormalRule) /\ IsInjective(cur.rules)
                /\ LeadsIn(cur.rules, x, S) <=> ReadFirst(s, x, S)
    <2>1. F \in Seq(NormalRule)  BY <1>10
    <2>2. /\ Distinct(F) \in Seq(NormalRule) /\ IsInjective(Distinct(F))
          /\ LeadsIn(Distinct(F), x, S) <=> LeadsIn(F, x, S)
      BY <2>1, DistinctFacts
    <2>3. QED  BY <1>2, <1>10, <2>2
  <1>12. QED  BY <1>2, <1>4, <1>11 DEF cur, L

LEMMA CurrentSame ==
    ASSUME NEW s \in Accepted, NEW texts, Holds(texts, s), NEW others, Holds(others, s)
    PROVE  NormalizeCurrentState(Listing(texts)) = NormalizeCurrentState(Listing(others))
  <1> DEFINE a == NormalizeCurrentState(Listing(texts))
             b == NormalizeCurrentState(Listing(others))
             D == [c \in Managed(s) |-> NormalizeDesiredSpec(s).policies[c]]
  <1>1. /\ a = [policies |-> D, rules |-> a.rules] /\ b = [policies |-> D, rules |-> b.rules]
        /\ a.rules \in Seq(NormalRule) /\ b.rules \in Seq(NormalRule)
        /\ IsInjective(a.rules) /\ IsInjective(b.rules)
    BY CurrentLeads
  <1>2. \A x, S : LeadsIn(a.rules, x, S) <=> LeadsIn(b.rules, x, S)  BY CurrentLeads
  <1> HIDE DEF a, b, D
  <1>3. a.rules = b.rules  BY <1>1, <1>2, SameOrder
  <1>4. a = b  BY <1>1, <1>3
  <1>5. QED  BY <1>4 DEF a, b

(* It has the policies and, in their order, the rules of its normal form.  *)
LEMMA CurrentFacts ==
    ASSUME NEW s \in Accepted, NEW texts, Holds(texts, s)
    PROVE  /\ DOMAIN NormalizeCurrentState(Listing(texts)).policies = Managed(s)
           /\ \A c \in Managed(s) : NormalizeCurrentState(Listing(texts)).policies[c]
                                      = NormalizeDesiredSpec(s).policies[c]
           /\ ToSet(NormalizeCurrentState(Listing(texts)).rules) = ToSet(Order(s))
           /\ \A c : RulesOf(NormalizeCurrentState(Listing(texts)).rules, c) = Mine(s, c)
  <1> DEFINE cur == NormalizeCurrentState(Listing(texts))
             D == [c \in Managed(s) |-> NormalizeDesiredSpec(s).policies[c]]
             seq == ChainsOf(s)
  <1>1. /\ cur = [policies |-> D, rules |-> cur.rules]
        /\ cur.rules \in Seq(NormalRule) /\ IsInjective(cur.rules)
    BY CurrentLeads
  <1>2. \A x, S : LeadsIn(cur.rules, x, S) <=> ReadFirst(s, x, S)  BY CurrentLeads
  <1> HIDE DEF cur
  <1>3. DOMAIN cur.policies = Managed(s)
        /\ \A c \in Managed(s) : cur.policies[c] = NormalizeDesiredSpec(s).policies[c]
    <2>1. cur.policies = D
      <3> HIDE DEF D
      <3>1. QED  BY <1>1
    <2>2. QED  BY <2>1
  <1>4. seq \in Seq(Managed(s)) /\ IsInjective(seq) /\ ToSet(seq) = Managed(s)  BY ChainFacts
  <1>5. \A x, S : ReadFirst(s, x, S) <=> \E k \in DOMAIN seq :
          LeadsIn(Mine(s, seq[k]), x, S) /\ \A j \in 1..k - 1 : Free(Mine(s, seq[j]), S)
    BY DEF ReadFirst
  <1> HIDE DEF seq
  <1>6. DOMAIN seq = 1..Len(seq) /\ Len(seq) \in Nat /\ \A k \in DOMAIN seq : seq[k] \in Managed(s)
    BY <1>4
  <1>7. \A c : ToSet(Mine(s, c)) = {r \in ToSet(Order(s)) : r.chain = c}  BY MineFacts
  <1>8. ASSUME NEW x PROVE x \in ToSet(cur.rules) <=> x \in ToSet(Order(s))
    <2>1. \A r : Free(r, {})  BY DEF Free
    <2>2. LeadsIn(cur.rules, x, {}) <=> \E k \in DOMAIN seq : LeadsIn(Mine(s, seq[k]), x, {})
      BY <1>2, <1>5, <2>1
    <2>3. x \in ToSet(cur.rules) <=> \E k \in DOMAIN seq : x \in ToSet(Mine(s, seq[k]))
      BY <2>2, Has
    <2>4. x \in ToSet(cur.rules) <=>
            \E k \in DOMAIN seq : x \in ToSet(Order(s)) /\ x.chain = seq[k]
      BY <1>7, <2>3
    <2>5. x \in ToSet(Order(s)) => \E k \in DOMAIN seq : x.chain = seq[k]
      <3>1. x \in ToSet(Order(s)) => x.chain \in ToSet(seq)  BY <1>4, OrderChains
      <3>2. QED  BY <3>1 DEF ToSet
    <2>6. QED  BY <2>4, <2>5
  <1>9. ToSet(cur.rules) = ToSet(Order(s))  BY <1>8
  <1>10. ASSUME NEW c PROVE RulesOf(cur.rules, c) = Mine(s, c)
    <2> DEFINE M == ToSet(Mine(s, c))
               R == RulesOf(cur.rules, c)
               m == Mine(s, c)
    <2>1. M = {r \in ToSet(Order(s)) : r.chain = c}  BY <1>7
    <2>2. R = Those(cur.rules, M)  BY <1>9, <2>1 DEF RulesOf
    <2>3. cur.rules \in Seq(NormalRule) /\ IsInjective(cur.rules)  BY <1>1
    <2>4. R \in Seq(NormalRule) /\ IsInjective(R)
      <3> HIDE DEF R, M
      <3>1. QED  BY <2>2, <2>3, ThoseFacts
    <2>5. ASSUME NEW x, NEW S PROVE LeadsIn(R, x, S) <=> LeadsIn(m, x, S)
      <3>1. LeadsIn(R, x, S) <=> x \in M /\ LeadsIn(cur.rules, x, S \cap M)
        <4> HIDE DEF R, M
        <4>1. LeadsIn(Those(cur.rules, M), x, S) <=> x \in M /\ LeadsIn(cur.rules, x, S \cap M)
          BY <2>3, ThoseFacts
        <4>2. QED  BY <2>2, <4>1
      <3> HIDE DEF R
      <3>2. LeadsIn(m, x, S) <=> x \in M /\ LeadsIn(m, x, S \cap M)
        <4>1. LeadsIn(m, x, S) <=> x \in M /\ LeadsIn(Order(s), x, S \cap M)  BY MineFacts
        <4>2. LeadsIn(m, x, S \cap M) <=> x \in M /\ LeadsIn(Order(s), x, (S \cap M) \cap M)
          BY MineFacts
        <4>3. (S \cap M) \cap M = S \cap M  OBVIOUS
        <4>4. QED  BY <4>1, <4>2, <4>3
      <3>3. ASSUME x \in M
            PROVE  LeadsIn(cur.rules, x, S \cap M) <=> LeadsIn(m, x, S \cap M)
        <4> DEFINE Q == S \cap M
        <4>1. c \in Managed(s)  BY <2>1, <3>3, OrderChains
        <4>2. PICK k \in DOMAIN seq : seq[k] = c  BY <1>4, <4>1 DEF ToSet
        <4>3. ASSUME NEW l \in DOMAIN seq, l # k PROVE seq[l] # c
          BY <1>4, <4>2, <4>3 DEF IsInjective
        <4>4. ASSUME NEW l \in DOMAIN seq, l # k
              PROVE  ~LeadsIn(Mine(s, seq[l]), x, Q) /\ Free(Mine(s, seq[l]), Q)
          <5>1. seq[l] # c  BY <4>3, <4>4
          <5>2. \A r \in ToSet(Mine(s, seq[l])) : r.chain = seq[l]  BY <1>7
          <5>3. \A r \in M : r.chain = c  BY <2>1
          <5>4. x \notin ToSet(Mine(s, seq[l]))  BY <3>3, <5>1, <5>2, <5>3
          <5>5. ~LeadsIn(Mine(s, seq[l]), x, Q)  BY <5>4 DEF LeadsIn, ToSet
          <5>6. \A r \in ToSet(Mine(s, seq[l])) : r \notin Q  BY <5>1, <5>2, <5>3
          <5>7. Free(Mine(s, seq[l]), Q)  BY <5>6 DEF Free, ToSet
          <5>8. QED  BY <5>5, <5>7
        <4> HIDE DEF Q
        <4>5. \A j \in 1..k - 1 : j \in DOMAIN seq /\ j # k  BY <1>6
        <4>6. LeadsIn(cur.rules, x, Q) <=> \E i \in DOMAIN seq :
                LeadsIn(Mine(s, seq[i]), x, Q) /\ \A j \in 1..i - 1 : Free(Mine(s, seq[j]), Q)
          BY <1>2, <1>5
        <4>7. LeadsIn(cur.rules, x, Q) <=> LeadsIn(Mine(s, c), x, Q)
          BY <4>2, <4>4, <4>5, <4>6
        <4>8. QED  BY <4>7 DEF Q
      <3>4. QED  BY <3>1, <3>2, <3>3
    <2>6. m \in Seq(NormalRule) /\ IsInjective(m)  BY MineFacts
    <2> HIDE DEF R, m
    <2>7. R = m  BY <2>4, <2>5, <2>6, SameOrder
    <2>8. QED  BY <2>7 DEF R, m
  <1>11. QED  BY <1>3, <1>9, <1>10 DEF cur

-----------------------------------------------------------------------------
(* A sequence without repetitions is as long as its elements are many.     *)
LEMMA InjectiveLength ==
    ASSUME NEW X, NEW s \in Seq(X), IsInjective(s)
    PROVE  Cardinality(ToSet(s)) = Len(s)
  <1> DEFINE n == Len(s)
  <1>1. n \in Nat /\ DOMAIN s = 1..n  OBVIOUS
  <1>2. s \in [1..n -> ToSet(s)]  BY <1>1 DEF ToSet
  <1>3. s \in Injection(1..n, ToSet(s))  BY <1>2 DEF Injection
  <1>4. s \in Surjection(1..n, ToSet(s))
    <2> HIDE DEF n
    <2>1. \A t \in ToSet(s) : \E k \in 1..n : s[k] = t  BY <1>1 DEF ToSet
    <2>2. QED  BY <1>2, <2>1 DEF Surjection
  <1>5. ExistsBijection(1..n, ToSet(s))  BY <1>3, <1>4 DEF ExistsBijection, Bijection
  <1> HIDE DEF n
  <1>6. QED  BY <1>1, <1>5, FS_CountingElements DEF n

(* No drift: the same policies, the same rules, and those of each chain, as*)
(* far as there are as many, in the same order.                            *)
LEMMA DiffParts ==
    ASSUME NEW current, NEW desired
    PROVE  Drifts(current, desired) <=>
             \/ \E c \in DOMAIN desired.policies : desired.policies[c] #
                  (IF c \in DOMAIN current.policies THEN current.policies[c] ELSE "accept")
             \/ ~(ToSet(desired.rules) \subseteq
                    {r \in ToSet(current.rules) : r.chain \in DOMAIN desired.policies})
             \/ ~({r \in ToSet(current.rules) : r.chain \in DOMAIN desired.policies} \subseteq
                    ToSet(desired.rules))
             \/ \E c \in DOMAIN desired.policies :
                  /\ Len(RulesOf(current.rules, c)) = Len(RulesOf(desired.rules, c))
                  /\ RulesOf(current.rules, c) # RulesOf(desired.rules, c)
  <1> DEFINE chains == DOMAIN desired.policies
             managed == {r \in ToSet(current.rules) : r.chain \in chains}
             a == { c \in chains : desired.policies[c] #
                      (IF c \in DOMAIN current.policies THEN current.policies[c] ELSE "accept") }
             b == ToSet(desired.rules) \ managed
             d == managed \ ToSet(desired.rules)
             e == ReorderedChains(current.rules, desired.rules, chains)
             diff == DiffNormalized(current, desired)
  <1>1. diff = [policy_changes |-> a, rules_to_add |-> b, rules_to_remove |-> d, reordered |-> e]
    BY Zenon DEF DiffNormalized
  <1>2. Drifts(current, desired) <=> \E key \in DOMAIN diff : diff[key] # {}  BY Zenon DEF Drifts
  <1> HIDE DEF a, b, d, e, diff
  <1>3. Drifts(current, desired) <=> a # {} \/ b # {} \/ d # {} \/ e # {}
    <2>1. /\ DOMAIN diff = {"policy_changes", "rules_to_add", "rules_to_remove", "reordered"}
          /\ diff["policy_changes"] = a /\ diff["rules_to_add"] = b
          /\ diff["rules_to_remove"] = d /\ diff["reordered"] = e
      BY <1>1
    <2>2. QED  BY <1>2, <2>1
  <1>4. e # {} <=> \E c \in chains : /\ Len(RulesOf(current.rules, c)) = Len(RulesOf(desired.rules, c))
                                     /\ RulesOf(current.rules, c) # RulesOf(desired.rules, c)
    BY DEF e, ReorderedChains
  <1>5. a # {} <=> \E c \in chains : desired.policies[c] #
          (IF c \in DOMAIN current.policies THEN current.policies[c] ELSE "accept")
    BY DEF a
  <1>6. b # {} <=> ~(ToSet(desired.rules) \subseteq managed)  BY DEF b
  <1>7. d # {} <=> ~(managed \subseteq ToSet(desired.rules))  BY DEF d
  <1> HIDE DEF managed
  <1>8. QED  BY <1>3, <1>4, <1>5, <1>6, <1>7 DEF managed

(* Whatever was loaded before and after it, a ruleset that a table holds   *)
(* does not drift from itself.                                             *)
LEMMA NoSelfDrift ==
    ASSUME NEW s \in Accepted, NEW texts, Holds(texts, s)
    PROVE  ~Drifts(NormalizeCurrentState(Listing(texts)), Desired[s])
  <1> DEFINE cur == NormalizeCurrentState(Listing(texts))
             D == NormalizeDesiredSpec(s)
  <1>1. Desired[s] = D  BY DEF Desired
  <1>2. /\ DOMAIN cur.policies = Managed(s)
        /\ \A c \in Managed(s) : cur.policies[c] = D.policies[c]
        /\ ToSet(cur.rules) = ToSet(Order(s))
        /\ \A c : RulesOf(cur.rules, c) = Mine(s, c)
    BY CurrentFacts
  <1>3. D.rules = Order(s) /\ DOMAIN D.policies = Managed(s)  BY DEF Order, Managed
  <1>4. \A n \in ToSet(Order(s)) : n.chain \in Managed(s)  BY OrderChains
  <1>5. \A c : RulesOf(D.rules, c) = Mine(s, c)  BY <1>3 DEF Mine
  <1> HIDE DEF cur, D
  <1>6. ~Drifts(cur, D)  BY <1>2, <1>3, <1>4, <1>5, DiffParts
  <1>7. QED  BY <1>1, <1>6 DEF cur

(* What a read-back that finds no drift says of the kernel.                *)
LEMMA NoDriftMeans ==
    ASSUME NEW s \in Accepted, NEW w \in Accepted, ~Drifts(Current[s], Desired[w]),
           NEW c \in Managed(w)
    PROVE  /\ Mine(s, c) = Mine(w, c)
           /\ NormalizeDesiredSpec(w).policies[c] =
                IF c \in Managed(s) THEN NormalizeDesiredSpec(s).policies[c] ELSE "accept"
  <1> DEFINE cur == Current[s]
             D == NormalizeDesiredSpec(w)
  <1>1. Desired[w] = D  BY DEF Desired
  <1>2. cur = NormalizeCurrentState(Listing(<<TextOf[s]>>))  BY DEF Current
  <1>3. Holds(<<TextOf[s]>>, s)  BY DEF Holds, ToSet
  <1>4. /\ DOMAIN cur.policies = Managed(s)
        /\ \A d \in Managed(s) : cur.policies[d] = NormalizeDesiredSpec(s).policies[d]
        /\ ToSet(cur.rules) = ToSet(Order(s))
        /\ \A d : RulesOf(cur.rules, d) = Mine(s, d)
    <2> HIDE DEF cur
    <2>1. QED  BY <1>2, <1>3, CurrentFacts
  <1>5. D.rules = Order(w) /\ DOMAIN D.policies = Managed(w)  BY DEF Order, Managed
  <1>6. RulesOf(D.rules, c) = Mine(w, c)  BY <1>5 DEF Mine
  <1> HIDE DEF cur
  <1>7. ~Drifts(cur, D)  BY <1>1 DEF cur
  <1> HIDE DEF D
  <1>8. D.policies[c] = IF c \in DOMAIN cur.policies THEN cur.policies[c] ELSE "accept"
    BY <1>5, <1>7, DiffParts
  <1>9. /\ ToSet(D.rules) \subseteq {r \in ToSet(cur.rules) : r.chain \in DOMAIN D.policies}
        /\ {r \in ToSet(cur.rules) : r.chain \in DOMAIN D.policies} \subseteq ToSet(D.rules)
        /\ \/ Len(RulesOf(cur.rules, c)) # Len(RulesOf(D.rules, c))
           \/ RulesOf(cur.rules, c) = RulesOf(D.rules, c)
    BY <1>5, <1>7, DiffParts
  <1>10. /\ ToSet(Mine(s, c)) = {r \in ToSet(Order(s)) : r.chain = c}
         /\ ToSet(Mine(w, c)) = {r \in ToSet(Order(w)) : r.chain = c}
    BY MineFacts
  <1>11. ToSet(Mine(s, c)) = ToSet(Mine(w, c))  BY <1>4, <1>5, <1>9, <1>10
  <1>12. Len(Mine(s, c)) = Len(Mine(w, c))
    <2>1. Cardinality(ToSet(Mine(s, c))) = Len(Mine(s, c))
      <3>1. Mine(s, c) \in Seq(NormalRule) /\ IsInjective(Mine(s, c))  BY MineFacts
      <3>2. QED  BY <3>1, InjectiveLength
    <2>2. Cardinality(ToSet(Mine(w, c))) = Len(Mine(w, c))
      <3>1. Mine(w, c) \in Seq(NormalRule) /\ IsInjective(Mine(w, c))  BY MineFacts
      <3>2. QED  BY <3>1, InjectiveLength
    <2>3. QED  BY <1>11, <2>1, <2>2
  <1>13. Mine(s, c) = Mine(w, c)  BY <1>4, <1>6, <1>9, <1>12
  <1>14. QED  BY <1>4, <1>8, <1>13 DEF D

(* The read-back tells any two accepted rulesets apart by what they do to  *)
(* packets, and never a ruleset from itself.                               *)
LEMMA NothingMisread == Misread = {}
  <1> SUFFICES ASSUME NEW s \in Accepted, NEW w \in Accepted
               PROVE  /\ s = w => ~Drifts(Current[s], Desired[w])
                      /\ ~Drifts(Current[s], Desired[w]) =>
                           \A packet \in Packets : Said[w][packet] \in {Unset, Done[s][packet]}
    BY Zenon DEF Misread
  <1>1. ASSUME s = w PROVE ~Drifts(Current[s], Desired[w])
    <2>1. Current[s] = NormalizeCurrentState(Listing(<<TextOf[s]>>))  BY DEF Current
    <2>2. Holds(<<TextOf[s]>>, s)  BY DEF Holds, ToSet
    <2>3. QED  BY <1>1, <2>1, <2>2, NoSelfDrift
  <1>2. ASSUME ~Drifts(Current[s], Desired[w]), NEW packet \in Packets
        PROVE  Said[w][packet] \in {Unset, Done[s][packet]}
    <2> DEFINE c == packet.chain
               H == Met(packet)
    <2>1. Said[w][packet] = Says(w, packet) /\ Done[s][packet] = Verdict(TextOf[s], packet)
      BY DEF Said, Done
    <2>2. CASE c \notin Managed(w)
      <3>1. PoliciesFor(w, c) = {}  BY <2>2, PolicyFacts
      <3>2. Says(w, packet) = Unset  BY <3>1, Zenon DEF Says, PoliciesFor
      <3>3. QED  BY <2>1, <3>2
    <2>3. CASE c \in Managed(w)
      <3>1. /\ Mine(s, c) = Mine(w, c)
            /\ NormalizeDesiredSpec(w).policies[c] =
                 IF c \in Managed(s) THEN NormalizeDesiredSpec(s).policies[c] ELSE "accept"
        BY <1>2, <2>3, NoDriftMeans
      <3>2. \/ /\ Free(Mine(w, c), H)
               /\ Says(w, packet) = NormalizeDesiredSpec(w).policies[c]
            \/ \E x \in H : LeadsIn(Mine(w, c), x, H) /\ Says(w, packet) = x.action
        BY <2>3, SaysFirst
      <3>3. CASE c \in Managed(s)
        <4>1. Free(Mine(s, c), H) => Verdict(TextOf[s], packet) = NormalizeDesiredSpec(s).policies[c]
          BY <3>3, VerdictFirst
        <4>2. \A x \in H : LeadsIn(Mine(s, c), x, H) => Verdict(TextOf[s], packet) = x.action
          BY <3>3, VerdictFirst
        <4> HIDE DEF H
        <4>3. Says(w, packet) = Verdict(TextOf[s], packet)  BY <3>1, <3>2, <3>3, <4>1, <4>2
        <4>4. QED  BY <2>1, <4>3
      <3>4. CASE c \notin Managed(s)
        <4>1. Verdict(TextOf[s], packet) = "accept"  BY <3>4, TextParts, Zenon DEF Verdict
        <4>2. ToSet(Mine(s, c)) = {r \in ToSet(Order(s)) : r.chain = c}  BY MineFacts
        <4>3. ToSet(Mine(s, c)) = {}  BY <3>4, <4>2, OrderChains
        <4>4. \A x : ~LeadsIn(Mine(w, c), x, H)  BY <3>1, <4>3 DEF LeadsIn, ToSet
        <4> HIDE DEF H
        <4>5. Says(w, packet) = "accept"  BY <3>1, <3>2, <3>4, <4>4
        <4>6. QED  BY <2>1, <4>1, <4>5
      <3>5. QED  BY <3>3, <3>4
    <2>4. QED  BY <2>2, <2>3
  <1>3. QED  BY <1>1, <1>2

-----------------------------------------------------------------------------
(* A main config that includes a file flushes first.  (Hosts may come with *)
(* a legacy include, unless the theorem says otherwise.)                   *)
NoLegacy == \A m \in Mains : ~m.legacy

Shapes == [exists : BOOLEAN, flush : BOOLEAN, legacy : BOOLEAN, includes : Seq(Profiles)]

Configs ==
    { m \in Shapes :
        /\ m.includes # <<>> => m.flush
        /\ m.flush => m.exists
        /\ NoLegacy => ~m.legacy }

IsSnapshot(s) == s = [file |-> s.file, main |-> s.main, table |-> s.table, live |-> s.live]

(* A sequence of runs each of which can be undone to a main config.        *)
Undoable(r) == r.before.main \in Configs /\ IsSnapshot(r.before) /\ IsSnapshot(r.after)

IsRuns(s) == \E S : s \in Seq(S) /\ \A r \in S : Undoable(r)

(* Where the kernel holds what the files say, and where the main config    *)
(* flushes, so that it will once it is loaded.  A run between the two, or  *)
(* on its way back, owes no such thing.                                    *)
Settled == {"ready", "stage", "read back", "recapture", "undone", "skipped"}
Flushing == {"include", "validate", "load"}

(* What main configs the state holds, and may come back to.                *)
Typed ==
    /\ p \in Profiles /\ want \in Rulesets /\ faults \in Nat
    /\ main \in Configs /\ before.main \in Configs /\ IsSnapshot(before)
    /\ file = [q \in Profiles |-> file[q]]
    /\ journal = [q \in Profiles |-> journal[q]]
    /\ \A q \in Profiles : IsRuns(journal[q])
    /\ pc \in Flushing => main.flush

Matches == \A t \in Tables : kernel.tables[t] = Declared(t)

MatchInv ==
    /\ Typed
    /\ ~disturbed /\ pc \in Settled => Matches

-----------------------------------------------------------------------------
(* What leaves the files and the kernel alone leaves the match alone.      *)
LEMMA MatchStays ==
    ASSUME Matches, main' = main, file' = file, kernel' = kernel
    PROVE  Matches'
  BY DEF Matches, Declared

(* A load that flushes first leaves what the files say and nothing else.   *)
LEMMA FlushedLoadMatches ==
    ASSUME kernel' = Loaded(TRUE), main' = main, file' = file
    PROVE  Matches'
  <1>1. \A t \in Tables : Declared(t)' = Declared(t)  BY DEF Declared
  <1>2. \A t \in Tables : kernel'.tables[t] = Declared(t)  BY DEF Loaded
  <1>3. QED  BY <1>1, <1>2 DEF Matches

(* The sequence of runs of a profile grows by one, or loses the last.      *)
LEMMA RunRecorded ==
    ASSUME NEW s, IsRuns(s), NEW r, Undoable(r)
    PROVE  IsRuns(Append(s, r))
  <1>1. PICK S : s \in Seq(S) /\ \A x \in S : Undoable(x)  BY DEF IsRuns
  <1>2. Append(s, r) \in Seq(S \cup {r})
    <2>1. s \in Seq(S \cup {r})  BY <1>1
    <2>2. QED  BY <2>1
  <1>3. QED  BY <1>1, <1>2 DEF IsRuns

LEMMA RunTaken ==
    ASSUME NEW s, IsRuns(s), s # <<>>
    PROVE  /\ IsRuns(SubSeq(s, 1, Len(s) - 1))
           /\ Undoable(s[Len(s)])
  <1>1. PICK S : s \in Seq(S) /\ \A x \in S : Undoable(x)  BY DEF IsRuns
  <1>2. Len(s) \in Nat \ {0} /\ s[Len(s)] \in S  BY <1>1
  <1>3. SubSeq(s, 1, Len(s) - 1) \in Seq(S)  BY <1>1, <1>2
  <1>4. QED  BY <1>1, <1>2, <1>3 DEF IsRuns

LEMMA InitMatches == Init => MatchInv
  <1> SUFFICES ASSUME Init PROVE MatchInv  OBVIOUS
  <1>1. main \in Configs
    <2>1. <<>> \in Seq(Profiles)  OBVIOUS
    <2>2. main \in Mains  BY DEF Init
    <2>3. NoLegacy => ~main.legacy  BY <2>2 DEF NoLegacy
    <2>4. CASE main = NoMain  BY <2>1, <2>4 DEF NoMain, Configs, Shapes
    <2>5. ASSUME NEW f \in BOOLEAN, NEW l \in BOOLEAN,
                 main = [exists |-> TRUE, flush |-> f, legacy |-> l, includes |-> <<>>]
          PROVE  main \in Configs
      BY <2>1, <2>3, <2>5 DEF Configs, Shapes
    <2>6. QED  BY <2>2, <2>4, <2>5, FirewallAssumption
  <1>2. IsRuns(<<>>)
    <2>1. PICK S : S = {}  OBVIOUS
    <2>2. <<>> \in Seq(S) /\ \A r \in S : Undoable(r)  BY <2>1
    <2>3. QED  BY <2>2 DEF IsRuns
  <1>3. IsSnapshot(before) /\ before.main = main  BY DEF Init, IsSnapshot
  <1>4. Typed  BY <1>1, <1>2, <1>3 DEF Init, Typed, Flushing
  <1>5. kernel.tables = [t \in Tables |-> Declared(t)]  BY DEF Init
  <1>6. Matches  BY <1>5 DEF Matches
  <1>7. QED  BY <1>4, <1>6 DEF Init, MatchInv

-----------------------------------------------------------------------------
LEMMA FaultsCount ==
    Typed /\ [Next]_vars => faults' \in Nat /\ (faults' = 0 => faults = 0 /\ \A k : ~Fault(k))
  <1> SUFFICES ASSUME Typed, [Next]_vars
               PROVE  faults' \in Nat /\ (faults' = 0 => faults = 0 /\ \A k : ~Fault(k))
    OBVIOUS
  <1>1. faults' = faults \/ \E k : Fault(k)
    BY DEF Next, vars, Start, Stage, EnsureFlush, EnsureInclude, Validate, Activate, ReadBack,
           Recapture, UndoFailed, Rollback, UndoMain, UndoFile, Reload, StartOver, Delete,
           Writes, Load, NoFault
  <1>2. QED  BY <1>1 DEF Typed, Fault

LEMMA NextTyped == Typed /\ [Next]_vars => Typed'
  <1> SUFFICES ASSUME Typed, [Next]_vars PROVE Typed'  OBVIOUS
  <1>0. faults' \in Nat  BY FaultsCount
  <1> USE <1>0 DEF Typed, Flushing
  <1>1. CASE Start
    <2>1. \A q : IsSnapshot(Snapshot(q)) /\ Snapshot(q).main = main
      BY DEF IsSnapshot, Snapshot
    <2>2. PICK q \in Profiles : p' = q /\ before' = Snapshot(q)  BY <1>1 DEF Start
    <2>3. IsSnapshot(before') /\ before'.main = main  BY <2>1, <2>2
    <2>4. QED  BY <1>1, <2>2, <2>3 DEF Start
  <1>2. CASE Stage  BY <1>2 DEF Stage, run, Writes
  <1>3. CASE EnsureFlush
    <2>1. [main EXCEPT !.exists = TRUE, !.flush = TRUE] \in Configs
          /\ [main EXCEPT !.exists = TRUE, !.flush = TRUE].flush
      BY DEF Configs, Shapes
    <2>2. main' \in Configs /\ (pc' \in Flushing => main'.flush)
      BY <1>3, <2>1 DEF EnsureFlush, Writes
    <2>3. QED  BY <1>3, <2>2 DEF EnsureFlush, run
  <1>4. CASE EnsureInclude
    <2>1. main.flush  BY <1>4 DEF EnsureInclude
    <2>2. WithInclude \in Configs /\ WithInclude.flush
      <3>1. Append(main.includes, p) \in Seq(Profiles)  BY DEF Configs, Shapes
      <3>2. main \in Shapes  BY DEF Configs, Shapes
      <3>3. WithInclude \in Shapes  BY <3>1, <3>2 DEF WithInclude, Shapes
      <3>4. /\ WithInclude.exists = main.exists /\ WithInclude.flush = main.flush
            /\ WithInclude.legacy = main.legacy
        BY <3>2 DEF WithInclude, Shapes
      <3>5. main.flush /\ main.exists /\ (NoLegacy => ~main.legacy)  BY <2>1 DEF Configs, Shapes
      <3>6. QED  BY <3>3, <3>4, <3>5 DEF Configs, Shapes
    <2>3. main' \in {main, WithInclude}  BY <1>4 DEF EnsureInclude, Writes
    <2>4. main' \in Configs /\ main'.flush  BY <2>1, <2>2, <2>3
    <2>5. QED  BY <1>4, <2>4 DEF EnsureInclude, run
  <1>5. CASE Validate \/ ReadBack \/ UndoFailed
    BY <1>5 DEF Validate, ReadBack, UndoFailed, run
  <1>6. CASE Activate \/ Reload
    <2>1. pc' \in {"read back", "failed", "undone", "stuck"}
      BY <1>6 DEF Activate, Reload, Load, Writes
    <2>2. QED  BY <1>6, <2>1 DEF Activate, Reload, run
  <1>7. CASE Recapture
    <2>1. CASE UNCHANGED journal  BY <1>7, <2>1 DEF Recapture
    <2>2. CASE journal' = [journal EXCEPT ![p] =
                             Append(@, [before |-> before, after |-> Snapshot(p)])]
      <3>1. Undoable([before |-> before, after |-> Snapshot(p)])
        BY DEF Undoable, IsSnapshot, Snapshot
      <3>2. IsRuns(journal'[p])  BY <2>2, <3>1, RunRecorded
      <3>3. \A q \in Profiles : IsRuns(journal'[q])  BY <2>2, <3>2
      <3>4. QED  BY <1>7, <2>2, <3>3 DEF Recapture
    <2>3. QED  BY <1>7, <2>1, <2>2 DEF Recapture
  <1>8. CASE Rollback
    <2>1. PICK q \in Profiles :
            /\ journal[q] # <<>> /\ p' = q /\ before' = Top(q).before
            /\ pc' \in {"undo main", "skipped"}
            /\ journal' = [journal EXCEPT ![q] = SubSeq(@, 1, Len(@) - 1)]
      BY <1>8 DEF Rollback
    <2>2. IsRuns(journal'[q]) /\ Undoable(Top(q))  BY <2>1, RunTaken DEF Top
    <2>3. before'.main \in Configs /\ IsSnapshot(before')  BY <2>1, <2>2 DEF Undoable
    <2>4. \A x \in Profiles : IsRuns(journal'[x])  BY <2>1, <2>2
    <2>5. QED  BY <1>8, <2>1, <2>3, <2>4 DEF Rollback
  <1>9. CASE UndoMain
    <2>1. main' \in Configs /\ pc' \notin Flushing  BY <1>9 DEF UndoMain, Writes
    <2>2. QED  BY <1>9, <2>1 DEF UndoMain, run
  <1>10. CASE UndoFile
    <2>1. file' = [q \in Profiles |-> file'[q]] /\ pc' \notin Flushing
      BY <1>10 DEF UndoFile, Writes
    <2>2. QED  BY <1>10, <2>1 DEF UndoFile, run
  <1>11. CASE StartOver  BY <1>11 DEF StartOver
  <1>12. CASE Delete
    <2>1. file' = [q \in Profiles |-> file'[q]]  BY <1>12 DEF Delete
    <2>2. QED  BY <1>12, <2>1 DEF Delete
  <1>13. CASE UNCHANGED vars  BY <1>13 DEF vars
  <1>14. QED
    BY <1>1, <1>2, <1>3, <1>4, <1>5, <1>6, <1>7, <1>8, <1>9, <1>10, <1>11, <1>12, <1>13
       DEF Next

(* Nothing undoes a disturbance.                                           *)
LEMMA DisturbedStays == [Next]_vars /\ ~disturbed' => ~disturbed
  BY DEF Next, vars, run, Start, Stage, EnsureFlush, EnsureInclude, Validate, Activate,
         ReadBack, Recapture, UndoFailed, Rollback, UndoMain, UndoFile, Reload, StartOver, Delete

LEMMA NextMatches == MatchInv /\ [Next]_vars => MatchInv'
  <1> SUFFICES ASSUME MatchInv, [Next]_vars, ~disturbed', pc' \in Settled
               PROVE  Matches'
    BY NextTyped DEF MatchInv
  <1>0. ~disturbed  BY DisturbedStays
  <1>00. main \in Configs  BY DEF MatchInv, Typed
  <1> USE <1>0, <1>00 DEF MatchInv, Settled
  (* These leave files and kernel alone.                                   *)
  <1>1. CASE Start  BY <1>1, MatchStays DEF Start
  <1>2. CASE ReadBack  BY <1>2, MatchStays DEF ReadBack, run
  <1>3. CASE Recapture  BY <1>3, MatchStays DEF Recapture
  <1>4. CASE Rollback  BY <1>4, MatchStays DEF Rollback
  <1>5. CASE StartOver  BY <1>5, MatchStays DEF StartOver
  <1>6. CASE UNCHANGED vars  BY <1>6, MatchStays DEF vars
  (* These write the files, or check them, on the way to a load.           *)
  <1>7. CASE Stage \/ EnsureFlush \/ EnsureInclude \/ Validate
    BY <1>7 DEF Stage, EnsureFlush, EnsureInclude, Validate, Writes
  <1>8. CASE UndoFailed \/ UndoMain \/ UndoFile
    BY <1>8 DEF UndoFailed, UndoMain, UndoFile, Writes
  (* These load them.                                                      *)
  <1>9. CASE Activate
    <2>1. main.flush /\ main' = main /\ file' = file /\ pc' \in {"read back", "failed"}
      BY <1>9 DEF Activate, Load, Typed, Flushing
    <2>2. main.flush = TRUE  BY <2>1 DEF Configs, Shapes
    <2>3. kernel' = Loaded(TRUE)  BY <1>9, <2>1, <2>2 DEF Activate, Load
    <2>4. QED  BY <2>1, <2>3, FlushedLoadMatches
  <1>10. CASE Reload
    <2>1. main' = main /\ file' = file /\ pc' = "undone"
      BY <1>10 DEF Reload, Load, Writes
    <2>2. CASE main.exists
      <3>1. kernel' = Loaded(TRUE)  BY <1>10, <2>1, <2>2 DEF Reload, Load
      <3>2. QED  BY <2>1, <3>1, FlushedLoadMatches
    <2>3. CASE ~main.exists
      <3>1. kernel' = Empty  BY <1>10, <2>1, <2>3 DEF Reload, Writes
      <3>2. \A t \in Tables : kernel'.tables[t] = <<>>  BY <3>1 DEF Empty
      <3>3. \A t \in Tables : Declared(t)' = <<>>  BY <2>1, <2>3 DEF Declared
      <3>4. QED  BY <3>2, <3>3 DEF Matches
    <2>4. QED  BY <2>2, <2>3
  <1>11. CASE Delete  BY <1>11 DEF Delete
  <1>12. QED
    BY <1>1, <1>2, <1>3, <1>4, <1>5, <1>6, <1>7, <1>8, <1>9, <1>10, <1>11 DEF Next

LEMMA MatchAlways == Spec => []MatchInv
  BY InitMatches, NextMatches, PTL DEF Spec

(* Whatever profiles are applied, fail and are rolled back in whatever     *)
(* order, through failed commands and greps, the ruleset in force between  *)
(* runs is the one that a reboot would load.                               *)
THEOREM KernelKeepsToFiles == Spec => []KernelMatchesFiles
  <1>1. MatchInv => KernelMatchesFiles
    BY DEF MatchInv, KernelMatchesFiles, AtRest, Settled, Matches
  <1>2. QED  BY <1>1, MatchAlways, PTL

-----------------------------------------------------------------------------
(* Profiles with tables of their own, on hosts without a legacy include.   *)
(* Where two profiles manage one table, they load each other's rules.      *)
TablesApart == \A q, x \in Profiles : TableOf[q] = TableOf[x] => q = x

(* Then a main config and the profile's own file say what its table holds. *)
OwnText(m, f, q) ==
    IF m.exists
    THEN [k \in DOMAIN m.includes |-> IF m.includes[k] = q THEN f ELSE NoText]
    ELSE <<>>

TableWith(m, f, q) == NormalizeCurrentState(Listing(OwnText(m, f, q)))

LEMMA OwnTable ==
    ASSUME TablesApart, NoLegacy, Typed, NEW q \in Profiles
    PROVE  Declared(TableOf[q]) = OwnText(main, file[q], q)
  <1>1. main.includes \in Seq(Profiles) /\ ~main.legacy  BY DEF Typed, Configs, Shapes
  <1>2. main.includes \o <<>> = main.includes  BY <1>1
  <1>3. DeclaredIn(main, file, TableOf[q]) =
          [ k \in DOMAIN main.includes |->
              IF TableOf[main.includes[k]] = TableOf[q] THEN file[main.includes[k]]
              ELSE NoText ]
    BY <1>1, <1>2 DEF DeclaredIn
  <1>4. \A k \in DOMAIN main.includes : main.includes[k] \in Profiles  BY <1>1
  <1>5. \A k \in DOMAIN main.includes :
          TableOf[main.includes[k]] = TableOf[q] <=> main.includes[k] = q
    BY <1>4 DEF TablesApart
  <1>6. QED  BY <1>3, <1>5 DEF Declared, OwnText

LEMMA OwnTableRuns ==
    ASSUME TablesApart, NoLegacy, Typed, Matches, NEW q \in Profiles
    PROVE  /\ kernel.tables[TableOf[q]] = OwnText(main, file[q], q)
           /\ Running(q) = TableWith(main, file[q], q)
  <1>1. kernel.tables[TableOf[q]] = OwnText(main, file[q], q)
    BY OwnTable DEF Matches, Tables
  <1>2. QED  BY <1>1 DEF Running, TableWith

(* Every capture tells of a table what the main config and the file of it  *)
(* put there; and what is put back is what was captured.                   *)
Telling(s, q) == s.table = TableWith(s.main, s.file, q)

TellInv ==
    ~disturbed =>
      /\ Telling(before, p)
      /\ \A q \in Profiles : \A i \in 1..Len(journal[q]) : Telling(journal[q][i].before, q)
      /\ pc \in {"undo file", "reload", "undone"} => main = before.main
      /\ pc \in {"reload", "undone"} => file[p] = before.file

LEMMA InitTells == Init => TellInv
  <1> SUFFICES ASSUME Init PROVE TellInv  OBVIOUS
  <1>1. main.includes = <<>>  BY FirewallAssumption DEF Init, NoMain
  <1>2. OwnText(main, Absent, p) = <<>>  BY <1>1 DEF OwnText
  <1>3. Telling(before, p)  BY <1>2 DEF Init, Telling, TableWith
  <1>4. QED  BY <1>3 DEF Init, TellInv

(* The journal after a run is recorded, or the latest one taken from it.   *)
LEMMA JournalGrows ==
    ASSUME Typed, NEW r, journal' = [journal EXCEPT ![p] = Append(@, r)]
    PROVE  /\ \A x \in Profiles \ {p} : journal'[x] = journal[x]
           /\ Len(journal[p]) \in Nat /\ Len(journal'[p]) = Len(journal[p]) + 1
           /\ journal'[p][Len(journal[p]) + 1] = r
           /\ \A i \in 1..Len(journal[p]) : journal'[p][i] = journal[p][i]
  <1>1. PICK S : journal[p] \in Seq(S)  BY DEF Typed, IsRuns
  <1>2. journal'[p] = Append(journal[p], r)  BY DEF Typed
  <1>3. \A x \in Profiles \ {p} : journal'[x] = journal[x]  BY DEF Typed
  <1>4. QED  BY <1>1, <1>2, <1>3

LEMMA Places ==
    \A n \in Nat : /\ \A i \in 1..(n + 1) : i \in 1..n \/ i = n + 1
                   /\ n # 0 => n \in 1..n /\ \A i \in 1..(n - 1) : i \in 1..n
  OBVIOUS

LEMMA AllButLast ==
    ASSUME NEW S, NEW s \in Seq(S), s # <<>>
    PROVE  /\ Len(s) \in Nat \ {0} /\ Len(SubSeq(s, 1, Len(s) - 1)) = Len(s) - 1
           /\ \A i \in 1..(Len(s) - 1) : SubSeq(s, 1, Len(s) - 1)[i] = s[i]
  <1>1. Len(s) \in Nat \ {0}  OBVIOUS
  <1>2. Len(SubSeq(s, 1, Len(s) - 1)) = Len(s) - 1
    <2> DEFINE n == Len(s) - 1
    <2>1. n \in Nat /\ n <= Len(s)  BY <1>1
    <2> HIDE DEF n
    <2>2. Len(SubSeq(s, 1, n)) = n  BY <2>1
    <2>3. QED  BY <2>2 DEF n
  <1>3. ASSUME NEW i \in 1..(Len(s) - 1)
        PROVE  SubSeq(s, 1, Len(s) - 1)[i] = s[i]
    BY <1>1, <1>3
  <1>4. QED  BY <1>1, <1>2, <1>3

LEMMA JournalShrinks ==
    ASSUME Typed, NEW q \in Profiles, journal[q] # <<>>,
           journal' = [journal EXCEPT ![q] = SubSeq(@, 1, Len(@) - 1)]
    PROVE  /\ \A x \in Profiles \ {q} : journal'[x] = journal[x]
           /\ Len(journal[q]) \in Nat \ {0} /\ Len(journal'[q]) = Len(journal[q]) - 1
           /\ \A i \in 1..(Len(journal[q]) - 1) : journal'[q][i] = journal[q][i]
  <1>1. PICK S : journal[q] \in Seq(S)  BY DEF Typed, IsRuns
  <1>2. journal'[q] = SubSeq(journal[q], 1, Len(journal[q]) - 1)  BY DEF Typed
  <1>3. \A x \in Profiles \ {q} : journal'[x] = journal[x]  BY DEF Typed
  <1>4. QED  BY <1>1, <1>2, <1>3, AllButLast

LEMMA NextTells ==
    ASSUME TablesApart, NoLegacy
    PROVE  MatchInv /\ TellInv /\ [Next]_vars => TellInv'
  <1> SUFFICES ASSUME MatchInv, TellInv, [Next]_vars, ~disturbed'
               PROVE  TellInv'
    BY DEF TellInv
  <1>0. ~disturbed /\ Typed  BY DisturbedStays DEF MatchInv
  <1> USE <1>0 DEF TellInv
  <1>1. CASE Start
    <2>1. PICK q \in Profiles : p' = q /\ before' = Snapshot(q)  BY <1>1 DEF Start
    <2>2. pc = "ready" /\ Matches  BY <1>1 DEF Start, MatchInv, Settled
    <2>3. Telling(before', q)  BY <2>1, <2>2, OwnTableRuns DEF Telling, Snapshot
    <2>4. QED  BY <1>1, <2>1, <2>3 DEF Start
  <1>2. CASE Stage \/ EnsureFlush \/ EnsureInclude \/ Validate \/ Activate \/ ReadBack
             \/ UndoFailed
    <2>1. /\ UNCHANGED <<p, before, journal>>
          /\ pc' \notin {"undo file", "reload", "undone"}
      BY <1>2 DEF Stage, EnsureFlush, EnsureInclude, Validate, Activate, ReadBack, UndoFailed,
                  run, Writes, Load
    <2>2. QED  BY <2>1
  <1>3. CASE Recapture
    <2>1. UNCHANGED <<p, before>> /\ pc' \in {"ready", "failed"}  BY <1>3 DEF Recapture
    <2>2. CASE UNCHANGED journal  BY <2>1, <2>2
    <2>3. CASE journal' = [journal EXCEPT ![p] =
                             Append(@, [before |-> before, after |-> Snapshot(p)])]
      <3>1. \A x \in Profiles : \A i \in 1..Len(journal'[x]) : Telling(journal'[x][i].before, x)
        <4>1. SUFFICES ASSUME NEW x \in Profiles, NEW i \in 1..Len(journal'[x])
                       PROVE  Telling(journal'[x][i].before, x)
          OBVIOUS
        <4> DEFINE r == [before |-> before, after |-> Snapshot(p)]
        <4>2. r.before = before  OBVIOUS
        <4> HIDE DEF r
        <4>3. /\ \A y \in Profiles \ {p} : journal'[y] = journal[y]
              /\ Len(journal[p]) \in Nat /\ Len(journal'[p]) = Len(journal[p]) + 1
              /\ journal'[p][Len(journal[p]) + 1] = r
              /\ \A k \in 1..Len(journal[p]) : journal'[p][k] = journal[p][k]
          BY <2>3, JournalGrows DEF r
        <4>4. CASE x # p  BY <4>1, <4>3, <4>4
        <4>5. CASE x = p
          <5>1. i \in 1..Len(journal'[p])  BY <4>1, <4>5
          <5> DEFINE n == Len(journal[p])
          <5>2. n \in Nat /\ i \in 1..(n + 1)  BY <4>3, <5>1
          <5> HIDE DEF n
          <5>3. i \in 1..n \/ i = n + 1  BY <5>2, Places, Zenon
          <5>4. CASE i = n + 1  BY <4>2, <4>3, <4>5, <5>4 DEF n, Telling
          <5>5. CASE i \in 1..n
            <6>1. journal'[x][i] = journal[p][i]  BY <4>3, <4>5, <5>5 DEF n
            <6>2. QED  BY <4>5, <5>5, <6>1 DEF n, Typed
          <5>6. QED  BY <5>3, <5>4, <5>5
        <4>6. QED  BY <4>4, <4>5
      <3>2. QED  BY <2>1, <3>1
    <2>4. QED  BY <1>3, <2>2, <2>3 DEF Recapture
  <1>4. CASE Rollback
    <2>1. PICK q \in Profiles :
            /\ journal[q] # <<>> /\ p' = q /\ before' = Top(q).before
            /\ pc' \in {"undo main", "skipped"}
            /\ journal' = [journal EXCEPT ![q] = SubSeq(@, 1, Len(@) - 1)]
      BY <1>4 DEF Rollback
    <2>2. /\ \A x \in Profiles \ {q} : journal'[x] = journal[x]
          /\ Len(journal[q]) \in Nat \ {0} /\ Len(journal'[q]) = Len(journal[q]) - 1
          /\ \A i \in 1..(Len(journal[q]) - 1) : journal'[q][i] = journal[q][i]
      BY <2>1, JournalShrinks
    <2>3. Telling(before', p')
      <3>1. Len(journal[q]) \in 1..Len(journal[q])  BY <2>2, Places
      <3>2. QED  BY <2>1, <3>1 DEF Top
    <2>4. ASSUME NEW x \in Profiles, NEW i \in 1..Len(journal'[x])
          PROVE  Telling(journal'[x][i].before, x)
      <3>1. CASE x # q  BY <2>2, <3>1
      <3>2. CASE x = q
        <4>1. i \in 1..Len(journal'[q])  BY <3>2
        <4> DEFINE n == Len(journal[q])
        <4>2. n \in Nat \ {0} /\ i \in 1..(n - 1)  BY <2>2, <4>1
        <4> HIDE DEF n
        <4>3. i \in 1..n  BY <4>2, Places
        <4>4. journal'[x][i] = journal[q][i]  BY <2>2, <3>2, <4>2 DEF n
        <4>5. QED  BY <3>2, <4>3, <4>4 DEF n
      <3>3. QED  BY <3>1, <3>2
    <2>5. QED  BY <2>1, <2>3, <2>4
  <1>5. CASE UndoMain
    <2>1. /\ UNCHANGED <<p, before, journal>>
          /\ pc' = "stuck" \/ (pc' = "undo file" /\ main' = before.main)
      BY <1>5 DEF UndoMain, run, Writes
    <2>2. QED  BY <2>1
  <1>6. CASE UndoFile
    <2>1. /\ UNCHANGED <<p, before, journal, main>> /\ main = before.main
          /\ \/ pc' = "stuck"
             \/ pc' = "reload" /\ file' = [file EXCEPT ![p] = before.file]
      BY <1>6 DEF UndoFile, run, Writes
    <2>2. pc' = "reload" => file'[p] = before.file  BY <2>1 DEF Typed
    <2>3. QED  BY <2>1, <2>2
  <1>7. CASE Reload
    <2>1. UNCHANGED <<p, before, journal, main, file>> /\ pc' \in {"stuck", "undone"}
          /\ pc = "reload"
      BY <1>7 DEF Reload, run, Writes, Load
    <2>2. QED  BY <2>1
  <1>8. CASE StartOver
    <2>1. UNCHANGED <<p, before, journal>> /\ pc' = "ready"  BY <1>8 DEF StartOver
    <2>2. QED  BY <2>1
  <1>9. CASE Delete  BY <1>9 DEF Delete
  <1>10. CASE UNCHANGED vars  BY <1>10 DEF vars
  <1>11. QED
    BY <1>1, <1>2, <1>3, <1>4, <1>5, <1>6, <1>7, <1>8, <1>9, <1>10 DEF Next

(* A failed step, or a run that is rolled back after others were applied   *)
(* and rolled back, leaves the main config, the file and the table as that *)
(* run found them.                                                         *)
THEOREM UndoneIsBefore ==
    ASSUME TablesApart, NoLegacy
    PROVE  Spec => []UndoneMeansBefore
  <1>1. MatchInv /\ TellInv => UndoneMeansBefore
    <2> SUFFICES ASSUME MatchInv, TellInv, pc = "undone", ~disturbed
                 PROVE  [Snapshot(p) EXCEPT !.live = before.live] = before
      BY DEF UndoneMeansBefore
    <2>1. Typed /\ Matches  BY DEF MatchInv, Settled
    <2>2. main = before.main /\ file[p] = before.file /\ Telling(before, p)  BY DEF TellInv
    <2>3. Running(p) = before.table
      BY <2>1, <2>2, OwnTableRuns DEF Telling, Typed
    <2>4. [Snapshot(p) EXCEPT !.live = before.live] =
            [file |-> file[p], main |-> main, table |-> Running(p), live |-> before.live]
      BY DEF Snapshot
    <2>5. QED  BY <2>1, <2>2, <2>3, <2>4 DEF Typed, IsSnapshot
  <1>2. Init => TellInv  BY InitTells
  <1>3. MatchInv /\ TellInv /\ [Next]_vars => TellInv'  BY NextTells
  <1>4. QED  BY <1>1, <1>2, <1>3, MatchAlways, PTL DEF Spec

-----------------------------------------------------------------------------
(* A run of a profile whose file and include were there, as its capture    *)
(* says, has nothing to write: it loads what is loaded.                    *)
Forward == {"stage", "flush", "include", "validate", "load", "read back", "recapture"}

InPlace == before.file = TextOf[want] /\ Contains(before.main.includes, p)

AsFound ==
    /\ file[p] = before.file /\ main = before.main
    /\ Running(p) = before.table /\ Matches

ForeseeInv == ~disturbed /\ pc \in Forward /\ InPlace => AsFound

LEMMA IncludedFlushes ==
    ASSUME Typed, InPlace, AsFound
    PROVE  IsIncluded /\ main.flush = TRUE
  <1>1. IsIncluded  BY DEF InPlace, AsFound, IsIncluded
  <1>2. main.includes # <<>>  BY <1>1 DEF IsIncluded, Contains
  <1>3. QED  BY <1>1, <1>2 DEF Typed, Configs, Shapes

LEMMA FoundStays ==
    ASSUME AsFound, UNCHANGED <<p, before, main, file, kernel>>
    PROVE  AsFound'
  BY DEF AsFound, Running, Matches, Declared

LEMMA NextForesees ==
    /\ MatchInv /\ ForeseeInv /\ [Next]_vars
    /\ "probe" \notin FaultKinds \/ faults' = 0
    => ForeseeInv'
  <1> SUFFICES ASSUME MatchInv, ForeseeInv, [Next]_vars, ~disturbed', pc' \in Forward, InPlace',
                      "probe" \notin FaultKinds \/ faults' = 0
               PROVE  AsFound'
    BY DEF ForeseeInv
  <1>0. ~disturbed /\ Typed  BY DisturbedStays DEF MatchInv
  <1>01. ~Fault("probe")  BY <1>0, FaultsCount DEF Fault
  <1> USE <1>0 DEF Forward
  <1>1. CASE Start
    <2>1. PICK q \in Profiles : p' = q /\ before' = Snapshot(q)  BY <1>1 DEF Start
    <2>2. pc = "ready" /\ Matches /\ UNCHANGED <<main, file, kernel>>
      BY <1>1 DEF Start, MatchInv, Settled
    <2>3. Matches'  BY <2>2, MatchStays
    <2>4. Running(q)' = Running(q)  BY <2>2 DEF Running
    <2>5. before'.file = file[q] /\ before'.main = main /\ before'.table = Running(q)
      BY <2>1 DEF Snapshot
    <2>6. QED  BY <2>1, <2>2, <2>3, <2>4, <2>5 DEF AsFound, Running
  (* A run on its way: what its capture says stays.                        *)
  <1>2. ASSUME Stage \/ EnsureFlush \/ EnsureInclude \/ Validate \/ Activate \/ ReadBack
        PROVE  AsFound'
    <2>1. UNCHANGED <<p, want, before>> /\ pc \in Forward
      BY <1>2 DEF Stage, EnsureFlush, EnsureInclude, Validate, Activate, ReadBack, run
    <2>2. InPlace /\ AsFound  BY <2>1 DEF InPlace, ForeseeInv
    <2>3. IsIncluded /\ main.flush = TRUE  BY <2>2, IncludedFlushes
    <2>4. CASE ~Activate
      <3>1. UNCHANGED <<main, file, kernel>>
        <4>1. CASE Stage  BY <2>2, <4>1 DEF Stage, InPlace, AsFound
        <4>2. CASE EnsureFlush  BY <2>3, <4>2 DEF EnsureFlush
        <4>3. CASE EnsureInclude  BY <1>01, <2>3, <4>3 DEF EnsureInclude
        <4>4. CASE Validate \/ ReadBack  BY <4>4 DEF Validate, ReadBack
        <4>5. QED  BY <1>2, <2>4, <4>1, <4>2, <4>3, <4>4
      <3>2. QED  BY <2>1, <2>2, <3>1, FoundStays
    <2>5. CASE Activate
      <3>1. kernel' = Loaded(TRUE) /\ main' = main /\ file' = file
        BY <2>3, <2>5 DEF Activate, Load
      <3>2. Matches'  BY <3>1, FlushedLoadMatches
      <3>3. Matches  BY <2>2 DEF AsFound
      <3>4. TableOf[p] \in Tables  BY DEF Typed, Tables
      <3>5. Declared(TableOf[p])' = Declared(TableOf[p])  BY <2>1, <3>1 DEF Declared
      <3>6. kernel'.tables[TableOf[p]] = kernel.tables[TableOf[p]]
        BY <3>1, <3>3, <3>4 DEF Matches, Loaded
      <3>7. Running(p)' = Running(p)  BY <2>1, <3>6 DEF Running
      <3>8. QED  BY <2>1, <2>2, <3>1, <3>2, <3>7 DEF AsFound
    <2>6. QED  BY <2>4, <2>5
  <1>3. CASE Recapture \/ UndoFailed \/ Rollback \/ UndoMain \/ UndoFile \/ Reload \/ StartOver
    BY <1>3 DEF Recapture, UndoFailed, Rollback, UndoMain, UndoFile, Reload, StartOver,
                Writes, Load
  <1>4. CASE Delete  BY <1>4 DEF Delete
  <1>5. CASE UNCHANGED vars
    BY <1>5, FoundStays DEF vars, InPlace, ForeseeInv
  <1>6. QED  BY <1>1, <1>2, <1>3, <1>4, <1>5 DEF Next

(* As long as no grep fails unnoticed, a step that a plan calls unchanged  *)
(* writes nothing and loads what is loaded.                                *)
THEOREM PlansForesee ==
    ASSUME "probe" \notin FaultKinds
    PROVE  Spec => []PlanForesees
  <1>1. ForeseeInv => PlanForesees
    BY DEF ForeseeInv, PlanForesees, WillChange, Valid, InPlace, AsFound, Forward
  <1>2. Init => ForeseeInv  BY DEF Init, ForeseeInv, Forward
  <1>3. MatchInv /\ ForeseeInv /\ [Next]_vars => ForeseeInv'  BY NextForesees
  <1>4. QED  BY <1>1, <1>2, <1>3, MatchAlways, PTL DEF Spec

-----------------------------------------------------------------------------
(* Every profile that was applied stays included, and its file is what its *)
(* latest run left.                                                        *)
Included(m) == ToSet(m.includes)

(* A run took its profile up where the one before it left it, and included *)
(* no other.                                                               *)
Linked(q, i) ==
    /\ Included(journal[q][i].after.main) \subseteq Included(journal[q][i].before.main) \cup {q}
    /\ journal[q][i].after.file # NoText
    /\ i > 1 => /\ q \in Included(journal[q][i].before.main)
                /\ journal[q][i].before.file = journal[q][i - 1].after.file

ChainInv == \A q \in Profiles : \A i \in 1..Len(journal[q]) : Linked(q, i)

Home == {"ready", "skipped"}

HomeInv ==
    pc \in Home => \A x \in Profiles :
        Len(journal[x]) > 0 => x \in Included(main) /\ file[x] = Top(x).after.file

(* While a run is under way its capture holds what to come back to.        *)
AwayInv ==
    pc \notin Home => \A x \in Profiles :
        Len(journal[x]) > 0 =>
            /\ x \in Included(before.main)
            /\ Top(x).after.file = IF x = p THEN before.file ELSE file[x]

WayInv ==
    /\ pc \in Forward => /\ Included(before.main) \subseteq Included(main)
                         /\ Included(main) \subseteq Included(before.main) \cup {p}
    /\ pc \in {"load", "read back", "recapture"} => p \in Included(main)
    /\ pc \in Forward \ {"stage"} => file[p] = TextOf[want]

StayInv == ~disturbed => ChainInv /\ HomeInv /\ AwayInv /\ WayInv

(* No ruleset hardline accepts is rendered as nothing.                     *)
LEMMA TextsSaySomething ==
    ASSUME NEW s \in Rulesets
    PROVE  TextOf[s] # NoText
  <1>1. s \in Accepted  BY FirewallAssumption
  <1>2. s.policies # <<>> /\ s.policies \in Seq([chain : Chains, policy : Actions])
    BY <1>1, AcceptedFacts DEF Accepted, Refused
  <1>3. 1 \in DOMAIN s.policies  BY <1>2
  <1>4. Managed(s) = {s.policies[k].chain : k \in DOMAIN s.policies}  BY SpecParts
  <1>5. s.policies[1].chain \in DOMAIN TextOf[s]  BY <1>1, <1>3, <1>4, TextParts
  <1>6. QED  BY <1>5 DEF NoText

LEMMA IncludeAdds ==
    ASSUME Typed
    PROVE  Included(WithInclude) = Included(main) \cup {p}
  <1>1. main.includes \in Seq(Profiles) /\ p \in Profiles  BY DEF Typed, Configs, Shapes
  <1>2. WithInclude.includes = Append(main.includes, p)  BY DEF Typed, Configs, Shapes, WithInclude
  <1> DEFINE s == main.includes
             n == Len(s)
  <1>3. n \in Nat /\ DOMAIN s = 1..n /\ DOMAIN Append(s, p) = 1..(n + 1)  BY <1>1
  <1>4. Append(s, p)[n + 1] = p /\ \A i \in 1..n : Append(s, p)[i] = s[i]  BY <1>1
  <1> HIDE DEF s, n
  <1>5. n + 1 \in 1..(n + 1) /\ \A i \in 1..n : i \in 1..(n + 1)  BY <1>3
  <1>6. \A i \in 1..(n + 1) : i \in 1..n \/ i = n + 1  BY <1>3, Places
  <1>7. ToSet(Append(s, p)) = ToSet(s) \cup {p}  BY <1>3, <1>4, <1>5, <1>6, Zenon DEF ToSet
  <1>8. QED  BY <1>2, <1>7 DEF Included, s

LEMMA IncludedIsListed ==
    ASSUME NEW m \in Configs, NEW q
    PROVE  q \in Included(m) <=> Contains(m.includes, q)
  <1>1. m.includes \in Seq(Profiles)  BY DEF Configs, Shapes
  <1>2. DOMAIN m.includes = 1..Len(m.includes)  BY <1>1
  <1>3. QED  BY <1>2 DEF Included, ToSet, Contains

LEMMA WayStays ==
    ASSUME NoLegacy, MatchInv, WayInv, ~disturbed, ~disturbed', Typed',
           Stage \/ EnsureFlush \/ EnsureInclude \/ Validate \/ Activate \/ ReadBack
    PROVE  /\ WayInv' /\ UNCHANGED <<p, want, before, journal>>
           /\ pc \in Forward /\ pc' \notin Home
           /\ \A x \in Profiles : x # p => file'[x] = file[x]
  <1>0. Typed  BY DEF MatchInv
  <1>1. UNCHANGED <<p, want, before, journal>> /\ pc \in Forward
    BY DEF Stage, EnsureFlush, EnsureInclude, Validate, Activate, ReadBack, run, Forward
  <1>2. CASE Stage
    <2>1. \/ file' = file /\ (pc' = "flush" => file[p] = TextOf[want])
          \/ file' = [file EXCEPT ![p] = TextOf[want]]
      BY <1>2 DEF Stage, Writes
    <2>2. /\ \A x \in Profiles : x # p => file'[x] = file[x]
          /\ pc' = "flush" => file'[p] = TextOf[want]
      BY <1>0, <2>1 DEF Typed
    <2>3. pc = "stage" /\ pc' \in {"flush", "failed"} /\ main' = main
      BY <1>2 DEF Stage, Writes
    <2>4. QED  BY <1>1, <2>2, <2>3 DEF WayInv, Forward, Home
  <1>3. CASE EnsureFlush
    <2>1. [main EXCEPT !.exists = TRUE, !.flush = TRUE].includes = main.includes
      BY <1>0 DEF Typed, Configs, Shapes
    <2>2. main'.includes = main.includes  BY <1>3, <2>1 DEF EnsureFlush, Writes
    <2>3. pc = "flush" /\ pc' \in {"include", "failed"} /\ file' = file
      BY <1>3 DEF EnsureFlush, Writes
    <2>4. QED  BY <1>1, <2>2, <2>3 DEF WayInv, Forward, Home, Included
  <1>4. CASE EnsureInclude
    <2>1. pc = "include" /\ pc' \in {"validate", "failed"} /\ file' = file
      BY <1>4 DEF EnsureInclude, Writes
    <2>2. main' \in {main, WithInclude}  BY <1>4 DEF EnsureInclude, Writes
    <2>3. Included(main') \in {Included(main), Included(main) \cup {p}}
      BY <1>0, <2>2, IncludeAdds
    <2>4. QED  BY <1>1, <2>1, <2>3 DEF WayInv, Forward, Home
  <1>5. CASE Validate
    <2>1. /\ pc = "validate" /\ pc' \in {"load", "failed"} /\ UNCHANGED <<main, file>>
          /\ pc' = "load" => IsIncluded
      BY <1>5 DEF Validate
    <2>2. IsIncluded => p \in Included(main)
      BY <1>0, IncludedIsListed DEF IsIncluded, Typed
    <2>3. QED  BY <1>1, <2>1, <2>2 DEF WayInv, Forward, Home
  <1>6. CASE Activate
    <2>1. pc = "load" /\ pc' \in {"read back", "failed"} /\ UNCHANGED <<main, file>>
      BY <1>6 DEF Activate, Load
    <2>2. QED  BY <1>1, <2>1 DEF WayInv, Forward, Home
  <1>7. CASE ReadBack
    <2>1. pc = "read back" /\ pc' \in {"recapture", "failed"} /\ UNCHANGED <<main, file>>
      BY <1>7 DEF ReadBack
    <2>2. QED  BY <1>1, <2>1 DEF WayInv, Forward, Home
  <1>8. QED  BY <1>2, <1>3, <1>4, <1>5, <1>6, <1>7

(* A recorded run is linked to the one before it, and leaves its profile   *)
(* at home.                                                                *)
LEMMA RecordedStays ==
    ASSUME Typed, ChainInv, AwayInv, WayInv, pc = "recapture", pc' = "ready",
           UNCHANGED <<main, file, p, want, before>>,
           journal' = [journal EXCEPT ![p] =
                         Append(@, [before |-> before, after |-> Snapshot(p)])]
    PROVE  ChainInv' /\ HomeInv' /\ AwayInv' /\ WayInv'
  <1> DEFINE r == [before |-> before, after |-> Snapshot(p)]
             n == Len(journal[p])
  <1>1. /\ r.before = before /\ r.after.main = main /\ r.after.file = file[p]
        /\ file[p] = TextOf[want] /\ p \in Profiles /\ want \in Rulesets
    BY DEF Snapshot, WayInv, Forward, Typed
  <1>2. /\ \A x \in Profiles \ {p} : journal'[x] = journal[x]
        /\ n \in Nat /\ Len(journal'[p]) = n + 1 /\ journal'[p][n + 1] = r
        /\ \A i \in 1..n : journal'[p][i] = journal[p][i]
    <2> HIDE DEF r
    <2>1. journal' = [journal EXCEPT ![p] = Append(@, r)]  BY DEF r
    <2>2. QED  BY <2>1, JournalGrows
  <1>3. n > 0 => p \in Included(before.main) /\ journal[p][n].after.file = before.file
    BY <1>1 DEF AwayInv, Home, Top
  <1>4. /\ Included(before.main) \subseteq Included(main)
        /\ Included(main) \subseteq Included(before.main) \cup {p} /\ p \in Included(main)
    BY DEF WayInv, Forward
  <1> HIDE DEF r, n
  <1>5. ChainInv'
    <2>1. SUFFICES ASSUME NEW q \in Profiles, NEW i \in 1..Len(journal'[q])
                   PROVE  Linked(q, i)'
      BY DEF ChainInv
    <2>2. CASE q # p
      <3>1. journal'[q] = journal[q] /\ Linked(q, i)  BY <1>2, <2>1, <2>2 DEF ChainInv
      <3>2. QED  BY <3>1 DEF Linked
    <2>3. CASE q = p
      <3>1. i \in 1..(n + 1)  BY <1>2, <2>1, <2>3
      <3>2. i \in 1..n \/ i = n + 1  BY <1>2, <3>1, Places, Zenon
      <3>3. CASE i \in 1..n
        <4>1. Linked(p, i)  BY <1>1, <3>3 DEF ChainInv, n
        <4>2. i > 1 => i - 1 \in 1..n  BY <1>2, <3>3
        <4>3. /\ journal'[p][i] = journal[p][i]
              /\ i > 1 => journal'[p][i - 1] = journal[p][i - 1]
          BY <1>2, <3>3, <4>2
        <4>4. QED  BY <2>3, <4>1, <4>3 DEF Linked
      <3>4. CASE i = n + 1
        <4>1. journal'[p][i].before = before /\ journal'[p][i].after.main = main
              /\ journal'[p][i].after.file # NoText
          BY <1>1, <1>2, <3>4, TextsSaySomething
        <4>2. i > 1 => n > 0 /\ i - 1 = n /\ n \in 1..n  BY <1>2, <3>4
        <4>3. i > 1 => journal'[p][i - 1] = journal[p][n]  BY <1>2, <4>2
        <4>4. QED  BY <1>3, <1>4, <2>3, <4>1, <4>2, <4>3 DEF Linked
      <3>5. QED  BY <3>2, <3>3, <3>4
    <2>4. QED  BY <2>2, <2>3
  <1>6. HomeInv'
    <2>1. SUFFICES ASSUME NEW x \in Profiles, Len(journal'[x]) > 0
                   PROVE  x \in Included(main) /\ file[x] = Top(x)'.after.file
      BY DEF HomeInv
    <2>2. CASE x # p
      <3>1. journal'[x] = journal[x]  BY <1>2, <2>2
      <3>2. x \in Included(before.main) /\ Top(x).after.file = file[x]
        BY <2>1, <2>2, <3>1 DEF AwayInv, Home
      <3>3. QED  BY <1>4, <3>1, <3>2 DEF Top
    <2>3. CASE x = p  BY <1>1, <1>2, <1>4, <2>3 DEF Top
    <2>4. QED  BY <2>2, <2>3
  <1>7. QED  BY <1>5, <1>6 DEF AwayInv, WayInv, Home, Forward

(* The latest run of a profile is taken from the record: the conflict      *)
(* check sees to it that its main config is the present one.               *)
LEMMA RollbackStays ==
    ASSUME Typed, ChainInv, HomeInv, Rollback
    PROVE  ChainInv' /\ HomeInv' /\ AwayInv' /\ WayInv'
  <1>1. PICK q \in Profiles :
          /\ journal[q] # <<>> /\ p' = q /\ before' = Top(q).before
          /\ Changed(Top(q)) => ~Conflict(q)
          /\ pc' = IF Changed(Top(q)) THEN "undo main" ELSE "skipped"
          /\ journal' = [journal EXCEPT ![q] = SubSeq(@, 1, Len(@) - 1)]
          /\ pc = "ready" /\ UNCHANGED <<main, file>>
    BY DEF Rollback
  <1> DEFINE n == Len(journal[q])
  <1>2. /\ \A x \in Profiles \ {q} : journal'[x] = journal[x]
        /\ n \in Nat \ {0} /\ Len(journal'[q]) = n - 1
        /\ \A i \in 1..(n - 1) : journal'[q][i] = journal[q][i]
    BY <1>1, JournalShrinks
  <1>3. \A x \in Profiles :
          Len(journal[x]) > 0 => x \in Included(main) /\ file[x] = Top(x).after.file
    BY <1>1 DEF HomeInv, Home
  <1>4. Top(q) = journal[q][n]  BY DEF Top
  <1> HIDE DEF n
  <1>5. \A i \in 1..(n - 1) : i \in 1..n /\ (i > 1 => i - 1 \in 1..(n - 1))  BY <1>2
  <1>6. n \in 1..n /\ n > 0 /\ (n - 1 > 0 => n > 1 /\ n - 1 \in 1..(n - 1))  BY <1>2
  <1>7. Linked(q, n)  BY <1>6 DEF ChainInv, n
  <1>8. ChainInv'
    <2>1. SUFFICES ASSUME NEW x \in Profiles, NEW i \in 1..Len(journal'[x])
                   PROVE  Linked(x, i)'
      BY DEF ChainInv
    <2>2. CASE x # q
      <3>1. journal'[x] = journal[x] /\ Linked(x, i)  BY <1>2, <2>1, <2>2 DEF ChainInv
      <3>2. QED  BY <3>1 DEF Linked
    <2>3. CASE x = q
      <3>1. i \in 1..(n - 1)  BY <1>2, <2>1, <2>3
      <3>2. Linked(q, i)  BY <1>5, <3>1 DEF ChainInv, n
      <3>3. journal'[q][i] = journal[q][i] /\ (i > 1 => journal'[q][i - 1] = journal[q][i - 1])
        BY <1>2, <1>5, <3>1
      <3>4. QED  BY <2>3, <3>2, <3>3 DEF Linked
    <2>4. QED  BY <2>2, <2>3
  (* What is left of the record is where it was, or where it will be.      *)
  <1>9. Len(journal'[q]) > 0 =>
          /\ q \in Included(before'.main) /\ before'.file = Top(q)'.after.file
    <2>1. SUFFICES ASSUME n - 1 > 0
                   PROVE  q \in Included(before'.main) /\ before'.file = Top(q)'.after.file
      BY <1>2
    <2>2. Top(q)' = journal[q][n - 1]  BY <1>2, <1>6, <2>1 DEF Top
    <2>3. QED  BY <1>1, <1>4, <1>6, <1>7, <2>1, <2>2 DEF Linked
  <1>10. CASE Changed(Top(q))
    <2>1. Top(q).after.main = main  BY <1>1, <1>10 DEF Conflict
    <2>2. Included(main) \subseteq Included(before'.main) \cup {q}
      BY <1>1, <1>4, <1>7, <2>1 DEF Linked
    <2>3. AwayInv'
      <3>1. SUFFICES ASSUME NEW x \in Profiles, Len(journal'[x]) > 0
                     PROVE  /\ x \in Included(before'.main)
                            /\ Top(x)'.after.file = IF x = q THEN before'.file ELSE file[x]
        BY <1>1 DEF AwayInv
      <3>2. CASE x # q
        <4>1. journal'[x] = journal[x]  BY <1>2, <3>2
        <4>2. x \in Included(main) /\ file[x] = Top(x).after.file  BY <1>3, <3>1, <4>1
        <4>3. QED  BY <2>2, <3>2, <4>1, <4>2 DEF Top
      <3>3. QED  BY <1>9, <3>1, <3>2
    <2>4. pc' = "undo main"  BY <1>1, <1>10
    <2>5. QED  BY <1>8, <2>3, <2>4 DEF HomeInv, WayInv, Home, Forward
  <1>11. CASE ~Changed(Top(q))
    <2>1. Top(q).before.file = Top(q).after.file
      <3>1. IsSnapshot(Top(q).before) /\ IsSnapshot(Top(q).after)
        BY <1>1, RunTaken DEF Typed, Top, Undoable
      <3>2. [Top(q).before EXCEPT !.live = FALSE].file = Top(q).before.file
        BY <3>1 DEF IsSnapshot
      <3>3. [Top(q).after EXCEPT !.live = FALSE].file = Top(q).after.file
        BY <3>1 DEF IsSnapshot
      <3>4. QED  BY <1>11, <3>2, <3>3 DEF Changed
    <2>2. q \in Included(main) /\ file[q] = Top(q).after.file  BY <1>3, <1>6 DEF n
    <2>3. HomeInv'
      <3>1. SUFFICES ASSUME NEW x \in Profiles, Len(journal'[x]) > 0
                     PROVE  x \in Included(main) /\ file[x] = Top(x)'.after.file
        BY <1>1 DEF HomeInv
      <3>2. CASE x # q
        <4>1. journal'[x] = journal[x]  BY <1>2, <3>2
        <4>2. QED  BY <1>3, <3>1, <4>1 DEF Top
      <3>3. CASE x = q  BY <1>1, <1>9, <2>1, <2>2, <3>1, <3>3
      <3>4. QED  BY <3>2, <3>3
    <2>4. pc' = "skipped"  BY <1>1, <1>11
    <2>5. QED  BY <1>8, <2>3, <2>4 DEF AwayInv, WayInv, Home, Forward
  <1>12. QED  BY <1>10, <1>11

LEMMA NextStays ==
    ASSUME NoLegacy
    PROVE  MatchInv /\ TellInv /\ StayInv /\ [Next]_vars => StayInv'
  <1> SUFFICES ASSUME MatchInv, TellInv, StayInv, [Next]_vars, ~disturbed'
               PROVE  ChainInv' /\ HomeInv' /\ AwayInv' /\ WayInv'
    BY DEF StayInv
  <1>0. ~disturbed /\ Typed /\ Typed'  BY DisturbedStays, NextTyped DEF MatchInv
  <1>00. ChainInv /\ HomeInv /\ AwayInv /\ WayInv  BY <1>0 DEF StayInv
  <1>01. ASSUME journal' = journal PROVE ChainInv'  BY <1>00, <1>01 DEF ChainInv, Linked
  (* As long as the capture stays, and the files of the other profiles.    *)
  <1>02. ASSUME UNCHANGED <<p, before, journal>>, pc \notin Home,
                \A x \in Profiles : x # p => file'[x] = file[x]
         PROVE  AwayInv'
    BY <1>00, <1>02 DEF AwayInv, Top
  <1>1. CASE Start
    <2>1. PICK q \in Profiles : p' = q /\ before' = Snapshot(q)  BY <1>1 DEF Start
    <2>2. pc = "ready" /\ pc' = "stage" /\ UNCHANGED <<main, file, journal>>
      BY <1>1 DEF Start
    <2>3. before'.main = main /\ before'.file = file[q]  BY <2>1 DEF Snapshot
    <2>4. AwayInv'  BY <1>00, <2>1, <2>2, <2>3 DEF HomeInv, AwayInv, Home, Top
    <2>5. QED  BY <1>01, <2>2, <2>3, <2>4 DEF HomeInv, WayInv, Home, Forward
  <1>2. CASE Stage \/ EnsureFlush \/ EnsureInclude \/ Validate \/ Activate \/ ReadBack
    <2>1. /\ WayInv' /\ UNCHANGED <<p, before, journal>>
          /\ pc \in Forward /\ pc' \notin Home
          /\ \A x \in Profiles : x # p => file'[x] = file[x]
      BY <1>0, <1>00, <1>2, WayStays
    <2>2. pc \notin Home  BY <2>1 DEF Forward, Home
    <2>3. QED  BY <1>01, <1>02, <2>1, <2>2 DEF HomeInv
  <1>3. CASE Recapture
    <2>1. CASE UNCHANGED journal
      <3>1. /\ UNCHANGED <<p, before, journal, file>>
            /\ pc = "recapture" /\ pc' \in {"ready", "failed"}
        BY <1>3, <2>1 DEF Recapture
      <3>2. pc' = "failed"
        <4>1. CASE pc' = "ready"
          <5>1. journal'[p] = Append(journal[p], [before |-> before, after |-> Snapshot(p)])
            BY <1>0, <1>3, <4>1 DEF Recapture, Typed
          <5>2. Len(journal'[p]) = Len(journal[p]) + 1 /\ Len(journal[p]) \in Nat
            <6>1. PICK S : journal[p] \in Seq(S)  BY <1>0 DEF Typed, IsRuns
            <6>2. QED  BY <5>1, <6>1
          <5>3. QED  BY <2>1, <5>2
        <4>2. QED  BY <3>1, <4>1
      <3>3. QED  BY <1>01, <1>02, <3>1, <3>2 DEF HomeInv, WayInv, Home, Forward
    <2>2. CASE journal' = [journal EXCEPT ![p] =
                             Append(@, [before |-> before, after |-> Snapshot(p)])]
      <3>1. /\ UNCHANGED <<main, file, p, want, before>>
            /\ pc = "recapture" /\ pc' \in {"ready", "failed"}
        BY <1>3 DEF Recapture
      <3>2. CASE pc' = "ready"  BY <1>0, <1>00, <2>2, <3>1, <3>2, RecordedStays
      <3>3. CASE pc' = "failed"
        <4>1. UNCHANGED journal  BY <1>3, <3>3 DEF Recapture
        <4>2. QED  BY <1>01, <1>02, <3>1, <3>3, <4>1 DEF HomeInv, WayInv, Home, Forward
      <3>4. QED  BY <3>1, <3>2, <3>3
    <2>3. QED  BY <1>3, <2>1, <2>2 DEF Recapture
  <1>4. CASE Rollback  BY <1>0, <1>00, <1>4, RollbackStays
  <1>5. CASE UndoFailed \/ UndoMain \/ UndoFile \/ Reload
    <2>1. /\ UNCHANGED <<p, before, journal>>
          /\ pc \in {"failed", "undo main", "undo file", "reload"}
          /\ pc' \in {"undo main", "undo file", "reload", "undone", "stuck"}
      BY <1>5 DEF UndoFailed, UndoMain, UndoFile, Reload, run, Writes, Load
    <2>2. file' \in {file, [file EXCEPT ![p] = before.file]}
      BY <1>5 DEF UndoFailed, UndoMain, UndoFile, Reload, Writes
    <2>3. \A x \in Profiles : x # p => file'[x] = file[x]  BY <1>0, <2>2 DEF Typed
    <2>4. QED  BY <1>01, <1>02, <2>1, <2>3 DEF HomeInv, WayInv, Home, Forward
  <1>6. CASE StartOver
    <2>1. /\ UNCHANGED <<p, before, journal, main, file>> /\ pc \in {"undone", "skipped"}
          /\ pc' = "ready"
      BY <1>6 DEF StartOver
    <2>2. CASE pc = "skipped"
      BY <1>00, <1>01, <2>1, <2>2 DEF HomeInv, AwayInv, WayInv, Home, Forward, Top
    <2>3. CASE pc = "undone"
      <3>1. main = before.main /\ file[p] = before.file  BY <1>0, <2>3 DEF TellInv
      <3>2. HomeInv'
        <4>1. SUFFICES ASSUME NEW x \in Profiles, Len(journal[x]) > 0
                       PROVE  x \in Included(main) /\ file[x] = Top(x).after.file
          BY <2>1 DEF HomeInv, Top
        <4>2. /\ x \in Included(before.main)
              /\ Top(x).after.file = IF x = p THEN before.file ELSE file[x]
          BY <1>00, <2>3, <4>1 DEF AwayInv, Home
        <4>3. QED  BY <3>1, <4>2
      <3>3. QED  BY <1>01, <2>1, <3>2 DEF AwayInv, WayInv, Home, Forward
    <2>4. QED  BY <2>1, <2>2, <2>3
  <1>7. CASE Delete  BY <1>7 DEF Delete
  <1>8. CASE UNCHANGED vars
    <2>1. UNCHANGED <<main, file, pc, p, want, before, journal>>  BY <1>8 DEF vars
    <2>2. QED  BY <1>00, <1>01, <2>1 DEF HomeInv, AwayInv, WayInv, Top
  <1>9. QED  BY <1>1, <1>2, <1>3, <1>4, <1>5, <1>6, <1>7, <1>8 DEF Next

LEMMA InitStays == Init => StayInv
  <1> SUFFICES ASSUME Init PROVE StayInv  OBVIOUS
  <1>1. \A q \in Profiles : Len(journal[q]) = 0  BY DEF Init
  <1>2. ChainInv  BY <1>1 DEF ChainInv
  <1>3. QED  BY <1>1, <1>2 DEF Init, StayInv, HomeInv, AwayInv, WayInv, Home, Forward

-----------------------------------------------------------------------------
(* Where no command and no grep failed, no main config includes a file     *)
(* twice.                                                                  *)
NoRepeats(m) ==
    \A i, j \in DOMAIN m.includes : m.includes[i] = m.includes[j] => i = j

OnceInv ==
    faults = 0 =>
      /\ NoRepeats(main) /\ NoRepeats(before.main)
      /\ \A q \in Profiles : \A i \in 1..Len(journal[q]) : NoRepeats(journal[q][i].before.main)

LEMMA InitOnce == Init => OnceInv
  <1> SUFFICES ASSUME Init PROVE OnceInv  OBVIOUS
  <1>1. main.includes = <<>>  BY FirewallAssumption DEF Init, NoMain
  <1>2. \A q \in Profiles : Len(journal[q]) = 0  BY DEF Init
  <1>3. NoRepeats(main) /\ before.main = main  BY <1>1 DEF Init, NoRepeats
  <1>4. QED  BY <1>2, <1>3 DEF OnceInv

LEMMA IncludeRepeatsNone ==
    ASSUME Typed, NoRepeats(main), ~IsIncluded
    PROVE  NoRepeats(WithInclude)
  <1>1. main.includes \in Seq(Profiles) /\ p \in Profiles  BY DEF Typed, Configs, Shapes
  <1>2. WithInclude.includes = Append(main.includes, p)  BY DEF Typed, Configs, Shapes, WithInclude
  <1> DEFINE s == main.includes
             n == Len(s)
  <1>3. n \in Nat /\ DOMAIN s = 1..n /\ DOMAIN Append(s, p) = 1..(n + 1)  BY <1>1
  <1>4. Append(s, p)[n + 1] = p /\ \A i \in 1..n : Append(s, p)[i] = s[i]  BY <1>1
  <1>5. \A i \in 1..n : s[i] # p  BY DEF IsIncluded, Contains
  <1>6. \A i, j \in 1..n : s[i] = s[j] => i = j  BY <1>3 DEF NoRepeats
  <1> HIDE DEF s, n
  <1>7. \A i \in 1..(n + 1) : i \in 1..n \/ i = n + 1  BY <1>3, Places
  <1>8. \A i, j \in 1..(n + 1) : Append(s, p)[i] = Append(s, p)[j] => i = j
    BY <1>4, <1>5, <1>6, <1>7, Zenon
  <1>9. QED  BY <1>2, <1>3, <1>8 DEF NoRepeats, s

LEMMA NextOnce == Typed /\ OnceInv /\ [Next]_vars => OnceInv'
  <1> SUFFICES ASSUME Typed, OnceInv, [Next]_vars, faults' = 0
               PROVE  OnceInv'
    BY DEF OnceInv
  <1>0. faults = 0 /\ \A k : ~Fault(k)  BY FaultsCount
  <1>00. /\ NoRepeats(main) /\ NoRepeats(before.main)
         /\ \A q \in Profiles : \A i \in 1..Len(journal[q]) :
              NoRepeats(journal[q][i].before.main)
    BY <1>0 DEF OnceInv
  <1>1. ASSUME journal' = journal, NoRepeats(main'), NoRepeats(before'.main)
        PROVE  OnceInv'
    BY <1>00, <1>1 DEF OnceInv
  <1>2. CASE Start
    <2>1. before'.main = main /\ UNCHANGED <<main, journal>>  BY <1>2 DEF Start, Snapshot
    <2>2. QED  BY <1>00, <1>1, <2>1
  <1>3. CASE Stage \/ Validate \/ Activate \/ ReadBack \/ UndoFailed \/ UndoFile \/ Reload
    <2>1. UNCHANGED <<main, before, journal>>
      BY <1>3 DEF Stage, Validate, Activate, ReadBack, UndoFailed, UndoFile, Reload, run
    <2>2. QED  BY <1>00, <1>1, <2>1
  <1>4. CASE EnsureFlush
    <2>1. [main EXCEPT !.exists = TRUE, !.flush = TRUE].includes = main.includes
      BY DEF Typed, Configs, Shapes
    <2>2. main'.includes = main.includes /\ UNCHANGED <<before, journal>>
      BY <1>0, <1>4, <2>1 DEF EnsureFlush, Writes, run
    <2>3. NoRepeats(main')  BY <1>00, <2>2 DEF NoRepeats
    <2>4. QED  BY <1>00, <1>1, <2>2, <2>3
  <1>5. CASE EnsureInclude
    <2>1. /\ main' = main \/ (main' = WithInclude /\ ~IsIncluded)
          /\ UNCHANGED <<before, journal>>
      BY <1>0, <1>5 DEF EnsureInclude, Writes, run
    <2>2. NoRepeats(main')  BY <1>00, <2>1, IncludeRepeatsNone
    <2>3. QED  BY <1>00, <1>1, <2>1, <2>2
  <1>6. CASE Recapture
    <2>1. UNCHANGED <<main, p, before>>  BY <1>6 DEF Recapture
    <2>2. CASE UNCHANGED journal  BY <1>00, <1>1, <2>1, <2>2
    <2>3. CASE journal' = [journal EXCEPT ![p] =
                             Append(@, [before |-> before, after |-> Snapshot(p)])]
      <3> DEFINE r == [before |-> before, after |-> Snapshot(p)]
                 n == Len(journal[p])
      <3>1. r.before = before  OBVIOUS
      <3> HIDE DEF r
      <3>2. /\ \A x \in Profiles \ {p} : journal'[x] = journal[x]
            /\ n \in Nat /\ Len(journal'[p]) = n + 1 /\ journal'[p][n + 1] = r
            /\ \A i \in 1..n : journal'[p][i] = journal[p][i]
        BY <2>3, JournalGrows DEF r
      <3> HIDE DEF n
      <3>3. ASSUME NEW q \in Profiles, NEW i \in 1..Len(journal'[q])
            PROVE  NoRepeats(journal'[q][i].before.main)
        <4>1. CASE q # p  BY <1>00, <3>2, <3>3, <4>1
        <4>2. CASE q = p
          <5>1. i \in 1..(n + 1)  BY <3>2, <3>3, <4>2
          <5>2. i \in 1..n \/ i = n + 1  BY <3>2, <5>1, Places, Zenon
          <5>3. CASE i \in 1..n
            <6>1. NoRepeats(journal[p][i].before.main)  BY <1>00, <5>3 DEF n, Typed
            <6>2. QED  BY <3>2, <4>2, <5>3, <6>1
          <5>4. CASE i = n + 1  BY <1>00, <3>1, <3>2, <4>2, <5>4
          <5>5. QED  BY <5>2, <5>3, <5>4
        <4>3. QED  BY <4>1, <4>2
      <3>4. QED  BY <1>00, <2>1, <3>3 DEF OnceInv
    <2>4. QED  BY <1>6, <2>2, <2>3 DEF Recapture
  <1>7. CASE Rollback
    <2>1. PICK q \in Profiles :
            /\ journal[q] # <<>> /\ before' = Top(q).before /\ main' = main
            /\ journal' = [journal EXCEPT ![q] = SubSeq(@, 1, Len(@) - 1)]
      BY <1>7 DEF Rollback
    <2> DEFINE n == Len(journal[q])
    <2>2. /\ \A x \in Profiles \ {q} : journal'[x] = journal[x]
          /\ n \in Nat \ {0} /\ Len(journal'[q]) = n - 1
          /\ \A i \in 1..(n - 1) : journal'[q][i] = journal[q][i]
      BY <2>1, JournalShrinks
    <2>3. Top(q) = journal[q][n]  BY DEF Top
    <2> HIDE DEF n
    <2>4. n \in 1..n /\ \A i \in 1..(n - 1) : i \in 1..n  BY <2>2, Places
    <2>5. NoRepeats(before'.main)  BY <1>00, <2>1, <2>3, <2>4 DEF n
    <2>6. ASSUME NEW x \in Profiles, NEW i \in 1..Len(journal'[x])
          PROVE  NoRepeats(journal'[x][i].before.main)
      <3>1. CASE x # q  BY <1>00, <2>2, <2>6, <3>1
      <3>2. CASE x = q
        <4>1. i \in 1..(n - 1)  BY <2>2, <2>6, <3>2
        <4>2. NoRepeats(journal[q][i].before.main)  BY <1>00, <2>4, <4>1 DEF n
        <4>3. QED  BY <2>2, <3>2, <4>1, <4>2
      <3>3. QED  BY <3>1, <3>2
    <2>7. QED  BY <1>00, <2>1, <2>5, <2>6 DEF OnceInv
  <1>8. CASE UndoMain
    <2>1. main' = before.main /\ UNCHANGED <<before, journal>>
      BY <1>0, <1>8 DEF UndoMain, Writes, run
    <2>2. QED  BY <1>00, <1>1, <2>1
  <1>9. CASE StartOver \/ Delete
    BY <1>00, <1>1, <1>9 DEF StartOver, Delete
  <1>10. CASE UNCHANGED vars  BY <1>00, <1>1, <1>10 DEF vars
  <1>11. QED
    BY <1>2, <1>3, <1>4, <1>5, <1>6, <1>7, <1>8, <1>9, <1>10 DEF Next

(* A profile that was applied stays in force, alone in its table and       *)
(* loaded once, through every run and rollback of the others.              *)
THEOREM AppliedStay ==
    ASSUME TablesApart, NoLegacy
    PROVE  Spec => []AppliedProfilesStay
  <1>1. MatchInv /\ TellInv /\ StayInv /\ OnceInv => AppliedProfilesStay
    <2> SUFFICES ASSUME MatchInv, TellInv, StayInv, OnceInv, AtRest,
                        NEW q \in Profiles, journal[q] # <<>>
                 PROVE  LET loaded == kernel.tables[TableOf[q]]
                            texts == {k \in DOMAIN loaded : loaded[k] # NoText} IN
                        /\ {loaded[k] : k \in texts} = {Top(q).after.file}
                        /\ faults = 0 => Cardinality(texts) = 1
      BY DEF AppliedProfilesStay
    <2>1. Typed /\ Matches /\ main \in Configs  BY DEF MatchInv, AtRest, Settled, Typed
    <2>2. Len(journal[q]) \in Nat \ {0}
      <3>1. PICK S : journal[q] \in Seq(S)  BY <2>1 DEF Typed, IsRuns
      <3>2. QED  BY <3>1
    <2>3. q \in Included(main) /\ file[q] = Top(q).after.file
      <3>1. CASE pc \in Home  BY <2>2, <3>1 DEF AtRest, StayInv, HomeInv
      <3>2. CASE pc = "undone"
        <4>1. main = before.main /\ file[p] = before.file  BY <3>2 DEF AtRest, TellInv
        <4>2. QED  BY <2>2, <3>2, <4>1 DEF AtRest, StayInv, AwayInv, Home
      <3>3. QED  BY <3>1, <3>2 DEF AtRest, Home
    <2>4. Top(q).after.file # NoText
      <3>1. Len(journal[q]) \in 1..Len(journal[q])  BY <2>2, Places
      <3>2. QED  BY <3>1 DEF AtRest, StayInv, ChainInv, Linked, Top
    <2>5. PICK l \in DOMAIN main.includes : main.includes[l] = q  BY <2>3 DEF Included, ToSet
    <2>6. main.includes \in Seq(Profiles) /\ main.exists
      <3>1. main.includes \in Seq(Profiles)  BY <2>1 DEF Configs, Shapes
      <3>2. main.includes # <<>>  BY <2>5, <3>1
      <3>3. QED  BY <2>1, <3>1, <3>2 DEF Configs, Shapes
    <2> DEFINE loaded == kernel.tables[TableOf[q]]
               texts == {k \in DOMAIN loaded : loaded[k] # NoText}
    <2>7. loaded = [k \in DOMAIN main.includes |->
                      IF main.includes[k] = q THEN file[q] ELSE NoText]
      BY <2>1, <2>6, OwnTableRuns DEF OwnText
    <2> HIDE DEF loaded
    <2>8. texts = {k \in DOMAIN main.includes : main.includes[k] = q}  BY <2>3, <2>4, <2>7
    <2>9. {loaded[k] : k \in texts} = {Top(q).after.file}  BY <2>3, <2>5, <2>7, <2>8
    <2>10. ASSUME faults = 0 PROVE Cardinality(texts) = 1
      <3>1. NoRepeats(main)  BY <2>10 DEF OnceInv
      <3>2. texts = {l}  BY <2>5, <2>8, <3>1 DEF NoRepeats
      <3> HIDE DEF texts
      <3>3. QED  BY <3>2, FS_Singleton
    <2>11. QED  BY <2>9, <2>10 DEF loaded
  <1>2. Init => TellInv /\ StayInv /\ OnceInv  BY InitTells, InitStays, InitOnce
  <1>3. MatchInv /\ TellInv /\ [Next]_vars => TellInv'  BY NextTells
  <1>4. MatchInv /\ TellInv /\ StayInv /\ [Next]_vars => StayInv'  BY NextStays
  <1>5. MatchInv /\ OnceInv /\ [Next]_vars => OnceInv'  BY NextOnce DEF MatchInv
  <1>6. QED  BY <1>1, <1>2, <1>3, <1>4, <1>5, MatchAlways, PTL DEF Spec

-----------------------------------------------------------------------------
(* Without a fault every file that is included, or will be once the run is *)
(* undone, is there.                                                       *)
Uncovers(q, i) ==
    /\ Included(journal[q][i].before.main) \subseteq Included(journal[q][i].after.main)
    /\ q \in Included(journal[q][i].before.main) => journal[q][i].before.file # Absent

PresentInv ==
    faults = 0 =>
      /\ ~disturbed /\ pc # "stuck"
      /\ pc = "failed" => want \in Rejected
      /\ pc = "validate" => p \in Included(main)
      /\ \A q \in Included(main) : file[q] # Absent
      /\ pc \notin Home =>
           /\ Included(before.main) \subseteq Included(main)
           /\ p \in Included(before.main) => before.file # Absent
      /\ \A q \in Profiles : \A i \in 1..Len(journal[q]) : Uncovers(q, i)

LEMMA InitPresent == Init => PresentInv
  <1> SUFFICES ASSUME Init PROVE PresentInv  OBVIOUS
  <1>1. main.includes = <<>>  BY FirewallAssumption DEF Init, NoMain
  <1>2. Included(main) = {}  BY <1>1 DEF Included, ToSet
  <1>3. \A q \in Profiles : Len(journal[q]) = 0  BY DEF Init
  <1>4. QED  BY <1>2, <1>3 DEF Init, PresentInv, Home

(* The table of a profile whose file is included holds what the file says, *)
LEMMA OwnTextHolds ==
    ASSUME NEW s \in Rulesets, NEW m \in Configs, NEW q \in Included(m)
    PROVE  Holds(OwnText(m, TextOf[s], q), s)
  <1> DEFINE texts == [k \in DOMAIN m.includes |-> IF m.includes[k] = q THEN TextOf[s] ELSE NoText]
  <1>1. PICK k \in DOMAIN m.includes : m.includes[k] = q  BY DEF Included, ToSet
  <1>2. m.includes \in Seq(Profiles)  BY DEF Configs, Shapes
  <1>3. m.exists
    <2>1. m.includes # <<>>  BY <1>1, <1>2
    <2>2. QED  BY <2>1 DEF Configs, Shapes
  <1>4. OwnText(m, TextOf[s], q) = texts  BY <1>3 DEF OwnText
  <1>5. texts \in Seq({<<>>, TextOf[s]})  BY <1>2 DEF NoText
  <1>6. k \in DOMAIN texts /\ texts[k] = TextOf[s]  BY <1>1
  <1> HIDE DEF texts
  <1>7. QED  BY <1>4, <1>5, <1>6 DEF Holds, ToSet

(* so that a read-back finds what was declared.                            *)
LEMMA ReadBackAgrees ==
    ASSUME TablesApart, NoLegacy, Typed, Matches, p \in Included(main), file[p] = TextOf[want]
    PROVE  ~Drifts(Running(p), Desired[want])
  <1> DEFINE texts == OwnText(main, TextOf[want], p)
  <1>1. Running(p) = NormalizeCurrentState(Listing(texts))  BY OwnTableRuns DEF Typed, TableWith
  <1>2. Holds(texts, want)  BY OwnTextHolds DEF Typed
  <1>3. want \in Accepted  BY FirewallAssumption DEF Typed
  <1> HIDE DEF texts
  <1>4. QED  BY <1>1, <1>2, <1>3, NoSelfDrift

LEMMA NextPresent ==
    ASSUME TablesApart, NoLegacy
    PROVE  MatchInv /\ TellInv /\ StayInv /\ PresentInv /\ [Next]_vars => PresentInv'
  <1> SUFFICES ASSUME MatchInv, TellInv, StayInv, PresentInv, [Next]_vars, faults' = 0
               PROVE  PresentInv'
    BY DEF PresentInv
  <1>0. Typed /\ faults = 0 /\ \A k : ~Fault(k)  BY FaultsCount DEF MatchInv
  <1>00. /\ ~disturbed /\ pc # "stuck"
         /\ pc = "failed" => want \in Rejected
         /\ pc = "validate" => p \in Included(main)
         /\ \A q \in Included(main) : file[q] # Absent
         /\ pc \notin Home =>
              /\ Included(before.main) \subseteq Included(main)
              /\ p \in Included(before.main) => before.file # Absent
         /\ \A q \in Profiles : \A i \in 1..Len(journal[q]) : Uncovers(q, i)
    BY <1>0 DEF PresentInv
  <1>01. ASSUME journal' = journal
         PROVE  \A q \in Profiles : \A i \in 1..Len(journal'[q]) : Uncovers(q, i)'
    BY <1>00, <1>01 DEF Uncovers
  <1>02. ChainInv /\ HomeInv /\ AwayInv /\ WayInv  BY <1>00 DEF StayInv
  <1>03. Loadable \/ ~main.exists  BY <1>00 DEF Loadable, Included
  <1>04. ASSUME pc \in Forward \ {"stage"} PROVE file[p] = TextOf[want] /\ file[p] # Absent
    <2>1. file[p] = TextOf[want]  BY <1>02, <1>04 DEF WayInv
    <2>2. TextOf[want] # Absent  BY <1>0, FirewallAssumption DEF Typed
    <2>3. QED  BY <2>1, <2>2
  <1>05. main.flush => main.exists  BY <1>0 DEF Typed, Configs, Shapes
  (* What leaves the main config, the files and the record alone.          *)
  <1>06. ASSUME UNCHANGED <<main, file, p, before, journal, disturbed>>, pc \notin Home,
                pc' \notin {"stuck", "failed", "validate"}
         PROVE  PresentInv'
    BY <1>00, <1>01, <1>06 DEF PresentInv
  <1>1. CASE Start
    <2>1. PICK q \in Profiles : p' = q /\ before' = Snapshot(q)  BY <1>1 DEF Start
    <2>2. before'.main = main /\ before'.file = file[q]  BY <2>1 DEF Snapshot
    <2>3. pc' = "stage" /\ UNCHANGED <<main, file, journal, disturbed>>  BY <1>1 DEF Start
    <2>4. QED  BY <1>00, <1>01, <2>1, <2>2, <2>3 DEF PresentInv, Home
  <1>2. CASE Stage
    <2>1. /\ pc = "stage" /\ UNCHANGED <<main, p, want, before, journal, disturbed>>
          /\ \/ pc' = "failed" /\ want \in Rejected /\ file' = file
             \/ pc' = "flush" /\ file' \in {file, [file EXCEPT ![p] = TextOf[want]]}
      BY <1>0, <1>2 DEF Stage, run, Writes
    <2>2. \A q \in Included(main) : file'[q] # Absent
      <3>1. Included(main) \subseteq Profiles
        <4>1. main.includes \in Seq(Profiles)  BY <1>0 DEF Typed, Configs, Shapes
        <4>2. QED  BY <4>1 DEF Included, ToSet
      <3>2. TextOf[want] # Absent  BY <1>0, FirewallAssumption DEF Typed
      <3>3. QED  BY <1>0, <1>00, <2>1, <3>1, <3>2 DEF Typed
    <2>3. QED  BY <1>00, <1>01, <2>1, <2>2 DEF PresentInv, Home
  <1>3. CASE EnsureFlush
    <2>1. [main EXCEPT !.exists = TRUE, !.flush = TRUE].includes = main.includes
      BY <1>0 DEF Typed, Configs, Shapes
    <2>2. /\ main'.includes = main.includes
          /\ UNCHANGED <<file, p, want, before, journal, disturbed>>
          /\ pc = "flush" /\ pc' = "include"
      BY <1>0, <1>3, <2>1 DEF EnsureFlush, Writes, run
    <2>3. Included(main') = Included(main)  BY <2>2 DEF Included
    <2>4. QED  BY <1>00, <1>01, <2>2, <2>3 DEF PresentInv, Home
  <1>4. CASE EnsureInclude
    <2>1. ~main.legacy  BY <1>0 DEF Typed, Configs, Shapes
    <2>2. /\ pc = "include" /\ pc' = "validate"
          /\ UNCHANGED <<file, p, want, before, journal, disturbed>>
          /\ (main' = main /\ IsIncluded) \/ main' = WithInclude
      BY <1>0, <1>4, <2>1 DEF EnsureInclude, Writes, run
    <2>3. Included(main') = Included(main) \cup {p}
      <3>1. IsIncluded => p \in Included(main)
        BY <1>0, IncludedIsListed DEF IsIncluded, Typed
      <3>2. QED  BY <1>0, <2>2, <3>1, IncludeAdds
    <2>4. file[p] # Absent  BY <1>04, <2>2 DEF Forward
    <2>5. QED  BY <1>00, <1>01, <2>2, <2>3, <2>4 DEF PresentInv, Home
  <1>5. CASE Validate
    <2>1. IsIncluded /\ Loadable
      <3>1. pc = "validate" /\ main.flush  BY <1>0, <1>5 DEF Validate, Typed, Flushing
      <3>2. IsIncluded  BY <1>0, <1>00, <3>1, IncludedIsListed DEF IsIncluded, Typed
      <3>3. QED  BY <1>03, <1>05, <3>1, <3>2
    <2>2. /\ pc = "validate" /\ pc' = "load"
          /\ UNCHANGED <<main, file, p, before, journal, disturbed>>
      BY <1>0, <1>5, <2>1 DEF Validate, run
    <2>3. QED  BY <1>06, <2>2 DEF Home
  <1>6. CASE Activate
    <2>1. Loadable  BY <1>0, <1>03, <1>05, <1>6 DEF Activate, Typed, Flushing
    <2>2. /\ pc = "load" /\ pc' = "read back"
          /\ UNCHANGED <<main, file, p, before, journal, disturbed>>
      BY <1>0, <1>6, <2>1 DEF Activate, Load, run
    <2>3. QED  BY <1>06, <2>2 DEF Home
  <1>7. CASE ReadBack
    <2>1. pc = "read back"  BY <1>7 DEF ReadBack
    <2>2. Matches  BY <1>00, <2>1 DEF MatchInv, Settled
    <2>3. p \in Included(main) /\ file[p] = TextOf[want]  BY <1>02, <2>1 DEF WayInv, Forward
    <2>4. ~Drifts(Running(p), Desired[want])  BY <1>0, <2>2, <2>3, ReadBackAgrees
    <2>5. pc' = "recapture" /\ UNCHANGED <<main, file, p, before, journal, disturbed>>
      BY <1>0, <1>7, <2>4 DEF ReadBack, run
    <2>6. QED  BY <1>06, <2>1, <2>5 DEF Home
  <1>8. CASE Recapture
    <2> DEFINE r == [before |-> before, after |-> Snapshot(p)]
               n == Len(journal[p])
    <2>1. /\ pc = "recapture" /\ pc' = "ready"
          /\ UNCHANGED <<main, file, p, before, disturbed>>
          /\ journal' = [journal EXCEPT ![p] = Append(@, r)]
      BY <1>0, <1>8 DEF Recapture
    <2>2. r.before = before /\ r.after.main = main  BY DEF Snapshot
    <2> HIDE DEF r
    <2>3. /\ \A x \in Profiles \ {p} : journal'[x] = journal[x]
          /\ n \in Nat /\ Len(journal'[p]) = n + 1 /\ journal'[p][n + 1] = r
          /\ \A i \in 1..n : journal'[p][i] = journal[p][i]
      BY <1>0, <2>1, JournalGrows
    <2>4. /\ Included(before.main) \subseteq Included(main)
          /\ p \in Included(before.main) => before.file # Absent
      BY <1>00, <2>1 DEF Home
    <2> HIDE DEF n
    <2>5. ASSUME NEW q \in Profiles, NEW i \in 1..Len(journal'[q])
          PROVE  Uncovers(q, i)'
      <3>1. CASE q # p
        <4>1. journal'[q] = journal[q] /\ Uncovers(q, i)  BY <1>00, <2>3, <2>5, <3>1
        <4>2. QED  BY <4>1 DEF Uncovers
      <3>2. CASE q = p
        <4>1. i \in 1..(n + 1)  BY <2>3, <2>5, <3>2
        <4>2. i \in 1..n \/ i = n + 1  BY <2>3, <4>1, Places, Zenon
        <4>3. CASE i \in 1..n
          <5>1. Uncovers(p, i)  BY <1>0, <1>00, <4>3 DEF n, Typed
          <5>2. QED  BY <2>3, <3>2, <4>3, <5>1 DEF Uncovers
        <4>4. CASE i = n + 1
          <5>1. journal'[p][i].before = before /\ journal'[p][i].after.main = main
            BY <2>2, <2>3, <4>4
          <5>2. QED  BY <2>4, <3>2, <5>1 DEF Uncovers
        <4>5. QED  BY <4>2, <4>3, <4>4
      <3>3. QED  BY <3>1, <3>2
    <2>6. QED  BY <1>00, <2>1, <2>5 DEF PresentInv, Home
  <1>9. CASE Rollback
    <2>1. PICK q \in Profiles :
            /\ journal[q] # <<>> /\ p' = q /\ before' = Top(q).before
            /\ Changed(Top(q)) => ~Conflict(q)
            /\ pc' = IF Changed(Top(q)) THEN "undo main" ELSE "skipped"
            /\ journal' = [journal EXCEPT ![q] = SubSeq(@, 1, Len(@) - 1)]
            /\ UNCHANGED <<main, file, disturbed>>
      BY <1>9 DEF Rollback
    <2> DEFINE n == Len(journal[q])
    <2>2. /\ \A x \in Profiles \ {q} : journal'[x] = journal[x]
          /\ n \in Nat \ {0} /\ Len(journal'[q]) = n - 1
          /\ \A i \in 1..(n - 1) : journal'[q][i] = journal[q][i]
      BY <1>0, <2>1, JournalShrinks
    <2>3. Top(q) = journal[q][n]  BY DEF Top
    <2> HIDE DEF n
    <2>4. n \in 1..n /\ \A i \in 1..(n - 1) : i \in 1..n  BY <2>2, Places
    <2>5. Uncovers(q, n)  BY <1>00, <2>4 DEF n
    <2>6. ASSUME NEW x \in Profiles, NEW i \in 1..Len(journal'[x])
          PROVE  Uncovers(x, i)'
      <3>1. CASE x # q
        <4>1. journal'[x] = journal[x] /\ Uncovers(x, i)  BY <1>00, <2>2, <2>6, <3>1
        <4>2. QED  BY <4>1 DEF Uncovers
      <3>2. CASE x = q
        <4>1. i \in 1..(n - 1)  BY <2>2, <2>6, <3>2
        <4>2. Uncovers(q, i)  BY <1>00, <2>4, <4>1 DEF n
        <4>3. QED  BY <2>2, <3>2, <4>1, <4>2 DEF Uncovers
      <3>3. QED  BY <3>1, <3>2
    <2>7. pc' \notin Home =>
            /\ Included(before'.main) \subseteq Included(main)
            /\ q \in Included(before'.main) => before'.file # Absent
      <3>1. SUFFICES ASSUME Changed(Top(q))
                     PROVE  /\ Included(before'.main) \subseteq Included(main)
                            /\ q \in Included(before'.main) => before'.file # Absent
        BY <2>1 DEF Home
      <3>2. Top(q).after.main = main  BY <2>1, <3>1 DEF Conflict
      <3>3. QED  BY <2>1, <2>3, <2>5, <3>2 DEF Uncovers
    <2>8. QED  BY <1>00, <2>1, <2>6, <2>7 DEF PresentInv
  <1>10. CASE UndoFailed
    BY <1>06, <1>10 DEF UndoFailed, run, Home
  <1>11. CASE UndoMain
    <2>1. /\ pc = "undo main" /\ pc' = "undo file" /\ main' = before.main
          /\ UNCHANGED <<file, p, want, before, journal, disturbed>>
      BY <1>0, <1>11 DEF UndoMain, Writes, run
    <2>2. QED  BY <1>00, <1>01, <2>1 DEF PresentInv, Home
  <1>12. CASE UndoFile
    <2>1. /\ pc = "undo file" /\ pc' = "reload" /\ file' = [file EXCEPT ![p] = before.file]
          /\ UNCHANGED <<main, p, want, before, journal, disturbed>>
      BY <1>0, <1>12 DEF UndoFile, Writes, run
    <2>2. main = before.main  BY <1>00, <2>1 DEF TellInv
    <2>3. p \in Included(main) => before.file # Absent
      <3>1. p \in Included(before.main) => before.file # Absent  BY <1>00, <2>1 DEF Home
      <3>2. QED  BY <2>2, <3>1
    <2>4. Included(main) \subseteq Profiles
      <3>1. main.includes \in Seq(Profiles)  BY <1>0 DEF Typed, Configs, Shapes
      <3>2. QED  BY <3>1 DEF Included, ToSet
    <2>5. \A q \in Included(main) : file'[q] # Absent
      BY <1>0, <1>00, <2>1, <2>3, <2>4 DEF Typed
    <2>6. QED  BY <1>00, <1>01, <2>1, <2>5 DEF PresentInv, Home
  <1>13. CASE Reload
    <2>1. /\ pc = "reload" /\ pc' = "undone"
          /\ UNCHANGED <<main, file, p, before, journal, disturbed>>
      BY <1>0, <1>03, <1>13 DEF Reload, Load, Writes, run
    <2>2. QED  BY <1>06, <2>1 DEF Home
  <1>14. CASE StartOver
    <2>1. pc' = "ready" /\ UNCHANGED <<main, file, p, want, before, journal, disturbed>>
      BY <1>0, <1>00, <1>14 DEF StartOver
    <2>2. QED  BY <1>00, <1>01, <2>1 DEF PresentInv, Home
  <1>15. CASE Delete  BY <1>0, <1>15 DEF Delete
  <1>16. CASE UNCHANGED vars
    <2>1. UNCHANGED <<main, file, pc, p, want, before, journal, disturbed>>  BY <1>16 DEF vars
    <2>2. QED  BY <1>00, <1>01, <2>1 DEF PresentInv
  <1>17. QED
    BY <1>1, <1>2, <1>3, <1>4, <1>5, <1>6, <1>7, <1>8, <1>9, <1>10, <1>11, <1>12, <1>13,
       <1>14, <1>15, <1>16 DEF Next

(* Without a fault only a ruleset nft refuses makes a step fail: profiles  *)
(* that share a main config are never in each other's way, in whatever     *)
(* order they are applied and rolled back.                                 *)
THEOREM OnlyRefusedFail ==
    ASSUME TablesApart, NoLegacy
    PROVE  Spec => []FailsOnlyRefused
  <1>1. PresentInv => FailsOnlyRefused  BY DEF PresentInv, FailsOnlyRefused
  <1>2. Init => TellInv /\ StayInv /\ PresentInv  BY InitTells, InitStays, InitPresent
  <1>3. MatchInv /\ TellInv /\ [Next]_vars => TellInv'  BY NextTells
  <1>4. MatchInv /\ TellInv /\ StayInv /\ [Next]_vars => StayInv'  BY NextStays
  <1>5. MatchInv /\ TellInv /\ StayInv /\ PresentInv /\ [Next]_vars => PresentInv'
    BY NextPresent
  <1>6. QED  BY <1>1, <1>2, <1>3, <1>4, <1>5, MatchAlways, PTL DEF Spec

(* A grep that fails makes a run write its include twice, and the table    *)
(* read back is the same.  So what a plan calls unchanged leaves the file  *)
(* and the table as they were whatever faults there are, and the main      *)
(* config where there was none.                                            *)
THEOREM PlansForeseeApart ==
    ASSUME TablesApart, NoLegacy
    PROVE  Spec => []PlanForesees
  <1> DEFINE FoundInv == faults = 0 => ForeseeInv
  <1>1. MatchInv /\ TellInv /\ StayInv /\ FoundInv => PlanForesees
    <2> SUFFICES ASSUME MatchInv, TellInv, StayInv, FoundInv,
                        pc = "recapture", ~disturbed, ~WillChange(before, p, want)
                 PROVE  /\ file[p] = before.file /\ Running(p) = before.table
                        /\ faults = 0 => main = before.main
      BY DEF PlanForesees
    <2>1. /\ Typed /\ Matches /\ want \in Rulesets /\ p \in Profiles
          /\ main \in Configs /\ before.main \in Configs
      BY DEF MatchInv, Settled, Typed
    <2>2. InPlace  BY DEF WillChange, Valid, InPlace
    <2>3. file[p] = TextOf[want] /\ p \in Included(main)  BY DEF StayInv, WayInv, Forward
    <2>4. before.file = TextOf[want] /\ p \in Included(before.main)
      BY <2>1, <2>2, IncludedIsListed DEF InPlace
    <2> DEFINE texts == OwnText(main, TextOf[want], p)
               others == OwnText(before.main, TextOf[want], p)
    <2>5. Running(p) = NormalizeCurrentState(Listing(texts))
      BY <2>1, <2>3, OwnTableRuns DEF TableWith
    <2>6. before.table = NormalizeCurrentState(Listing(others))
      BY <2>4 DEF TellInv, Telling, TableWith
    <2>7. Holds(texts, want) /\ Holds(others, want)  BY <2>1, <2>3, <2>4, OwnTextHolds
    <2>8. want \in Accepted  BY <2>1, FirewallAssumption
    <2> HIDE DEF texts, others
    <2>9. Running(p) = before.table  BY <2>5, <2>6, <2>7, <2>8, CurrentSame
    <2>10. faults = 0 => main = before.main  BY <2>2 DEF ForeseeInv, AsFound, Forward
    <2>11. QED  BY <2>3, <2>4, <2>9, <2>10
  <1>2. Init => TellInv /\ StayInv /\ FoundInv
    BY InitTells, InitStays DEF Init, ForeseeInv, Forward
  <1>3. MatchInv /\ TellInv /\ [Next]_vars => TellInv'  BY NextTells
  <1>4. MatchInv /\ TellInv /\ StayInv /\ [Next]_vars => StayInv'  BY NextStays
  <1>5. MatchInv /\ FoundInv /\ [Next]_vars => FoundInv'
    BY FaultsCount, NextForesees DEF MatchInv
  <1>6. QED  BY <1>1, <1>2, <1>3, <1>4, <1>5, MatchAlways, PTL DEF Spec

(* Of any two rulesets hardline accepts, whatever their rules, policies,   *)
(* ports and addresses, the one that is loaded reads back without a drift  *)
(* from the one that is wanted only if every packet fares as that one      *)
(* says; and it does so when it is that one.                               *)
THEOREM ReadBacksTell == Spec => []ReadBackTells
  <1>1. ReadBackTells  BY NothingMisread DEF ReadBackTells
  <1>2. QED  BY <1>1, PTL
=============================================================================
