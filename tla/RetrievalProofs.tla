---------------------------- MODULE RetrievalProofs ----------------------------
(***************************************************************************)
(* Proofs about Retrieval, for whatever a publisher serves, however often  *)
(* it changes, and for any limits.                                         *)
(*                                                                         *)
(* RetrievalInv is what a retrieval is like between two requests.  What    *)
(* the answers say about the publisher is AnswersInv: every answer is of   *)
(* some version, the versions only move on, and answers between which      *)
(* nothing was changed are of one version.  Most of the module is the      *)
(* reading of the answers: pages, parents and children, the readings of    *)
(* the rainfall archives, and what is left of them after the client's      *)
(* checks.  Induction over the answers is the least number principle.      *)
(***************************************************************************)
EXTENDS Retrieval, WellFoundedInduction, FiniteSetTheorems, SequenceTheorems, TLAPS

-----------------------------------------------------------------------------
(* Sequences of sequences.  Induction is the least number principle, as a fact *)
(* about sets of numbers.                                                      *)

LEMMA Induction ==
    ASSUME NEW S, 0 \in S, \A n \in Nat : n \in S => n + 1 \in S
    PROVE  \A n \in Nat : n \in S
<1> SUFFICES ASSUME Nat \ S # {} PROVE FALSE
  OBVIOUS
<1> DEFINE R == OpToRel(<, Nat)
<1>1. PICK m \in Nat \ S : \A k \in Nat \ S : <<k, m>> \notin R
  <2> HIDE DEF R
  <2>1. IsWellFoundedOn(R, Nat)
    BY NatLessThanWellFounded DEF R
  <2> QED
    BY <2>1, WFMin
<1>2. \A k \in Nat \ S : ~ (k < m)
  BY <1>1 DEF OpToRel
<1>3. m # 0 /\ m - 1 \in Nat /\ m - 1 < m
  OBVIOUS
<1>4. m - 1 \in S
  BY <1>2, <1>3
<1> QED
  BY <1>3, <1>4

\* The recursion of FlattenSeq.
Flattens(f, ss, n) == f = [i \in 1..n |-> IF i = 1 THEN ss[i] ELSE f[i - 1] \o ss[i]]

StartsAs(tt, ss, n) == \A i \in 1..n : tt[i] = ss[i]

LEMMA FlattensFirst ==
    ASSUME NEW f, NEW ss, NEW n \in Nat, Flattens(f, ss, n), 1 <= n
    PROVE  f[1] = ss[1]
<1> DEFINE Here(i) == IF i = 1 THEN ss[i] ELSE f[i - 1] \o ss[i]
<1>1. f[1] = Here(1)
  <2>1. f = [i \in 1..n |-> Here(i)]
    BY DEF Flattens
  <2> HIDE DEF Here
  <2> QED
    BY <2>1
<1> QED
  BY <1>1

LEMMA FlattensAt ==
    ASSUME NEW f, NEW ss, NEW n \in Nat, Flattens(f, ss, n), NEW k \in 1..(n - 1)
    PROVE  f[k + 1] = f[k] \o ss[k + 1]
<1>1. k + 1 \in 1..n /\ (k + 1) - 1 = k /\ k + 1 # 1
  OBVIOUS
<1> DEFINE Here(i) == IF i = 1 THEN ss[i] ELSE f[i - 1] \o ss[i]
<1>2. f[k + 1] = Here(k + 1)
  <2>1. f = [i \in 1..n |-> Here(i)]
    BY DEF Flattens
  <2> HIDE DEF Here
  <2> QED
    BY <1>1, <2>1
<1> QED
  BY <1>1, <1>2

Continues(f, ss, n) == \A k \in 1..(n - 1) : f[k + 1] = f[k] \o ss[k + 1]

LEMMA FlattensOn ==
    ASSUME NEW f, NEW ss, NEW n \in Nat, Flattens(f, ss, n)
    PROVE  Continues(f, ss, n)
<1> SUFFICES ASSUME NEW k \in 1..(n - 1) PROVE f[k + 1] = f[k] \o ss[k + 1]
  BY DEF Continues
<1> QED
  BY FlattensAt

LEMMA FlattenExists ==
    ASSUME NEW ss, NEW n \in Nat
    PROVE  \E f : Flattens(f, ss, n)
<1> DEFINE S == {k \in Nat : \E f : Flattens(f, ss, k)}
<1>1. 0 \in S
  <2> DEFINE f == [i \in 1..0 |-> ss[i]]
  <2>1. Flattens(f, ss, 0)
    BY DEF Flattens
  <2> QED
    BY <2>1
<1>2. ASSUME NEW k \in Nat, k \in S PROVE k + 1 \in S
  <2>1. PICK f : Flattens(f, ss, k)
    BY <1>2
  <2> DEFINE At(i) == IF i = k + 1 THEN IF i = 1 THEN ss[i] ELSE f[k] \o ss[i] ELSE f[i]
             g == [i \in 1..(k + 1) |-> At(i)]
  <2>2. ASSUME NEW i \in 1..(k + 1)
        PROVE  At(i) = IF i = 1 THEN ss[i] ELSE g[i - 1] \o ss[i]
    <3>1. CASE i = 1
      <4>1. k # 0 => f[1] = ss[1]
        BY <2>1, FlattensFirst
      <4> QED
        BY <3>1, <4>1
    <3>2. CASE i # 1
      <4>1. i - 1 \in 1..k
        BY <3>2
      <4>2. g[i - 1] = f[i - 1]
        BY <4>1
      <4>3. At(i) = f[i - 1] \o ss[i]
        <5>1. CASE i = k + 1
          <6>1. i - 1 = k
            BY <5>1
          <6> QED
            BY <3>2, <5>1, <6>1
        <5>2. CASE i # k + 1
          <6>1. PICK j \in 1..(k - 1) : j = i - 1 /\ j + 1 = i
            BY <3>2, <5>2
          <6>2. f[j + 1] = f[j] \o ss[j + 1]
            BY <2>1, FlattensAt
          <6> QED
            BY <5>2, <6>1, <6>2
        <5> QED
          BY <5>1, <5>2
      <4> HIDE DEF g, At
      <4> QED
        BY <3>2, <4>2, <4>3
    <3> QED
      BY <3>1, <3>2
  <2>3. Flattens(g, ss, k + 1)
    BY <2>2 DEF Flattens
  <2> QED
    BY <2>3
<1> QED
  <2> HIDE DEF S
  <2>1. n \in S
    BY <1>1, <1>2, Induction
  <2> QED
    BY <2>1 DEF S

LEMMA FlattenTyped ==
    ASSUME NEW T, NEW ss \in Seq(Seq(T)), NEW f, NEW n \in Nat, n <= Len(ss),
           Flattens(f, ss, n)
    PROVE  \A i \in 1..n : f[i] \in Seq(T)
<1> DEFINE S == {k \in Nat : k \in 1..n => f[k] \in Seq(T)}
<1>1. 0 \in S
  OBVIOUS
<1>2. ASSUME NEW k \in Nat, k \in S PROVE k + 1 \in S
  <2> SUFFICES ASSUME k + 1 \in 1..n PROVE f[k + 1] \in Seq(T)
    OBVIOUS
  <2>1. ss[k + 1] \in Seq(T)
    BY ElementOfSeq
  <2>2. CASE k = 0
    BY <2>1, <2>2 DEF Flattens
  <2>3. CASE k # 0
    <3>1. f[k] \in Seq(T)
      BY <1>2, <2>3
    <3>2. f[k + 1] = f[k] \o ss[k + 1]
      <4>1. k \in 1..(n - 1)
        BY <2>3
      <4> QED
        BY <4>1, FlattensAt
    <3> QED
      BY <2>1, <3>1, <3>2
  <2> QED
    BY <2>2, <2>3
<1> QED
  <2> HIDE DEF S
  <2>1. \A k \in Nat : k \in S
    BY <1>1, <1>2, Induction
  <2> QED
    BY <2>1 DEF S

LEMMA FlattenSame ==
    ASSUME NEW ss, NEW tt, NEW m \in Nat \ {0}, NEW f, NEW g,
           Flattens(f, ss, m), Flattens(g, tt, m + 1), StartsAs(tt, ss, m)
    PROVE  f[m] = g[m]
<1>1. f[1] = ss[1] /\ \A k \in 1..(m - 1) : f[k + 1] = f[k] \o ss[k + 1]
  <2>1. m \in Nat /\ 1 <= m
    OBVIOUS
  <2>2. f[1] = ss[1]
    BY <2>1, FlattensFirst
  <2>3. Continues(f, ss, m)
    BY <2>1, FlattensOn
  <2> QED
    BY <2>2, <2>3 DEF Continues
<1>2. g[1] = tt[1] /\ \A k \in 1..(m - 1) : g[k + 1] = g[k] \o tt[k + 1]
  <2>1. m + 1 \in Nat /\ 1 <= m + 1 /\ 1..(m - 1) \subseteq 1..((m + 1) - 1)
    OBVIOUS
  <2>2. g[1] = tt[1]
    BY <2>1, FlattensFirst
  <2>3. Continues(g, tt, m + 1)
    BY <2>1, FlattensOn
  <2>4. \A k \in 1..((m + 1) - 1) : g[k + 1] = g[k] \o tt[k + 1]
    BY <2>3 DEF Continues
  <2> QED
    BY <2>1, <2>2, <2>4
<1> DEFINE S == {k \in Nat : k \in 1..m => f[k] = g[k]}
<1>3. 0 \in S
  OBVIOUS
<1>4. ASSUME NEW k \in Nat, k \in S PROVE k + 1 \in S
  <2> SUFFICES ASSUME k + 1 \in 1..m PROVE f[k + 1] = g[k + 1]
    OBVIOUS
  <2>1. ss[k + 1] = tt[k + 1]
    BY DEF StartsAs
  <2>2. CASE k = 0
    BY <1>1, <1>2, <2>2 DEF StartsAs
  <2>3. CASE k # 0
    <3>1. k \in 1..(m - 1) /\ f[k] = g[k]
      BY <1>4, <2>3
    <3> QED
      BY <1>1, <1>2, <2>1, <3>1
  <2> QED
    BY <2>2, <2>3
<1> QED
  <2> HIDE DEF S
  <2>1. \A k \in Nat : k \in S
    BY <1>3, <1>4, Induction
  <2> QED
    BY <2>1 DEF S

LEMMA FlattenIs ==
    ASSUME NEW ss, NEW n \in Nat \ {0}, Len(ss) = n
    PROVE  \E f : Flattens(f, ss, n) /\ FlattenSeq(ss) = f[n]
<1> DEFINE f == CHOOSE g : Flattens(g, ss, n)
<1>1. Flattens(f, ss, n)
  BY FlattenExists
<1>2. FlattenSeq(ss) = f[n]
  BY DEF FlattenSeq, Flattens
<1> QED
  BY <1>1, <1>2

LEMMA FlattenEmpty == FlattenSeq(<<>>) = <<>>
BY DEF FlattenSeq

\* One sequence more goes to the end.
LEMMA FlattenAppend ==
    ASSUME NEW T, NEW ss \in Seq(Seq(T)), NEW s \in Seq(T)
    PROVE  /\ FlattenSeq(ss) \in Seq(T)
           /\ FlattenSeq(Append(ss, s)) = FlattenSeq(ss) \o s
<1> PICK tt : tt = Append(ss, s)
  OBVIOUS
<1> PICK n \in Nat : n = Len(ss)
  OBVIOUS
<1>1. Len(tt) = n + 1 /\ tt[n + 1] = s
  OBVIOUS
<1>2. StartsAs(tt, ss, n)
  BY DEF StartsAs
<1>3. PICK g : Flattens(g, tt, n + 1) /\ FlattenSeq(tt) = g[n + 1]
  <2>1. n + 1 \in Nat \ {0}
    OBVIOUS
  <2> QED
    BY <1>1, <2>1, FlattenIs
<1>4. CASE n = 0
  <2>1. ss = <<>>
    BY <1>4, EmptySeq
  <2>6. FlattenSeq(ss) = <<>>
    BY <2>1, FlattenEmpty, Zenon
  <2>2. g[1] = s
    <3>1. Flattens(g, tt, 1) /\ tt[1] = s /\ 1 \in Nat /\ 1 <= 1
      BY <1>1, <1>3, <1>4
    <3> QED
      BY <3>1, FlattensFirst, Zenon
  <2>3. FlattenSeq(tt) = s
    BY <1>3, <1>4, <2>2
  <2>4. <<>> \o s = s /\ <<>> \in Seq(T)
    BY ConcatEmptySeq
  <2> QED
    BY <2>3, <2>4, <2>6
<1>5. CASE n # 0
  <2>1. n \in Nat \ {0}
    BY <1>5
  <2>2. PICK f : Flattens(f, ss, n) /\ FlattenSeq(ss) = f[n]
    BY <2>1, FlattenIs
  <2>3. f[n] \in Seq(T)
    <3>1. n \in 1..n /\ n <= n
      BY <1>5
    <3> QED
      BY <2>2, <3>1, FlattenTyped
  <2>4. f[n] = g[n]
    BY <1>2, <1>3, <2>1, <2>2, FlattenSame
  <2>5. g[n + 1] = g[n] \o s
    <3>1. n + 1 \in Nat /\ n \in 1..((n + 1) - 1)
      BY <1>5
    <3>2. g[n + 1] = g[n] \o tt[n + 1]
      BY <1>3, <3>1, FlattensAt, Zenon
    <3> QED
      BY <1>1, <3>2
  <2> QED
    BY <1>3, <2>2, <2>3, <2>4, <2>5
<1> QED
  BY <1>4, <1>5

-----------------------------------------------------------------------------
(* The operators of Retrieval on the answers of a retrieval. *)

LEMMA MembersAppend ==
    ASSUME NEW E, NEW s \in Seq(E), NEW e \in E
    PROVE  Members(Append(s, e)) = Members(s) \cup {e} /\ s \in Seq(Members(s))
<1> PICK t : t = Append(s, e)
  OBVIOUS
<1>1. Len(t) = Len(s) + 1 /\ t[Len(s) + 1] = e /\ \A i \in 1..Len(s) : t[i] = s[i]
  OBVIOUS
<1>2. DOMAIN t = 1..Len(t) /\ DOMAIN s = 1..Len(s) /\ Len(s) \in Nat
  <2>1. t \in Seq(E)
    OBVIOUS
  <2> QED
    BY <2>1
<1>3. Members(t) \subseteq Members(s) \cup {e}
  <2> SUFFICES ASSUME NEW i \in DOMAIN t PROVE t[i] \in Members(s) \cup {e}
    BY DEF Members
  <2>1. CASE i = Len(s) + 1
    BY <1>1, <2>1
  <2>2. CASE i # Len(s) + 1
    <3>1. i \in 1..Len(s)
      BY <1>1, <1>2, <2>2
    <3> QED
      BY <1>1, <1>2, <3>1 DEF Members
  <2> QED
    BY <2>1, <2>2
<1>4. Members(s) \cup {e} \subseteq Members(t)
  <2>1. \A i \in DOMAIN s : i \in DOMAIN t /\ t[i] = s[i]
    BY <1>1, <1>2
  <2>2. Len(s) + 1 \in DOMAIN t
    BY <1>1, <1>2
  <2> QED
    BY <1>1, <2>1, <2>2 DEF Members
<1>5. s \in Seq(Members(s))
  <2>1. \A i \in 1..Len(s) : s[i] \in Members(s)
    BY <1>2 DEF Members
  <2> QED
    BY <2>1
<1> QED
  BY <1>3, <1>4, <1>5

LEMMA OfEmpty == (\A k : Of(<<>>, k) = <<>>) /\ ItemsIn(<<>>) = <<>> /\ Members(<<>>) = {}
<1>1. DOMAIN <<>> = {}
  OBVIOUS
<1>2. \A k : [i \in DOMAIN <<>> |-> IF <<>>[i].req[1] = k THEN << <<>>[i]>> ELSE <<>>] = <<>>
  BY <1>1
<1>3. [i \in DOMAIN <<>> |-> <<>>[i].body.items] = <<>>
  BY <1>1
<1> QED
  BY <1>1, <1>2, <1>3, FlattenEmpty DEF Of, ItemsIn, Members

LEMMA OfAppend ==
    ASSUME NEW E, NEW es \in Seq(E), NEW e \in E, NEW k
    PROVE  /\ Of(es, k) \in Seq(E)
           /\ Of(Append(es, e), k) = IF e.req[1] = k THEN Append(Of(es, k), e) ELSE Of(es, k)
<1> DEFINE One(x) == IF x.req[1] = k THEN <<x>> ELSE <<>>
           ss == [i \in DOMAIN es |-> One(es[i])]
           tt == [i \in DOMAIN Append(es, e) |-> One(Append(es, e)[i])]
<1>1. \A x \in E : One(x) \in Seq(E)
  OBVIOUS
<1>2. ss \in Seq(Seq(E))
  <2>1. \A i \in 1..Len(es) : One(es[i]) \in Seq(E)
    BY <1>1, ElementOfSeq
  <2> HIDE DEF One
  <2> QED
    BY <2>1
<1>3. tt = Append(ss, One(e))
  <2> HIDE DEF One
  <2> QED
    OBVIOUS
<1>4. FlattenSeq(ss) \in Seq(E) /\ FlattenSeq(Append(ss, One(e))) = FlattenSeq(ss) \o One(e)
  <2>1. One(e) \in Seq(E)
    BY <1>1
  <2> HIDE DEF One, ss
  <2> QED
    BY <1>2, <2>1, FlattenAppend
<1>5. Of(es, k) = FlattenSeq(ss) /\ Of(Append(es, e), k) = FlattenSeq(tt)
  BY DEF Of
<1>6. Of(es, k) \in Seq(E) /\ Of(Append(es, e), k) = Of(es, k) \o One(e)
  <2> HIDE DEF ss, tt, One
  <2> QED
    BY <1>3, <1>4, <1>5
<1>7. CASE e.req[1] = k
  <2>1. Append(Of(es, k), e) = Of(es, k) \o <<e>>
    BY <1>6, AppendIsConcat
  <2> QED
    BY <1>6, <1>7, <2>1
<1>8. CASE e.req[1] # k
  BY <1>6, <1>8, ConcatEmptySeq
<1> QED
  BY <1>6, <1>7, <1>8

\* Every answer has a list of records.
ListsIn(ps, T) == \A i \in 1..Len(ps) : ps[i].body.items \in Seq(T)

LEMMA ItemsAppend ==
    ASSUME NEW E, NEW T, NEW ps \in Seq(E), NEW e \in E, ListsIn(ps, T), e.body.items \in Seq(T)
    PROVE  /\ ItemsIn(ps) \in Seq(T)
           /\ ItemsIn(Append(ps, e)) = ItemsIn(ps) \o e.body.items
<1> DEFINE Items(x) == x.body.items
           ss == [i \in DOMAIN ps |-> Items(ps[i])]
           tt == [i \in DOMAIN Append(ps, e) |-> Items(Append(ps, e)[i])]
<1>1. (\A i \in 1..Len(ps) : Items(ps[i]) \in Seq(T)) /\ Items(e) \in Seq(T)
  BY DEF ListsIn
<1>2. ss \in Seq(Seq(T)) /\ tt = Append(ss, Items(e))
  <2> HIDE DEF Items
  <2>1. ss \in Seq(Seq(T))
    BY <1>1
  <2>2. tt = Append(ss, Items(e))
    OBVIOUS
  <2> QED
    BY <2>1, <2>2
<1>3. /\ FlattenSeq(ss) \in Seq(T)
      /\ FlattenSeq(Append(ss, Items(e))) = FlattenSeq(ss) \o Items(e)
  <2> HIDE DEF Items, ss
  <2> QED
    BY <1>1, <1>2, FlattenAppend
<1>4. ItemsIn(ps) = FlattenSeq(ss) /\ ItemsIn(Append(ps, e)) = FlattenSeq(tt)
  BY DEF ItemsIn
<1> QED
  <2>1. ItemsIn(Append(ps, e)) = ItemsIn(ps) \o Items(e) /\ ItemsIn(ps) \in Seq(T)
    <3> HIDE DEF Items, ss, tt
    <3> QED
      BY <1>2, <1>3, <1>4
  <2> QED
    BY <2>1

\* Induction over the sequences of a set.
LEMMA SequenceInduction ==
    ASSUME NEW E, NEW S, <<>> \in S, \A s \in Seq(E) : \A e \in E : s \in S => Append(s, e) \in S
    PROVE  Seq(E) \subseteq S
<1> DEFINE Lengths == {n \in Nat : \A s \in Seq(E) : Len(s) = n => s \in S}
<1>1. 0 \in Lengths
  BY EmptySeq
<1>2. ASSUME NEW n \in Nat, n \in Lengths PROVE n + 1 \in Lengths
  <2> SUFFICES ASSUME NEW s \in Seq(E), Len(s) = n + 1 PROVE s \in S
    OBVIOUS
  <2>1. s # <<>>
    OBVIOUS
  <2>2. PICK r \in Seq(E), e \in E : s = Append(r, e)
    BY <2>1, SequenceEmptyOrAppend
  <2>3. Len(r) = n
    BY <2>2
  <2> QED
    BY <1>2, <2>2, <2>3
<1>3. \A n \in Nat : n \in Lengths
  <2> HIDE DEF Lengths
  <2> QED
    BY <1>1, <1>2, Induction
<1> QED
  BY <1>3

LEMMA OfMembers ==
    ASSUME NEW E, NEW es \in Seq(E), NEW k
    PROVE  Members(Of(es, k)) = {e \in Members(es) : e.req[1] = k}
<1> DEFINE S == {s \in Seq(E) : Members(Of(s, k)) = {e \in Members(s) : e.req[1] = k}}
<1>1. <<>> \in S
  BY OfEmpty
<1>2. ASSUME NEW s \in Seq(E), NEW e \in E, s \in S PROVE Append(s, e) \in S
  <2>1. Members(Append(s, e)) = Members(s) \cup {e}
    BY MembersAppend
  <2>2. Of(s, k) \in Seq(E)
    BY OfAppend
  <2>3. CASE e.req[1] = k
    <3>1. Of(Append(s, e), k) = Append(Of(s, k), e)
      BY <2>3, OfAppend
    <3>2. Members(Append(Of(s, k), e)) = Members(Of(s, k)) \cup {e}
      BY <2>2, MembersAppend
    <3>3. {x \in Members(s) \cup {e} : x.req[1] = k}
            = {x \in Members(s) : x.req[1] = k} \cup {e}
      BY <2>3
    <3>4. Members(Of(Append(s, e), k)) = {x \in Members(Append(s, e)) : x.req[1] = k}
      BY <1>2, <2>1, <3>1, <3>2, <3>3, Zenon
    <3> QED
      BY <3>4
  <2>4. CASE e.req[1] # k
    <3>1. Of(Append(s, e), k) = Of(s, k)
      BY <2>4, OfAppend
    <3> QED
      BY <1>2, <2>1, <2>4, <3>1
  <2> QED
    BY <2>3, <2>4
<1> QED
  <2> HIDE DEF S
  <2>1. Seq(E) \subseteq S
    BY <1>1, <1>2, SequenceInduction
  <2> QED
    BY <2>1 DEF S

-----------------------------------------------------------------------------
(***************************************************************************)
(* One retrieval of any source.  Where it is, and whether there is a       *)
(* manifest, says what its client made of the answers so far: it asks only *)
(* while there is something to ask, and the manifest is written only when  *)
(* the client has accepted everything.                                     *)
(***************************************************************************)

RetrievalSafety == RetrievalInit /\ [][RetrievalNext]_retrievalVars

\* Where the retrieval is, what it has, and that it asks until it has everything.
RetrievalInv ==
    /\ RetrievalTypeOK
    /\ entries \in Seq(Members(entries))
    /\ retrievalAt = "requesting" => NextRequest(entries) \notin {Done, Fail}
    /\ retrievalAt \in {"completing", "naming", "done"} => NextRequest(entries) = Done
    /\ manifest # "none" => NextRequest(entries) = Done
    /\ retrievalAt \in {"requesting", "completing"} => manifest = "none"
    /\ source = "discharges" /\ lost => ~ Running /\ manifest = "none"

LEMMA SomethingToAsk ==
    ASSUME NEW s \in Sources
    PROVE  RequestAfter(s, <<>>) \notin {Done, Fail}
<1>1. Len(<<>>) = 0
  OBVIOUS
<1>2. \A a, b : <<a, b>> # Done /\ <<a, b>> # Fail
  BY DEF Done, Fail
<1>3. \E a, b : RequestAfter(s, <<>>) = <<a, b>>
  <2>1. RequestAfter("hydrology", <<>>) = <<"stations", 0>>
    BY DEF RequestAfter, HydrologyNext
  <2>2. RequestAfter("history", <<>>) = <<"readings", 0>>
    BY DEF RequestAfter, HistoryNext
  <2>3. RequestAfter("points", <<>>) = <<"points", 0>>
    BY DEF RequestAfter, PointsNext
  <2>4. RequestAfter("observations", <<>>) = <<"observations", 0>>
    BY DEF RequestAfter, ObservationsNext
  <2>5. RequestAfter("reservoirs", <<>>) = <<"item", 1>>
    BY <1>1 DEF RequestAfter, ReservoirsNext
  <2>6. RequestAfter("discharges", <<>>) = <<"sites", 0>>
    BY DEF RequestAfter, DischargesNext
  <2>7. RequestAfter("catchments", <<>>) = <<"root", "root">>
    BY DEF RequestAfter, CatchmentsNext
  <2>8. RequestAfter("rainfall", <<>>) = <<"gauges", 0>>
    BY <1>1 DEF RequestAfter, RainfallNext
  <2>9. RequestAfter("bathing", <<>>) = <<"waters", 0>>
    BY DEF RequestAfter, BathingNext
  <2>10. RequestAfter("floods", <<>>) = <<"warnings", 0>>
    BY DEF RequestAfter, FloodsNext
  <2>11. RequestAfter("companies", <<>>) = <<"facts", 0>>
    BY DEF RequestAfter, CompaniesNext
  <2>12. s \in {"hydrology", "history", "points", "observations", "reservoirs", "discharges",
                "catchments", "rainfall", "bathing", "floods", "companies"}
    BY SourcesAssumption
  <2> QED
    BY <2>1, <2>2, <2>3, <2>4, <2>5, <2>6, <2>7, <2>8, <2>9, <2>10, <2>11, <2>12
<1> QED
  BY <1>2, <1>3

LEMMA RetrievalInitial == RetrievalInit => RetrievalInv
<1> SUFFICES ASSUME RetrievalInit PROVE RetrievalInv
  OBVIOUS
<1> USE DEF RetrievalInit
<1>1. RetrievalTypeOK
  <2>1. changes \in 0..MaxChanges /\ attempt \in 0..2
    BY RetrievalAssumption
  <2>2. source \in Sources /\ version \in DOMAIN Worlds[source]
    OBVIOUS
  <2> QED
    BY <2>1, <2>2, Zenon DEF RetrievalTypeOK
<1>2. entries \in Seq(Members(entries))
  OBVIOUS
<1>3. NextRequest(entries) \notin {Done, Fail}
  BY SomethingToAsk DEF NextRequest
<1> QED
  BY <1>1, <1>2, <1>3 DEF RetrievalInv

\* One more answer, to what the client asks after the answers so far.
LEMMA Received ==
    ASSUME RetrievalInv, Receive
    PROVE  \E e : /\ e = Entry(NextRequest(entries), Answer(NextRequest(entries)))
                  /\ Served(NextRequest(entries))
                  /\ NextRequest(entries) \notin {Done, Fail}
                  /\ entries' = Append(entries, e)
                  /\ entries \in Seq(Members(entries) \cup {e})
                  /\ entries' \in Seq(Members(entries'))
<1>1. PICK e : e = Entry(NextRequest(entries), Answer(NextRequest(entries)))
  OBVIOUS
<1>2. PICK es : es = entries
  OBVIOUS
<1>3. entries' = Append(es, e)
  BY <1>1, <1>2 DEF Receive
<1>4. es \in Seq(Members(es) \cup {e})
  BY <1>2, SeqMonotonic DEF RetrievalInv
<1>5. Append(es, e) \in Seq(Members(es) \cup {e})
  BY <1>4
<1>6. Append(es, e) \in Seq(Members(Append(es, e)))
  <2> HIDE <1>3
  <2> QED
    BY <1>5, MembersAppend
<1> QED
  BY <1>1, <1>2, <1>3, <1>4, <1>6 DEF Receive, RetrievalInv

LEMMA ReceiveKeeps ==
    ASSUME RetrievalInv, Receive
    PROVE  RetrievalInv'
<1> USE DEF Receive
<1>1. RetrievalTypeOK'
  BY DEF RetrievalInv, RetrievalTypeOK
<1>2. entries' \in Seq(Members(entries'))
  BY Received
<1>3. /\ retrievalAt' = "requesting" => RequestAfter(source, entries') \notin {Done, Fail}
      /\ retrievalAt' \in {"completing", "naming", "done"}
           => RequestAfter(source, entries') = Done
  BY DEF NextRequest
<1>4. manifest' = "none" /\ source' = source /\ (source = "discharges" => ~ lost')
  BY DEF RetrievalInv, Running
<1> QED
  BY <1>1, <1>2, <1>3, <1>4 DEF RetrievalInv, NextRequest

LEMMA OtherStepKeeps ==
    ASSUME RetrievalInv,
           \/ \E t \in Troubles : Trouble(t)
           \/ BeginManifest \/ EndManifest \/ PublisherChanges \/ Killed \/ PowerFailure
           \/ UNCHANGED retrievalVars
    PROVE  RetrievalInv' /\ entries' = entries /\ source' = source
<1> USE DEF Trouble, BeginManifest, EndManifest, PublisherChanges, Killed, PowerFailure,
            retrievalVars
<1>1. entries' = entries /\ source' = source
  OBVIOUS
<1>2. RetrievalTypeOK'
  <2> USE DEF RetrievalInv, RetrievalTypeOK
  <2>1. changes' \in 0..MaxChanges
    BY RetrievalAssumption
  <2>2. attempt' \in 0..2
    BY DEF Troubles
  <2>3. version' \in DOMAIN Worlds[source]
    OBVIOUS
  <2>4. lost' \in BOOLEAN /\ manifest' \in {"none", "pending", "torn", "whole"}
    OBVIOUS
  <2>5. retrievalAt' \in {"requesting", "completing", "naming", "done", "failed", "dead"}
    OBVIOUS
  <2> QED
    BY <1>1, <2>1, <2>2, <2>3, <2>4, <2>5
<1>3. retrievalAt' = "requesting" => retrievalAt = "requesting"
  BY DEF Running
<1>4. retrievalAt' \in {"completing", "naming", "done"}
        => retrievalAt \in {"completing", "naming", "done"}
  BY DEF Running
<1>5. manifest' # "none" => manifest # "none" \/ retrievalAt \in {"completing", "naming"}
  BY DEF Running
<1>6. retrievalAt' \in {"requesting", "completing"} => manifest' = "none"
  BY DEF RetrievalInv, Running
<1>7. source' = "discharges" /\ lost' => ~ Running' /\ manifest' = "none"
  BY DEF RetrievalInv, Running, Synced
<1> QED
  BY <1>1, <1>2, <1>3, <1>4, <1>5, <1>6, <1>7 DEF RetrievalInv, NextRequest

LEMMA RetrievalSteps ==
    ASSUME RetrievalInv, [RetrievalNext]_retrievalVars
    PROVE  /\ RetrievalInv'
           /\ Receive \/ entries' = entries
           /\ source' = source
<1>1. CASE Receive
  <2>1. source' = source
    BY <1>1 DEF Receive
  <2> QED
    BY <1>1, <2>1, ReceiveKeeps
<1>2. CASE ~ Receive
  BY <1>2, OtherStepKeeps DEF RetrievalNext, RetrievalStep
<1> QED
  BY <1>1, <1>2

\* A retrieval asks only while there is something to ask, and whoever sees a manifest
\* sees that of answers its client has accepted (ingestion/*_client.py).
THEOREM RetrievalInvariant == RetrievalSafety => []RetrievalInv
<1>1. RetrievalInit => RetrievalInv
  BY RetrievalInitial
<1>2. RetrievalInv /\ [RetrievalNext]_retrievalVars => RetrievalInv'
  BY RetrievalSteps
<1> QED
  BY <1>1, <1>2, PTL DEF RetrievalSafety

-----------------------------------------------------------------------------
(***************************************************************************)
(* The answers a retrieval may have: the n-th is what the publisher served *)
(* when it was asked, in version vs[n] and after cs[n] changes, for what   *)
(* the client asks after the answers before.                               *)
(***************************************************************************)

\* The answers before the n-th.
Earlier(es, n) == SubSeq(es, 1, n - 1)

Asked(s, es) ==
    \A n \in 1..Len(es) :
        /\ es[n].req = RequestAfter(s, Earlier(es, n))
        /\ RequestAfter(s, Earlier(es, n)) \notin {Done, Fail}

ServedIn(s, es, vs, cs) ==
    \A n \in 1..Len(es) :
        /\ vs[n] \in DOMAIN Worlds[s]
        /\ Knows(Worlds[s][vs[n]], es[n].req)
        /\ es[n].body = AnswerFrom(Worlds[s][vs[n]], cs[n], es[n].req)

\* What the publisher serves changes only with its count of changes.
Moments(vs, cs, n) ==
    /\ \A i \in 1..n : cs[i] \in Nat
    /\ \A i, j \in 1..n : i <= j => cs[i] <= cs[j] /\ (cs[i] = cs[j] => vs[i] = vs[j])

\* The answers were asked for in order and are of versions that only move on.
AnswersInv ==
    /\ Asked(source, entries)
    /\ \E vs, cs : /\ ServedIn(source, entries, vs, cs)
                   /\ Moments(vs, cs, Len(entries))
                   /\ \A i \in 1..Len(entries) :
                        cs[i] <= changes /\ (cs[i] = changes => vs[i] = version)

LEMMA EarlierIs ==
    ASSUME NEW E, NEW es \in Seq(E), NEW n \in 1..Len(es)
    PROVE  /\ Earlier(es, n) \in Seq(E) /\ Len(Earlier(es, n)) = n - 1
           /\ \A i \in 1..(n - 1) : Earlier(es, n)[i] = es[i]
           /\ es[n] \in E
BY DEF Earlier

LEMMA EarlierOfAppend ==
    ASSUME NEW E, NEW es \in Seq(E), NEW e \in E
    PROVE  /\ \A n \in 1..Len(es) : Earlier(Append(es, e), n) = Earlier(es, n)
           /\ Earlier(Append(es, e), Len(es) + 1) = es
<1>1. ASSUME NEW n \in 1..Len(es) PROVE Earlier(Append(es, e), n) = Earlier(es, n)
  BY DEF Earlier
<1>2. Earlier(Append(es, e), Len(es) + 1) = es
  BY DEF Earlier
<1> QED
  BY <1>1, <1>2

\* Induction over the answers of a retrieval.
LEMMA PrefixInduction ==
    ASSUME NEW E, NEW es \in Seq(E), NEW S, <<>> \in S,
           \A n \in 1..Len(es) :
               Earlier(es, n) \in S => Append(Earlier(es, n), es[n]) \in S
    PROVE  es \in S /\ \A n \in 1..Len(es) : Earlier(es, n) \in S
<1> DEFINE Lengths == {n \in Nat : n <= Len(es) => SubSeq(es, 1, n) \in S}
<1>1. 0 \in Lengths
  <2>1. SubSeq(es, 1, 0) = <<>>
    BY SubSeqEmpty
  <2> QED
    BY <2>1
<1>2. ASSUME NEW n \in Nat, n \in Lengths PROVE n + 1 \in Lengths
  <2> SUFFICES ASSUME n + 1 <= Len(es) PROVE SubSeq(es, 1, n + 1) \in S
    OBVIOUS
  <2>1. n + 1 \in 1..Len(es) /\ (n + 1) - 1 = n /\ 1 \in 1..Len(es) /\ n + 1 \in 1..Len(es)
    OBVIOUS
  <2>2. Earlier(es, n + 1) \in S
    BY <1>2, <2>1 DEF Earlier
  <2>3. SubSeq(es, 1, n + 1) = Append(Earlier(es, n + 1), es[n + 1])
    BY <2>1 DEF Earlier
  <2> QED
    BY <2>1, <2>2, <2>3
<1>3. \A n \in Nat : n \in Lengths
  <2> HIDE DEF Lengths
  <2> QED
    BY <1>1, <1>2, Induction
<1>5. ASSUME NEW n \in 1..Len(es) PROVE Earlier(es, n) \in S
  <2>1. n - 1 \in Nat /\ n - 1 <= Len(es)
    OBVIOUS
  <2> QED
    BY <1>3, <2>1 DEF Earlier
<1>4. SubSeq(es, 1, Len(es)) = es /\ Len(es) <= Len(es)
  BY SubSeqFull
<1> QED
  <2>2. Len(es) \in Nat
    OBVIOUS
  <2>1. SubSeq(es, 1, Len(es)) \in S
    BY <1>3, <1>4, <2>2
  <2> QED
    BY <1>4, <1>5, <2>1

LEMMA AnswersReceived ==
    ASSUME RetrievalInv, AnswersInv, Receive
    PROVE  AnswersInv'
<1> PICK s : s = source
  OBVIOUS
<1> PICK es : es = entries
  OBVIOUS
<1> PICK v, c : v = version /\ c = changes
  OBVIOUS
<1>1. PICK e : /\ e.req = RequestAfter(s, es) /\ e.req \notin {Done, Fail}
               /\ Knows(Worlds[s][v], e.req)
               /\ e.body = AnswerFrom(Worlds[s][v], c, e.req)
               /\ entries' = Append(es, e) /\ es \in Seq(Members(es) \cup {e})
  BY Received DEF Entry, NextRequest, Answer, Served, World
<1>2. source' = s /\ version' = v /\ changes' = c /\ v \in DOMAIN Worlds[s] /\ c \in Nat
  BY DEF Receive, RetrievalInv, RetrievalTypeOK
<1>3. PICK vs, cs :
        /\ ServedIn(s, es, vs, cs) /\ Moments(vs, cs, Len(es))
        /\ \A i \in 1..Len(es) : cs[i] <= c /\ (cs[i] = c => vs[i] = v)
  BY DEF AnswersInv
<1> DEFINE E == Members(es) \cup {e}
           n == Len(es) + 1
           fs == Append(es, e)
           ws == [i \in 1..n |-> IF i = n THEN v ELSE vs[i]]
           ds == [i \in 1..n |-> IF i = n THEN c ELSE cs[i]]
<1>4. /\ Len(fs) = n /\ fs[n] = e /\ \A i \in 1..Len(es) : fs[i] = es[i] /\ i # n
      /\ Len(es) \in Nat /\ n \in 1..n
  BY <1>1
<1>5. Asked(s, fs)
  <2> SUFFICES ASSUME NEW i \in 1..n
               PROVE  /\ fs[i].req = RequestAfter(s, Earlier(fs, i))
                      /\ RequestAfter(s, Earlier(fs, i)) \notin {Done, Fail}
    BY <1>4 DEF Asked
  <2>1. CASE i = n
    <3>1. Earlier(fs, n) = es
      BY <1>1, EarlierOfAppend
    <3> QED
      BY <1>1, <1>4, <2>1, <3>1
  <2>2. CASE i # n
    <3>1. i \in 1..Len(es)
      BY <1>4, <2>2
    <3>2. Earlier(fs, i) = Earlier(es, i)
      BY <1>1, <3>1, EarlierOfAppend
    <3>3. Asked(s, es)
      BY DEF AnswersInv
    <3> HIDE DEF fs, n
    <3> QED
      BY <1>4, <3>1, <3>2, <3>3 DEF Asked
  <2> QED
    BY <2>1, <2>2
<1>6. \A i \in 1..Len(es) : ws[i] = vs[i] /\ ds[i] = cs[i]
  BY <1>4
<1>7. ws[n] = v /\ ds[n] = c
  BY <1>4
<1>8. \A i \in 1..n : i = n \/ i \in 1..Len(es)
  BY <1>4
<1> HIDE DEF fs, n, ws, ds
<1>9. ServedIn(s, fs, ws, ds)
  BY <1>1, <1>2, <1>3, <1>4, <1>6, <1>7, <1>8 DEF ServedIn
<1>10. Moments(ws, ds, n)
  <2>1. \A i \in 1..n : ds[i] \in Nat /\ ds[i] <= c /\ (ds[i] = c => ws[i] = v)
    BY <1>2, <1>3, <1>6, <1>7, <1>8 DEF Moments
  <2>2. ASSUME NEW i \in 1..n, NEW j \in 1..n, i <= j
        PROVE  ds[i] <= ds[j] /\ (ds[i] = ds[j] => ws[i] = ws[j])
    <3>1. CASE j = n
      BY <1>7, <2>1, <3>1
    <3>2. CASE j # n
      <4>1. i \in 1..Len(es) /\ j \in 1..Len(es)
        BY <1>4, <2>2, <3>2 DEF n
      <4> QED
        BY <1>3, <1>6, <2>2, <4>1 DEF Moments
    <3> QED
      BY <3>1, <3>2
  <2> QED
    BY <2>1, <2>2 DEF Moments
<1>11. \A i \in 1..n : ds[i] <= c /\ (ds[i] = c => ws[i] = v)
  BY <1>2, <1>3, <1>6, <1>7, <1>8
<1>12. entries' = fs
  BY <1>1 DEF fs
<1> QED
  BY <1>2, <1>4, <1>5, <1>9, <1>10, <1>11, <1>12 DEF AnswersInv

LEMMA AnswersStay ==
    ASSUME RetrievalInv, AnswersInv, [RetrievalNext]_retrievalVars, entries' = entries,
           source' = source, ~ Receive
    PROVE  AnswersInv'
<1>1. PICK vs, cs :
        /\ ServedIn(source, entries, vs, cs) /\ Moments(vs, cs, Len(entries))
        /\ \A i \in 1..Len(entries) : cs[i] <= changes /\ (cs[i] = changes => vs[i] = version)
  BY DEF AnswersInv
<1>2. \/ changes' = changes /\ version' = version
      \/ changes' = changes + 1
  BY DEF RetrievalNext, RetrievalStep, Trouble, BeginManifest, EndManifest, PublisherChanges,
         Killed, PowerFailure, retrievalVars
<1>3. changes \in Nat
  BY DEF RetrievalInv, RetrievalTypeOK
<1>4. \A i \in 1..Len(entries) : cs[i] \in Nat
  BY <1>1 DEF Moments
<1>5. \A i \in 1..Len(entries) : cs[i] <= changes' /\ (cs[i] = changes' => vs[i] = version')
  BY <1>1, <1>2, <1>3, <1>4
<1>6. /\ ServedIn(source', entries', vs, cs) /\ Moments(vs, cs, Len(entries'))
      /\ Asked(source', entries')
  BY <1>1 DEF AnswersInv
<1>7. \A i \in 1..Len(entries') : cs[i] <= changes' /\ (cs[i] = changes' => vs[i] = version')
  BY <1>5
<1> QED
  BY <1>6, <1>7 DEF AnswersInv

LEMMA AnswersInitial == RetrievalInit => AnswersInv
<1> SUFFICES ASSUME RetrievalInit PROVE AnswersInv
  OBVIOUS
<1>1. Len(entries) = 0 /\ 1..0 = {}
  BY DEF RetrievalInit
<1>2. 1..Len(entries) = {}
  BY <1>1
<1> QED
  BY <1>2 DEF AnswersInv, Asked, ServedIn, Moments

\* What a retrieval has is what its publisher served, request by request, each for what
\* its client asks next, and in the order of the publisher's versions.
THEOREM AnswersInvariant == RetrievalSafety => [](RetrievalInv /\ AnswersInv)
<1>1. RetrievalInit => RetrievalInv /\ AnswersInv
  BY RetrievalInitial, AnswersInitial
<1>2. RetrievalInv /\ AnswersInv /\ [RetrievalNext]_retrievalVars => RetrievalInv' /\ AnswersInv'
  <2> SUFFICES ASSUME RetrievalInv, AnswersInv, [RetrievalNext]_retrievalVars
               PROVE  RetrievalInv' /\ AnswersInv'
    OBVIOUS
  <2>1. RetrievalInv' /\ source' = source /\ (Receive \/ entries' = entries)
    BY RetrievalSteps
  <2>2. AnswersInv'
    BY <2>1, AnswersReceived, AnswersStay
  <2> QED
    BY <2>1, <2>2
<1> QED
  BY <1>1, <1>2, PTL DEF RetrievalSafety

-----------------------------------------------------------------------------
(* Sources that make one request, or a few. *)

LEMMA SetToSeqIs ==
    ASSUME NEW S, IsFiniteSet(S)
    PROVE  /\ SetToSeq(S) \in Seq(S) /\ Len(SetToSeq(S)) = Cardinality(S)
           /\ Cardinality(S) \in Nat
           /\ Members(SetToSeq(S)) = S
           /\ \A i, j \in 1..Len(SetToSeq(S)) : SetToSeq(S)[i] = SetToSeq(S)[j] => i = j
<1> PICK n : n = Cardinality(S)
  OBVIOUS
<1> PICK f : f = SetToSeq(S)
  OBVIOUS
<1>1. n \in Nat /\ ExistsBijection(1..n, S)
  BY FS_CardinalityType
<1>2. \E g \in [1..n -> S] : IsInjective(g)
  BY <1>1 DEF ExistsBijection, Bijection, Injection
<1>3. f \in [1..n -> S] /\ IsInjective(f)
  BY <1>2 DEF SetToSeq
<1>4. f \in Seq(S) /\ Len(f) = n
  BY <1>1, <1>3
<1>5. \A i, j \in 1..n : f[i] = f[j] => i = j
  BY <1>3 DEF IsInjective
<1>6. f \in Surjection(1..n, S)
  <2>1. f \in Injection(1..n, S)
    BY <1>3 DEF Injection
  <2>2. Cardinality(1..n) = n
    BY <1>1, FS_Interval
  <2> QED
    BY <2>1, <2>2, FS_Injection
<1>7. Members(f) = S
  BY <1>3, <1>6 DEF Members, Surjection
<1> QED
  BY <1>1, <1>4, <1>5, <1>7

LEMMA MembersFinite ==
    ASSUME NEW T, NEW s \in Seq(T)
    PROVE  IsFiniteSet(Members(s)) /\ Cardinality(Members(s)) <= Len(s)
<1>1. s \in Surjection(1..Len(s), Members(s))
  BY DEF Surjection, Members
<1>2. IsFiniteSet(1..Len(s)) /\ Cardinality(1..Len(s)) = Len(s)
  <2> PICK n \in Nat : n = Len(s)
    OBVIOUS
  <2>1. 1 \in Int /\ n \in Int /\ n = IF 1 > n THEN 0 ELSE n - 1 + 1
    OBVIOUS
  <2>2. IsFiniteSet(1..n) /\ Cardinality(1..n) = IF 1 > n THEN 0 ELSE n - 1 + 1
    BY <2>1, FS_Interval
  <2> QED
    BY <2>1, <2>2
<1> QED
  BY <1>1, <1>2, FS_Surjection

\* What is asked for at the start.
LEMMA AskedFirst ==
    ASSUME NEW s, NEW E, NEW es \in Seq(E), Asked(s, es), 1 <= Len(es)
    PROVE  es[1].req = RequestAfter(s, <<>>)
<1>1. 1 \in 1..Len(es) /\ Earlier(es, 1) = <<>>
  BY SubSeqEmpty DEF Earlier
<1> QED
  BY <1>1 DEF Asked

LEMMA DischargesAnswers ==
    ASSUME NEW E, NEW es \in Seq(E), Asked("discharges", es),
           RequestAfter("discharges", es) = Done
    PROVE  DischargesReads(es)
<1> USE DEF RequestAfter, DischargesNext
<1>1. Len(es) <= 1
  <2> SUFFICES ASSUME 2 <= Len(es) PROVE FALSE
    OBVIOUS
  <2>1. 2 \in 1..Len(es)
    OBVIOUS
  <2>2. Earlier(es, 2) # <<>>
    BY <2>1, EarlierIs
  <2> QED
    BY <2>1, <2>2 DEF Asked
<1>2. es # <<>> /\ Fail # Done /\ <<"sites", 0>> # Done
  BY DEF Done, Fail
<1>3. Len(es) = 1
  <2>1. es # <<>>
    BY <1>2
  <2>2. Len(es) \in Nat \ {0}
    BY <2>1, EmptySeq
  <2>3. \A n \in Nat \ {0} : n <= 1 => n = 1
    OBVIOUS
  <2> QED
    BY <1>1, <2>2, <2>3, Zenon
<1> QED
  BY <1>2, <1>3 DEF DischargesReads, LastBody

\* Thames Water's manifest is never on disk without what it names: its files and their
\* names are synced before it is renamed into place (ingestion/discharge_client.py).
THEOREM ManifestAlwaysReadable == RetrievalSafety => []ManifestMeansReadable
<1>1. RetrievalInv /\ AnswersInv => ManifestMeansReadable
  <2> SUFFICES ASSUME RetrievalInv, AnswersInv, source = "discharges", manifest = "whole"
               PROVE  ReaderAccepts
    BY DEF ManifestMeansReadable
  <2>1. RequestAfter("discharges", entries) = Done /\ ~ lost
    BY DEF RetrievalInv, NextRequest
  <2>2. Asked("discharges", entries) /\ entries \in Seq(Members(entries))
    BY DEF AnswersInv, RetrievalInv
  <2>3. DischargesReads(entries)
    BY <2>1, <2>2, DischargesAnswers
  <2> QED
    BY <2>1, <2>3 DEF ReaderAccepts, Reads
<1> QED
  BY <1>1, AnswersInvariant, PTL

\* Requests that are all different.
OnceEach(es) == \A i, j \in 1..Len(es) : es[i].req = es[j].req => i = j

LEMMA OneRequest ==
    ASSUME NEW s \in {"bathing", "companies"}, NEW E, NEW es \in Seq(E), Asked(s, es)
    PROVE  OnceEach(es)
<1>1. Len(es) <= 1
  <2> SUFFICES ASSUME 2 <= Len(es) PROVE FALSE
    OBVIOUS
  <2>1. 2 \in 1..Len(es)
    OBVIOUS
  <2>2. Earlier(es, 2) # <<>>
    BY <2>1, EarlierIs
  <2>3. RequestAfter(s, Earlier(es, 2)) \in {Done, Fail}
    BY <2>2 DEF RequestAfter, BathingNext, CompaniesNext
  <2> QED
    BY <2>1, <2>3 DEF Asked
<1> QED
  BY <1>1 DEF OnceEach

LEMMA RainfallRequests ==
    ASSUME NEW E, NEW es \in Seq(E), Asked("rainfall", es)
    PROVE  OnceEach(es)
<1> USE DEF RequestAfter, RainfallNext
<1>1. Len(es) <= 2
  <2> SUFFICES ASSUME 3 <= Len(es) PROVE FALSE
    OBVIOUS
  <2>1. 3 \in 1..Len(es)
    OBVIOUS
  <2>2. Len(Earlier(es, 3)) = 3 - 1
    BY <2>1, EarlierIs
  <2>3. RequestAfter("rainfall", Earlier(es, 3)) \in {Done, Fail}
    BY <2>2
  <2> QED
    BY <2>1, <2>3 DEF Asked
<1>2. \A i \in 1..Len(es) : es[i].req = IF i = 1 THEN <<"gauges", 0>> ELSE <<"rain", 0>>
  <2> SUFFICES ASSUME NEW i \in 1..Len(es)
               PROVE  es[i].req = IF i = 1 THEN <<"gauges", 0>> ELSE <<"rain", 0>>
    OBVIOUS
  <2>1. i \in {1, 2} /\ Len(Earlier(es, i)) = i - 1
    BY <1>1, EarlierIs
  <2>2. es[i].req = RequestAfter("rainfall", Earlier(es, i))
    BY DEF Asked
  <2>3. CASE i = 1
    BY <2>1, <2>2, <2>3
  <2>4. CASE i = 2
    BY <2>1, <2>2, <2>4
  <2> QED
    BY <2>1, <2>3, <2>4
<1> QED
  BY <1>1, <1>2 DEF OnceEach
\* What the n-th request of a flood retrieval is: the warnings, then the area and the
\* polygon of every area that they name, in turn.
FloodRequest(areas, n) ==
    <<IF (n - 2) % 2 = 0 THEN "area" ELSE "polygon", areas[((n - 2) \div 2) + 1]>>

LEMMA UpToIs ==
    ASSUME NEW n \in Nat, NEW m \in Nat
    PROVE  /\ UpTo(n, m) \in Nat /\ UpTo(n, m) <= m /\ UpTo(n, m) <= n
           /\ n <= m => UpTo(n, m) = n
           /\ m <= n => UpTo(n, m) = m
<1>1. CASE n < m
  BY <1>1 DEF UpTo
<1>2. CASE ~ (n < m)
  BY <1>2 DEF UpTo
<1> QED
  BY <1>1, <1>2

\* A list in one response: all of it that the limit leaves room for.
LEMMA ResponseIs ==
    ASSUME NEW k, NEW list, list \in Seq(Members(list))
    PROVE  /\ OneResponse(k, list) \in Seq(Members(OneResponse(k, list)))
           /\ Members(OneResponse(k, list)) \subseteq Members(list)
           /\ Len(list) <= ResponseLimit \/ k \notin Limited
                \/ ~ (Len(OneResponse(k, list)) < Len(list))
                => OneResponse(k, list) = list
<1>1. CASE k \notin Limited
  BY <1>1 DEF OneResponse
<1>2. CASE k \in Limited
  <2> PICK n : n = UpTo(ResponseLimit, Len(list))
    OBVIOUS
  <2> PICK T : T = Members(list)
    OBVIOUS
  <2>1. /\ n \in Nat /\ n <= Len(list)
        /\ Len(list) <= ResponseLimit => n = Len(list)
    BY RetrievalAssumption, UpToIs
  <2> PICK cut : cut = SubSeq(list, 1, n)
    OBVIOUS
  <2>2. /\ cut \in Seq(T) /\ Len(cut) = n
        /\ \A i \in 1..n : cut[i] = list[i]
        /\ n = Len(list) => cut = list
    BY <2>1
  <2>3. cut \in Seq(Members(cut)) /\ Members(cut) \subseteq T
    <3>1. ASSUME NEW U, NEW q \in Seq(U)
          PROVE  q \in Seq(Members(q)) /\ Members(q) \subseteq U
      <4>1. \A i \in 1..Len(q) : q[i] \in U
        OBVIOUS
      <4>2. \A i \in 1..Len(q) : q[i] \in Members(q)
        BY DEF Members
      <4>3. q = [i \in 1..Len(q) |-> q[i]] /\ Len(q) \in Nat
        OBVIOUS
      <4>4. q \in Seq(Members(q))
        BY <4>2, <4>3
      <4>5. Members(q) \subseteq U
        BY <4>1 DEF Members
      <4> QED
        BY <4>4, <4>5
    <3> QED
      BY <2>2, <3>1
  <2>4. ~ (Len(cut) < Len(list)) => n = Len(list)
    BY <2>1, <2>2
  <2>5. OneResponse(k, list) = cut
    BY <1>2 DEF OneResponse
  <2> QED
    BY <1>2, <2>1, <2>2, <2>3, <2>4, <2>5
<1> QED
  BY <1>1, <1>2

LEMMA ResponseServed ==
    ASSUME NEW w, NEW c, NEW req, req[1] \in Responses
    PROVE  AnswerFrom(w, c, req)
             = [items |-> OneResponse(req[1], w[req[1]]),
                more |-> Len(OneResponse(req[1], w[req[1]])) < Len(w[req[1]])]
  BY DEF AnswerFrom, Responses, Collections, Levels

LEMMA ServedList ==
    ASSUME NEW s \in Sources, NEW v \in DOMAIN Worlds[s], NEW k \in Responses \cap ListsOf(s),
           NEW n, NEW a
    PROVE  AnswerFrom(Worlds[s][v], n, <<k, a>>).items
             \in Seq(Members(AnswerFrom(Worlds[s][v], n, <<k, a>>).items))
<1>1. AnswerFrom(Worlds[s][v], n, <<k, a>>).items = OneResponse(k, Worlds[s][v][k])
  <2> PICK w : w = Worlds[s][v]
    OBVIOUS
  <2> PICK req : req = <<k, a>>
    OBVIOUS
  <2>1. AnswerFrom(w, n, req)
          = [items |-> OneResponse(k, w[k]), more |-> Len(OneResponse(k, w[k])) < Len(w[k])]
    BY ResponseServed
  <2> QED
    BY <2>1
<1>2. Worlds[s][v][k] \in Seq(Members(Worlds[s][v][k]))
  BY WorldsAssumption
<1>3. OneResponse(k, Worlds[s][v][k]) \in Seq(Members(OneResponse(k, Worlds[s][v][k])))
  BY <1>2, ResponseIs
<1> QED
  BY <1>1, <1>3

LEMMA FloodRequests ==
    ASSUME NEW E, NEW es \in Seq(E), Asked("floods", es), NEW vs, NEW cs,
           ServedIn("floods", es, vs, cs), "floods" \in Sources, 1 <= Len(es)
    PROVE  /\ es[1].req = <<"warnings", 0>>
           /\ IsFiniteSet({w.area : w \in Members(es[1].body.items)})
           /\ \A n \in 2..Len(es) :
                /\ (n - 2) < 2 * Len(FloodAreas(es))
                /\ es[n].req = FloodRequest(FloodAreas(es), n)
<1>1. 1 \in 1..Len(es)
  OBVIOUS
<1>2. es[1].req = <<"warnings", 0>>
  BY AskedFirst DEF RequestAfter, FloodsNext
<1>3. IsFiniteSet({w.area : w \in Members(es[1].body.items)})
  <2>1. es[1].body.items \in Seq(Members(es[1].body.items))
    <3>1. vs[1] \in DOMAIN Worlds["floods"]
      BY <1>1 DEF ServedIn
    <3>2. es[1].body = AnswerFrom(Worlds["floods"][vs[1]], cs[1], <<"warnings", 0>>)
      BY <1>1, <1>2 DEF ServedIn
    <3>3. "warnings" \in Responses \cap ListsOf("floods")
      BY DEF Responses, ListsOf
    <3> QED
      BY <3>1, <3>2, <3>3, ServedList
  <2>2. IsFiniteSet(Members(es[1].body.items))
    BY <2>1, MembersFinite
  <2> DEFINE T == {w.area : w \in Members(es[1].body.items)}
             f == [w \in Members(es[1].body.items) |-> w.area]
  <2>3. f \in Surjection(Members(es[1].body.items), T)
    BY DEF Surjection
  <2> QED
    BY <2>2, <2>3, FS_Surjection
<1>4. ASSUME NEW n \in 2..Len(es)
      PROVE  /\ (n - 2) < 2 * Len(FloodAreas(es))
             /\ es[n].req = FloodRequest(FloodAreas(es), n)
  <2>1. n \in 1..Len(es) /\ 1 \in 1..(n - 1)
    OBVIOUS
  <2> PICK p : p = Earlier(es, n)
    OBVIOUS
  <2>2. Len(p) = n - 1 /\ p[1] = es[1]
    BY <2>1, EarlierIs
  <2>3. p # <<>> /\ FloodAreas(p) = FloodAreas(es) /\ Len(p) - 1 = n - 2
    BY <2>1, <2>2 DEF FloodAreas
  <2>4. FloodsNext(p) \notin {Done, Fail} /\ es[n].req = FloodsNext(p)
    BY <2>1 DEF Asked, RequestAfter
  <2>5. (n - 2) < 2 * Len(FloodAreas(es))
    BY <2>3, <2>4 DEF FloodsNext
  <2>6. FloodsNext(p) = FloodRequest(FloodAreas(es), n)
    BY <2>3, <2>5 DEF FloodsNext, FloodRequest
  <2> QED
    BY <2>4, <2>5, <2>6
<1> QED
  BY <1>2, <1>3, <1>4

LEMMA FloodsOnce ==
    ASSUME NEW E, NEW es \in Seq(E), Asked("floods", es), NEW vs, NEW cs,
           ServedIn("floods", es, vs, cs), "floods" \in Sources
    PROVE  OnceEach(es)
<1> SUFFICES ASSUME NEW i \in 1..Len(es), NEW j \in 1..Len(es), es[i].req = es[j].req
             PROVE  i = j
  BY DEF OnceEach
<1> PICK areas : areas = FloodAreas(es)
  OBVIOUS
<1>1. 1 <= Len(es)
  OBVIOUS
<1>2. \A n \in 2..Len(es) : (n - 2) < 2 * Len(areas) /\ es[n].req = FloodRequest(areas, n)
  BY <1>1, FloodRequests
<1>3. Len(areas) \in Nat /\ \A m, n \in 1..Len(areas) : areas[m] = areas[n] => m = n
  <2>1. IsFiniteSet({w.area : w \in Members(es[1].body.items)})
    BY <1>1, FloodRequests
  <2> QED
    BY <2>1, SetToSeqIs DEF FloodAreas
<1>4. es[1].req[1] = "warnings"
  <2>1. es[1].req = <<"warnings", 0>>
    BY <1>1, FloodRequests
  <2> QED
    BY <2>1
<1>5. \A n \in 2..Len(es) : es[n].req[1] \in {"area", "polygon"}
  BY <1>2 DEF FloodRequest
<1>6. CASE i = 1 \/ j = 1
  BY <1>4, <1>5, <1>6
<1>7. CASE i # 1 /\ j # 1
  <2>1. i \in 2..Len(es) /\ j \in 2..Len(es)
    BY <1>7
  <2>2. FloodRequest(areas, i) = FloodRequest(areas, j)
    BY <1>2, <2>1
  <2>3. ((i - 2) % 2 = 0) <=> ((j - 2) % 2 = 0)
    BY <2>2 DEF FloodRequest
  <2>4. areas[((i - 2) \div 2) + 1] = areas[((j - 2) \div 2) + 1]
    BY <2>2 DEF FloodRequest
  <2>5. ((i - 2) \div 2) + 1 \in 1..Len(areas) /\ ((j - 2) \div 2) + 1 \in 1..Len(areas)
    BY <1>2, <1>3, <2>1
  <2>6. ((i - 2) \div 2) + 1 = ((j - 2) \div 2) + 1
    BY <1>3, <2>4, <2>5
  <2> QED
    BY <2>1, <2>3, <2>6
<1> QED
  BY <1>6, <1>7

LEMMA FirstOfSet ==
    ASSUME NEW S, IsFiniteSet(S), S # {}
    PROVE  First(S) \in S
<1>1. SetToSeq(S) \in Seq(S) /\ Members(SetToSeq(S)) = S
  BY SetToSeqIs
<1>2. Len(SetToSeq(S)) # 0
  BY <1>1 DEF Members
<1> QED
  BY <1>1, <1>2, ElementOfSeq DEF First

-----------------------------------------------------------------------------
(* The catchment hierarchy: no page is asked for twice. *)

LEMMA PageServed ==
    ASSUME NEW v \in DOMAIN Worlds["catchments"], NEW c, NEW req, req[1] \in Levels,
           "catchments" \in Sources, Knows(Worlds["catchments"][v], req)
    PROVE  /\ AnswerFrom(Worlds["catchments"][v], c, req)
                = Worlds["catchments"][v][req[1]][req[2]]
           /\ req[2] \in DOMAIN Worlds["catchments"][v][req[1]]
           /\ IsFiniteSet(AnswerFrom(Worlds["catchments"][v], c, req).children)
<1> PICK w : w = Worlds["catchments"][v]
  OBVIOUS
<1>1. AnswerFrom(w, c, req) = w[req[1]][req[2]]
  BY DEF AnswerFrom, Responses, Collections, Levels
<1>2. req[2] \in DOMAIN w[req[1]]
  BY DEF Knows, Levels
<1>3. IsFiniteSet(w[req[1]][req[2]].children)
  BY <1>2, WorldsAssumption
<1> QED
  BY <1>1, <1>2, <1>3

LEMMA RootServed ==
    ASSUME NEW v \in DOMAIN Worlds["catchments"], NEW c, "catchments" \in Sources
    PROVE  /\ AnswerFrom(Worlds["catchments"][v], c, <<"root", "root">>)
                = [children |-> Worlds["catchments"][v].root]
           /\ IsFiniteSet(AnswerFrom(Worlds["catchments"][v], c, <<"root", "root">>).children)
<1> PICK w : w = Worlds["catchments"][v]
  OBVIOUS
<1>1. AnswerFrom(w, c, <<"root", "root">>) = [children |-> w.root]
  BY DEF AnswerFrom, Responses, Collections, Levels
<1>2. IsFiniteSet(w.root)
  BY WorldsAssumption
<1> QED
  BY <1>1, <1>2

\* A request after the first is for something named and not yet read.
LEMMA CatchmentRequest ==
    ASSUME NEW p, p # <<>>, CatchmentsNext(p) \notin {Done, Fail}
    PROVE  \E k \in Levels \cup {"geometry"} :
             LET named == CASE k \in {"district", "geometry"} -> p[1].body.children
                            [] k = "management" -> ChildrenOf(p, "district")
                            [] OTHER -> ChildrenOf(p, "management")
             IN  named \ Known(p, k) # {} /\ CatchmentsNext(p) = <<k, First(named \ Known(p, k))>>
BY DEF CatchmentsNext, Levels

LEMMA CatchmentRequests ==
    ASSUME NEW E, NEW es \in Seq(E), Asked("catchments", es), NEW vs, NEW cs,
           ServedIn("catchments", es, vs, cs), "catchments" \in Sources, NEW n \in 2..Len(es)
    PROVE  /\ es[n].req[1] \in Levels \cup {"geometry"}
           /\ \A i \in 1..(n - 1) : es[i].req # es[n].req
<1>1. n \in 1..Len(es) /\ 1 \in 1..(n - 1) /\ 1 \in 1..Len(es) /\ 1 <= Len(es)
  OBVIOUS
<1> PICK p : p = Earlier(es, n)
  OBVIOUS
<1>2. p \in Seq(E) /\ Len(p) = n - 1 /\ \A i \in 1..(n - 1) : p[i] = es[i]
  BY <1>1, EarlierIs
<1>3. DOMAIN p = 1..(n - 1)
  BY <1>2
<1>4. p # <<>>
  BY <1>1, <1>2
<1>5. es[n].req = CatchmentsNext(p) /\ CatchmentsNext(p) \notin {Done, Fail}
  BY <1>1 DEF Asked, RequestAfter
<1>6. es[1].req = <<"root", "root">>
  BY <1>1, AskedFirst DEF RequestAfter, CatchmentsNext
<1>7. IsFiniteSet(p[1].body.children)
  <2>1. es[1].body = AnswerFrom(Worlds["catchments"][vs[1]], cs[1], <<"root", "root">>)
        /\ vs[1] \in DOMAIN Worlds["catchments"]
    BY <1>1, <1>6 DEF ServedIn
  <2> QED
    BY <1>1, <1>2, <2>1, RootServed
<1>8. ASSUME NEW k \in {"district", "management"} PROVE IsFiniteSet(ChildrenOf(p, k))
  <2> DEFINE Sets == {e.body.children : e \in Members(Of(p, k))}
             f == [e \in Members(Of(p, k)) |-> e.body.children]
  <2>1. Of(p, k) \in Seq(E)
    <3>1. es[1] \in E
      BY <1>1, ElementOfSeq
    <3> QED
      BY <1>2, <3>1, OfAppend
  <2>2. IsFiniteSet(Sets)
    <3>1. f \in Surjection(Members(Of(p, k)), Sets)
      BY DEF Surjection
    <3> QED
      BY <2>1, <3>1, MembersFinite, FS_Surjection
  <2>3. ASSUME NEW e \in Members(Of(p, k)) PROVE IsFiniteSet(e.body.children)
    <3>1. e \in Members(p) /\ e.req[1] = k
      BY <1>2, OfMembers
    <3>2. PICK i \in 1..(n - 1) : e = es[i]
      BY <1>2, <1>3, <3>1 DEF Members
    <3>3. i \in 1..Len(es)
      OBVIOUS
    <3>4. /\ e.body = AnswerFrom(Worlds["catchments"][vs[i]], cs[i], e.req)
          /\ vs[i] \in DOMAIN Worlds["catchments"]
          /\ Knows(Worlds["catchments"][vs[i]], e.req)
      BY <3>2, <3>3 DEF ServedIn
    <3>5. e.req[1] \in Levels
      BY <3>1 DEF Levels
    <3>6. IsFiniteSet(AnswerFrom(Worlds["catchments"][vs[i]], cs[i], e.req).children)
      BY <3>4, <3>5, PageServed
    <3> QED
      BY <3>4, <3>6
  <2> QED
    BY <2>2, <2>3, FS_UNION DEF ChildrenOf
<1>9. PICK k, named :
        /\ k \in Levels \cup {"geometry"}
        /\ IsFiniteSet(named) /\ named \ Known(p, k) # {}
        /\ CatchmentsNext(p) = <<k, First(named \ Known(p, k))>>
  BY <1>4, <1>5, <1>7, <1>8, CatchmentRequest DEF Levels
<1>10. First(named \ Known(p, k)) \in named \ Known(p, k)
  BY <1>9, FS_Difference, FirstOfSet
<1>11. ASSUME NEW i \in 1..(n - 1) PROVE es[i].req # es[n].req
  <2> SUFFICES ASSUME es[i].req = es[n].req PROVE FALSE
    OBVIOUS
  <2>1. es[i].req[1] = k /\ es[i].req[2] = First(named \ Known(p, k))
    BY <1>5, <1>9
  <2>2. es[i] \in Members(p)
    BY <1>2, <1>3 DEF Members
  <2>3. es[i] \in Members(Of(p, k))
    BY <1>2, <2>1, <2>2, OfMembers
  <2>4. es[i].req[2] \in Known(p, k)
    BY <2>3 DEF Known
  <2> QED
    BY <1>10, <2>1, <2>4
<1>12. es[n].req[1] \in Levels \cup {"geometry"}
  BY <1>5, <1>9
<1> QED
  BY <1>11, <1>12

LEMMA CatchmentsOnce ==
    ASSUME NEW E, NEW es \in Seq(E), Asked("catchments", es), NEW vs, NEW cs,
           ServedIn("catchments", es, vs, cs), "catchments" \in Sources
    PROVE  OnceEach(es)
<1> SUFFICES ASSUME NEW i \in 1..Len(es), NEW j \in 1..Len(es), i < j, es[i].req = es[j].req
             PROVE  FALSE
  BY DEF OnceEach
<1>1. j \in 2..Len(es) /\ i \in 1..(j - 1)
  OBVIOUS
<1> QED
  BY <1>1, CatchmentRequests

LEMMA CatchmentsAnswers ==
    ASSUME NEW E, NEW es \in Seq(E), Asked("catchments", es), NEW vs, NEW cs,
           ServedIn("catchments", es, vs, cs), "catchments" \in Sources,
           RequestAfter("catchments", es) = Done
    PROVE  CatchmentsReads(es)
<1>1. CatchmentsNext(es) = Done
  BY DEF RequestAfter
<1>2. es # <<>> /\ CatchmentsAccepted(TreeOf(es))
  BY <1>1 DEF CatchmentsNext, Done, Fail
<1>3. Of(es, "root") # <<>>
  <2>1. 1 <= Len(es) /\ 1 \in 1..Len(es)
    <3>1. Len(es) \in Nat \ {0}
      BY <1>2, EmptySeq
    <3>2. \A n \in Nat \ {0} : 1 <= n /\ 1 \in 1..n
      OBVIOUS
    <3> QED
      BY <3>1, <3>2
  <2>2. es[1].req[1] = "root"
    <3>1. es[1].req = <<"root", "root">>
      BY <2>1, AskedFirst DEF RequestAfter, CatchmentsNext
    <3> QED
      BY <3>1
  <2>3. es[1] \in Members(Of(es, "root"))
    <3>1. es[1] \in Members(es)
      BY <2>1 DEF Members
    <3> QED
      BY <2>2, <3>1, OfMembers
  <2> QED
    BY <2>3, OfEmpty
<1>4. \A i, j \in DOMAIN es : es[i].req = es[j].req => i = j
  BY CatchmentsOnce DEF OnceEach
<1> QED
  BY <1>2, <1>3, <1>4 DEF CatchmentsReads

-----------------------------------------------------------------------------
(* Pages of one collection. *)

LEMMA OnlyKind ==
    ASSUME NEW E, NEW k, NEW es \in Seq(E), \A i \in 1..Len(es) : es[i].req[1] = k
    PROVE  Of(es, k) = es
<1> DEFINE S == {x \in Seq(E) : Of(x, k) = x}
<1>1. <<>> \in S
  BY OfEmpty
<1>2. ASSUME NEW n \in 1..Len(es), Earlier(es, n) \in S
      PROVE  Append(Earlier(es, n), es[n]) \in S
  <2>1. es[n] \in E /\ es[n].req[1] = k
    BY ElementOfSeq
  <2>2. Earlier(es, n) \in Seq(E) /\ Of(Earlier(es, n), k) = Earlier(es, n)
    BY <1>2
  <2>3. Of(Append(Earlier(es, n), es[n]), k) = Append(Of(Earlier(es, n), k), es[n])
    BY <2>1, <2>2, OfAppend
  <2>4. Append(Earlier(es, n), es[n]) \in Seq(E)
    BY <2>1, <2>2
  <2> QED
    BY <2>2, <2>3, <2>4
<1>3. es \in S
  <2> HIDE DEF S
  <2> QED
    BY <1>1, <1>2, PrefixInduction
<1> QED
  BY <1>3

LEMMA OnlyKindEarlier ==
    ASSUME NEW E, NEW k, NEW es \in Seq(E), \A i \in 1..Len(es) : es[i].req[1] = k,
           NEW n \in 1..Len(es)
    PROVE  Of(Earlier(es, n), k) = Earlier(es, n)
<1> PICK p : p = Earlier(es, n)
  OBVIOUS
<1>1. p \in Seq(E) /\ Len(p) = n - 1 /\ \A i \in 1..(n - 1) : p[i] = es[i]
  BY EarlierIs
<1>2. \A i \in 1..Len(p) : p[i].req[1] = k
  BY <1>1
<1> QED
  BY <1>1, <1>2, OnlyKind

LEMMA EarlierLast ==
    ASSUME NEW E, NEW es \in Seq(E), NEW n \in 2..Len(es)
    PROVE  /\ Earlier(es, n) # <<>> /\ Len(Earlier(es, n)) = n - 1
           /\ Earlier(es, n)[Len(Earlier(es, n))] = es[n - 1]
           /\ n \in 1..Len(es)
<1>1. n \in 1..Len(es) /\ n - 1 \in 1..(n - 1)
  OBVIOUS
<1> QED
  BY <1>1, EarlierIs

LEMMA NotEmpty ==
    ASSUME NEW E, NEW es \in Seq(E), es # <<>>
    PROVE  Len(es) \in Nat \ {0} /\ 1 \in 1..Len(es) /\ Len(es) \in 1..Len(es) /\ 1 <= Len(es)
<1>1. Len(es) \in Nat \ {0}
  BY EmptySeq
<1>2. \A n \in Nat \ {0} : 1 \in 1..n /\ n \in 1..n /\ 1 <= n
  OBVIOUS
<1> QED
  BY <1>1, <1>2

-----------------------------------------------------------------------------
(* Pages of any collection, among whatever else a retrieval asks for. *)

Records(s, k) == UNION {Members(Worlds[s][v][k]) : v \in DOMAIN Worlds[s]}

LEMMA ListIs ==
    ASSUME NEW s \in Sources, NEW k \in ListsOf(s), NEW v \in DOMAIN Worlds[s]
    PROVE  Worlds[s][v][k] \in Seq(Records(s, k))
<1> PICK l : l = Worlds[s][v][k]
  OBVIOUS
<1>1. l \in Seq(Members(l))
  BY WorldsAssumption
<1>2. Members(l) \subseteq Records(s, k)
  BY DEF Records
<1> QED
  BY <1>1, <1>2, SeqMonotonic

LEMMA PartOf ==
    ASSUME NEW T, NEW l \in Seq(T), NEW a \in Nat, NEW b \in Nat, b <= Len(l)
    PROVE  SubSeq(l, a + 1, b) \in Seq(T)
<1>1. \A i \in (a + 1)..b : i \in 1..Len(l)
  OBVIOUS
<1>2. \A i \in (a + 1)..b : l[i] \in T
  BY <1>1, ElementOfSeq
<1> QED
  BY <1>2, SubSeqProperties

LEMMA PageIs ==
    ASSUME NEW s \in Sources, NEW k \in Collections \cap ListsOf(s), NEW v \in DOMAIN Worlds[s],
           NEW c, NEW a \in Nat
    PROVE  LET l == Worlds[s][v][k]
               page == AnswerFrom(Worlds[s][v], c, <<k, a>>)
           IN  /\ page.items = SubSeq(l, a + 1, UpTo(a + PageLimit, Len(l)))
               /\ page.items \in Seq(Records(s, k))
               /\ page.total = Len(l) /\ page.total \in Nat
<1> PICK w : w = Worlds[s][v]
  OBVIOUS
<1> PICK l : l = w[k]
  OBVIOUS
<1>1. AnswerFrom(w, c, <<k, a>>)
        = [items |-> SubSeq(l, a + 1, UpTo(a + PageLimit, Len(l))), total |-> Len(l)]
  BY DEF AnswerFrom, Collections, Responses, Levels
<1>2. l \in Seq(Records(s, k))
  BY ListIs
<1>3. Len(l) \in Nat /\ UpTo(a + PageLimit, Len(l)) \in Nat
      /\ UpTo(a + PageLimit, Len(l)) <= Len(l)
  BY <1>2, RetrievalAssumption DEF UpTo
<1>4. SubSeq(l, a + 1, UpTo(a + PageLimit, Len(l))) \in Seq(Records(s, k))
  BY <1>2, <1>3, PartOf
<1>5. AnswerFrom(w, c, <<k, a>>).items = SubSeq(l, a + 1, UpTo(a + PageLimit, Len(l)))
      /\ AnswerFrom(w, c, <<k, a>>).total = Len(l)
  BY <1>1
<1> QED
  BY <1>3, <1>4, <1>5

\* Every page of a collection is asked for where the ones before it have ended.
AskedInOrder(es, k) ==
    \A n \in 1..Len(es) :
        es[n].req[1] = k => es[n].req = <<k, Len(ItemsOf(Earlier(es, n), k))>>

PagesIn(s, ps, k) ==
    /\ ItemsIn(ps) \in Seq(Records(s, k))
    /\ \A i \in 1..Len(ps) :
         /\ ps[i].req = <<k, Before(ps, i)>> /\ Before(ps, i) \in Nat
         /\ ps[i].body.items \in Seq(Records(s, k)) /\ ps[i].body.total \in Nat

\* One more page.
LEMMA PageAppended ==
    ASSUME NEW s, NEW k, NEW E, NEW ps \in Seq(E), NEW e \in E, PagesIn(s, ps, k),
           e.req = <<k, Len(ItemsIn(ps))>>,
           e.body.items \in Seq(Records(s, k)), e.body.total \in Nat
    PROVE  /\ PagesIn(s, Append(ps, e), k)
           /\ ItemsIn(Append(ps, e)) = ItemsIn(ps) \o e.body.items
<1> PICK qs : qs = Append(ps, e)
  OBVIOUS
<1>1. Len(qs) = Len(ps) + 1 /\ qs[Len(ps) + 1] = e /\ Len(ps) \in Nat
  OBVIOUS
<1>2. \A i \in 1..Len(ps) : qs[i] = ps[i]
  OBVIOUS
<1>3. ItemsIn(qs) = ItemsIn(ps) \o e.body.items
  <2>1. ListsIn(ps, Records(s, k))
    BY DEF PagesIn, ListsIn
  <2> QED
    BY <2>1, ItemsAppend
<1>4. ItemsIn(qs) \in Seq(Records(s, k))
  BY <1>3 DEF PagesIn
<1>8. \A ts, i : Before(ts, i) = Len(ItemsIn(Earlier(ts, i)))
  BY DEF Before, Earlier
<1>5. \A i \in 1..Len(ps) : Before(qs, i) = Before(ps, i)
  BY <1>8, EarlierOfAppend
<1>6. Before(qs, Len(ps) + 1) = Len(ItemsIn(ps)) /\ Len(ItemsIn(ps)) \in Nat
  BY <1>8, EarlierOfAppend DEF PagesIn
<1>7. ASSUME NEW i \in 1..Len(qs)
      PROVE  /\ qs[i].req = <<k, Before(qs, i)>> /\ Before(qs, i) \in Nat
             /\ qs[i].body.items \in Seq(Records(s, k)) /\ qs[i].body.total \in Nat
  <2>1. CASE i = Len(ps) + 1
    BY <1>1, <1>6, <2>1
  <2>2. CASE i # Len(ps) + 1
    <3>1. i \in 1..Len(ps)
      BY <1>1, <2>2
    <3> QED
      BY <1>2, <1>5, <3>1 DEF PagesIn
  <2> QED
    BY <2>1, <2>2
<1> QED
  BY <1>3, <1>4, <1>7 DEF PagesIn

LEMMA NoPages == \A s, k : PagesIn(s, <<>>, k)
<1> SUFFICES ASSUME NEW s, NEW k PROVE PagesIn(s, <<>>, k)
  OBVIOUS
<1>1. ItemsIn(<<>>) \in Seq(Records(s, k))
  <2>1. <<>> \in Seq(Records(s, k))
    OBVIOUS
  <2> QED
    BY <2>1, OfEmpty, Zenon
<1>2. 1..Len(<<>>) = {}
  OBVIOUS
<1> QED
  BY <1>1, <1>2 DEF PagesIn

\* The n-th answer, when it is a page.
LEMMA PageAnswer ==
    ASSUME NEW s \in Sources, NEW k \in Collections \cap ListsOf(s), NEW es, NEW vs, NEW cs,
           ServedIn(s, es, vs, cs), NEW n \in 1..Len(es), NEW a \in Nat, es[n].req = <<k, a>>
    PROVE  LET l == Worlds[s][vs[n]][k] IN
           /\ vs[n] \in DOMAIN Worlds[s] /\ l \in Seq(Records(s, k))
           /\ es[n].body.items = SubSeq(l, a + 1, UpTo(a + PageLimit, Len(l)))
           /\ es[n].body.items \in Seq(Records(s, k))
           /\ es[n].body.total = Len(l) /\ es[n].body.total \in Nat
<1>1. vs[n] \in DOMAIN Worlds[s] /\ es[n].body = AnswerFrom(Worlds[s][vs[n]], cs[n], <<k, a>>)
  BY DEF ServedIn
<1> PICK l : l = Worlds[s][vs[n]][k]
  OBVIOUS
<1> PICK page : page = AnswerFrom(Worlds[s][vs[n]], cs[n], <<k, a>>)
  OBVIOUS
<1>2. /\ page.items = SubSeq(l, a + 1, UpTo(a + PageLimit, Len(l)))
      /\ page.items \in Seq(Records(s, k))
      /\ page.total = Len(l) /\ page.total \in Nat
  BY <1>1, PageIs
<1>3. l \in Seq(Records(s, k))
  BY <1>1, ListIs
<1> QED
  BY <1>1, <1>2, <1>3

LEMMA PagesInOrder ==
    ASSUME NEW s \in Sources, NEW k \in Collections \cap ListsOf(s), NEW E, NEW es \in Seq(E),
           NEW vs, NEW cs, ServedIn(s, es, vs, cs), AskedInOrder(es, k)
    PROVE  PagesIn(s, Of(es, k), k)
<1> DEFINE S == {x \in Seq(E) : PagesIn(s, Of(x, k), k)}
<1>1. <<>> \in S
  BY OfEmpty, NoPages
<1>2. ASSUME NEW n \in 1..Len(es), Earlier(es, n) \in S
      PROVE  Append(Earlier(es, n), es[n]) \in S
  <2> PICK x \in Seq(E) : x = Earlier(es, n) /\ PagesIn(s, Of(x, k), k)
    BY <1>2
  <2> PICK e \in E : e = es[n]
    BY ElementOfSeq
  <2>0. Append(x, e) \in Seq(E)
    OBVIOUS
  <2> PICK y \in Seq(E) : y = Append(x, e)
    BY <2>0
  <2>1. CASE e.req[1] = k
    <3>1. Of(y, k) = Append(Of(x, k), e) /\ Of(x, k) \in Seq(E)
      BY <2>1, OfAppend
    <3>2. e.req = <<k, Len(ItemsIn(Of(x, k)))>>
      BY <2>1 DEF AskedInOrder, ItemsOf
    <3>3. Len(ItemsIn(Of(x, k))) \in Nat
      BY DEF PagesIn
    <3>4. e.body.items \in Seq(Records(s, k)) /\ e.body.total \in Nat
      BY <3>2, <3>3, PageAnswer
    <3> QED
      BY <3>1, <3>2, <3>4, PageAppended
  <2>2. CASE e.req[1] # k
    BY <2>2, OfAppend
  <2> QED
    BY <2>1, <2>2
<1>3. es \in S
  <2> HIDE DEF S
  <2> QED
    BY <1>1, <1>2, PrefixInduction
<1> QED
  BY <1>3
\* What the answers have when the client has accepted them: a last page, and no other
\* that is not full.
LEMMA PagesComplete ==
    ASSUME NEW s, NEW k, NEW E, NEW ps \in Seq(E), PagesIn(s, ps, k), ps # <<>>,
           Len(ps) <= PagesOfCollection, ~ (Len(ItemsIn(ps)) > RecordsOfRetrieval),
           Len(LastBody(ps).items) < PageLimit,
           \A n \in 1..(Len(ps) - 1) : ~ (Len(ps[n].body.items) < PageLimit)
    PROVE  Paged(ps, k)
<1>1. Len(ps) \in Nat \ {0} /\ DOMAIN ps = 1..Len(ps)
  BY NotEmpty
<1>2. Len(ps) \in 1..PagesOfCollection
  BY <1>1, RetrievalAssumption
<1>3. ASSUME NEW i \in 1..Len(ps) PROVE i = Len(ps) <=> Len(ps[i].body.items) < PageLimit
  <2>1. CASE i = Len(ps)
    BY <2>1 DEF LastBody
  <2>2. CASE i # Len(ps)
    <3>1. \A m \in Nat \ {0} : \A j \in 1..m : j # m => j \in 1..(m - 1)
      OBVIOUS
    <3>2. i \in 1..(Len(ps) - 1)
      BY <1>1, <2>2, <3>1, Zenon
    <3> QED
      BY <2>2, <3>2
  <2> QED
    BY <2>1, <2>2
<1>4. \A i \in 1..Len(ps) : ps[i].req = <<k, Before(ps, i)>>
  BY DEF PagesIn
<1>5. Len(ItemsIn(ps)) <= RecordsOfRetrieval
  <2>1. Len(ItemsIn(ps)) \in Nat
    BY DEF PagesIn
  <2> QED
    BY <2>1, RetrievalAssumption
<1>6. \A i \in DOMAIN ps :
        /\ ps[i].req = <<k, Before(ps, i)>>
        /\ i = Len(ps) <=> Len(ps[i].body.items) < PageLimit
  BY <1>1, <1>3, <1>4, Zenon
<1> QED
  BY <1>2, <1>5, <1>6 DEF Paged

\* A client of one collection goes on only after a page, and not after too many.
GoesOn(s, k) ==
    /\ RequestAfter(s, <<>>) = <<k, 0>>
    /\ \A p : p # <<>> /\ RequestAfter(s, p) \notin {Done, Fail} =>
         /\ RequestAfter(s, p) = <<k, Len(ItemsOf(p, k))>>
         /\ Len(p) # PagesOfCollection

LEMMA GoingOn == GoesOn("history", "readings") /\ GoesOn("points", "points")
<1>1. GoesOn("history", "readings")
  BY DEF GoesOn, RequestAfter, HistoryNext
<1>2. GoesOn("points", "points")
  BY DEF GoesOn, RequestAfter, PointsNext
<1> QED
  BY <1>1, <1>2

LEMMA OneCollection ==
    ASSUME NEW s \in Sources, NEW k \in Collections \cap ListsOf(s), NEW E, NEW es \in Seq(E),
           Asked(s, es), NEW vs, NEW cs, ServedIn(s, es, vs, cs), GoesOn(s, k)
    PROVE  /\ Of(es, k) = es /\ PagesIn(s, es, k) /\ Len(es) <= PagesOfCollection
           /\ \A n \in 1..(Len(es) - 1) :
                \E p \in Seq(E) : /\ p # <<>> /\ RequestAfter(s, p) \notin {Done, Fail}
                                  /\ Len(p) = n /\ p[Len(p)] = es[n]
                                  /\ \A i \in 1..n : p[i] = es[i]
                                  /\ Of(p, k) = p
<1>1. ASSUME NEW n \in 1..Len(es)
      PROVE  es[n].req = <<k, Len(ItemsOf(Earlier(es, n), k))>>
  <2>1. CASE n = 1
    <3>1. Earlier(es, 1) = <<>>
      BY SubSeqEmpty DEF Earlier
    <3>2. Len(ItemsOf(<<>>, k)) = 0
      BY OfEmpty DEF ItemsOf
    <3>3. es[1].req = RequestAfter(s, <<>>)
      BY <2>1, <3>1 DEF Asked
    <3> QED
      BY <2>1, <3>1, <3>2, <3>3 DEF GoesOn
  <2>2. CASE n # 1
    <3>1. n \in 2..Len(es)
      BY <2>2
    <3>2. Earlier(es, n) # <<>>
      BY <3>1, EarlierLast
    <3> QED
      BY <3>2 DEF Asked, GoesOn
  <2> QED
    BY <2>1, <2>2
<1>2. \A n \in 1..Len(es) : es[n].req[1] = k
  <2> SUFFICES ASSUME NEW n \in 1..Len(es) PROVE es[n].req[1] = k
    OBVIOUS
  <2> QED
    BY <1>1
<1>3. Of(es, k) = es
  BY <1>2, OnlyKind
<1>4. PagesIn(s, es, k)
  <2>1. AskedInOrder(es, k)
    BY <1>1 DEF AskedInOrder
  <2> QED
    BY <1>3, <2>1, PagesInOrder
<1>5. ASSUME NEW n \in 1..(Len(es) - 1)
      PROVE  /\ \E p \in Seq(E) : /\ p # <<>> /\ RequestAfter(s, p) \notin {Done, Fail}
                                  /\ Len(p) = n /\ p[Len(p)] = es[n]
                                  /\ \A i \in 1..n : p[i] = es[i]
                                  /\ Of(p, k) = p
             /\ n # PagesOfCollection
  <2> PICK p : p = Earlier(es, n + 1)
    OBVIOUS
  <2>1. n + 1 \in 2..Len(es) /\ n + 1 \in 1..Len(es) /\ (n + 1) - 1 = n
    OBVIOUS
  <2>2. p # <<>> /\ Len(p) = n /\ p[Len(p)] = es[n]
    BY <2>1, EarlierLast
  <2>3. p \in Seq(E) /\ (\A i \in 1..n : p[i] = es[i]) /\ Of(p, k) = p
    BY <1>2, <2>1, EarlierIs, OnlyKindEarlier
  <2>4. RequestAfter(s, p) \notin {Done, Fail}
    BY <2>1 DEF Asked
  <2>5. n # PagesOfCollection
    BY <2>2, <2>4 DEF GoesOn
  <2> QED
    BY <2>2, <2>3, <2>4, <2>5
<1>6. Len(es) <= PagesOfCollection
  <2> SUFFICES ASSUME PagesOfCollection < Len(es) PROVE FALSE
    BY RetrievalAssumption
  <2>1. PagesOfCollection \in 1..(Len(es) - 1)
    BY RetrievalAssumption
  <2> QED
    BY <1>5, <2>1
<1> QED
  BY <1>3, <1>4, <1>5, <1>6

LEMMA HistoryAnswers ==
    ASSUME "history" \in Sources, NEW E, NEW es \in Seq(E), Asked("history", es),
           NEW vs, NEW cs, ServedIn("history", es, vs, cs), RequestAfter("history", es) = Done
    PROVE  HistoryReads(es)
<1>1. "readings" \in Collections \cap ListsOf("history")
  BY DEF Collections, ListsOf
<1>2. /\ Of(es, "readings") = es /\ PagesIn("history", es, "readings")
      /\ Len(es) <= PagesOfCollection
  BY <1>1, GoingOn, OneCollection
<1>3. HistoryNext(es) = Done /\ ItemsOf(es, "readings") = ItemsIn(es)
  BY <1>2 DEF RequestAfter, ItemsOf
<1>4. /\ es # <<>> /\ Len(LastBody(es).items) < PageLimit
      /\ ~ (Len(ItemsIn(es)) > RecordsOfRetrieval)
      /\ HistoryAccepted(Measure, ItemsIn(es)) /\ InWindow(ItemsIn(es), Window)
  BY <1>3 DEF HistoryNext, Done, Fail
<1>5. ASSUME NEW n \in 1..(Len(es) - 1) PROVE ~ (Len(es[n].body.items) < PageLimit)
  <2>1. PICK p \in Seq(E) : /\ p # <<>> /\ RequestAfter("history", p) \notin {Done, Fail}
                            /\ p[Len(p)] = es[n]
    BY <1>1, GoingOn, OneCollection
  <2>2. ~ (Len(LastBody(p).items) < PageLimit)
    BY <2>1 DEF RequestAfter, HistoryNext
  <2> QED
    BY <2>1, <2>2 DEF LastBody
<1>6. Paged(es, "readings")
  BY <1>2, <1>4, <1>5, PagesComplete
<1> QED
  BY <1>3, <1>4, <1>6 DEF HistoryReads

LEMMA PointsAnswers ==
    ASSUME "points" \in Sources, NEW E, NEW es \in Seq(E), Asked("points", es),
           NEW vs, NEW cs, ServedIn("points", es, vs, cs), RequestAfter("points", es) = Done
    PROVE  /\ Totalled(es, "points") /\ es[1].body.total \in 1..RecordsOfRetrieval
           /\ Distinct(ItemsOf(es, "points"))
<1>1. "points" \in Collections \cap ListsOf("points")
  BY DEF Collections, ListsOf
<1>2. /\ Of(es, "points") = es /\ PagesIn("points", es, "points")
      /\ Len(es) <= PagesOfCollection
  BY <1>1, GoingOn, OneCollection
<1> DEFINE got == ItemsOf(es, "points")
<1>3. PointsNext(es) = Done
  BY DEF RequestAfter
<1>4. /\ es # <<>> /\ LastBody(es).total \in 1..RecordsOfRetrieval
      /\ FullPage(es[Len(es)]) /\ SameTotal(es, "points") /\ Distinct(got)
      /\ Len(got) = LastBody(es).total
  BY <1>3 DEF PointsNext, Done, Fail
<1> HIDE DEF got
<1>5. Len(es) \in Nat \ {0} /\ DOMAIN es = 1..Len(es) /\ 1 \in 1..Len(es)
      /\ Len(es) \in 1..Len(es)
  BY <1>4, NotEmpty
<1>6. Len(es) \in 1..PagesOfCollection
  BY <1>2, <1>5, RetrievalAssumption
<1>7. ASSUME NEW n \in 1..Len(es) PROVE FullPage(es[n])
  <2>1. CASE n = Len(es)
    BY <1>4, <2>1
  <2>2. CASE n # Len(es)
    <3>1. n \in 1..(Len(es) - 1)
      <4>1. \A m \in Nat \ {0} : \A j \in 1..m : j # m => j \in 1..(m - 1)
        OBVIOUS
      <4> QED
        BY <1>5, <2>2, <4>1, Zenon
    <3>2. PICK p \in Seq(E) : /\ p # <<>> /\ RequestAfter("points", p) \notin {Done, Fail}
                              /\ p[Len(p)] = es[n]
      BY <1>1, <3>1, GoingOn, OneCollection
    <3>3. FullPage(p[Len(p)])
      BY <3>2 DEF RequestAfter, PointsNext
    <3> QED
      BY <3>2, <3>3
  <2> QED
    BY <2>1, <2>2
<1>8. es[1].body.total = LastBody(es).total
  <2>1. es[1] \in Members(es) /\ es[Len(es)] \in Members(es)
    BY <1>5 DEF Members
  <2> QED
    BY <1>2, <1>4, <2>1 DEF SameTotal, LastBody
<1>9. \A i \in DOMAIN es : es[i].req = <<"points", Before(es, i)>> /\ FullPage(es[i])
  BY <1>2, <1>5, <1>7 DEF PagesIn
<1>10. Totalled(es, "points")
  BY <1>4, <1>6, <1>8, <1>9, Zenon DEF Totalled, got
<1> QED
  BY <1>4, <1>8, <1>10 DEF got

-----------------------------------------------------------------------------
(* Three collections after each other (hydrology). *)

Finished(ps) ==
    /\ ps # <<>> /\ Len(ps) <= PagesOfCollection
    /\ ~ (Len(ItemsIn(ps)) > RecordsOfRetrieval)
    /\ Len(LastBody(ps).items) < PageLimit
    /\ \A n \in 1..(Len(ps) - 1) : ~ (Len(ps[n].body.items) < PageLimit)

Unfinished(ps) ==
    /\ ps # <<>> /\ Len(ps) <= PagesOfCollection
    /\ \A n \in 1..(Len(ps) - 1) : ~ (Len(ps[n].body.items) < PageLimit)

\* What has been asked for when the last answer is of the kind k.
Stage(p, k) ==
    LET stations == Of(p, "stations")
        measures == Of(p, "measures")
        latest == Of(p, "latest")
    IN
    /\ LastBody(p) = LastBody(Of(p, k)) /\ LastKind(p) = k
    /\ Unfinished(Of(p, k))
    /\ Len(p) = Len(stations) + Len(measures) + Len(latest)
    /\ k = "stations" => measures = <<>>
    /\ k # "stations" => Finished(stations)
    /\ k # "latest" => latest = <<>>
    /\ k = "latest" => Finished(measures)

HydrologyKinds == {"stations", "measures", "latest"}

Staged(p) == p = <<>> \/ \E k \in HydrologyKinds : Stage(p, k)

\* The same kind again.
LEMMA SameStage ==
    ASSUME NEW E, NEW p \in Seq(E), NEW e \in E, NEW k \in HydrologyKinds, Stage(p, k),
           e.req[1] = k, ~ (Len(LastBody(p).items) < PageLimit),
           Len(Of(p, k)) # PagesOfCollection
    PROVE  Stage(Append(p, e), k)
<1> PICK q : q = Append(p, e)
  OBVIOUS
<1>1. Len(q) = Len(p) + 1 /\ q[Len(q)] = e
  OBVIOUS
<1> PICK o \in Seq(E) : o = Of(p, k)
  BY OfAppend
<1> PICK r : r = Append(o, e)
  OBVIOUS
<1>2. Of(q, k) = r /\ \A j : j # k => Of(q, j) = Of(p, j)
  BY OfAppend
<1>3. Len(r) = Len(o) + 1 /\ r[Len(r)] = e /\ (\A i \in 1..Len(o) : r[i] = o[i]) /\ r # <<>>
      /\ Len(o) \in Nat
  OBVIOUS
<1>4. LastBody(q) = LastBody(r) /\ LastKind(q) = k
  BY <1>1, <1>3 DEF LastBody, LastKind
<1>5. Unfinished(r)
  <2>1. Unfinished(o) /\ LastBody(p) = LastBody(o)
    BY DEF Stage
  <2>2. Len(o) < PagesOfCollection
    BY <1>3, <2>1, RetrievalAssumption DEF Unfinished
  <2>3. ASSUME NEW n \in 1..(Len(r) - 1) PROVE ~ (Len(r[n].body.items) < PageLimit)
    <3>1. n \in 1..Len(o) /\ r[n] = o[n]
      BY <1>3
    <3>2. CASE n = Len(o)
      BY <2>1, <3>1, <3>2 DEF LastBody
    <3>3. CASE n # Len(o)
      <4>1. n \in 1..(Len(o) - 1)
        BY <1>3, <3>1, <3>3
      <4> QED
        BY <2>1, <3>1, <4>1 DEF Unfinished
    <3> QED
      BY <3>2, <3>3
  <2>4. Len(r) <= PagesOfCollection
    BY <1>3, <2>2, RetrievalAssumption
  <2> QED
    BY <1>3, <2>3, <2>4 DEF Unfinished
<1>6. Len(q) = Len(Of(q, "stations")) + Len(Of(q, "measures")) + Len(Of(q, "latest"))
  <2>1. Len(p) = Len(Of(p, "stations")) + Len(Of(p, "measures")) + Len(Of(p, "latest"))
    BY DEF Stage
  <2>2. \A j : Of(p, j) \in Seq(E) /\ Len(Of(p, j)) \in Nat
    <3>1. \A j : Of(p, j) \in Seq(E)
      BY OfAppend
    <3> QED
      BY <3>1
  <2>3. /\ Len(Of(q, k)) = Len(Of(p, k)) + 1
        /\ \A j : j # k => Len(Of(q, j)) = Len(Of(p, j))
    BY <1>2, <1>3
  <2>4. Len(Of(p, "stations")) \in Nat /\ Len(Of(p, "measures")) \in Nat
        /\ Len(Of(p, "latest")) \in Nat
    BY <2>2
  <2> PICK a, b, c : a = Len(Of(p, "stations")) /\ b = Len(Of(p, "measures"))
                     /\ c = Len(Of(p, "latest"))
    OBVIOUS
  <2> PICK x, y, z : x = Len(Of(q, "stations")) /\ y = Len(Of(q, "measures"))
                     /\ z = Len(Of(q, "latest"))
    OBVIOUS
  <2>5. a \in Nat /\ b \in Nat /\ c \in Nat /\ Len(q) = a + b + c + 1
    BY <1>1, <2>1, <2>4
  <2>6. \/ x = a + 1 /\ y = b /\ z = c
        \/ x = a /\ y = b + 1 /\ z = c
        \/ x = a /\ y = b /\ z = c + 1
    <3>1. CASE k = "stations"
      BY <2>3, <3>1
    <3>2. CASE k = "measures"
      BY <2>3, <3>2
    <3>3. CASE k = "latest"
      BY <2>3, <3>3
    <3> QED
      BY <3>1, <3>2, <3>3 DEF HydrologyKinds
  <2>7. x + y + z = a + b + c + 1
    BY <2>5, <2>6
  <2>8. Len(q) = x + y + z
    BY <2>5, <2>7, Zenon
  <2> QED
    BY <2>8
<1>7. \A j : j # k => Of(q, j) = Of(p, j)
  BY <1>2
<1> HIDE DEF Unfinished, Finished
<1>8. /\ k = "stations" => Of(q, "measures") = <<>>
      /\ k # "stations" => Finished(Of(q, "stations"))
      /\ k # "latest" => Of(q, "latest") = <<>>
      /\ k = "latest" => Finished(Of(q, "measures"))
  BY <1>7 DEF Stage
<1> QED
  BY <1>2, <1>4, <1>5, <1>6, <1>8 DEF Stage

\* The next kind.
LEMMA NextStage ==
    ASSUME NEW E, NEW p \in Seq(E), NEW e \in E, NEW k \in HydrologyKinds,
           \/ p = <<>> /\ k = "stations"
           \/ Stage(p, "stations") /\ Finished(Of(p, "stations")) /\ k = "measures"
           \/ Stage(p, "measures") /\ Finished(Of(p, "measures")) /\ k = "latest",
           e.req[1] = k
    PROVE  Stage(Append(p, e), k) /\ Of(p, k) = <<>>
<1> PICK q : q = Append(p, e)
  OBVIOUS
<1>1. Len(q) = Len(p) + 1 /\ q[Len(q)] = e
  OBVIOUS
<1>2. Of(p, k) = <<>>
  BY OfEmpty DEF Stage
<1>3. Of(q, k) = <<e>> /\ \A j : j # k => Of(q, j) = Of(p, j)
  <2>1. Of(q, k) = Append(<<>>, e)
    BY <1>2, OfAppend
  <2>2. Append(<<>>, e) = <<e>>
    OBVIOUS
  <2> QED
    BY <2>1, <2>2, OfAppend
<1>4. LastBody(q) = LastBody(<<e>>) /\ LastKind(q) = k
  BY <1>1 DEF LastBody, LastKind
<1>5. Unfinished(<<e>>)
  <2>1. <<e>> # <<>> /\ Len(<<e>>) = 1 /\ 1..(1 - 1) = {}
    OBVIOUS
  <2> QED
    BY <2>1, RetrievalAssumption DEF Unfinished
<1>6. Len(q) = Len(Of(q, "stations")) + Len(Of(q, "measures")) + Len(Of(q, "latest"))
  <2>1. Len(p) = Len(Of(p, "stations")) + Len(Of(p, "measures")) + Len(Of(p, "latest"))
    BY OfEmpty DEF Stage
  <2>2. \A j : Of(p, j) \in Seq(E) /\ Len(Of(p, j)) \in Nat
    <3>1. \A j : Of(p, j) \in Seq(E)
      BY OfAppend
    <3> QED
      BY <3>1
  <2>3. /\ Len(Of(q, k)) = Len(Of(p, k)) + 1
        /\ \A j : j # k => Len(Of(q, j)) = Len(Of(p, j))
    BY <1>2, <1>3
  <2>4. Len(Of(p, "stations")) \in Nat /\ Len(Of(p, "measures")) \in Nat
        /\ Len(Of(p, "latest")) \in Nat
    BY <2>2
  <2> PICK a, b, c : a = Len(Of(p, "stations")) /\ b = Len(Of(p, "measures"))
                     /\ c = Len(Of(p, "latest"))
    OBVIOUS
  <2> PICK x, y, z : x = Len(Of(q, "stations")) /\ y = Len(Of(q, "measures"))
                     /\ z = Len(Of(q, "latest"))
    OBVIOUS
  <2>5. a \in Nat /\ b \in Nat /\ c \in Nat /\ Len(q) = a + b + c + 1
    BY <1>1, <2>1, <2>4
  <2>6. \/ x = a + 1 /\ y = b /\ z = c
        \/ x = a /\ y = b + 1 /\ z = c
        \/ x = a /\ y = b /\ z = c + 1
    <3>1. CASE k = "stations"
      BY <2>3, <3>1
    <3>2. CASE k = "measures"
      BY <2>3, <3>2
    <3>3. CASE k = "latest"
      BY <2>3, <3>3
    <3> QED
      BY <3>1, <3>2, <3>3 DEF HydrologyKinds
  <2>7. x + y + z = a + b + c + 1
    BY <2>5, <2>6
  <2>8. Len(q) = x + y + z
    BY <2>5, <2>7, Zenon
  <2> QED
    BY <2>8
<1>7. /\ k = "stations" => Of(q, "measures") = <<>>
      /\ k # "stations" => Finished(Of(q, "stations"))
      /\ k # "latest" => Of(q, "latest") = <<>>
      /\ k = "latest" => Finished(Of(q, "measures"))
  BY <1>3, OfEmpty DEF Stage
<1> QED
  BY <1>2, <1>3, <1>4, <1>5, <1>6, <1>7 DEF Stage
\* What follows the answers of a stage.
LEMMA HydrologyGoesOn ==
    ASSUME NEW p, NEW k \in HydrologyKinds, Stage(p, k), p # <<>>
    PROVE  /\ HydrologyNext(p) \notin {Done, Fail} =>
                \/ /\ HydrologyNext(p) = <<k, Len(ItemsOf(p, k))>>
                   /\ ~ (Len(LastBody(p).items) < PageLimit)
                   /\ Len(Of(p, k)) # PagesOfCollection
                \/ /\ k = "stations" /\ Finished(Of(p, k))
                   /\ HydrologyNext(p) = <<"measures", 0>>
                \/ /\ k = "measures" /\ Finished(Of(p, k))
                   /\ HydrologyNext(p) = <<"latest", 0>>
           /\ HydrologyNext(p) = Done => k = "latest" /\ Finished(Of(p, k))
<1>1. LastKind(p) = k /\ LastBody(p) = LastBody(Of(p, k)) /\ Unfinished(Of(p, k))
  BY DEF Stage
<1>2. k \in {"stations", "measures", "latest"}
  BY DEF HydrologyKinds
<1>3. ItemsOf(p, k) = ItemsIn(Of(p, k))
  BY DEF ItemsOf
<1>4. Done # Fail /\ \A a, b : <<a, b>> # Done
  BY DEF Done, Fail
<1>5. /\ ~ (Len(ItemsOf(p, k)) > RecordsOfRetrieval) /\ Len(LastBody(p).items) < PageLimit
           => Finished(Of(p, k))
  BY <1>1, <1>3 DEF Unfinished, Finished
<1>6. CASE ~ Distinct(ItemsOf(p, k)) \/ Len(ItemsOf(p, k)) > RecordsOfRetrieval
  <2>1. HydrologyNext(p) = Fail
    BY <1>1, <1>6 DEF HydrologyNext
  <2> QED
    BY <1>4, <2>1
<1>7. CASE ~ (~ Distinct(ItemsOf(p, k)) \/ Len(ItemsOf(p, k)) > RecordsOfRetrieval)
  <2>1. CASE Len(LastBody(p).items) < PageLimit
    <3>1. HydrologyNext(p) = CASE k = "stations" -> <<"measures", 0>>
                               [] k = "measures" -> <<"latest", 0>>
                               [] OTHER -> Done
      BY <1>1, <1>7, <2>1 DEF HydrologyNext
    <3> QED
      BY <1>2, <1>4, <1>5, <1>7, <2>1, <3>1
  <2>2. CASE ~ (Len(LastBody(p).items) < PageLimit)
    <3>1. HydrologyNext(p) = IF Len(Of(p, k)) = PagesOfCollection THEN Fail
                             ELSE <<k, Len(ItemsOf(p, k))>>
      BY <1>1, <1>7, <2>2 DEF HydrologyNext
    <3> QED
      BY <1>4, <2>2, <3>1
  <2> QED
    BY <2>1, <2>2
<1> QED
  BY <1>6, <1>7

LEMMA HydrologyStages ==
    ASSUME NEW E, NEW es \in Seq(E), Asked("hydrology", es)
    PROVE  Staged(es) /\ \A k \in HydrologyKinds : AskedInOrder(es, k)
<1>1. ASSUME NEW n \in 1..Len(es), Staged(Earlier(es, n))
      PROVE  /\ Staged(Append(Earlier(es, n), es[n]))
             /\ \A k \in HydrologyKinds :
                    es[n].req[1] = k => es[n].req = <<k, Len(ItemsOf(Earlier(es, n), k))>>
  <2> PICK x \in Seq(E) : x = Earlier(es, n)
    BY EarlierIs
  <2> PICK e \in E : e = es[n]
    BY ElementOfSeq
  <2>1. e.req = HydrologyNext(x) /\ HydrologyNext(x) \notin {Done, Fail}
    BY DEF Asked, RequestAfter
  <2>2. \A j : Of(x, j) = <<>> => Len(ItemsOf(x, j)) = 0
    BY OfEmpty DEF ItemsOf
  <2>3. \E k \in HydrologyKinds :
          Stage(Append(x, e), k) /\ e.req = <<k, Len(ItemsOf(x, k))>>
    <3>1. CASE x = <<>>
      <4>1. e.req = <<"stations", 0>> /\ e.req[1] = "stations"
        BY <2>1, <3>1 DEF HydrologyNext
      <4>2. Stage(Append(x, e), "stations") /\ Of(x, "stations") = <<>>
        BY <3>1, <4>1, NextStage DEF HydrologyKinds
      <4> QED
        BY <2>2, <4>1, <4>2 DEF HydrologyKinds
    <3>2. CASE x # <<>>
      <4>1. PICK k \in HydrologyKinds : Stage(x, k)
        BY <1>1, <3>2 DEF Staged
      <4>2. \/ /\ HydrologyNext(x) = <<k, Len(ItemsOf(x, k))>>
               /\ ~ (Len(LastBody(x).items) < PageLimit)
               /\ Len(Of(x, k)) # PagesOfCollection
            \/ /\ k = "stations" /\ Finished(Of(x, k))
               /\ HydrologyNext(x) = <<"measures", 0>>
            \/ /\ k = "measures" /\ Finished(Of(x, k))
               /\ HydrologyNext(x) = <<"latest", 0>>
        BY <2>1, <3>2, <4>1, HydrologyGoesOn
      <4>3. CASE /\ HydrologyNext(x) = <<k, Len(ItemsOf(x, k))>>
                 /\ ~ (Len(LastBody(x).items) < PageLimit)
                 /\ Len(Of(x, k)) # PagesOfCollection
        <5>1. e.req[1] = k
          BY <2>1, <4>3
        <5>2. Stage(Append(x, e), k)
          BY <4>1, <4>3, <5>1, SameStage
        <5> QED
          BY <2>1, <4>3, <5>2
      <4>4. CASE k = "stations" /\ Finished(Of(x, k)) /\ HydrologyNext(x) = <<"measures", 0>>
        <5>1. e.req[1] = "measures"
          BY <2>1, <4>4
        <5>2. Stage(Append(x, e), "measures") /\ Of(x, "measures") = <<>>
          BY <4>1, <4>4, <5>1, NextStage DEF HydrologyKinds
        <5> QED
          BY <2>1, <2>2, <4>4, <5>2 DEF HydrologyKinds
      <4>5. CASE k = "measures" /\ Finished(Of(x, k)) /\ HydrologyNext(x) = <<"latest", 0>>
        <5>1. e.req[1] = "latest"
          BY <2>1, <4>5
        <5>2. Stage(Append(x, e), "latest") /\ Of(x, "latest") = <<>>
          BY <4>1, <4>5, <5>1, NextStage DEF HydrologyKinds
        <5> QED
          BY <2>1, <2>2, <4>5, <5>2 DEF HydrologyKinds
      <4> QED
        BY <4>2, <4>3, <4>4, <4>5
    <3> QED
      BY <3>1, <3>2
  <2> QED
    BY <2>3 DEF Staged
<1> DEFINE S == {x \in Seq(E) : Staged(x)}
<1>2. es \in S /\ \A n \in 1..Len(es) : Earlier(es, n) \in S
  <2>1. <<>> \in S
    BY DEF Staged
  <2>2. \A n \in 1..Len(es) : Earlier(es, n) \in S => Append(Earlier(es, n), es[n]) \in S
    <3> SUFFICES ASSUME NEW n \in 1..Len(es), Earlier(es, n) \in S
                 PROVE  Append(Earlier(es, n), es[n]) \in S
      OBVIOUS
    <3>1. Append(Earlier(es, n), es[n]) \in Seq(E)
      BY ElementOfSeq
    <3>2. Staged(Append(Earlier(es, n), es[n]))
      BY <1>1
    <3> QED
      BY <3>1, <3>2
  <2> HIDE DEF S
  <2> QED
    BY <2>1, <2>2, PrefixInduction
<1>3. \A n \in 1..Len(es) : Staged(Earlier(es, n))
  BY <1>2
<1>4. \A k \in HydrologyKinds : AskedInOrder(es, k)
  BY <1>1, <1>3 DEF AskedInOrder
<1> QED
  BY <1>2, <1>4

LEMMA HydrologyAnswers ==
    ASSUME "hydrology" \in Sources, NEW E, NEW es \in Seq(E), Asked("hydrology", es),
           NEW vs, NEW cs, ServedIn("hydrology", es, vs, cs),
           RequestAfter("hydrology", es) = Done
    PROVE  /\ \A k \in HydrologyKinds :
                /\ Paged(Of(es, k), k) /\ Finished(Of(es, k))
                /\ PagesIn("hydrology", Of(es, k), k)
           /\ Len(es) = Len(Of(es, "stations")) + Len(Of(es, "measures")) + Len(Of(es, "latest"))
<1>1. HydrologyNext(es) = Done
  BY DEF RequestAfter
<1>2. es # <<>>
  BY <1>1 DEF HydrologyNext, Done
<1>3. PICK k \in HydrologyKinds : Stage(es, k)
  BY <1>2, HydrologyStages DEF Staged
<1>4. k = "latest" /\ Finished(Of(es, "latest"))
  BY <1>1, <1>2, <1>3, HydrologyGoesOn
<1>5. Finished(Of(es, "stations")) /\ Finished(Of(es, "measures"))
  BY <1>3, <1>4 DEF Stage
<1>6. ASSUME NEW j \in HydrologyKinds
      PROVE  /\ Paged(Of(es, j), j) /\ Finished(Of(es, j))
             /\ PagesIn("hydrology", Of(es, j), j)
  <2>1. Finished(Of(es, j))
    BY <1>4, <1>5 DEF HydrologyKinds
  <2>2. PagesIn("hydrology", Of(es, j), j)
    <3>1. j \in Collections \cap ListsOf("hydrology")
      BY DEF HydrologyKinds, Collections, ListsOf
    <3>2. AskedInOrder(es, j)
      BY HydrologyStages
    <3> QED
      BY <3>1, <3>2, PagesInOrder
  <2>3. Of(es, j) \in Seq(E)
    <3>1. es[1] \in E
      BY <1>2, NotEmpty, ElementOfSeq
    <3> QED
      BY <3>1, OfAppend
  <2>4. Paged(Of(es, j), j)
    BY <2>1, <2>2, <2>3, PagesComplete DEF Finished
  <2> QED
    BY <2>1, <2>2, <2>4
<1>7. Len(es) = Len(Of(es, "stations")) + Len(Of(es, "measures")) + Len(Of(es, "latest"))
  BY <1>3 DEF Stage
<1> QED
  BY <1>6, <1>7

-----------------------------------------------------------------------------
(* Pages, then what their records refer to (observations). *)

Paging(x) ==
    /\ x # <<>> /\ Len(x) <= PagesOfCollection
    /\ \A i \in 1..Len(x) : x[i].req[1] = "observations"
    /\ \A i \in 1..(Len(x) - 1) : FullPage(x[i])

\* The pages p are complete; the rest is what they refer to, in order.
Decoding(x, p) ==
    LET n == Len(p)
        units == ReferencedUnits(ItemsIn(p))
    IN
    /\ Paging(p) /\ FullPage(p[n]) /\ SameTotal(p, "observations")
    /\ Distinct(ItemsIn(p)) /\ Len(ItemsIn(p)) = LastBody(p).total
    /\ n + 1 <= Len(x)
    /\ \A i \in 1..n : x[i] = p[i]
    /\ x[n + 1].req = <<"determinand", Scope.determinand>>
    /\ \A i \in 1..(Len(x) - n - 1) : i \in 1..Len(units) /\ x[n + 1 + i].req = <<"unit", units[i]>>
    /\ Of(x, "observations") = p /\ Of(x, "determinand") = <<x[n + 1]>>
    /\ Len(Of(x, "unit")) = Len(x) - n - 1
    /\ \A i \in 1..(Len(x) - n - 1) : Of(x, "unit")[i] = x[n + 1 + i]

LEMMA PagingOf ==
    ASSUME NEW E, NEW x \in Seq(E), Paging(x)
    PROVE  /\ Of(x, "observations") = x /\ ItemsOf(x, "observations") = ItemsIn(x)
           /\ LastKind(x) = "observations" /\ Len(x) \in Nat \ {0}
<1>1. Of(x, "observations") = x
  BY OnlyKind DEF Paging
<1>2. Len(x) \in Nat \ {0} /\ Len(x) \in 1..Len(x)
  BY NotEmpty DEF Paging
<1> QED
  BY <1>1, <1>2 DEF ItemsOf, LastKind, Paging

LEMMA PagingOn ==
    ASSUME NEW E, NEW x \in Seq(E), NEW e \in E, e.req[1] = "observations",
           x = <<>> \/ (Paging(x) /\ FullPage(x[Len(x)]) /\ Len(x) # PagesOfCollection)
    PROVE  Paging(Append(x, e))
<1> PICK y : y = Append(x, e)
  OBVIOUS
<1>1. Len(y) = Len(x) + 1 /\ y[Len(x) + 1] = e /\ Len(x) \in Nat /\ y # <<>>
  OBVIOUS
<1>2. \A i \in 1..Len(x) : y[i] = x[i]
  OBVIOUS
<1>3. \A i \in 1..Len(x) : x[i].req[1] = "observations" /\ FullPage(x[i])
  <2> SUFFICES ASSUME NEW i \in 1..Len(x)
               PROVE  x[i].req[1] = "observations" /\ FullPage(x[i])
    OBVIOUS
  <2>1. x # <<>>
    OBVIOUS
  <2>2. i = Len(x) \/ i \in 1..(Len(x) - 1)
    BY <1>1
  <2> QED
    BY <2>1, <2>2 DEF Paging
<1>4. Len(y) <= PagesOfCollection
  <2>1. CASE x = <<>>
    BY <1>1, <2>1, RetrievalAssumption
  <2>2. CASE x # <<>>
    BY <1>1, <2>2, RetrievalAssumption DEF Paging
  <2> QED
    BY <2>1, <2>2
<1>5. ASSUME NEW i \in 1..Len(y) PROVE y[i].req[1] = "observations"
  <2>1. i = Len(x) + 1 \/ i \in 1..Len(x)
    BY <1>1
  <2> QED
    BY <1>1, <1>2, <1>3, <2>1
<1>6. ASSUME NEW i \in 1..(Len(y) - 1) PROVE FullPage(y[i])
  <2>1. i \in 1..Len(x)
    BY <1>1
  <2> QED
    BY <1>2, <1>3, <2>1
<1> QED
  BY <1>1, <1>4, <1>5, <1>6 DEF Paging

LEMMA DecodingStarts ==
    ASSUME NEW E, NEW x \in Seq(E), NEW e \in E, Paging(x), FullPage(x[Len(x)]),
           SameTotal(x, "observations"), Distinct(ItemsIn(x)),
           Len(ItemsIn(x)) = LastBody(x).total,
           e.req = <<"determinand", Scope.determinand>>
    PROVE  Decoding(Append(x, e), x)
<1> PICK y : y = Append(x, e)
  OBVIOUS
<1>1. Len(y) = Len(x) + 1 /\ y[Len(x) + 1] = e /\ Len(x) \in Nat
  OBVIOUS
<1>2. \A i \in 1..Len(x) : y[i] = x[i]
  OBVIOUS
<1>3. e.req[1] = "determinand"
  OBVIOUS
<1>4. \A i \in 1..Len(x) : x[i].req[1] = "observations"
  BY DEF Paging
<1>5. Members(Of(x, "determinand")) = {} /\ Members(Of(x, "unit")) = {}
  <2>1. DOMAIN x = 1..Len(x)
    OBVIOUS
  <2>2. \A m \in Members(x) : m.req[1] = "observations"
    BY <1>4, <2>1 DEF Members
  <2> QED
    BY <2>2, OfMembers
<1>6. Of(x, "determinand") = <<>> /\ Of(x, "unit") = <<>>
  <2>1. \A o \in Seq(E) : Members(o) = {} => o = <<>>
    <3> SUFFICES ASSUME NEW o \in Seq(E), o # <<>> PROVE Members(o) # {}
      OBVIOUS
    <3>1. 1 \in DOMAIN o
      OBVIOUS
    <3> QED
      BY <3>1 DEF Members
  <2> QED
    BY <1>5, <2>1, OfAppend
<1>7. Of(y, "observations") = x /\ Of(y, "unit") = <<>> /\ Of(y, "determinand") = <<e>>
  <2>1. Of(y, "observations") = Of(x, "observations") /\ Of(y, "unit") = Of(x, "unit")
    BY <1>3, OfAppend
  <2>2. Of(y, "determinand") = Append(Of(x, "determinand"), e)
    BY <1>3, OfAppend
  <2>3. Append(<<>>, e) = <<e>>
    OBVIOUS
  <2> QED
    BY <1>6, <2>1, <2>2, <2>3, PagingOf
<1>8. Len(y) - Len(x) - 1 = 0 /\ Len(<<>>) = 0 /\ 1..0 = {}
  BY <1>1
<1> QED
  BY <1>1, <1>2, <1>7, <1>8 DEF Decoding

\* The kind and the number of what has been looked up.
LEMMA DecodingOf ==
    ASSUME NEW E, NEW x \in Seq(E), NEW p \in Seq(E), Decoding(x, p)
    PROVE  /\ ItemsOf(x, "observations") = ItemsIn(p)
           /\ LastKind(x) # "observations"
           /\ x # <<>> /\ Len(x) \in Nat /\ Len(p) \in Nat
<1>1. ItemsOf(x, "observations") = ItemsIn(p)
  BY DEF Decoding, ItemsOf
<1>2. Len(x) \in Nat /\ Len(p) \in Nat /\ Len(p) + 1 <= Len(x)
  BY DEF Decoding
<1>3. LastKind(x) # "observations"
  <2>1. CASE Len(x) = Len(p) + 1
    <3>1. x[Len(x)].req[1] = "determinand"
      BY <2>1 DEF Decoding
    <3> QED
      BY <3>1 DEF LastKind
  <2>2. CASE Len(x) # Len(p) + 1
    <3>1. \A l, n \in Nat : n + 1 <= l /\ l # n + 1 =>
            l - n - 1 \in 1..(l - n - 1) /\ n + 1 + (l - n - 1) = l
      OBVIOUS
    <3>2. PICK j \in 1..(Len(x) - Len(p) - 1) : Len(p) + 1 + j = Len(x)
      BY <1>2, <2>2, <3>1, Zenon
    <3>3. \E a : x[Len(p) + 1 + j].req = <<"unit", a>>
      BY DEF Decoding
    <3>4. x[Len(x)].req[1] = "unit"
      BY <3>2, <3>3
    <3> QED
      BY <3>4 DEF LastKind
  <2> QED
    BY <2>1, <2>2
<1>4. x # <<>>
  BY <1>2
<1> QED
  BY <1>1, <1>2, <1>3, <1>4

LEMMA DecodingOn ==
    ASSUME NEW E, NEW x \in Seq(E), NEW e \in E, NEW p \in Seq(E), Decoding(x, p),
           NEW units, units = ReferencedUnits(ItemsIn(p)), Len(units) \in Nat,
           Len(Of(x, "unit")) < Len(units),
           e.req = <<"unit", units[Len(Of(x, "unit")) + 1]>>
    PROVE  Decoding(Append(x, e), p)
<1> PICK y : y = Append(x, e)
  OBVIOUS
<1> PICK n \in Nat, m \in Nat : n = Len(p) /\ m = Len(Of(x, "unit"))
  <2>1. Of(x, "unit") \in Seq(E)
    BY OfAppend
  <2> QED
    BY <2>1
<1>1. Len(x) = n + 1 + m /\ Len(x) \in Nat
  BY DEF Decoding
<1>2. Len(y) = n + 1 + m + 1 /\ y[n + 1 + m + 1] = e /\ \A i \in 1..(n + 1 + m) : y[i] = x[i]
  <2>1. Len(y) = Len(x) + 1 /\ y[Len(x) + 1] = e /\ \A i \in 1..Len(x) : y[i] = x[i]
    OBVIOUS
  <2> QED
    BY <1>1, <2>1
<1>3. e.req[1] = "unit"
  OBVIOUS
<1> PICK o \in Seq(E) : o = Of(x, "unit")
  BY OfAppend
<1>4. /\ Of(y, "observations") = p /\ Of(y, "determinand") = <<x[n + 1]>>
      /\ Of(y, "unit") = Append(o, e)
  <2>1. /\ Of(y, "observations") = Of(x, "observations")
        /\ Of(y, "determinand") = Of(x, "determinand")
        /\ Of(y, "unit") = Append(Of(x, "unit"), e)
    BY <1>3, OfAppend
  <2>2. Of(x, "observations") = p /\ Of(x, "determinand") = <<x[n + 1]>>
    BY DEF Decoding
  <2> QED
    BY <2>1, <2>2
<1>5. Len(Append(o, e)) = m + 1 /\ Append(o, e)[m + 1] = e /\ \A i \in 1..m : Append(o, e)[i] = o[i]
  OBVIOUS
<1>6. Len(y) - n - 1 = m + 1 /\ Len(x) - n - 1 = m
  BY <1>1, <1>2
<1>7. n + 1 \in 1..(n + 1 + m) /\ (\A i \in 1..n : i \in 1..(n + 1 + m))
      /\ (\A i \in 1..m : n + 1 + i \in 1..(n + 1 + m)) /\ n + 1 + (m + 1) = n + 1 + m + 1
  OBVIOUS
<1>8. ASSUME NEW i \in 1..(m + 1)
      PROVE  /\ i \in 1..Len(units) /\ y[n + 1 + i].req = <<"unit", units[i]>>
             /\ Of(y, "unit")[i] = y[n + 1 + i]
  <2>1. CASE i = m + 1
    BY <1>2, <1>4, <1>5, <1>7, <2>1
  <2>2. CASE i # m + 1
    <3>1. i \in 1..m
      BY <2>2
    <3>2. i \in 1..Len(units) /\ x[n + 1 + i].req = <<"unit", units[i]>> /\ o[i] = x[n + 1 + i]
      BY <1>6, <3>1 DEF Decoding
    <3> QED
      BY <1>2, <1>4, <1>5, <1>7, <3>1, <3>2
  <2> QED
    BY <2>1, <2>2
<1>9. (\A i \in 1..n : y[i] = p[i]) /\ y[n + 1] = x[n + 1]
  BY <1>2, <1>7 DEF Decoding
<1>10. n + 1 <= Len(y) /\ Len(Of(y, "unit")) = m + 1
  BY <1>2, <1>4, <1>5
<1>11. /\ Paging(p) /\ FullPage(p[n]) /\ SameTotal(p, "observations")
       /\ Distinct(ItemsIn(p)) /\ Len(ItemsIn(p)) = LastBody(p).total
       /\ x[n + 1].req = <<"determinand", Scope.determinand>>
  BY DEF Decoding
<1> QED
  BY <1>4, <1>6, <1>8, <1>9, <1>10, <1>11 DEF Decoding
\* What follows the pages.
LEMMA ObservationsAfterPages ==
    ASSUME NEW E, NEW x \in Seq(E), Paging(x), ObservationsNext(x) # Fail
    PROVE  /\ FullPage(x[Len(x)]) /\ SameTotal(x, "observations") /\ Distinct(ItemsIn(x))
           /\ \/ /\ Len(ItemsIn(x)) = LastBody(x).total
                 /\ ObservationsNext(x) = <<"determinand", Scope.determinand>>
              \/ /\ Len(x) # PagesOfCollection
                 /\ ObservationsNext(x) = <<"observations", Len(ItemsIn(x))>>
<1>1. x # <<>> /\ LastKind(x) = "observations" /\ ItemsOf(x, "observations") = ItemsIn(x)
  BY PagingOf DEF Paging
<1> QED
  BY <1>1 DEF ObservationsNext

\* What follows what has been looked up.
LEMMA ObservationsAfterLookup ==
    ASSUME NEW E, NEW x \in Seq(E), NEW p \in Seq(E), Decoding(x, p),
           ObservationsNext(x) # Fail,
           NEW units, units = ReferencedUnits(ItemsIn(p)),
           NEW asked, asked = Len(Of(x, "unit"))
    PROVE  \/ /\ asked < Len(units)
              /\ ObservationsNext(x) = <<"unit", units[asked + 1]>>
           \/ /\ ~ (asked < Len(units)) /\ ~ (Len(units) > MaxUnits)
              /\ ObservationsNext(x) = Done
              /\ ObservationsAccepted(Scope, ItemsIn(p),
                     Of(x, "determinand")[1].body.items[1],
                     [i \in 1..asked |-> Of(x, "unit")[i].body.items[1]])
<1>1. x # <<>> /\ LastKind(x) # "observations" /\ ItemsOf(x, "observations") = ItemsIn(p)
  BY DecodingOf
<1> QED
  BY <1>1 DEF ObservationsNext

\* The units are a finite list.
LEMMA UnitsAre ==
    ASSUME NEW T, NEW got \in Seq(T)
    PROVE  /\ ReferencedUnits(got) \in Seq({o.unit.id : o \in Members(got)})
           /\ Len(ReferencedUnits(got)) \in Nat
           /\ Members(ReferencedUnits(got)) = {o.unit.id : o \in Members(got)}
           /\ \A i, j \in 1..Len(ReferencedUnits(got)) :
                  ReferencedUnits(got)[i] = ReferencedUnits(got)[j] => i = j
<1> DEFINE U == {o.unit.id : o \in Members(got)}
           f == [o \in Members(got) |-> o.unit.id]
<1>1. f \in Surjection(Members(got), U)
  BY DEF Surjection
<1>2. IsFiniteSet(U)
  BY <1>1, MembersFinite, FS_Surjection
<1> HIDE DEF U
<1>3. /\ SetToSeq(U) \in Seq(U) /\ Members(SetToSeq(U)) = U
      /\ \A i, j \in 1..Len(SetToSeq(U)) : SetToSeq(U)[i] = SetToSeq(U)[j] => i = j
  BY <1>2, SetToSeqIs
<1>4. Len(SetToSeq(U)) \in Nat
  BY <1>3
<1> QED
  BY <1>3, <1>4 DEF ReferencedUnits, U

ObservationsStaged(E, x) ==
    x = <<>> \/ Paging(x) \/ \E p \in Seq(E) : Decoding(x, p)

LEMMA ObservationsStages ==
    ASSUME "observations" \in Sources, NEW E, NEW es \in Seq(E), Asked("observations", es),
           NEW vs, NEW cs, ServedIn("observations", es, vs, cs)
    PROVE  /\ ObservationsStaged(E, es)
           /\ PagesIn("observations", Of(es, "observations"), "observations")
<1> DEFINE O == "observations"
           S == {x \in Seq(E) : ObservationsStaged(E, x) /\ PagesIn(O, Of(x, O), O)}
<1>0. O \in Collections \cap ListsOf(O)
  BY DEF Collections, ListsOf
<1>1. <<>> \in S
  BY OfEmpty, NoPages DEF ObservationsStaged
<1>2. ASSUME NEW n \in 1..Len(es), Earlier(es, n) \in S
      PROVE  Append(Earlier(es, n), es[n]) \in S
  <2> PICK x \in Seq(E) : x = Earlier(es, n)
    BY EarlierIs
  <2> PICK e \in E : e = es[n]
    BY ElementOfSeq
  <2>1. e.req = ObservationsNext(x) /\ ObservationsNext(x) \notin {Done, Fail}
    BY DEF Asked, RequestAfter
  <2>2. ObservationsStaged(E, x) /\ PagesIn(O, Of(x, O), O)
    BY <1>2
  <2>3. Append(x, e) \in Seq(E) /\ Of(x, O) \in Seq(E)
    BY OfAppend
  <2>4. ASSUME e.req = <<O, Len(ItemsIn(Of(x, O)))>> PROVE PagesIn(O, Of(Append(x, e), O), O)
    <3>1. Of(Append(x, e), O) = Append(Of(x, O), e)
      BY <2>4, OfAppend
    <3>2. Len(ItemsIn(Of(x, O))) \in Nat
      BY <2>2 DEF PagesIn
    <3>3. e.body.items \in Seq(Records(O, O)) /\ e.body.total \in Nat
      BY <1>0, <2>4, <3>2, PageAnswer
    <3> QED
      BY <2>2, <2>3, <2>4, <3>1, <3>3, PageAppended
  <2>5. ASSUME e.req[1] # O PROVE PagesIn(O, Of(Append(x, e), O), O)
    BY <2>2, <2>5, OfAppend
  <2>6. CASE x = <<>>
    <3>1. e.req = <<O, 0>> /\ e.req[1] = O
      BY <2>1, <2>6 DEF ObservationsNext
    <3>2. Paging(Append(x, e))
      BY <2>6, <3>1, PagingOn
    <3>3. Len(ItemsIn(Of(x, O))) = 0
      BY <2>6, OfEmpty
    <3> QED
      BY <2>3, <2>4, <3>1, <3>2, <3>3 DEF ObservationsStaged
  <2>7. CASE Paging(x)
    <3>1. FullPage(x[Len(x)]) /\ SameTotal(x, O) /\ Distinct(ItemsIn(x))
      BY <2>1, <2>7, ObservationsAfterPages
    <3>2. CASE /\ Len(ItemsIn(x)) = LastBody(x).total
               /\ ObservationsNext(x) = <<"determinand", Scope.determinand>>
      <4>1. e.req[1] = "determinand"
        BY <2>1, <3>2
      <4>2. Decoding(Append(x, e), x)
        BY <2>1, <2>7, <3>1, <3>2, DecodingStarts
      <4> QED
        BY <2>3, <2>5, <4>1, <4>2 DEF ObservationsStaged
    <3>3. CASE /\ Len(x) # PagesOfCollection
               /\ ObservationsNext(x) = <<O, Len(ItemsIn(x))>>
      <4>1. e.req[1] = O
        BY <2>1, <3>3
      <4>2. Paging(Append(x, e))
        BY <2>7, <3>1, <3>3, <4>1, PagingOn
      <4>3. Of(x, O) = x
        BY <2>7, PagingOf
      <4> QED
        BY <2>1, <2>3, <2>4, <3>3, <4>2, <4>3 DEF ObservationsStaged
    <3> QED
      BY <2>1, <2>7, <3>2, <3>3, ObservationsAfterPages
  <2>8. CASE \E p \in Seq(E) : Decoding(x, p)
    <3>1. PICK p \in Seq(E) : Decoding(x, p)
      BY <2>8
    <3> PICK units : units = ReferencedUnits(ItemsIn(p))
      OBVIOUS
    <3> PICK asked : asked = Len(Of(x, "unit"))
      OBVIOUS
    <3>2. asked < Len(units) /\ ObservationsNext(x) = <<"unit", units[asked + 1]>>
      BY <2>1, <3>1, ObservationsAfterLookup
    <3>3. Len(units) \in Nat
      <4>1. Of(x, O) = p
        BY <3>1 DEF Decoding
      <4>2. ItemsIn(p) \in Seq(Records(O, O))
        BY <2>2, <4>1 DEF PagesIn
      <4> QED
        BY <4>2, UnitsAre
    <3>4. e.req[1] = "unit"
      BY <2>1, <3>2
    <3>5. Decoding(Append(x, e), p)
      BY <2>1, <3>1, <3>2, <3>3, DecodingOn
    <3> QED
      BY <2>3, <2>5, <3>4, <3>5 DEF ObservationsStaged
  <2> QED
    BY <2>2, <2>6, <2>7, <2>8 DEF ObservationsStaged
<1>3. es \in S
  <2> HIDE DEF S
  <2> QED
    BY <1>1, <1>2, PrefixInduction
<1> QED
  BY <1>3

LEMMA ObservationsAnswers ==
    ASSUME "observations" \in Sources, NEW E, NEW es \in Seq(E), Asked("observations", es),
           NEW vs, NEW cs, ServedIn("observations", es, vs, cs),
           RequestAfter("observations", es) = Done
    PROVE  ObservationsReads(es)
<1>1. ObservationsNext(es) = Done /\ Done # Fail /\ \A a, b : <<a, b>> # Done
  BY DEF RequestAfter, Done, Fail
<1>2. PICK p \in Seq(E) : Decoding(es, p)
  <2>1. es # <<>>
    BY <1>1 DEF ObservationsNext
  <2>2. ~ Paging(es)
    BY <1>1, ObservationsAfterPages
  <2> QED
    BY <2>1, <2>2, ObservationsStages DEF ObservationsStaged
<1> PICK n : n = Len(p)
  OBVIOUS
<1> PICK got : got = ItemsIn(p)
  OBVIOUS
<1> PICK units : units = ReferencedUnits(got)
  OBVIOUS
<1> PICK asked : asked = Len(Of(es, "unit"))
  OBVIOUS
<1>3. /\ Of(es, "observations") = p /\ ItemsOf(es, "observations") = got
      /\ Len(es) \in Nat /\ n \in Nat
  BY <1>2, DecodingOf DEF Decoding
<1>4. PagesIn("observations", p, "observations")
  BY <1>3, ObservationsStages
<1>5. Len(units) \in Nat /\ DOMAIN units = 1..Len(units)
  <2>1. got \in Seq(Records("observations", "observations"))
    BY <1>4 DEF PagesIn
  <2>2. units \in Seq({o.unit.id : o \in Members(got)})
    BY <2>1, UnitsAre
  <2> QED
    BY <2>2
<1>6. /\ ~ (asked < Len(units))
      /\ ObservationsAccepted(Scope, got, Of(es, "determinand")[1].body.items[1],
                              [i \in 1..asked |-> Of(es, "unit")[i].body.items[1]])
  BY <1>1, <1>2, ObservationsAfterLookup
<1>7. /\ Paging(p) /\ FullPage(p[n]) /\ SameTotal(p, "observations")
      /\ Len(got) = LastBody(p).total
      /\ n + 1 <= Len(es) /\ \A i \in 1..n : es[i] = p[i]
  BY <1>2 DEF Decoding
<1>8. /\ es[n + 1].req = <<"determinand", Scope.determinand>>
      /\ Of(es, "determinand") = <<es[n + 1]>>
      /\ asked = Len(es) - n - 1
      /\ \A i \in 1..asked : /\ i \in 1..Len(units) /\ es[n + 1 + i].req = <<"unit", units[i]>>
                             /\ Of(es, "unit")[i] = es[n + 1 + i]
  BY <1>2 DEF Decoding
<1>9. asked = Len(units) /\ Len(es) = n + 1 + Len(units)
  <2>1. asked \in Nat
    BY <1>3, <1>7, <1>8
  <2>2. asked <= Len(units)
    <3>1. asked # 0 => asked \in 1..asked
      BY <2>1
    <3> QED
      BY <1>5, <1>8, <2>1, <3>1
  <2>3. asked = Len(units)
    BY <1>5, <1>6, <2>1, <2>2
  <2> QED
    BY <1>3, <1>8, <2>1, <2>3
<1>10. SubSeq(es, 1, n) = p
  <2>1. \A i \in 1..n : es[i] \in E
    BY <1>3, <1>7
  <2>2. SubSeq(es, 1, n) \in Seq(E) /\ Len(SubSeq(es, 1, n)) = n
        /\ \A i \in 1..n : SubSeq(es, 1, n)[i] = es[i]
    BY <1>3, <1>7
  <2> QED
    BY <1>7, <2>2, SeqEqual
<1>11. Totalled(p, "observations")
  <2>1. Of(p, "observations") = p /\ ItemsOf(p, "observations") = got /\ Len(p) \in Nat \ {0}
    BY <1>7, PagingOf
  <2>2. Len(p) \in 1..PagesOfCollection /\ DOMAIN p = 1..Len(p) /\ 1 \in 1..Len(p)
        /\ Len(p) \in 1..Len(p)
    <3>1. Len(p) <= PagesOfCollection
      BY <1>7 DEF Paging
    <3> QED
      BY <2>1, <3>1, RetrievalAssumption
  <2>3. \A i \in 1..Len(p) : FullPage(p[i])
    <3> SUFFICES ASSUME NEW i \in 1..Len(p) PROVE FullPage(p[i])
      OBVIOUS
    <3>1. \A m \in Nat \ {0} : \A j \in 1..m : j = m \/ j \in 1..(m - 1)
      OBVIOUS
    <3>2. i = n \/ i \in 1..(Len(p) - 1)
      BY <2>1, <3>1, Zenon
    <3> QED
      BY <1>7, <3>2 DEF Paging
  <2>4. p[1].body.total = LastBody(p).total
    <3>1. p[1] \in Members(p) /\ p[Len(p)] \in Members(p)
      BY <2>2 DEF Members
    <3> QED
      BY <1>7, <2>1, <3>1 DEF SameTotal, LastBody
  <2>5. \A i \in DOMAIN p : p[i].req = <<"observations", Before(p, i)>> /\ FullPage(p[i])
    BY <1>4, <2>2, <2>3 DEF PagesIn
  <2> QED
    BY <1>7, <2>1, <2>2, <2>4, <2>5, Zenon DEF Totalled
<1>12. Of(es, "determinand")[1].body.items[1] = es[n + 1].body.items[1]
  BY <1>8
<1>13. [i \in 1..asked |-> Of(es, "unit")[i].body.items[1]]
         = [i \in DOMAIN units |-> es[n + 1 + i].body.items[1]]
  BY <1>5, <1>8, <1>9
<1>14. ObservationsAccepted(Scope, got, es[n + 1].body.items[1],
                            [i \in DOMAIN units |-> es[n + 1 + i].body.items[1]])
  BY <1>6, <1>12, <1>13, Zenon
<1>15. \A i \in DOMAIN units : es[n + 1 + i].req = <<"unit", units[i]>>
  BY <1>5, <1>8, <1>9
<1> QED
  BY <1>3, <1>8, <1>9, <1>10, <1>11, <1>14, <1>15, Zenon DEF ObservationsReads

-----------------------------------------------------------------------------
(* Pages by identity between two looks at the same item (reservoirs). *)

LEMMA PageCountIs ==
    ASSUME NEW ids, Len(ids) \in Nat
    PROVE  /\ PageCount(ids) \in Nat /\ PageCount(ids) * PageLimit >= Len(ids)
           /\ Len(ids) >= 1 => PageCount(ids) >= 1
<1> PICK l \in Nat, p \in Nat \ {0} : l = Len(ids) /\ p = PageLimit
  BY RetrievalAssumption
<1>1. (l + p - 1) \div p \in Nat
  OBVIOUS
<1>2. ((l + p - 1) \div p) * p >= l
  OBVIOUS
<1>3. l >= 1 => (l + p - 1) \div p >= 1
  OBVIOUS
<1> QED
  BY <1>1, <1>2, <1>3 DEF PageCount

\* Before the identities are known.
Opening(x) ==
    /\ Len(x) <= 2
    /\ Len(x) >= 1 => x[1].req = <<"item", 1>>
    /\ Len(x) >= 2 => x[2].req = <<"layer", 0>>
    /\ Of(x, "page") = <<>> /\ Of(x, "ids") = <<>>
    /\ Of(x, "item") = IF Len(x) = 0 THEN <<>> ELSE <<x[1]>>

\* The identities are known, and q pages have been read.
PagesRead(x, q) ==
    /\ Len(x) >= 3 + q /\ q <= PagesOfCollection
    /\ x[1].req = <<"item", 1>> /\ x[2].req = <<"layer", 0>> /\ x[3].req = <<"ids", 1>>
    /\ q > 0 => /\ Len(x[3].body.items) \in 1..RecordsOfRetrieval
                /\ q <= PageCount(x[3].body.items)
    /\ \A i \in 1..q : x[3 + i].req = <<"page", PageOf(x[3].body.items, i)>>
    /\ Len(Of(x, "page")) = q
    /\ \A i \in 1..q : Of(x, "page")[i] = x[3 + i]

AllPagesRead(x, q) ==
    /\ PagesRead(x, q) /\ Len(x[3].body.items) \in 1..RecordsOfRetrieval
    /\ q = PageCount(x[3].body.items) /\ Len(x) >= 4 + q /\ x[4 + q].req = <<"ids", 2>>
    /\ Of(x, "ids") = <<x[3], x[4 + q]>>

ReservoirsStaged(x) ==
    \/ Opening(x)
    \/ \E q \in Nat : \/ /\ PagesRead(x, q) /\ Len(x) = 3 + q
                         /\ Of(x, "ids") = <<x[3]>> /\ Of(x, "item") = <<x[1]>>
                      \/ /\ AllPagesRead(x, q) /\ Len(x) = 4 + q
                         /\ Of(x, "item") = <<x[1]>>
                      \/ /\ AllPagesRead(x, q) /\ Len(x) = 5 + q
                         /\ x[5 + q].req = <<"item", 2>>
                         /\ Of(x, "item") = <<x[1], x[5 + q]>>

\* What has been read stays when something else is asked for.
LEMMA PagesStay ==
    ASSUME NEW E, NEW x \in Seq(E), NEW e \in E, NEW q \in Nat, PagesRead(x, q),
           e.req[1] # "page"
    PROVE  PagesRead(Append(x, e), q)
<1> PICK y : y = Append(x, e)
  OBVIOUS
<1>1. Len(x) \in Nat /\ Len(x) >= 3 + q /\ Len(y) = Len(x) + 1
  BY DEF PagesRead
<1>2. \A i \in 1..Len(x) : y[i] = x[i]
  OBVIOUS
<1>3. y[1] = x[1] /\ y[2] = x[2] /\ y[3] = x[3] /\ \A i \in 1..q : y[3 + i] = x[3 + i]
  BY <1>1, <1>2
<1>4. Of(y, "page") = Of(x, "page")
  BY OfAppend
<1>5. Len(y) >= 3 + q
  BY <1>1
<1>6. PagesRead(y, q)
  BY <1>3, <1>4, <1>5 DEF PagesRead
<1> QED
  BY <1>6

LEMMA OpeningOn ==
    ASSUME NEW E, NEW x \in Seq(E), NEW e \in E, Opening(x), e.req = ReservoirsNext(x)
    PROVE  ReservoirsStaged(Append(x, e))
<1> PICK y : y = Append(x, e)
  OBVIOUS
<1>1. Len(x) \in 0..2 /\ Len(y) = Len(x) + 1 /\ y[Len(x) + 1] = e
  <2>1. Len(x) \in Nat /\ Len(y) = Len(x) + 1 /\ y[Len(x) + 1] = e
    OBVIOUS
  <2>2. Len(x) <= 2
    BY DEF Opening
  <2>3. \A l \in Nat : l <= 2 => l \in 0..2
    OBVIOUS
  <2> QED
    BY <2>1, <2>2, <2>3, Zenon
<1>2. \A i \in 1..Len(x) : y[i] = x[i]
  OBVIOUS
<1>3. Append(<<>>, e) = <<e>> /\ Len(<<>>) = 0 /\ 1..0 = {}
  OBVIOUS
<1>4. CASE Len(x) = 0
  <2>1. x = <<>>
    BY <1>4, EmptySeq
  <2>2. e.req = <<"item", 1>>
    BY <2>1 DEF ReservoirsNext
  <2>3. e.req[1] = "item"
    BY <2>2
  <2>4. Of(y, "item") = <<e>> /\ Of(y, "page") = <<>> /\ Of(y, "ids") = <<>>
    <3>1. /\ Of(y, "item") = Append(Of(x, "item"), e)
          /\ Of(y, "page") = Of(x, "page") /\ Of(y, "ids") = Of(x, "ids")
      BY <2>3, OfAppend
    <3> QED
      BY <1>3, <1>4, <3>1 DEF Opening
  <2>5. Opening(y)
    BY <1>1, <1>4, <2>2, <2>4 DEF Opening
  <2> QED
    BY <2>5 DEF ReservoirsStaged
<1>5. CASE Len(x) = 1
  <2>1. x # <<>>
    BY <1>5
  <2>2. e.req = <<"layer", 0>>
    BY <1>5, <2>1 DEF ReservoirsNext
  <2>3. e.req[1] = "layer"
    BY <2>2
  <2>4. Of(y, "item") = <<x[1]>> /\ Of(y, "page") = <<>> /\ Of(y, "ids") = <<>>
    <3>1. /\ Of(y, "item") = Of(x, "item")
          /\ Of(y, "page") = Of(x, "page") /\ Of(y, "ids") = Of(x, "ids")
      BY <2>3, OfAppend
    <3> QED
      BY <1>5, <3>1 DEF Opening
  <2>5. y[1] = x[1] /\ y[2] = e /\ Len(y) = 2
    BY <1>1, <1>2, <1>5
  <2>6. Opening(y)
    BY <1>5, <2>2, <2>4, <2>5 DEF Opening
  <2> QED
    BY <2>6 DEF ReservoirsStaged
<1>6. CASE Len(x) = 2
  <2>1. x # <<>>
    BY <1>6
  <2>2. e.req = <<"ids", 1>>
    BY <1>6, <2>1 DEF ReservoirsNext
  <2>3. e.req[1] = "ids"
    BY <2>2
  <2>4. Of(y, "item") = <<x[1]>> /\ Of(y, "page") = <<>> /\ Of(y, "ids") = <<e>>
    <3>1. /\ Of(y, "item") = Of(x, "item")
          /\ Of(y, "page") = Of(x, "page") /\ Of(y, "ids") = Append(Of(x, "ids"), e)
      BY <2>3, OfAppend
    <3> QED
      BY <1>3, <1>6, <3>1 DEF Opening
  <2>5. y[1] = x[1] /\ y[2] = x[2] /\ y[3] = e /\ Len(y) = 3
    BY <1>1, <1>2, <1>6
  <2>6. PagesRead(y, 0)
    BY <1>3, <1>6, <2>2, <2>4, <2>5, RetrievalAssumption DEF PagesRead, Opening
  <2>7. 0 \in Nat /\ Len(y) = 3 + 0
    BY <2>5
  <2> QED
    BY <2>4, <2>5, <2>6, <2>7 DEF ReservoirsStaged
<1> QED
  BY <1>1, <1>4, <1>5, <1>6

\* What follows when the identities are known.
LEMMA ReservoirsGoesOn ==
    ASSUME NEW E, NEW x \in Seq(E), NEW q \in Nat, PagesRead(x, q), Of(x, "ids")[1] = x[3],
           ReservoirsNext(x) # Fail
    PROVE  LET ids == x[3].body.items IN
           /\ Len(ids) \in 1..RecordsOfRetrieval
           /\ \/ /\ q < PageCount(ids) /\ q < PagesOfCollection
                 /\ ReservoirsNext(x) = <<"page", PageOf(ids, q + 1)>>
              \/ /\ q = PageCount(ids) /\ Len(x) = 3 + q
                 /\ ReservoirsNext(x) = <<"ids", 2>>
              \/ /\ q = PageCount(ids) /\ Len(x) = 4 + q
                 /\ ReservoirsNext(x) = <<"item", 2>>
              \/ /\ q = PageCount(ids) /\ Len(x) # 3 + q /\ Len(x) # 4 + q
                 /\ ReservoirsNext(x) = Done /\ SameItem(x)
                 /\ ReservoirsAccepted(ItemsOf(x, "page"), ids)
<1> PICK ids : ids = x[3].body.items
  OBVIOUS
<1>1. Len(x) \in Nat /\ Len(x) >= 3 /\ Len(Of(x, "page")) = q
  BY DEF PagesRead
<1>2. x # <<>> /\ Len(x) # 1 /\ Len(x) # 2
  BY <1>1
<1>3. Of(x, "ids")[1].body.items = ids
  OBVIOUS
<1>4. ReservoirsNext(x) =
        IF Len(ids) \notin 1..RecordsOfRetrieval THEN Fail
        ELSE IF q < PageCount(ids)
             THEN IF q >= PagesOfCollection THEN Fail ELSE <<"page", PageOf(ids, q + 1)>>
        ELSE IF Len(x) = 3 + q THEN <<"ids", 2>>
        ELSE IF Len(x) = 4 + q THEN <<"item", 2>>
        ELSE IF SameItem(x) /\ ReservoirsAccepted(ItemsOf(x, "page"), ids) THEN Done ELSE Fail
  BY <1>1, <1>2, <1>3 DEF ReservoirsNext
<1>5. Len(ids) \in 1..RecordsOfRetrieval
  BY <1>4
<1>6. PageCount(ids) \in Nat /\ PageCount(ids) >= 1
  BY <1>5, RetrievalAssumption, PageCountIs
<1>7. q < PageCount(ids) \/ q = PageCount(ids)
  BY <1>6 DEF PagesRead
<1>8. ~ (q >= PagesOfCollection) => q < PagesOfCollection
  BY RetrievalAssumption
<1>9. q < PageCount(ids) =>
        q < PagesOfCollection /\ ReservoirsNext(x) = <<"page", PageOf(ids, q + 1)>>
  BY <1>4, <1>5, <1>8
<1>10. q = PageCount(ids) => ~ (q < PageCount(ids))
  BY <1>6
<1>11. q = PageCount(ids) =>
         \/ Len(x) = 3 + q /\ ReservoirsNext(x) = <<"ids", 2>>
         \/ Len(x) = 4 + q /\ ReservoirsNext(x) = <<"item", 2>>
         \/ /\ Len(x) # 3 + q /\ Len(x) # 4 + q
            /\ ReservoirsNext(x) = Done /\ SameItem(x)
            /\ ReservoirsAccepted(ItemsOf(x, "page"), ids)
  BY <1>1, <1>4, <1>5, <1>10
<1> QED
  BY <1>5, <1>7, <1>9, <1>11
\* One more page.
LEMMA PageRead ==
    ASSUME NEW E, NEW x \in Seq(E), NEW e \in E, NEW q \in Nat, PagesRead(x, q),
           Len(x) = 3 + q, Len(x[3].body.items) \in 1..RecordsOfRetrieval,
           q < PageCount(x[3].body.items), q < PagesOfCollection,
           e.req = <<"page", PageOf(x[3].body.items, q + 1)>>
    PROVE  PagesRead(Append(x, e), q + 1)
<1> PICK y : y = Append(x, e)
  OBVIOUS
<1> PICK ids : ids = x[3].body.items
  OBVIOUS
<1> PICK o \in Seq(E) : o = Of(x, "page")
  BY OfAppend
<1> PICK r : r = Append(o, e)
  OBVIOUS
<1>1. Len(y) = 4 + q /\ y[3 + (q + 1)] = e
  OBVIOUS
<1>2. \A i \in 1..(3 + q) : y[i] = x[i]
  OBVIOUS
<1>3. y[1] = x[1] /\ y[2] = x[2] /\ y[3] = x[3] /\ \A i \in 1..q : y[3 + i] = x[3 + i]
  BY <1>2
<1>4. Of(y, "page") = r
  <2>1. e.req[1] = "page"
    OBVIOUS
  <2> QED
    BY <2>1, OfAppend
<1>5. Len(o) = q /\ \A i \in 1..q : o[i] = x[3 + i]
  BY DEF PagesRead
<1>6. Len(r) = q + 1 /\ r[q + 1] = e /\ \A i \in 1..q : r[i] = o[i]
  BY <1>5
<1>7. ASSUME NEW i \in 1..(q + 1)
      PROVE  y[3 + i].req = <<"page", PageOf(ids, i)>> /\ r[i] = y[3 + i]
  <2>1. CASE i = q + 1
    BY <1>1, <1>6, <2>1
  <2>2. CASE i # q + 1
    <3>1. i \in 1..q
      BY <2>2
    <3>2. x[3 + i].req = <<"page", PageOf(ids, i)>>
      BY <3>1 DEF PagesRead
    <3> QED
      BY <1>3, <1>5, <1>6, <3>1, <3>2
  <2> QED
    BY <2>1, <2>2
<1>8. q + 1 <= PageCount(ids)
  <2>1. Len(ids) \in Nat
    BY RetrievalAssumption
  <2> QED
    BY <2>1, PageCountIs
<1>9. q + 1 <= PagesOfCollection /\ Len(y) >= 3 + (q + 1)
  BY <1>1, RetrievalAssumption
<1>10. PagesRead(y, q + 1)
  BY <1>3, <1>4, <1>6, <1>7, <1>8, <1>9 DEF PagesRead
<1> QED
  BY <1>10

LEMMA TwoOf ==
    ASSUME NEW a, NEW b
    PROVE  Append(<<a>>, b) = <<a, b>> /\ <<a>>[1] = a /\ <<a, b>>[1] = a
<1> DEFINE T == {a, b}
<1>1. <<a>> \in Seq(T) /\ <<a, b>> \in Seq(T) /\ b \in T
  OBVIOUS
<1>2. Append(<<a>>, b) \in Seq(T) /\ Len(Append(<<a>>, b)) = Len(<<a>>) + 1
  BY <1>1, AppendProperties
<1>3. Len(<<a>>) = 1 /\ Len(<<a, b>>) = 2
  OBVIOUS
<1>4. Append(<<a>>, b)[1] = a /\ Append(<<a>>, b)[2] = b
  <2>1. /\ Append(<<a>>, b)[Len(<<a>>) + 1] = b
        /\ \A i \in 1..Len(<<a>>) : Append(<<a>>, b)[i] = <<a>>[i]
    BY <1>1, AppendProperties
  <2> QED
    BY <1>3, <2>1
<1>5. <<a, b>>[1] = a /\ <<a,b>>[2] = b
  OBVIOUS
<1>6. \A i \in 1..2 : i = 1 \/ i = 2
  OBVIOUS
<1> QED
  <2>1. Len(Append(<<a>>, b)) = Len(<<a, b>>)
    BY <1>2, <1>3
  <2>2. \A i \in 1..Len(Append(<<a>>, b)) : Append(<<a>>, b)[i] = <<a, b>>[i]
    BY <1>2, <1>3, <1>4, <1>5, <1>6
  <2>3. Append(<<a>>, b) = <<a, b>>
    <3> HIDE DEF T
    <3> QED
      BY <1>1, <1>2, <2>1, <2>2, SeqEqual
  <2> QED
    BY <1>5, <2>3

LEMMA ReservoirsStages ==
    ASSUME NEW E, NEW es \in Seq(E), Asked("reservoirs", es)
    PROVE  ReservoirsStaged(es)
<1> DEFINE S == {x \in Seq(E) : ReservoirsStaged(x)}
<1>1. <<>> \in S
  <2>1. Len(<<>>) = 0
    OBVIOUS
  <2>2. Opening(<<>>)
    BY <2>1, OfEmpty DEF Opening
  <2> QED
    BY <2>2 DEF ReservoirsStaged
<1>2. ASSUME NEW n \in 1..Len(es), Earlier(es, n) \in S
      PROVE  Append(Earlier(es, n), es[n]) \in S
  <2> PICK x \in Seq(E) : x = Earlier(es, n)
    BY EarlierIs
  <2> PICK e \in E : e = es[n]
    BY ElementOfSeq
  <2> PICK y : y = Append(x, e)
    OBVIOUS
  <2>1. e.req = ReservoirsNext(x) /\ ReservoirsNext(x) \notin {Done, Fail}
    BY DEF Asked, RequestAfter
  <2>2. ReservoirsStaged(x) /\ y \in Seq(E)
    BY <1>2
  <2>3. Len(y) = Len(x) + 1 /\ y[Len(x) + 1] = e /\ (\A i \in 1..Len(x) : y[i] = x[i])
        /\ Len(x) \in Nat
    OBVIOUS
  <2>4. \A a, b : Append(<<a>>, b) = <<a, b>> /\ <<a>>[1] = a /\ <<a, b>>[1] = a
    BY TwoOf
  <2>5. CASE Opening(x)
    BY <2>1, <2>2, <2>5, OpeningOn
  <2>6. ASSUME NEW q \in Nat, PagesRead(x, q), Len(x) = 3 + q,
               Of(x, "ids") = <<x[3]>>, Of(x, "item") = <<x[1]>>
        PROVE  ReservoirsStaged(y)
    <3> PICK ids : ids = x[3].body.items
      OBVIOUS
    <3>1. /\ Len(ids) \in 1..RecordsOfRetrieval
          /\ \/ /\ q < PageCount(ids) /\ q < PagesOfCollection
                /\ ReservoirsNext(x) = <<"page", PageOf(ids, q + 1)>>
             \/ /\ q = PageCount(ids) /\ ReservoirsNext(x) = <<"ids", 2>>
      BY <2>1, <2>4, <2>6, ReservoirsGoesOn
    <3>2. CASE /\ q < PageCount(ids) /\ q < PagesOfCollection
               /\ ReservoirsNext(x) = <<"page", PageOf(ids, q + 1)>>
      <4>1. PagesRead(y, q + 1)
        BY <2>1, <2>6, <3>1, <3>2, PageRead
      <4>2. e.req[1] = "page"
        BY <2>1, <3>2
      <4>3. Of(y, "ids") = Of(x, "ids") /\ Of(y, "item") = Of(x, "item")
        BY <4>2, OfAppend
      <4>4. y[1] = x[1] /\ y[3] = x[3] /\ Len(y) = 3 + (q + 1) /\ q + 1 \in Nat
        BY <2>3, <2>6
      <4> QED
        BY <2>6, <4>1, <4>3, <4>4 DEF ReservoirsStaged
    <3>3. CASE q = PageCount(ids) /\ ReservoirsNext(x) = <<"ids", 2>>
      <4>1. e.req = <<"ids", 2>> /\ e.req[1] = "ids"
        BY <2>1, <3>3
      <4>2. PagesRead(y, q)
        BY <2>6, <4>1, PagesStay
      <4>3. Of(y, "ids") = Append(Of(x, "ids"), e) /\ Of(y, "item") = Of(x, "item")
        BY <4>1, OfAppend
      <4>4. y[1] = x[1] /\ y[3] = x[3] /\ Len(y) = 4 + q /\ y[4 + q] = e
        BY <2>3, <2>6
      <4>6. Of(y, "ids") = <<y[3], y[4 + q]>>
        <5>1. Of(y, "ids") = <<x[3], e>>
          BY <2>4, <2>6, <4>3, Zenon
        <5> QED
          BY <4>4, <5>1
      <4>7. Len(y) >= 4 + q
        BY <4>4
      <4>5. AllPagesRead(y, q)
        BY <3>1, <3>3, <4>1, <4>2, <4>4, <4>6, <4>7 DEF AllPagesRead
      <4> QED
        BY <2>6, <4>3, <4>4, <4>5 DEF ReservoirsStaged
    <3> QED
      BY <3>1, <3>2, <3>3
  <2>7. ASSUME NEW q \in Nat, AllPagesRead(x, q), Len(x) = 4 + q, Of(x, "item") = <<x[1]>>
        PROVE  ReservoirsStaged(y)
    <3>1. Of(x, "ids") = <<x[3], x[4 + q]>> /\ PagesRead(x, q)
      BY <2>7 DEF AllPagesRead
    <3>2. q = PageCount(x[3].body.items) /\ Len(x[3].body.items) \in 1..RecordsOfRetrieval
          /\ PageCount(x[3].body.items) \in Nat
      BY <2>7, PageCountIs, RetrievalAssumption DEF AllPagesRead
    <3>3. ReservoirsNext(x) = <<"item", 2>>
      <4>1. Of(x, "ids")[1] = x[3]
        BY <3>1
      <4>2. Len(x) # 3 + q /\ ~ (q < PageCount(x[3].body.items))
        BY <2>7, <3>2
      <4> QED
        BY <2>1, <2>7, <3>1, <4>1, <4>2, ReservoirsGoesOn
    <3>4. e.req = <<"item", 2>> /\ e.req[1] = "item"
      BY <2>1, <3>3
    <3>5. PagesRead(y, q)
      BY <3>1, <3>4, PagesStay
    <3>6. Of(y, "ids") = Of(x, "ids") /\ Of(y, "item") = Append(Of(x, "item"), e)
      BY <3>4, OfAppend
    <3>7. /\ y[1] = x[1] /\ y[3] = x[3] /\ Len(y) = 5 + q /\ y[5 + q] = e /\ y[4 + q] = x[4 + q]
          /\ Len(y) >= 4 + q
      BY <2>3, <2>7
    <3>8. AllPagesRead(y, q)
      BY <2>7, <3>1, <3>2, <3>5, <3>6, <3>7 DEF AllPagesRead
    <3>9. Of(y, "item") = <<x[1], e>>
      BY <2>4, <2>7, <3>6, Zenon
    <3>10. Of(y, "item") = <<y[1], y[5 + q]>> /\ y[5 + q].req = <<"item", 2>> /\ Len(y) = 5 + q
      BY <3>4, <3>7, <3>9
    <3> QED
      BY <3>8, <3>10 DEF ReservoirsStaged
  <2>8. ASSUME NEW q \in Nat, AllPagesRead(x, q), Len(x) = 5 + q PROVE FALSE
    <3>1. Of(x, "ids") = <<x[3], x[4 + q]>> /\ PagesRead(x, q)
      BY <2>8 DEF AllPagesRead
    <3>2. q = PageCount(x[3].body.items) /\ PageCount(x[3].body.items) \in Nat
      BY <2>8, PageCountIs, RetrievalAssumption DEF AllPagesRead
    <3>3. Of(x, "ids")[1] = x[3]
      BY <3>1
    <3>4. Len(x) # 3 + q /\ Len(x) # 4 + q /\ ~ (q < PageCount(x[3].body.items))
      BY <2>8, <3>2
    <3> QED
      BY <2>1, <3>1, <3>3, <3>4, ReservoirsGoesOn
  <2>9. ReservoirsStaged(y)
    BY <2>2, <2>5, <2>6, <2>7, <2>8 DEF ReservoirsStaged
  <2> QED
    BY <2>2, <2>9
<1>3. es \in S
  <2> HIDE DEF S
  <2> QED
    BY <1>1, <1>2, PrefixInduction
<1> QED
  BY <1>3

\* What the client has accepted.
LEMMA ReservoirsFinished ==
    ASSUME NEW E, NEW es \in Seq(E), Asked("reservoirs", es),
           RequestAfter("reservoirs", es) = Done
    PROVE  \E q \in Nat :
             LET ids == es[3].body.items IN
             /\ AllPagesRead(es, q) /\ Len(es) = 5 + q /\ es[5 + q].req = <<"item", 2>>
             /\ es[4 + q].body = es[3].body /\ es[5 + q].body = es[1].body
             /\ Len(ids) \in 1..RecordsOfRetrieval /\ q = PageCount(ids) /\ q >= 1
             /\ ReservoirsAccepted(ItemsOf(es, "page"), ids)
<1>1. ReservoirsNext(es) = Done /\ Done # Fail /\ \A a, b : <<a, b>> # Done
  BY DEF RequestAfter, Done, Fail
<1>2. ~ Opening(es)
  <2> SUFFICES ASSUME Opening(es) PROVE FALSE
    OBVIOUS
  <2>1. Len(es) \in {0, 1, 2}
    <3>1. Len(es) \in Nat
      OBVIOUS
    <3>2. Len(es) <= 2
      BY DEF Opening
    <3>3. \A l \in Nat : l <= 2 => l \in {0, 1, 2}
      OBVIOUS
    <3> QED
      BY <3>1, <3>2, <3>3, Zenon
  <2>2. Len(es) = 0 => es = <<>>
    BY EmptySeq
  <2> QED
    BY <1>1, <2>1, <2>2 DEF ReservoirsNext
<1>3. ASSUME NEW q \in Nat, PagesRead(es, q), Len(es) = 3 + q, Of(es, "ids") = <<es[3]>>
      PROVE  FALSE
  <2>1. Of(es, "ids")[1] = es[3]
    BY <1>3
  <2>2. Len(es) # 4 + q
    BY <1>3
  <2> QED
    BY <1>1, <1>3, <2>1, <2>2, ReservoirsGoesOn
<1>4. ASSUME NEW q \in Nat, AllPagesRead(es, q)
      PROVE  /\ Of(es, "ids")[1] = es[3] /\ Of(es, "ids")[2] = es[4 + q] /\ PagesRead(es, q)
             /\ Len(es[3].body.items) \in 1..RecordsOfRetrieval
             /\ q = PageCount(es[3].body.items)
  BY <1>4 DEF AllPagesRead
<1>5. ASSUME NEW q \in Nat, AllPagesRead(es, q), Len(es) = 4 + q PROVE FALSE
  <2>1. Len(es) # 3 + q /\ ~ (q < PageCount(es[3].body.items))
    BY <1>4, <1>5
  <2> QED
    BY <1>1, <1>4, <1>5, <2>1, ReservoirsGoesOn
<1>6. PICK q \in Nat : /\ AllPagesRead(es, q) /\ Len(es) = 5 + q /\ es[5 + q].req = <<"item", 2>>
                       /\ Of(es, "item") = <<es[1], es[5 + q]>>
  BY <1>2, <1>3, <1>5, ReservoirsStages DEF ReservoirsStaged
<1> PICK ids : ids = es[3].body.items
  OBVIOUS
<1>7. SameItem(es) /\ ReservoirsAccepted(ItemsOf(es, "page"), ids)
  BY <1>1, <1>4, <1>6, ReservoirsGoesOn
<1>8. es[4 + q].body = es[3].body /\ es[5 + q].body = es[1].body
  <2>1. Of(es, "item")[1] = es[1] /\ Of(es, "item")[2] = es[5 + q]
    BY <1>6
  <2> QED
    BY <1>4, <1>6, <1>7, <2>1 DEF SameItem
<1>9. q >= 1
  <2>1. Len(ids) \in Nat /\ Len(ids) >= 1
    BY <1>4, <1>6, RetrievalAssumption
  <2> QED
    BY <1>4, <1>6, <2>1, PageCountIs
<1> QED
  BY <1>4, <1>6, <1>7, <1>8, <1>9

LEMMA ReservoirsAnswers ==
    ASSUME NEW E, NEW es \in Seq(E), Asked("reservoirs", es),
           RequestAfter("reservoirs", es) = Done
    PROVE  ReservoirsReads(es)
<1> PICK ids : ids = es[3].body.items
  OBVIOUS
<1>1. PICK q \in Nat :
        /\ AllPagesRead(es, q) /\ Len(es) = 5 + q /\ es[5 + q].req = <<"item", 2>>
        /\ es[4 + q].body = es[3].body /\ es[5 + q].body = es[1].body
        /\ q = PageCount(ids) /\ q >= 1
        /\ ReservoirsAccepted(ItemsOf(es, "page"), ids)
  BY ReservoirsFinished
<1>2. PagesRead(es, q) /\ es[4 + q].req = <<"ids", 2>>
  BY <1>1 DEF AllPagesRead
<1>3. Len(es) >= 6 /\ Len(es) = q + 5
  BY <1>1
<1>4. q <= PagesOfCollection
  BY <1>2 DEF PagesRead
<1>5. /\ es[1].req = <<"item", 1>> /\ es[2].req = <<"layer", 0>> /\ es[3].req = <<"ids", 1>>
      /\ \A i \in 1..q : es[3 + i].req = <<"page", PageOf(ids, i)>>
  BY <1>2 DEF PagesRead
<1> QED
  BY <1>1, <1>2, <1>3, <1>4, <1>5 DEF ReservoirsReads

-----------------------------------------------------------------------------
(* All sources. *)

LEMMA NationalAnswers ==
    ASSUME NEW s \in Sources, s \in {"rainfall", "bathing", "floods", "companies"},
           NEW E, NEW es \in Seq(E), Asked(s, es), NEW vs, NEW cs, ServedIn(s, es, vs, cs)
    PROVE  \A i, j \in DOMAIN es : es[i].req = es[j].req => i = j
<1>1. OnceEach(es)
  BY OneRequest, RainfallRequests, FloodsOnce
<1> QED
  BY <1>1 DEF OnceEach

\* What a client has accepted, as it came, is what the reader of its directory checks.
LEMMA AcceptedReads ==
    ASSUME RetrievalInv, AnswersInv, NextRequest(entries) = Done
    PROVE  \/ Reads(entries)
           \/ source = "hydrology" /\
                ~ HydrologyAccepted(ItemsOf(entries, "stations"), ItemsOf(entries, "measures"),
                                    ItemsOf(entries, "latest"))
           \/ source = "points" /\ ~ PointsAccepted(ItemsOf(entries, "points"))
<1> PICK s \in Sources : s = source
  BY DEF RetrievalInv, RetrievalTypeOK
<1> PICK es : es = entries
  OBVIOUS
<1> PICK E : E = Members(es) /\ es \in Seq(E)
  BY DEF RetrievalInv
<1>1. Asked(s, es) /\ RequestAfter(s, es) = Done
  BY DEF AnswersInv, NextRequest
<1>2. PICK vs, cs : ServedIn(s, es, vs, cs)
  BY DEF AnswersInv
<1>3. CASE s = "hydrology"
  <2>1. /\ \A k \in HydrologyKinds : Paged(Of(es, k), k)
        /\ Len(es) = Len(Of(es, "stations")) + Len(Of(es, "measures")) + Len(Of(es, "latest"))
    BY <1>1, <1>2, <1>3, HydrologyAnswers
  <2>2. Reads(es) <=> HydrologyReads(es)
    BY <1>3 DEF Reads
  <2> QED
    BY <1>3, <2>1, <2>2 DEF HydrologyReads, HydrologyKinds
<1>4. CASE s = "points"
  <2>1. Totalled(es, "points") /\ es[1].body.total \in 1..RecordsOfRetrieval
    BY <1>1, <1>2, <1>4, PointsAnswers
  <2>2. Reads(es) <=> PointsReads(es)
    BY <1>4 DEF Reads
  <2> QED
    BY <1>4, <2>1, <2>2 DEF PointsReads
<1>5. CASE s = "history"
  BY <1>1, <1>2, <1>5, HistoryAnswers DEF Reads
<1>6. CASE s = "observations"
  BY <1>1, <1>2, <1>6, ObservationsAnswers DEF Reads
<1>7. CASE s = "reservoirs"
  BY <1>1, <1>7, ReservoirsAnswers DEF Reads
<1>8. CASE s = "discharges"
  BY <1>1, <1>8, DischargesAnswers DEF Reads
<1>9. CASE s = "catchments"
  BY <1>1, <1>2, <1>9, CatchmentsAnswers DEF Reads
<1>10. CASE s \in {"rainfall", "bathing", "floods", "companies"}
  <2>1. Reads(es) <=> NationalReads(es)
    BY <1>10 DEF Reads
  <2>2. \A i, j \in DOMAIN es : es[i].req = es[j].req => i = j
    BY <1>1, <1>2, <1>10, NationalAnswers
  <2>3. NationalReads(es)
    BY <2>2 DEF NationalReads
  <2> QED
    BY <2>1, <2>3
<1> QED
  BY <1>3, <1>4, <1>5, <1>6, <1>7, <1>8, <1>9, <1>10, SourcesAssumption

\* What a fetch function has returned, its reader accepts, whatever the publisher did in
\* between: what the client checks as the answers come is enough for all that the reader
\* checks of the directory at once (ingestion/*_client.py, read_* of each).
THEOREM AcknowledgedAlwaysReads == RetrievalSafety => []AcknowledgedReads
<1>1. RetrievalInv /\ AnswersInv => AcknowledgedReads
  <2> SUFFICES ASSUME RetrievalInv, AnswersInv, retrievalAt = "done", manifest = "whole", ~ lost
               PROVE  \/ ReaderAccepts
                      \/ source = "hydrology" /\
                           ~ HydrologyAccepted(ItemsOf(entries, "stations"),
                                               ItemsOf(entries, "measures"),
                                               ItemsOf(entries, "latest"))
                      \/ source = "points" /\ ~ PointsAccepted(ItemsOf(entries, "points"))
    BY DEF AcknowledgedReads
  <2>1. NextRequest(entries) = Done
    BY DEF RetrievalInv
  <2> QED
    BY <2>1, AcceptedReads DEF ReaderAccepts
<1> QED
  BY <1>1, AnswersInvariant, PTL

-----------------------------------------------------------------------------
(* What belongs together, source by source, because a normaliser has accepted it. *)

LEMMA HydrologyTogether ==
    ASSUME NEW stations, NEW measures, NEW latest, HydrologyAccepted(stations, measures, latest)
    PROVE  /\ {m.station : m \in Members(measures)} \subseteq IdsOf(stations)
           /\ UNION {Members(s.embedded) : s \in Members(stations)} = IdsOf(measures)
<1>1. \A m \in Members(measures) : m.station \in IdsOf(stations)
  BY DEF HydrologyAccepted, MeasuresAccepted
<1>2. \A s \in Members(stations) : Members(s.embedded) = MeasuresOf(measures, s.id)
  BY DEF HydrologyAccepted, StationsAccepted, EmbeddedAgree
<1>3. \A id : id \in IdsOf(measures) <=> \E m \in Members(measures) : m.id = id
  BY DEF IdsOf, Members
<1>4. \A id : id \in IdsOf(stations) <=> \E s \in Members(stations) : s.id = id
  BY DEF IdsOf, Members
<1>5. \A id, sid : id \in MeasuresOf(measures, sid)
                    <=> \E m \in Members(measures) : m.id = id /\ m.station = sid
  BY DEF MeasuresOf
<1>6. UNION {Members(s.embedded) : s \in Members(stations)} \subseteq IdsOf(measures)
  BY <1>2, <1>3, <1>5
<1>7. ASSUME NEW id \in IdsOf(measures)
      PROVE  id \in UNION {Members(s.embedded) : s \in Members(stations)}
  <2>1. PICK m \in Members(measures) : m.id = id
    BY <1>3
  <2>2. PICK s \in Members(stations) : s.id = m.station
    BY <1>1, <1>4
  <2>3. id \in Members(s.embedded)
    BY <1>2, <1>5, <2>1, <2>2
  <2> QED
    BY <2>3
<1> QED
  BY <1>1, <1>6, <1>7

LEMMA CatchmentsTogether ==
    ASSUME NEW tree, CatchmentsAccepted(tree), NEW d \in tree.root, NEW w \in tree.geometry[d]
    PROVE  Cardinality({o \in DOMAIN tree.operational :
                           /\ w \in tree.operational[o].children
                           /\ tree.operational[o].parents[1] = {d}}) = 1
<1> DEFINE Here == {o \in DOMAIN tree.operational :
                       /\ w \in tree.operational[o].children
                       /\ tree.operational[o].parents[1] = {d}}
           p == Parent(tree, "operational", Operationals(tree), w)
<1>1. DOMAIN tree.operational = Operationals(tree)
  BY DEF CatchmentsAccepted, OperationalsComplete
<1>2. w \in BodiesOf(tree) /\ DistrictOf(tree, ManagementOf(tree, p)) = d
  BY DEF CatchmentsAccepted, BodiesDrawn, Roots
<1>3. \E o \in Operationals(tree) : w \in tree["operational"][o].children
  BY <1>2 DEF BodiesOf, Below
<1>4. p \in Operationals(tree) /\ w \in tree["operational"][p].children
  BY <1>3 DEF Parent
<1>5. \A o \in Operationals(tree) :
        tree.operational[o].parents = <<{DistrictOf(tree, ManagementOf(tree, o))},
                                        {ManagementOf(tree, o)}>>
  BY DEF CatchmentsAccepted, OperationalsComplete
<1>6. tree.operational[p].parents[1] = {d}
  BY <1>2, <1>4, <1>5
<1>7. \A o \in Operationals(tree) : w \in tree["operational"][o].children => o = p
  BY <1>4 DEF CatchmentsAccepted, OperationalsComplete, OnlyChild
<1>8. tree["operational"] = tree.operational
  OBVIOUS
<1>9. Here = {p}
  <2> HIDE DEF p
  <2> QED
    BY <1>1, <1>4, <1>6, <1>7, <1>8
<1> QED
  <2> HIDE DEF p, Here
  <2>1. Cardinality(Here) = 1
    BY <1>9, FS_Singleton
  <2> QED
    BY <2>1 DEF Here

LEMMA FloodsTogether ==
    ASSUME NEW E, NEW es \in Seq(E), Asked("floods", es), NEW vs, NEW cs,
           ServedIn("floods", es, vs, cs), "floods" \in Sources,
           RequestAfter("floods", es) = Done
    PROVE  /\ es # <<>>
           /\ {w.area : w \in Members(es[1].body.items)} = Known(es, "polygon")
           /\ {w.area : w \in Members(es[1].body.items)} = Known(es, "area")
<1>1. FloodsNext(es) = Done /\ Done # Fail /\ \A a, b : <<a, b>> # Done
  BY DEF RequestAfter, Done, Fail
<1>2. es # <<>> /\ ~ (Len(es) - 1 < 2 * Len(FloodAreas(es)))
  BY <1>1 DEF FloodsNext
<1>3. 1 <= Len(es) /\ Len(es) \in Nat
  BY <1>2, NotEmpty
<1> PICK areas : areas = FloodAreas(es)
  OBVIOUS
<1> PICK A : A = {w.area : w \in Members(es[1].body.items)}
  OBVIOUS
<1>4. es[1].req[1] = "warnings" /\ IsFiniteSet(A)
      /\ \A n \in 2..Len(es) : (n - 2) < 2 * Len(areas) /\ es[n].req = FloodRequest(areas, n)
  <2>1. es[1].req = <<"warnings", 0>> /\ IsFiniteSet(A)
    BY <1>3, FloodRequests
  <2>2. es[1].req[1] = "warnings"
    BY <2>1
  <2>3. \A n \in 2..Len(es) :
          (n - 2) < 2 * Len(areas) /\ es[n].req = FloodRequest(areas, n)
    BY <1>3, FloodRequests
  <2> QED
    BY <2>1, <2>2, <2>3
<1>5. Members(areas) = A /\ Len(areas) \in Nat /\ DOMAIN areas = 1..Len(areas)
  <2>1. areas \in Seq(A) /\ Members(areas) = A
    BY <1>4, SetToSeqIs DEF FloodAreas
  <2> QED
    BY <2>1
<1>6. ASSUME NEW i \in 1..Len(areas)
      PROVE  /\ 2 * i \in 2..Len(es) /\ es[2 * i].req = <<"area", areas[i]>>
             /\ 2 * i + 1 \in 2..Len(es) /\ es[2 * i + 1].req = <<"polygon", areas[i]>>
  <2>1. 2 * i \in 2..Len(es) /\ 2 * i + 1 \in 2..Len(es)
    BY <1>2, <1>3, <1>5
  <2>2. (2 * i - 2) % 2 = 0 /\ ((2 * i - 2) \div 2) + 1 = i
        /\ (2 * i + 1 - 2) % 2 # 0 /\ ((2 * i + 1 - 2) \div 2) + 1 = i
    OBVIOUS
  <2>3. FloodRequest(areas, 2 * i) = <<"area", areas[i]>>
        /\ FloodRequest(areas, 2 * i + 1) = <<"polygon", areas[i]>>
    <3>1. FloodRequest(areas, 2 * i)
            = <<IF (2 * i - 2) % 2 = 0 THEN "area" ELSE "polygon",
                areas[((2 * i - 2) \div 2) + 1]>>
      BY DEF FloodRequest
    <3>2. FloodRequest(areas, 2 * i + 1)
            = <<IF (2 * i + 1 - 2) % 2 = 0 THEN "area" ELSE "polygon",
                areas[((2 * i + 1 - 2) \div 2) + 1]>>
      BY DEF FloodRequest
    <3>3. (IF (2 * i - 2) % 2 = 0 THEN "area" ELSE "polygon") = "area"
          /\ (IF (2 * i + 1 - 2) % 2 = 0 THEN "area" ELSE "polygon") = "polygon"
      BY <2>2
    <3> QED
      BY <2>2, <3>1, <3>2, <3>3, Zenon
  <2> QED
    BY <1>4, <2>1, <2>3
<1>7. \A k, a : a \in Known(es, k) <=> \E n \in 1..Len(es) : es[n].req[1] = k /\ es[n].req[2] = a
  <2>1. DOMAIN es = 1..Len(es)
    OBVIOUS
  <2>2. \A k : Members(Of(es, k)) = {e \in Members(es) : e.req[1] = k}
    BY OfMembers
  <2>3. \A k, e : e \in Members(Of(es, k)) <=> \E n \in 1..Len(es) : e = es[n] /\ e.req[1] = k
    <3>1. \A e : e \in Members(es) <=> \E n \in 1..Len(es) : e = es[n]
      BY <2>1 DEF Members
    <3> QED
      BY <2>2, <3>1
  <2>4. \A k, a : a \in Known(es, k) <=> \E e \in Members(Of(es, k)) : e.req[2] = a
    BY DEF Known
  <2> QED
    BY <2>3, <2>4
<1>8. ASSUME NEW k \in {"area", "polygon"} PROVE Known(es, k) = A
  <2>1. ASSUME NEW a \in Known(es, k) PROVE a \in A
    <3>1. PICK n \in 1..Len(es) : es[n].req[1] = k /\ es[n].req[2] = a
      BY <1>7
    <3>2. n \in 2..Len(es)
      BY <1>4, <3>1
    <3>3. ((n - 2) \div 2) + 1 \in 1..Len(areas)
      BY <1>4, <1>5, <3>2
    <3>4. a = areas[((n - 2) \div 2) + 1]
      BY <1>4, <3>1, <3>2 DEF FloodRequest
    <3> QED
      BY <1>5, <3>3, <3>4 DEF Members
  <2>2. ASSUME NEW a \in A PROVE a \in Known(es, k)
    <3>1. PICK i \in 1..Len(areas) : a = areas[i]
      BY <1>5 DEF Members
    <3>2. \E n \in 1..Len(es) : es[n].req = <<k, a>>
      <4>1. 2 * i \in 1..Len(es) /\ 2 * i + 1 \in 1..Len(es)
        BY <1>6
      <4> QED
        BY <1>6, <3>1, <4>1
    <3> QED
      BY <1>7, <3>2
  <2> QED
    BY <2>1, <2>2
<1> QED
  BY <1>2, <1>8

\* The answers to requests of a kind are some of the answers.
LEMMA OfInSeq ==
    ASSUME NEW E, NEW es \in Seq(E), NEW k
    PROVE  Of(es, k) \in Seq(E)
<1>1. CASE es = <<>>
  BY <1>1, OfEmpty
<1>2. CASE es # <<>>
  <2>1. 1 \in 1..Len(es)
    BY <1>2, NotEmpty
  <2>2. es[1] \in E
    BY <2>1, ElementOfSeq
  <2> QED
    BY <2>2, OfAppend
<1> QED
  BY <1>1, <1>2

LEMMA PointsTogether ==
    ASSUME "points" \in Sources, NEW E, NEW es \in Seq(E), Asked("points", es),
           NEW vs, NEW cs, ServedIn("points", es, vs, cs), RequestAfter("points", es) = Done
    PROVE  Cardinality(IdsOf(ItemsOf(es, "points"))) = es[Len(es)].body.total
<1>1. PointsNext(es) = Done
  BY DEF RequestAfter
<1>2. Distinct(ItemsOf(es, "points")) /\ Len(ItemsOf(es, "points")) = LastBody(es).total
  BY <1>1 DEF PointsNext, Done, Fail
<1> QED
  BY <1>2 DEF Distinct, LastBody

LEMMA ObservationsTogether ==
    ASSUME "observations" \in Sources, NEW E, NEW es \in Seq(E), Asked("observations", es),
           NEW vs, NEW cs, ServedIn("observations", es, vs, cs), ObservationsReads(es)
    PROVE  \A o \in Members(ItemsOf(es, "observations")) :
               PageFor(es, "unit", o.unit.id).items = <<o.unit>>
<1> PICK got : got = ItemsOf(es, "observations")
  OBVIOUS
<1> SUFFICES ASSUME NEW o \in Members(got) PROVE PageFor(es, "unit", o.unit.id).items = <<o.unit>>
  OBVIOUS
<1> PICK units : units = ReferencedUnits(got)
  OBVIOUS
<1> PICK n : n = Len(Of(es, "observations"))
  OBVIOUS
<1> DEFINE codes == [i \in DOMAIN units |-> es[n + 1 + i].body.items[1]]
<1>1. /\ Len(es) = n + 1 + Len(units)
      /\ \A i \in DOMAIN units : es[n + 1 + i].req = <<"unit", units[i]>>
      /\ ObservationsAccepted(Scope, got, es[n + 1].body.items[1], codes)
  BY DEF ObservationsReads
<1>2. n \in Nat
  <2>1. Of(es, "observations") \in Seq(E)
    BY OfInSeq
  <2> QED
    BY <2>1
<1>3. Members(units) = {x.unit.id : x \in Members(got)} /\ DOMAIN units = 1..Len(units)
      /\ Len(units) \in Nat
      /\ \A i, j \in 1..Len(units) : units[i] = units[j] => i = j
  <2>1. PagesIn("observations", Of(es, "observations"), "observations")
    BY ObservationsStages
  <2>2. got \in Seq(Records("observations", "observations"))
    BY <2>1 DEF PagesIn, ItemsOf
  <2>3. units \in Seq({x.unit.id : x \in Members(got)})
    BY <2>2, UnitsAre
  <2> QED
    BY <2>2, <2>3, UnitsAre
\* Every answer about a unit says something of that unit.
<1>4. ASSUME NEW m \in 1..Len(es), NEW a, es[m].req = <<"unit", a>>
      PROVE  \E c : es[m].body = [items |-> <<c>>] /\ c.id = a
  <2> PICK v \in DOMAIN Worlds["observations"] : v = vs[m]
    BY DEF ServedIn
  <2> PICK w : w = Worlds["observations"][v]
    OBVIOUS
  <2>1. es[m].body = AnswerFrom(w, cs[m], <<"unit", a>>) /\ Knows(w, <<"unit", a>>)
    <3>1. \A k \in 1..Len(es) :
            /\ Knows(Worlds["observations"][vs[k]], es[k].req)
            /\ es[k].body = AnswerFrom(Worlds["observations"][vs[k]], cs[k], es[k].req)
      BY DEF ServedIn
    <3> QED
      BY <1>4, <3>1, Zenon
  <2>2. AnswerFrom(w, cs[m], <<"unit", a>>) = [items |-> <<w.codes[a]>>]
    BY DEF AnswerFrom, Collections, Responses, Levels
  <2>3. a \in DOMAIN w.codes
    BY <2>1 DEF Knows, Levels
  <2>4. w.codes[a].id = a
    BY <2>3, WorldsAssumption
  <2> QED
    BY <2>1, <2>2, <2>4
\* The unit of an observation is one of the codes, and is the one of its name.
<1>5. o.unit \in Members(codes)
  BY <1>1 DEF ObservationsAccepted
<1>6. PICK i \in DOMAIN units : o.unit = codes[i]
  BY <1>5 DEF Members
<1>7. n + 1 + i \in 1..Len(es) /\ o.unit = es[n + 1 + i].body.items[1]
      /\ es[n + 1 + i].req = <<"unit", units[i]>>
  BY <1>1, <1>2, <1>3, <1>6
<1>8. PICK c : es[n + 1 + i].body = [items |-> <<c>>] /\ c.id = units[i]
  BY <1>4, <1>7
<1>9. o.unit = c /\ o.unit.id = units[i] /\ es[n + 1 + i].body.items = <<o.unit>>
  BY <1>7, <1>8
\* It was asked for once.
<1>10. ASSUME NEW e \in Members(Of(es, "unit")), e.req[2] = o.unit.id PROVE e = es[n + 1 + i]
  <2>1. e \in Members(es) /\ e.req[1] = "unit"
    BY <1>10, OfMembers
  <2>2. PICK m \in 1..Len(es) : e = es[m]
    BY <2>1 DEF Members
  <2>3. m \in (n + 2)..Len(es)
    <3>1. \A j \in 1..n : es[j].req[1] = "observations"
      <4>1. SubSeq(es, 1, n) = Of(es, "observations")
        BY DEF ObservationsReads
      <4>2. Len(Of(es, "observations")) = n /\ DOMAIN Of(es, "observations") = 1..n
        <5>1. Of(es, "observations") \in Seq(E)
          BY OfInSeq
        <5> QED
          BY <5>1
      <4>3. \A j \in 1..n : Of(es, "observations")[j] \in Members(Of(es, "observations"))
        BY <4>2 DEF Members
      <4>4. \A j \in 1..n : Of(es, "observations")[j].req[1] = "observations"
        BY <4>3, OfMembers
      <4>5. \A j \in 1..n : es[j] = SubSeq(es, 1, n)[j]
        BY <1>1, <1>2, <1>3
      <4> QED
        BY <4>1, <4>4, <4>5
    <3>2. es[n + 1].req[1] = "determinand"
      <4>1. es[n + 1].req = <<"determinand", Scope.determinand>>
        BY DEF ObservationsReads
      <4> QED
        BY <4>1
    <3>3. m \notin 1..n /\ m # n + 1
      BY <2>1, <2>2, <3>1, <3>2
    <3>4. \A p, q \in Nat : \A k \in 1..p : k \notin 1..q /\ k # q + 1 => k \in (q + 2)..p
      OBVIOUS
    <3>5. Len(es) \in Nat
      BY <1>1, <1>2, <1>3
    <3> QED
      BY <1>2, <3>3, <3>4, <3>5, Zenon
  <2>4. PICK j \in 1..Len(units) : m = n + 1 + j
    <3>1. \A p, q \in Nat : \A k \in (q + 2)..(q + 1 + p) :
            k - q - 1 \in 1..p /\ k = q + 1 + (k - q - 1)
      OBVIOUS
    <3>2. m \in (n + 2)..(n + 1 + Len(units))
      BY <1>1, <2>3
    <3>3. m - n - 1 \in 1..Len(units) /\ m = n + 1 + (m - n - 1)
      BY <1>2, <1>3, <3>1, <3>2, Zenon
    <3> QED
      BY <3>3
  <2>5. e.req = <<"unit", units[j]>>
    BY <1>1, <1>3, <2>2, <2>4
  <2>6. units[j] = units[i]
    BY <1>9, <1>10, <2>5
  <2>7. j = i
    BY <1>3, <2>6
  <2> QED
    BY <2>2, <2>4, <2>7
<1>11. es[n + 1 + i] \in Members(Of(es, "unit")) /\ es[n + 1 + i].req[2] = o.unit.id
  <2>1. es[n + 1 + i] \in Members(es) /\ es[n + 1 + i].req[1] = "unit"
    BY <1>7 DEF Members
  <2> QED
    BY <1>7, <1>9, <2>1, OfMembers
<1>12. (CHOOSE e \in Members(Of(es, "unit")) : e.req[2] = o.unit.id) = es[n + 1 + i]
  BY <1>10, <1>11
<1> QED
  BY <1>9, <1>12 DEF PageFor

\* The records with some identities, one record more.
LEMMA WithIdsAppend ==
    ASSUME NEW E, NEW s \in Seq(E), NEW e \in E, NEW ids
    PROVE  /\ WithIds(s, ids) \in Seq(E)
           /\ e.id \in ids => WithIds(Append(s, e), ids) = Append(WithIds(s, ids), e)
           /\ e.id \notin ids => WithIds(Append(s, e), ids) = WithIds(s, ids)
<1> DEFINE One(x) == IF x.id \in ids THEN <<x>> ELSE <<>>
           ss == [i \in DOMAIN s |-> One(s[i])]
           tt == [i \in DOMAIN Append(s, e) |-> One(Append(s, e)[i])]
<1>1. \A x \in E : One(x) \in Seq(E)
  OBVIOUS
<1>2. ss \in Seq(Seq(E))
  <2>1. \A i \in 1..Len(s) : One(s[i]) \in Seq(E)
    BY <1>1, ElementOfSeq
  <2> HIDE DEF One
  <2> QED
    BY <2>1
<1>3. tt = Append(ss, One(e))
  <2> HIDE DEF One
  <2> QED
    OBVIOUS
<1>4. FlattenSeq(ss) \in Seq(E) /\ FlattenSeq(Append(ss, One(e))) = FlattenSeq(ss) \o One(e)
  <2>1. One(e) \in Seq(E)
    BY <1>1
  <2> HIDE DEF One, ss
  <2> QED
    BY <1>2, <2>1, FlattenAppend
<1>5. WithIds(s, ids) = FlattenSeq(ss) /\ WithIds(Append(s, e), ids) = FlattenSeq(tt)
  BY DEF WithIds
<1>6. WithIds(s, ids) \in Seq(E) /\ WithIds(Append(s, e), ids) = WithIds(s, ids) \o One(e)
  <2> HIDE DEF ss, tt, One
  <2> QED
    BY <1>3, <1>4, <1>5
<1>7. CASE e.id \in ids
  <2>1. Append(WithIds(s, ids), e) = WithIds(s, ids) \o <<e>>
    BY <1>6, AppendIsConcat
  <2> QED
    BY <1>6, <1>7, <2>1
<1>8. CASE e.id \notin ids
  BY <1>6, <1>8, ConcatEmptySeq
<1> QED
  BY <1>6, <1>7, <1>8

LEMMA WithIdsIn ==
    ASSUME NEW E, NEW s \in Seq(E), NEW ids
    PROVE  WithIds(s, ids) \in Seq(E) /\ Members(WithIds(s, ids)) \subseteq E
<1>1. WithIds(<<>>, ids) = <<>>
  <2>1. DOMAIN <<>> = {}
    OBVIOUS
  <2>2. [i \in DOMAIN <<>> |-> IF <<>>[i].id \in ids THEN << <<>>[i]>> ELSE <<>>] = <<>>
    BY <2>1
  <2> QED
    BY <2>2, FlattenEmpty DEF WithIds
<1>2. WithIds(s, ids) \in Seq(E)
  <2>1. CASE s = <<>>
    BY <1>1, <2>1
  <2>2. CASE s # <<>>
    <3>1. s[1] \in E
      BY <2>2, NotEmpty, ElementOfSeq
    <3> QED
      BY <3>1, WithIdsAppend
  <2> QED
    BY <2>1, <2>2
<1>3. \A r \in Seq(E) : Members(r) \subseteq E
  BY DEF Members
<1> QED
  BY <1>2, <1>3

\* Of finitely many numbers one is the greatest.
LEMMA GreatestNumber ==
    ASSUME NEW n \in Nat, NEW K \in SUBSET (1..n), K # {}, NEW t, \A i \in K : t[i] \in Int
    PROVE  \E i \in K : \A j \in K : t[j] <= t[i]
<1> DEFINE Has(L) == \E i \in L : \A j \in L : t[j] <= t[i]
           S == {m \in Nat : \A L \in SUBSET K : L # {} /\ L \subseteq 1..m => Has(L)}
<1>1. 0 \in S
  <2>1. 1..0 = {}
    OBVIOUS
  <2> QED
    BY <2>1
<1>2. ASSUME NEW m \in Nat, m \in S PROVE m + 1 \in S
  <2> SUFFICES ASSUME NEW L \in SUBSET K, L # {}, L \subseteq 1..(m + 1) PROVE Has(L)
    BY DEF S
  <2>1. CASE m + 1 \notin L
    <3>1. L \subseteq 1..m
      BY <2>1
    <3> QED
      BY <1>2, <3>1
  <2>2. CASE L = {m + 1}
    <3>1. t[m + 1] \in Int
      BY <2>2
    <3> QED
      BY <2>2, <3>1
  <2>3. CASE m + 1 \in L /\ L # {m + 1}
    <3> DEFINE M == L \ {m + 1}
    <3>1. M # {} /\ M \subseteq 1..m /\ M \in SUBSET K
      BY <2>3
    <3>2. PICK i \in M : \A j \in M : t[j] <= t[i]
      BY <1>2, <3>1
    <3>3. t[i] \in Int /\ t[m + 1] \in Int /\ i \in L /\ \A j \in L : t[j] \in Int
      BY <2>3
    <3>4. CASE t[m + 1] <= t[i]
      <4>1. \A j \in L : t[j] <= t[i]
        BY <3>2, <3>4
      <4> QED
        BY <3>3, <4>1
    <3>5. CASE ~ (t[m + 1] <= t[i])
      <4>1. \A j \in L : t[j] <= t[m + 1]
        BY <3>2, <3>3, <3>5
      <4> QED
        BY <2>3, <4>1
    <3> QED
      BY <3>4, <3>5
  <2> QED
    BY <2>1, <2>2, <2>3
<1>3. n \in S
  <2> HIDE DEF S
  <2> QED
    BY <1>1, <1>2, Induction
<1> QED
  BY <1>3

LEMMA IdsFinite ==
    ASSUME NEW E, NEW s \in Seq(E)
    PROVE  IsFiniteSet(IdsOf(s)) /\ Cardinality(IdsOf(s)) \in Nat
<1> PICK n \in Nat : n = Len(s) /\ DOMAIN s = 1..n
  OBVIOUS
<1> DEFINE f == [i \in 1..n |-> s[i].id]
<1>1. f \in Surjection(1..n, IdsOf(s))
  BY DEF Surjection, IdsOf
<1>2. IsFiniteSet(1..n)
  <2>1. 1 \in Int /\ n \in Int
    OBVIOUS
  <2> QED
    BY <2>1, FS_Interval
<1>3. IsFiniteSet(IdsOf(s))
  BY <1>1, <1>2, FS_Surjection
<1> QED
  BY <1>3, FS_CardinalityType

\* The reading a station shows is one of its own.
LEMMA ShownIsSeen ==
    ASSUME NEW s, s.measures \in Seq(Members(s.measures)), NEW rain,
           \A r \in Members(rain) : r.at \in Int,
           Members(s.measures) \cap IdsOf(rain) # {}
    PROVE  RainfallShown(s, rain) \in Members(s.measures) \cap IdsOf(rain)
<1> PICK ms : ms = s.measures
  OBVIOUS
<1> PICK n \in Nat : n = Len(ms) /\ DOMAIN ms = 1..n
  OBVIOUS
<1> DEFINE Time(i) == (CHOOSE r \in Members(rain) : r.id = ms[i]).at
           known == {i \in DOMAIN ms : ms[i] \in IdsOf(rain)}
           newest == {i \in known : \A j \in known : Time(j) <= Time(i)}
           shown == CHOOSE i \in newest : \A j \in newest : i <= j
<1>1. known # {} /\ known \in SUBSET (1..n)
  BY DEF Members
<1>2. \A i \in known : Time(i) \in Int
  <2> SUFFICES ASSUME NEW i \in known PROVE Time(i) \in Int
    OBVIOUS
  <2>1. \E r \in Members(rain) : r.id = ms[i]
    BY DEF IdsOf, Members
  <2> QED
    BY <2>1
<1>3. newest # {}
  <2> DEFINE t == [i \in known |-> Time(i)]
  <2>1. \A i \in known : t[i] = Time(i)
    OBVIOUS
  <2> HIDE DEF t, Time, known
  <2>3. \A i \in known : t[i] \in Int
    BY <1>2, <2>1
  <2>2. \E i \in known : \A j \in known : t[j] <= t[i]
    BY <1>1, <2>3, GreatestNumber
  <2> QED
    BY <2>1, <2>2
<1>4. newest \in SUBSET (1..n)
  BY <1>1
<1>5. shown \in newest
  <2> DEFINE t == [i \in 1..n |-> 0 - i]
  <2> HIDE DEF newest
  <2>1. \A i \in newest : t[i] \in Int
    BY <1>4
  <2>2. PICK i \in newest : \A j \in newest : t[j] <= t[i]
    <3> HIDE DEF t
    <3> QED
      BY <1>3, <1>4, <2>1, GreatestNumber
  <2>3. \A j \in newest : i <= j
    <3>1. \A j \in 1..n : t[j] = 0 - j
      OBVIOUS
    <3> HIDE DEF t
    <3>2. \A j \in newest : 0 - j <= 0 - i
      BY <1>4, <2>2, <3>1
    <3> QED
      BY <1>4, <3>2
  <2> QED
    BY <2>3
<1>6. RainfallShown(s, rain) = ms[shown]
  BY <1>1 DEF RainfallShown
<1>7. shown \in DOMAIN ms /\ ms[shown] \in IdsOf(rain)
  BY <1>5
<1> HIDE DEF shown
<1> QED
  BY <1>6, <1>7 DEF Members

\* Readings used and readings skipped are all readings.
LEMMA ReadingsCounted ==
    ASSUME NEW E, NEW gauges \in Seq(E), NEW F, NEW rain \in Seq(F), RainfallAccepted(gauges, rain)
    PROVE  Cardinality(UNION {Members(s.measures) \cap IdsOf(rain) :
                                  s \in Members(RealStations(gauges))})
             + RainfallSkipped(gauges, rain)
             = Len(rain) + Len(gauges) - Len(RealStations(gauges))
<1> PICK real : real = RealStations(gauges)
  OBVIOUS
<1> PICK ids : ids = IdsOf(rain)
  OBVIOUS
<1> DEFINE used == UNION {Members(s.measures) : s \in Members(real)}
<1>1. real \in Seq(E)
  BY WithIdsIn DEF RealStations
<1>2. Len(real) \in Nat /\ Len(gauges) \in Nat /\ Len(rain) \in Nat
  BY <1>1
<1>3. IsFiniteSet(ids) /\ Cardinality(ids) = Len(rain)
  BY IdsFinite DEF RainfallAccepted, Distinct
<1>4. UNION {Members(s.measures) \cap ids : s \in Members(real)} = ids \cap used
  OBVIOUS
<1>5. Cardinality(ids \ used) = Cardinality(ids) - Cardinality(ids \cap used)
  <2> HIDE DEF used
  <2> QED
    BY <1>3, FS_Difference
<1>6. Cardinality(ids \cap used) \in Nat
  <2> HIDE DEF used
  <2>1. IsFiniteSet(ids \cap used)
    BY <1>3, FS_Intersection
  <2> QED
    BY <2>1, FS_CardinalityType
<1>7. RainfallSkipped(gauges, rain) = (Len(gauges) - Len(real)) + Cardinality(ids \ used)
  BY DEF RainfallSkipped
<1> HIDE DEF used
<1> PICK a \in Nat : a = Cardinality(ids \cap used)
  BY <1>6
<1> PICK b, c, d \in Nat : b = Len(gauges) /\ c = Len(real) /\ d = Len(rain)
  BY <1>2
<1>9. RainfallSkipped(gauges, rain) = (b - c) + (d - a)
  BY <1>3, <1>5, <1>7
<1>10. a + ((b - c) + (d - a)) = d + b - c
  OBVIOUS
<1> QED
  BY <1>4, <1>9, <1>10

LEMMA RainfallTogether ==
    ASSUME "rainfall" \in Sources, NEW E, NEW es \in Seq(E), Asked("rainfall", es),
           NEW vs, NEW cs, ServedIn("rainfall", es, vs, cs), RequestAfter("rainfall", es) = Done
    PROVE  LET gauges == RealStations(es[1].body.items)
               rain == es[2].body.items
               Seen(s) == Members(s.measures) \cap IdsOf(rain)
           IN  /\ \A s \in Members(gauges) : Seen(s) # {} => RainfallShown(s, rain) \in Seen(s)
               /\ Cardinality(UNION {Seen(s) : s \in Members(gauges)})
                    + RainfallSkipped(es[1].body.items, rain)
                    = Len(rain) + Len(es[1].body.items) - Len(gauges)
<1>1. RainfallNext(es) = Done /\ Len(es) \in Nat
  BY DEF RequestAfter
<1>2. Len(es) # 0 /\ Len(es) # 1
  BY <1>1 DEF RainfallNext, Done, Fail
<1>3. RainfallAccepted(es[1].body.items, es[2].body.items)
  BY <1>1, <1>2 DEF RainfallNext, Done, Fail
<1>4. 1 \in 1..Len(es) /\ 2 \in 1..Len(es)
  <2>1. \A n \in Nat : n # 0 /\ n # 1 => 1 \in 1..n /\ 2 \in 1..n
    OBVIOUS
  <2> QED
    BY <1>1, <1>2, <2>1, Zenon
<1>5. es[1].req = <<"gauges", 0>> /\ es[2].req = <<"rain", 0>>
  <2>1. Len(Earlier(es, 1)) = 1 - 1 /\ Len(Earlier(es, 2)) = 2 - 1
    BY <1>4, EarlierIs
  <2>2. es[1].req = RequestAfter("rainfall", Earlier(es, 1))
        /\ es[2].req = RequestAfter("rainfall", Earlier(es, 2))
    BY <1>4 DEF Asked
  <2>3. Len(Earlier(es, 1)) = 0 /\ Len(Earlier(es, 2)) = 1
    BY <2>1
  <2>4. RequestAfter("rainfall", Earlier(es, 1)) = <<"gauges", 0>>
    BY <2>3 DEF RequestAfter, RainfallNext
  <2>5. RequestAfter("rainfall", Earlier(es, 2)) = <<"rain", 0>>
    BY <2>3 DEF RequestAfter, RainfallNext
  <2> QED
    BY <2>2, <2>4, <2>5, Zenon
<1>6. PICK v, u \in DOMAIN Worlds["rainfall"] :
        /\ es[1].body = AnswerFrom(Worlds["rainfall"][v], cs[1], <<"gauges", 0>>)
        /\ es[2].body = AnswerFrom(Worlds["rainfall"][u], cs[2], <<"rain", 0>>)
  BY <1>4, <1>5 DEF ServedIn
<1> PICK gs, rs : /\ gs = OneResponse("gauges", Worlds["rainfall"][v].gauges)
                  /\ rs = OneResponse("rain", Worlds["rainfall"][u].rain)
  OBVIOUS
<1>7. es[1].body.items = gs /\ es[2].body.items = rs
  BY <1>6 DEF AnswerFrom, Collections, Responses, Levels
<1>8. /\ gs \in Seq(Members(gs)) /\ rs \in Seq(Members(rs))
      /\ \A g \in Members(gs) : g.measures \in Seq(Members(g.measures))
      /\ \A r \in Members(rs) : r.at \in Int
  <2>1. \A w \in DOMAIN Worlds["rainfall"] :
          /\ Worlds["rainfall"][w].gauges \in Seq(Members(Worlds["rainfall"][w].gauges))
          /\ Worlds["rainfall"][w].rain \in Seq(Members(Worlds["rainfall"][w].rain))
    <3>1. \A k \in ListsOf("rainfall"), w \in DOMAIN Worlds["rainfall"] :
            Worlds["rainfall"][w][k] \in Seq(Members(Worlds["rainfall"][w][k]))
      BY WorldsAssumption
    <3>2. "gauges" \in ListsOf("rainfall") /\ "rain" \in ListsOf("rainfall")
      BY DEF ListsOf
    <3> QED
      BY <3>1, <3>2
  <2> PICK all, every : /\ all = Worlds["rainfall"][v].gauges
                        /\ every = Worlds["rainfall"][u].rain
    OBVIOUS
  <2>2. /\ \A g \in Members(all) : g.measures \in Seq(Members(g.measures))
        /\ \A r \in Members(every) : r.at \in Int
    BY WorldsAssumption
  <2>3. all \in Seq(Members(all)) /\ every \in Seq(Members(every))
    BY <2>1
  <2>4. /\ gs \in Seq(Members(gs)) /\ Members(gs) \subseteq Members(all)
        /\ rs \in Seq(Members(rs)) /\ Members(rs) \subseteq Members(every)
    BY <2>3, ResponseIs
  <2> QED
    BY <2>2, <2>4
<1>9. \A s \in Members(RealStations(gs)) : s \in Members(gs)
  BY <1>8, WithIdsIn DEF RealStations
<1>10. \A s \in Members(RealStations(gs)) :
         Members(s.measures) \cap IdsOf(rs) # {}
           => RainfallShown(s, rs) \in Members(s.measures) \cap IdsOf(rs)
  BY <1>8, <1>9, ShownIsSeen
<1>11. Cardinality(UNION {Members(s.measures) \cap IdsOf(rs) : s \in Members(RealStations(gs))})
         + RainfallSkipped(gs, rs) = Len(rs) + Len(gs) - Len(RealStations(gs))
  BY <1>3, <1>7, <1>8, ReadingsCounted
<1> QED
  BY <1>7, <1>10, <1>11

\* Whatever the publisher changed between two answers, what can be read of a retrieval
\* belongs together, for any publisher and any limits (the normalisers of
\* ingestion/*_client.py and ingestion/*.py, which see all records at once).
THEOREM BundleAlwaysBelongsTogether == RetrievalSafety => []BundleBelongsTogether
<1>1. RetrievalInv /\ AnswersInv => BundleBelongsTogether
  <2> SUFFICES ASSUME RetrievalInv, AnswersInv PROVE BundleBelongsTogether
    OBVIOUS
  <2>1. CASE ~ ReaderAccepts
    BY <2>1 DEF BundleBelongsTogether
  <2>2. CASE ReaderAccepts
    <3> PICK s \in Sources : s = source
      BY DEF RetrievalInv, RetrievalTypeOK
    <3> PICK es : es = entries
      OBVIOUS
    <3> PICK E : E = Members(es) /\ es \in Seq(E)
      BY DEF RetrievalInv
    <3>1. RequestAfter(s, es) = Done
      BY <2>2 DEF ReaderAccepts, RetrievalInv, NextRequest
    <3>2. Asked(s, es) /\ Reads(es)
      BY <2>2 DEF AnswersInv, ReaderAccepts
    <3>3. PICK vs, cs : ServedIn(s, es, vs, cs)
      BY DEF AnswersInv
    <3>4. CASE s = "hydrology"
      <4>1. HydrologyAccepted(ItemsOf(es, "stations"), ItemsOf(es, "measures"),
                              ItemsOf(es, "latest"))
        BY <3>2, <3>4 DEF Reads, HydrologyReads
      <4>2. /\ {m.station : m \in Members(ItemsOf(es, "measures"))}
                 \subseteq IdsOf(ItemsOf(es, "stations"))
            /\ UNION {Members(x.embedded) : x \in Members(ItemsOf(es, "stations"))}
                 = IdsOf(ItemsOf(es, "measures"))
        BY <4>1, HydrologyTogether
      <4> QED
        BY <3>4, <4>2 DEF BundleBelongsTogether
    <3>5. CASE s = "points"
      <4>1. Cardinality(IdsOf(ItemsOf(es, "points"))) = es[Len(es)].body.total
        BY <3>1, <3>2, <3>3, <3>5, PointsTogether
      <4> QED
        BY <3>5, <4>1 DEF BundleBelongsTogether
    <3>6. CASE s = "observations"
      <4>1. ObservationsReads(es)
        BY <3>2, <3>6 DEF Reads
      <4>2. \A o \in Members(ItemsOf(es, "observations")) :
                PageFor(es, "unit", o.unit.id).items = <<o.unit>>
        BY <3>2, <3>3, <3>6, <4>1, ObservationsTogether
      <4> QED
        BY <3>6, <4>2 DEF BundleBelongsTogether
    <3>7. CASE s = "catchments"
      <4>1. CatchmentsAccepted(TreeOf(entries))
        BY <3>2, <3>7 DEF Reads, CatchmentsReads
      <4>2. LET tree == TreeOf(entries) IN
            \A d \in tree.root : \A w \in tree.geometry[d] :
              Cardinality({o \in DOMAIN tree.operational :
                  /\ w \in tree.operational[o].children
                  /\ tree.operational[o].parents[1] = {d}}) = 1
        BY <4>1, CatchmentsTogether
      <4>3. source = "catchments"
        BY <3>7
      <4> QED
        BY <4>2, <4>3 DEF BundleBelongsTogether
    <3>8. CASE s = "floods"
      <4>1. {w.area : w \in Members(es[1].body.items)} = Known(es, "polygon")
        BY <3>1, <3>2, <3>3, <3>8, FloodsTogether
      <4> QED
        BY <3>8, <4>1 DEF BundleBelongsTogether
    <3>9. CASE s = "rainfall"
      <4>1. LET gauges == RealStations(es[1].body.items)
                rain == es[2].body.items
                Seen(x) == Members(x.measures) \cap IdsOf(rain)
            IN  /\ \A x \in Members(gauges) :
                      Seen(x) # {} => RainfallShown(x, rain) \in Seen(x)
                /\ Cardinality(UNION {Seen(x) : x \in Members(gauges)})
                     + RainfallSkipped(es[1].body.items, rain)
                     = Len(rain) + Len(es[1].body.items) - Len(gauges)
        BY <3>1, <3>2, <3>3, <3>9, RainfallTogether
      <4> QED
        BY <3>9, <4>1 DEF BundleBelongsTogether
    <3> QED
      BY <3>4, <3>5, <3>6, <3>7, <3>8, <3>9 DEF BundleBelongsTogether
  <2> QED
    BY <2>1, <2>2
<1> QED
  BY <1>1, AnswersInvariant, PTL

-----------------------------------------------------------------------------
(* A publisher that does not change is read whole. *)

\* Pages of the list l, from its beginning and without a gap; a page that is not full
\* ends it.
PartRead(l, ps) ==
    /\ Len(ItemsIn(ps)) <= Len(l) /\ ItemsIn(ps) = SubSeq(l, 1, Len(ItemsIn(ps)))
    /\ \A i \in 1..Len(ps) : ps[i].body.total = Len(l)
    /\ ps # <<>> /\ Len(LastBody(ps).items) < PageLimit => Len(ItemsIn(ps)) = Len(l)

LEMMA PartReadOn ==
    ASSUME NEW T, NEW l \in Seq(T), NEW E, NEW ps \in Seq(E), NEW e \in E, PartRead(l, ps),
           ItemsIn(ps) \in Seq(T), ItemsIn(Append(ps, e)) = ItemsIn(ps) \o e.body.items,
           e.body.items = SubSeq(l, Len(ItemsIn(ps)) + 1,
                                 UpTo(Len(ItemsIn(ps)) + PageLimit, Len(l))),
           e.body.total = Len(l)
    PROVE  PartRead(l, Append(ps, e))
<1> PICK a \in Nat : a = Len(ItemsIn(ps))
  OBVIOUS
<1> PICK b \in Nat : b = Len(l)
  OBVIOUS
<1> PICK u : u = UpTo(a + PageLimit, b)
  OBVIOUS
<1> PICK qs : qs = Append(ps, e)
  OBVIOUS
<1>1. a <= b /\ ItemsIn(ps) = SubSeq(l, 1, a) /\ \A i \in 1..Len(ps) : ps[i].body.total = b
  BY DEF PartRead
<1>2. u \in Nat /\ a <= u /\ u <= b /\ (u - a < PageLimit => u = b)
  <2>1. u = IF a + PageLimit < b THEN a + PageLimit ELSE b
    BY DEF UpTo
  <2>2. PageLimit \in Nat
    BY RetrievalAssumption
  <2>3. CASE a + PageLimit < b
    BY <1>1, <2>1, <2>2, <2>3
  <2>4. CASE ~ (a + PageLimit < b)
    BY <1>1, <2>1, <2>2, <2>4
  <2> QED
    BY <2>3, <2>4
<1>3. SubSeq(l, 1, a) \o SubSeq(l, a + 1, u) = SubSeq(l, 1, u)
  <2>1. 1 \in 1..(b + 1) /\ a \in (1 - 1)..b /\ u \in a..b
    BY <1>1, <1>2
  <2> QED
    BY <2>1, ConcatAdjacentSubSeq
<1>4. \A m, n \in Nat : m <= n /\ n <= b => Len(SubSeq(l, m + 1, n)) = n - m
  <2> SUFFICES ASSUME NEW m \in Nat, NEW n \in Nat, m <= n, n <= b
               PROVE  Len(SubSeq(l, m + 1, n)) = n - m
    OBVIOUS
  <2>1. \A i \in (m + 1)..n : l[i] \in T
    <3>1. \A i \in (m + 1)..n : i \in 1..b
      OBVIOUS
    <3> QED
      BY <3>1, ElementOfSeq
  <2>2. Len(SubSeq(l, m + 1, n)) = IF m + 1 <= n THEN n - (m + 1) + 1 ELSE 0
    BY <2>1, SubSeqProperties
  <2> QED
    BY <2>2
<1>5. ItemsIn(qs) = SubSeq(l, 1, u)
  BY <1>1, <1>3
<1>6. Len(ItemsIn(qs)) = u /\ Len(e.body.items) = u - a
  <2>1. Len(SubSeq(l, 0 + 1, u)) = u - 0
    BY <1>2, <1>4
  <2>2. Len(SubSeq(l, a + 1, u)) = u - a
    BY <1>2, <1>4
  <2> QED
    BY <1>2, <1>5, <2>1, <2>2
<1>7. Len(qs) = Len(ps) + 1 /\ qs[Len(qs)] = e /\ Len(ps) \in Nat
      /\ \A i \in 1..Len(ps) : qs[i] = ps[i]
  OBVIOUS
<1>8. \A i \in 1..Len(qs) : qs[i].body.total = b
  <2>1. \A n \in Nat : \A i \in 1..(n + 1) : i = n + 1 \/ i \in 1..n
    OBVIOUS
  <2>2. \A i \in 1..Len(qs) : i = Len(qs) \/ i \in 1..Len(ps)
    BY <1>7, <2>1
  <2> QED
    BY <1>1, <1>7, <2>2
<1>9. LastBody(qs) = e.body
  BY <1>7 DEF LastBody
<1> QED
  BY <1>2, <1>5, <1>6, <1>8, <1>9 DEF PartRead

LEMMA PageExtends ==
    ASSUME NEW T, NEW l \in Seq(T), NEW E, NEW x \in Seq(E), NEW e \in E, NEW a,
           a = Len(ItemsIn(x)), ListsIn(x, T), e.body.items \in Seq(T),
           e.body.items = SubSeq(l, a + 1, UpTo(a + PageLimit, Len(l))),
           e.body.total = Len(l), PartRead(l, x)
    PROVE  PartRead(l, Append(x, e))
<1>1. ItemsIn(x) \in Seq(T) /\ ItemsIn(Append(x, e)) = ItemsIn(x) \o e.body.items
  BY ItemsAppend
<1> QED
  BY <1>1, PartReadOn

LEMMA PageOn ==
    ASSUME NEW s \in Sources, NEW k \in Collections \cap ListsOf(s), NEW v \in DOMAIN Worlds[s],
           NEW E, NEW x \in Seq(E), NEW e \in E, NEW c, NEW a \in Nat, a = Len(ItemsIn(x)),
           e.body = AnswerFrom(Worlds[s][v], c, <<k, a>>), ListsIn(x, Records(s, k)),
           PartRead(Worlds[s][v][k], x)
    PROVE  PartRead(Worlds[s][v][k], Append(x, e))
<1> PICK l : l = Worlds[s][v][k]
  OBVIOUS
<1> PICK page : page = AnswerFrom(Worlds[s][v], c, <<k, a>>)
  OBVIOUS
<1>1. /\ page.items = SubSeq(l, a + 1, UpTo(a + PageLimit, Len(l)))
      /\ page.items \in Seq(Records(s, k))
      /\ page.total = Len(l) /\ page.total \in Nat
  BY PageIs
<1>2. l \in Seq(Records(s, k))
  BY ListIs
<1> QED
  BY <1>1, <1>2, PageExtends

\* The answers come from one version of what is served.
AllFrom(ps, w) == \A e \in Members(ps) : \E c : e.body = AnswerFrom(w, c, e.req)

LEMMA OneVersionRead ==
    ASSUME NEW s \in Sources, NEW k \in Collections \cap ListsOf(s), NEW E, NEW ps \in Seq(E),
           PagesIn(s, ps, k), NEW v \in DOMAIN Worlds[s],
           AllFrom(ps, Worlds[s][v])
    PROVE  PartRead(Worlds[s][v][k], ps)
<1> PICK T : T = Records(s, k)
  OBVIOUS
<1> PICK l \in Seq(T) : l = Worlds[s][v][k]
  BY ListIs
<1> DEFINE S == {x \in Seq(E) : PartRead(l, x)}
<1>1. <<>> \in S
  <2>1. Len(ItemsIn(<<>>)) = 0 /\ ItemsIn(<<>>) = <<>>
    BY OfEmpty
  <2>2. SubSeq(l, 1, 0) = <<>>
    BY SubSeqEmpty
  <2>3. 1..Len(<<>>) = {} /\ 0 <= Len(l)
    OBVIOUS
  <2>4. PartRead(l, <<>>)
    BY <2>1, <2>2, <2>3, Zenon DEF PartRead
  <2> QED
    BY <2>4
<1>2. ASSUME NEW n \in 1..Len(ps), Earlier(ps, n) \in S
      PROVE  Append(Earlier(ps, n), ps[n]) \in S
  <2> PICK x \in Seq(E) : x = Earlier(ps, n) /\ PartRead(l, x)
    BY <1>2
  <2> PICK e \in E : e = ps[n]
    BY ElementOfSeq
  <2>1. e.req = <<k, Len(ItemsIn(x))>> /\ Len(ItemsIn(x)) \in Nat
    BY DEF PagesIn, Before, Earlier
  <2>2. e \in Members(ps)
    BY DEF Members
  <2>3. PICK c : e.body = AnswerFrom(Worlds[s][v], c, <<k, Len(ItemsIn(x))>>)
    BY <2>1, <2>2 DEF AllFrom
  <2>5. ListsIn(x, T)
    <3>1. Len(x) = n - 1 /\ \A i \in 1..(n - 1) : x[i] = ps[i]
      BY EarlierIs
    <3>2. \A i \in 1..(n - 1) : i \in 1..Len(ps)
      OBVIOUS
    <3> QED
      BY <3>1, <3>2 DEF PagesIn, ListsIn
  <2>7. PartRead(l, Append(x, e))
    BY <2>1, <2>3, <2>5, PageOn
  <2>8. Append(x, e) \in Seq(E)
    OBVIOUS
  <2> QED
    BY <2>7, <2>8
<1>3. ps \in S
  <2> HIDE DEF S
  <2> QED
    BY <1>1, <1>2, PrefixInduction
<1> QED
  BY <1>3

\* All answers from one version.
FromVersion(es, w) == \A n \in 1..Len(es) : \E c : es[n].body = AnswerFrom(w, c, es[n].req)

LEMMA VersionOf ==
    ASSUME NEW E, NEW es \in Seq(E), NEW w, FromVersion(es, w), NEW k
    PROVE  AllFrom(Of(es, k), w)
<1> SUFFICES ASSUME NEW e \in Members(Of(es, k))
             PROVE  \E c : e.body = AnswerFrom(w, c, e.req)
  BY DEF AllFrom
<1>1. e \in Members(es)
  BY OfMembers
<1>2. PICK n \in 1..Len(es) : e = es[n]
  BY <1>1 DEF Members
<1> QED
  BY <1>2 DEF FromVersion

LEMMA WholeWhen ==
    ASSUME NEW T, NEW l \in Seq(T), NEW E, NEW ps \in Seq(E), PartRead(l, ps),
           \/ ps # <<>> /\ Len(LastBody(ps).items) < PageLimit
           \/ \E i \in 1..Len(ps) : Len(ItemsIn(ps)) = ps[i].body.total
    PROVE  ItemsIn(ps) = l
<1>1. Len(ItemsIn(ps)) = Len(l)
  BY DEF PartRead
<1>2. SubSeq(l, 1, Len(l)) = l
  BY SubSeqFull
<1> QED
  BY <1>1, <1>2 DEF PartRead

LEMMA QuietCollections ==
    ASSUME NEW s \in Sources, NEW E, NEW es \in Seq(E), Asked(s, es), NEW vs, NEW cs,
           ServedIn(s, es, vs, cs), RequestAfter(s, es) = Done, NEW v \in DOMAIN Worlds[s],
           FromVersion(es, Worlds[s][v]), NEW k \in Collections \cap ListsOf(s)
    PROVE  ItemsOf(es, k) = Worlds[s][v][k]
<1> PICK w : w = Worlds[s][v]
  OBVIOUS
<1> PICK l : l = w[k]
  OBVIOUS
<1>1. l \in Seq(Records(s, k))
  BY ListIs
<1> PICK ps : ps = Of(es, k)
  OBVIOUS
<1>2. ps \in Seq(E)
  BY OfInSeq
<1>3. PagesIn(s, ps, k) => PartRead(l, ps)
  <2> SUFFICES ASSUME PagesIn(s, ps, k) PROVE PartRead(l, ps)
    OBVIOUS
  <2>1. AllFrom(ps, Worlds[s][v])
    BY VersionOf
  <2>2. PartRead(Worlds[s][v][k], ps)
    BY <1>2, <2>1, OneVersionRead
  <2> QED
    BY <2>2
<1>4. CASE s = "hydrology"
  <2>1. k \in HydrologyKinds
    BY <1>4 DEF ListsOf, HydrologyKinds
  <2>2. Finished(ps) /\ PagesIn(s, ps, k)
    BY <1>4, <2>1, HydrologyAnswers
  <2>3. ps # <<>> /\ Len(LastBody(ps).items) < PageLimit
    BY <2>2 DEF Finished
  <2>4. ItemsIn(ps) = l
    BY <1>1, <1>2, <1>3, <2>2, <2>3, WholeWhen
  <2> QED
    BY <2>4 DEF ItemsOf
<1>5. CASE s = "history"
  <2>1. k = "readings"
    BY <1>5 DEF ListsOf
  <2>2. ps = es /\ PagesIn(s, ps, k)
    BY <1>5, <2>1, GoingOn, OneCollection
  <2>3. HistoryNext(es) = Done
    BY <1>5 DEF RequestAfter
  <2>4. ps # <<>> /\ Len(LastBody(ps).items) < PageLimit
    BY <2>2, <2>3 DEF HistoryNext, Done, Fail
  <2>5. ItemsIn(ps) = l
    BY <1>1, <1>2, <1>3, <2>2, <2>4, WholeWhen
  <2> QED
    BY <2>5 DEF ItemsOf
<1>6. CASE s = "points"
  <2>1. k = "points"
    BY <1>6 DEF ListsOf
  <2>2. ps = es /\ PagesIn(s, ps, k)
    BY <1>6, <2>1, GoingOn, OneCollection
  <2>3. Totalled(es, k)
    BY <1>6, <2>1, PointsAnswers
  <2>4. 1 \in 1..Len(ps) /\ Len(ItemsIn(ps)) = ps[1].body.total
    <3>1. Len(es) \in Nat \ {0}
      BY <2>3, RetrievalAssumption DEF Totalled
    <3> QED
      BY <2>2, <2>3, <3>1 DEF Totalled, ItemsOf
  <2>5. ItemsIn(ps) = l
    BY <1>1, <1>2, <1>3, <2>2, <2>4, WholeWhen
  <2> QED
    BY <2>5 DEF ItemsOf
<1>7. CASE s = "observations"
  <2>1. k = "observations"
    BY <1>7 DEF ListsOf
  <2>2. PagesIn(s, ps, k)
    BY <1>7, <2>1, ObservationsStages
  <2>3. Totalled(ps, k)
    BY <1>7, <2>1, ObservationsAnswers DEF ObservationsReads
  <2>4. Of(ps, k) = ps
    <3>1. \A i \in 1..Len(ps) : ps[i].req = <<k, Before(ps, i)>>
      BY <2>2 DEF PagesIn
    <3>2. \A i \in 1..Len(ps) : ps[i].req[1] = k
      <4> SUFFICES ASSUME NEW i \in 1..Len(ps) PROVE ps[i].req[1] = k
        OBVIOUS
      <4> QED
        BY <3>1
    <3> QED
      BY <1>2, <3>2, OnlyKind
  <2>5. 1 \in 1..Len(ps) /\ Len(ItemsIn(ps)) = ps[1].body.total
    <3>1. Len(ps) \in Nat \ {0}
      BY <2>3, RetrievalAssumption DEF Totalled
    <3> QED
      BY <2>3, <2>4, <3>1 DEF Totalled, ItemsOf
  <2>6. ItemsIn(ps) = l
    BY <1>1, <1>2, <1>3, <2>2, <2>5, WholeWhen
  <2> QED
    BY <2>6 DEF ItemsOf
<1> QED
  BY <1>4, <1>5, <1>6, <1>7, SourcesAssumption DEF ListsOf, Collections

-----------------------------------------------------------------------------
(* Floods and catchments of a publisher that does not change. *)

LEMMA QuietFloods ==
    ASSUME NEW E, NEW es \in Seq(E), Asked("floods", es), NEW vs, NEW cs,
           ServedIn("floods", es, vs, cs), "floods" \in Sources,
           RequestAfter("floods", es) = Done, NEW w, FromVersion(es, w),
           w.warnings \in Seq(Members(w.warnings)), Len(w.warnings) <= ResponseLimit
    PROVE  Known(es, "area") = {x.area : x \in Members(w.warnings)}
<1>1. /\ es # <<>>
      /\ {x.area : x \in Members(es[1].body.items)} = Known(es, "area")
  BY FloodsTogether
<1>2. 1 \in 1..Len(es) /\ 1 <= Len(es)
  BY <1>1, NotEmpty
<1>3. es[1].req = <<"warnings", 0>>
  BY <1>2, FloodRequests
<1>4. PICK c : es[1].body = AnswerFrom(w, c, <<"warnings", 0>>)
  BY <1>2, <1>3 DEF FromVersion
<1>5. AnswerFrom(w, c, <<"warnings", 0>>).items = OneResponse("warnings", w.warnings)
  BY DEF AnswerFrom, Responses, Collections, Levels
<1>6. es[1].body.items = w.warnings
  BY <1>4, <1>5, ResponseIs
<1> QED
  BY <1>1, <1>6

\* The only answer of a retrieval that asks once.
LEMMA OnlyAnswer ==
    ASSUME NEW s \in {"bathing", "companies", "discharges"}, NEW E, NEW es \in Seq(E),
           Asked(s, es), RequestAfter(s, es) = Done
    PROVE  Len(es) = 1 /\ es[1].req = RequestAfter(s, <<>>)
<1> USE DEF RequestAfter, BathingNext, CompaniesNext, DischargesNext
<1>1. Len(es) <= 1
  <2> SUFFICES ASSUME 2 <= Len(es) PROVE FALSE
    OBVIOUS
  <2>1. 2 \in 1..Len(es)
    OBVIOUS
  <2>2. Earlier(es, 2) # <<>>
    BY <2>1, EarlierIs
  <2>3. RequestAfter(s, Earlier(es, 2)) \in {Done, Fail}
    BY <2>2
  <2> QED
    BY <2>1, <2>3 DEF Asked
<1>2. es # <<>>
  BY DEF Done
<1>3. Len(es) = 1
  <2>1. Len(es) \in Nat \ {0}
    BY <1>2, EmptySeq
  <2>2. \A n \in Nat \ {0} : n <= 1 => n = 1
    OBVIOUS
  <2> QED
    BY <1>1, <2>1, <2>2, Zenon
<1>4. 1 <= Len(es)
  BY <1>3
<1> HIDE DEF RequestAfter, BathingNext, CompaniesNext, DischargesNext
<1> QED
  BY <1>3, <1>4, AskedFirst

\* Every list that comes in one response was asked for.
LEMMA ListAsked ==
    ASSUME NEW s \in Sources, NEW k \in Responses \cap ListsOf(s), NEW E, NEW es \in Seq(E),
           Asked(s, es), NEW vs, NEW cs, ServedIn(s, es, vs, cs), RequestAfter(s, es) = Done
    PROVE  \E n \in 1..Len(es) : es[n].req = <<k, 0>>
<1>1. /\ s \in {"bathing", "companies", "discharges", "rainfall", "floods"}
      /\ s = "bathing" => k = "waters"
      /\ s = "companies" => k = "facts"
      /\ s = "discharges" => k = "sites"
      /\ s = "rainfall" => k \in {"gauges", "rain"}
      /\ s = "floods" => k = "warnings"
  BY SourcesAssumption DEF Responses, ListsOf
<1>2. CASE s \in {"bathing", "companies", "discharges"}
  <2>1. Len(es) = 1 /\ es[1].req = RequestAfter(s, <<>>)
    BY <1>2, OnlyAnswer
  <2>2. RequestAfter(s, <<>>) = <<k, 0>>
    BY <1>1, <1>2 DEF RequestAfter, BathingNext, CompaniesNext, DischargesNext
  <2> QED
    BY <2>1, <2>2
<1>3. CASE s = "rainfall"
  <2>1. Len(es) \in Nat /\ Len(es) # 0 /\ Len(es) # 1
    BY <1>3 DEF RequestAfter, RainfallNext, Done, Fail
  <2>2. 1 \in 1..Len(es) /\ 2 \in 1..Len(es)
    <3>1. \A n \in Nat : n # 0 /\ n # 1 => 1 \in 1..n /\ 2 \in 1..n
      OBVIOUS
    <3> QED
      BY <2>1, <3>1, Zenon
  <2>3. Len(Earlier(es, 1)) = 1 - 1 /\ Len(Earlier(es, 2)) = 2 - 1
    BY <2>2, EarlierIs
  <2>4. Len(Earlier(es, 1)) = 0 /\ Len(Earlier(es, 2)) = 1
    BY <2>3
  <2>5. /\ RequestAfter(s, Earlier(es, 1)) = <<"gauges", 0>>
        /\ RequestAfter(s, Earlier(es, 2)) = <<"rain", 0>>
    <3>1. \A q : RequestAfter("rainfall", q) = RainfallNext(q)
      BY DEF RequestAfter
    <3>2. \A q : Len(q) = 0 => RainfallNext(q) = <<"gauges", 0>>
      BY DEF RainfallNext
    <3>3. \A q : Len(q) = 1 => RainfallNext(q) = <<"rain", 0>>
      BY DEF RainfallNext
    <3> QED
      BY <1>3, <2>4, <3>1, <3>2, <3>3, Zenon
  <2>6. /\ es[1].req = RequestAfter(s, Earlier(es, 1))
        /\ es[2].req = RequestAfter(s, Earlier(es, 2))
    BY <2>2 DEF Asked
  <2>7. es[1].req = <<"gauges", 0>> /\ es[2].req = <<"rain", 0>>
    BY <2>5, <2>6
  <2>8. k \in {"gauges", "rain"}
    BY <1>1, <1>3
  <2>9. CASE k = "gauges"
    BY <2>2, <2>7, <2>9, Zenon
  <2>10. CASE k = "rain"
    BY <2>2, <2>7, <2>10, Zenon
  <2> QED
    BY <2>8, <2>9, <2>10
<1>4. CASE s = "floods"
  <2>1. es # <<>>
    BY <1>4 DEF RequestAfter, FloodsNext, Done
  <2>2. 1 \in 1..Len(es) /\ 1 <= Len(es)
    BY <2>1, NotEmpty
  <2>3. es[1].req = RequestAfter(s, <<>>)
    BY <2>2, AskedFirst
  <2>4. RequestAfter(s, <<>>) = <<"warnings", 0>>
    BY <1>4 DEF RequestAfter, FloodsNext
  <2> QED
    BY <1>1, <1>4, <2>2, <2>3, <2>4
<1> QED
  BY <1>1, <1>2, <1>3, <1>4

\* The bathing waters are not cut: the client looks for what follows them.
LEMMA WatersNotCut ==
    ASSUME NEW E, NEW es \in Seq(E), Asked("bathing", es), RequestAfter("bathing", es) = Done,
           NEW w, FromVersion(es, w)
    PROVE  ~ (Len(OneResponse("waters", w.waters)) < Len(w.waters))
<1>1. Len(es) = 1 /\ es[1].req = RequestAfter("bathing", <<>>)
  BY OnlyAnswer
<1>2. es[1].req = <<"waters", 0>>
  BY <1>1 DEF RequestAfter, BathingNext
<1>3. PICK c : es[1].body = AnswerFrom(w, c, <<"waters", 0>>)
  BY <1>1, <1>2 DEF FromVersion
<1>4. AnswerFrom(w, c, <<"waters", 0>>).more = (Len(OneResponse("waters", w.waters)) < Len(w.waters))
  BY DEF AnswerFrom, Responses, Collections, Levels
<1>5. BathingAccepted(LastBody(es).items, LastBody(es).more)
  <2>1. BathingNext(es) = Done /\ es # <<>>
    BY <1>1 DEF RequestAfter
  <2> QED
    BY <2>1 DEF BathingNext, Done, Fail
<1>6. ~ es[1].body.more
  BY <1>1, <1>5 DEF BathingAccepted, LastBody
<1> QED
  BY <1>3, <1>4, <1>6

LEMMA QuietResponses ==
    ASSUME NEW s \in Sources, NEW k \in Responses \cap ListsOf(s), NEW E, NEW es \in Seq(E),
           Asked(s, es), NEW vs, NEW cs, ServedIn(s, es, vs, cs), RequestAfter(s, es) = Done,
           NEW w, w[k] \in Seq(Members(w[k])), FromVersion(es, w),
           k \in {"waters", "facts"} \/ Len(w[k]) <= ResponseLimit
    PROVE  PageFor(es, k, 0).items = w[k]
<1>1. PICK n \in 1..Len(es) : es[n].req = <<k, 0>>
  BY ListAsked
<1>2. es[n] \in Members(es) /\ es[n].req[1] = k /\ es[n].req[2] = 0
  BY <1>1 DEF Members
<1>3. \E e \in Members(Of(es, k)) : e.req[2] = 0
  BY <1>2, OfMembers
<1>4. PICK e : e \in Members(Of(es, k)) /\ PageFor(es, k, 0) = e.body
  BY <1>3 DEF PageFor
<1>5. e \in Members(es) /\ e.req[1] = k
  BY <1>4, OfMembers
<1>6. PICK c : e.body = AnswerFrom(w, c, e.req)
  <2>1. PICK i \in 1..Len(es) : e = es[i]
    BY <1>5 DEF Members
  <2> QED
    BY <2>1 DEF FromVersion
<1>7. e.body = [items |-> OneResponse(k, w[k]), more |-> Len(OneResponse(k, w[k])) < Len(w[k])]
  BY <1>5, <1>6, ResponseServed
<1>8. OneResponse(k, w[k]) = w[k]
  <2>1. CASE Len(w[k]) <= ResponseLimit
    BY <2>1, ResponseIs
  <2>2. CASE k = "facts"
    BY <2>2, ResponseIs DEF Limited
  <2>3. CASE k = "waters"
    <3>1. s = "bathing"
      BY <2>3, SourcesAssumption DEF ListsOf
    <3>2. ~ (Len(OneResponse(k, w[k])) < Len(w[k]))
      BY <2>3, <3>1, WatersNotCut
    <3> QED
      BY <3>2, ResponseIs
  <2> QED
    BY <2>1, <2>2, <2>3
<1> QED
  BY <1>4, <1>7, <1>8

\* Every page of the tree is the one of that version.
LEMMA QuietPages ==
    ASSUME NEW E, NEW es \in Seq(E), NEW w, FromVersion(es, w)
    PROVE  /\ \A l \in Levels : \A id \in Known(es, l) : PageFor(es, l, id) = w[l][id]
           /\ \A id \in Known(es, "geometry") :
                PageFor(es, "geometry", id).bodies = w.geometry[id]
<1>1. ASSUME NEW l, NEW id \in Known(es, l)
      PROVE  \E e : e.req[1] = l /\ e.req[2] = id /\ PageFor(es, l, id) = e.body
                    /\ \E c : e.body = AnswerFrom(w, c, e.req)
  <2> DEFINE e == CHOOSE x \in Members(Of(es, l)) : x.req[2] = id
  <2>1. \E x \in Members(Of(es, l)) : x.req[2] = id
    BY DEF Known
  <2>2. e \in Members(Of(es, l)) /\ e.req[2] = id
    BY <2>1
  <2>3. PageFor(es, l, id) = e.body
    BY DEF PageFor
  <2> HIDE DEF e
  <2>4. e.req[1] = l
    BY <2>2, OfMembers
  <2>5. \E c : e.body = AnswerFrom(w, c, e.req)
    BY <2>2, VersionOf DEF AllFrom
  <2> QED
    BY <2>2, <2>3, <2>4, <2>5
<1>2. ASSUME NEW l \in Levels, NEW id \in Known(es, l) PROVE PageFor(es, l, id) = w[l][id]
  <2>1. PICK e, c : /\ e.req[1] = l /\ e.req[2] = id /\ PageFor(es, l, id) = e.body
                    /\ e.body = AnswerFrom(w, c, e.req)
    BY <1>1
  <2>2. AnswerFrom(w, c, e.req) = w[l][id]
    BY <2>1 DEF AnswerFrom, Responses, Collections, Levels
  <2> QED
    BY <2>1, <2>2
<1>3. ASSUME NEW id \in Known(es, "geometry")
      PROVE  PageFor(es, "geometry", id).bodies = w.geometry[id]
  <2>1. PICK e, c : /\ e.req[1] = "geometry" /\ e.req[2] = id
                    /\ PageFor(es, "geometry", id) = e.body
                    /\ e.body = AnswerFrom(w, c, e.req)
    BY <1>1
  <2>2. AnswerFrom(w, c, e.req) = [bodies |-> w.geometry[id]]
    BY <2>1 DEF AnswerFrom, Responses, Collections, Levels
  <2> QED
    BY <2>1, <2>2
<1> QED
  BY <1>2, <1>3

LEMMA QuietCatchments ==
    ASSUME NEW E, NEW es \in Seq(E), Asked("catchments", es), NEW vs, NEW cs,
           ServedIn("catchments", es, vs, cs), "catchments" \in Sources,
           RequestAfter("catchments", es) = Done, NEW w, FromVersion(es, w)
    PROVE  /\ TreeOf(es).operational = [o \in Operationals(w) |-> w.operational[o]]
           /\ TreeOf(es).geometry = [d \in w.root |-> w.geometry[d]]
<1>1. CatchmentsAccepted(TreeOf(es)) /\ es # <<>>
  <2>1. CatchmentsNext(es) = Done
    BY DEF RequestAfter
  <2> QED
    BY <2>1 DEF CatchmentsNext, Done, Fail
<1>2. es[1].body.children = w.root
  <2>1. 1 \in 1..Len(es)
    BY <1>1, NotEmpty
  <2>2. es[1].req = <<"root", "root">>
    BY <2>1, AskedFirst DEF RequestAfter, CatchmentsNext
  <2>3. PICK c : es[1].body = AnswerFrom(w, c, <<"root", "root">>)
    BY <2>1, <2>2 DEF FromVersion
  <2>4. AnswerFrom(w, c, <<"root", "root">>) = [children |-> w.root]
    BY DEF AnswerFrom, Responses, Collections, Levels
  <2> QED
    BY <2>3, <2>4
<1> PICK tree : tree = TreeOf(es)
  OBVIOUS
<1>3. /\ tree.root = w.root
      /\ tree.district = [d \in Known(es, "district") |-> w.district[d]]
      /\ tree.management = [m \in Known(es, "management") |-> w.management[m]]
      /\ tree.operational = [o \in Known(es, "operational") |-> w.operational[o]]
      /\ tree.geometry = [d \in Known(es, "geometry") |-> w.geometry[d]]
  <2>1. \A id \in Known(es, "district") : PageFor(es, "district", id) = w.district[id]
    BY QuietPages DEF Levels
  <2>2. \A id \in Known(es, "management") : PageFor(es, "management", id) = w.management[id]
    BY QuietPages DEF Levels
  <2>3. \A id \in Known(es, "operational") : PageFor(es, "operational", id) = w.operational[id]
    BY QuietPages DEF Levels
  <2>4. \A id \in Known(es, "geometry") : PageFor(es, "geometry", id).bodies = w.geometry[id]
    BY QuietPages
  <2> QED
    BY <1>2, <2>1, <2>2, <2>3, <2>4 DEF TreeOf
<1>4. Known(es, "district") = w.root /\ Known(es, "geometry") = w.root
  BY <1>1, <1>3 DEF CatchmentsAccepted, DistrictsComplete, Roots
<1>5. Managements(tree) = Managements(w)
  <2>1. \A d \in w.root : tree["district"][d] = w["district"][d]
    BY <1>3, <1>4
  <2> QED
    BY <1>3, <2>1 DEF Managements, Below, Roots
<1>6. Known(es, "management") = Managements(w)
  BY <1>1, <1>3, <1>5 DEF CatchmentsAccepted, ManagementsComplete
<1>7. Operationals(tree) = Operationals(w)
  <2>1. \A m \in Managements(w) : tree["management"][m] = w["management"][m]
    BY <1>3, <1>6
  <2> QED
    BY <1>5, <2>1 DEF Operationals, Below
<1>8. Known(es, "operational") = Operationals(w)
  BY <1>1, <1>3, <1>7 DEF CatchmentsAccepted, OperationalsComplete
<1> QED
  BY <1>3, <1>4, <1>8

-----------------------------------------------------------------------------
(* Reservoirs of a publisher that does not change: pages by identity. *)

\* The identities that are asked for are those of a part of the list.
Between(l, ids, a, b) == \A j \in 1..Len(l) : l[j].id \in ids <=> a < j /\ j <= b

LEMMA WithIdsPart ==
    ASSUME NEW T, NEW l \in Seq(T), NEW ids, NEW a \in Nat, NEW b \in Nat, a <= b, b <= Len(l),
           Between(l, ids, a, b)
    PROVE  WithIds(l, ids) = SubSeq(l, a + 1, b)
<1> DEFINE S == {x \in Seq(T) : WithIds(x, ids) = SubSeq(l, a + 1, UpTo(Len(x), b))}
<1>0. \A x \in Seq(T) : \A e \in T :
         /\ e.id \in ids => WithIds(Append(x, e), ids) = Append(WithIds(x, ids), e)
         /\ e.id \notin ids => WithIds(Append(x, e), ids) = WithIds(x, ids)
  BY WithIdsAppend
<1>1. <<>> \in S
  <2>1. WithIds(<<>>, ids) = <<>>
    <3>1. DOMAIN <<>> = {}
      OBVIOUS
    <3>2. [i \in DOMAIN <<>> |-> IF <<>>[i].id \in ids THEN << <<>>[i]>> ELSE <<>>] = <<>>
      BY <3>1
    <3> QED
      BY <3>2, FlattenEmpty DEF WithIds
  <2>2. Len(<<>>) = 0 /\ UpTo(0, b) = 0
    BY UpToIs
  <2>3. SubSeq(l, a + 1, 0) = <<>>
    BY SubSeqEmpty
  <2>4. <<>> \in Seq(T)
    OBVIOUS
  <2>5. WithIds(<<>>, ids) = SubSeq(l, a + 1, UpTo(Len(<<>>), b))
    BY <2>1, <2>2, <2>3, Zenon
  <2> QED
    BY <2>4, <2>5, Zenon
<1>2. ASSUME NEW n \in 1..Len(l), Earlier(l, n) \in S
      PROVE  Append(Earlier(l, n), l[n]) \in S
  <2> PICK x \in Seq(T) : x = Earlier(l, n)
                          /\ WithIds(x, ids) = SubSeq(l, a + 1, UpTo(Len(x), b))
    BY <1>2
  <2> PICK e \in T : e = l[n]
    BY ElementOfSeq
  <2> HIDE DEF S
  <2>10. Append(x, e) \in Seq(T)
    OBVIOUS
  <2>11. /\ e.id \in ids => WithIds(Append(x, e), ids) = Append(WithIds(x, ids), e)
         /\ e.id \notin ids => WithIds(Append(x, e), ids) = WithIds(x, ids)
    BY <1>0
  <2> PICK y \in Seq(T) : y = Append(x, e)
    BY <2>10
  <2>1. Len(x) = n - 1 /\ Len(y) = n /\ n - 1 \in Nat /\ n \in Nat
    BY EarlierIs
  <2>2. /\ e.id \in ids => WithIds(y, ids) = Append(WithIds(x, ids), e)
        /\ e.id \notin ids => WithIds(y, ids) = WithIds(x, ids)
    BY <2>11, Zenon
  <2>3. e.id \in ids <=> a < n /\ n <= b
    BY DEF Between
  <2>4. WithIds(x, ids) = SubSeq(l, a + 1, UpTo(n - 1, b))
    BY <2>1
  <2>5. CASE n <= a
    <3>1. UpTo(n - 1, b) = n - 1 /\ UpTo(n, b) = n
      BY <2>1, <2>5, UpToIs
    <3>2. SubSeq(l, a + 1, n - 1) = <<>> /\ SubSeq(l, a + 1, n) = <<>>
      BY <2>5, SubSeqEmpty
    <3>3. e.id \notin ids
      BY <2>1, <2>3, <2>5
    <3>4. WithIds(y, ids) = SubSeq(l, a + 1, UpTo(n, b))
      BY <2>2, <2>4, <3>1, <3>2, <3>3, Zenon
    <3> QED
      BY <2>1, <3>4 DEF S
  <2>6. CASE a < n /\ n <= b
    <3>1. UpTo(n - 1, b) = n - 1 /\ UpTo(n, b) = n
      BY <2>1, <2>6, UpToIs
    <3>2. SubSeq(l, a + 1, n) = SubSeq(l, a + 1, n - 1) \o <<l[n]>>
      <4>1. a + 1 \in 1..Len(l) /\ n \in (a + 1)..Len(l)
        BY <2>6
      <4> QED
        BY <4>1, SubSeqRecursiveSecond
    <3>3. Append(WithIds(x, ids), e) = WithIds(x, ids) \o <<e>>
      <4>1. WithIds(x, ids) \in Seq(T)
        BY WithIdsIn
      <4> QED
        BY <4>1, AppendIsConcat
    <3>4. WithIds(y, ids) = SubSeq(l, a + 1, UpTo(n, b))
      BY <2>2, <2>3, <2>4, <2>6, <3>1, <3>2, <3>3
    <3> QED
      BY <2>1, <3>4 DEF S
  <2>7. CASE b < n
    <3>1. UpTo(n - 1, b) = b /\ UpTo(n, b) = b
      BY <2>1, <2>7, UpToIs
    <3>2. ~ (n <= b)
      BY <2>1, <2>7
    <3>3. WithIds(y, ids) = SubSeq(l, a + 1, UpTo(n, b))
      BY <2>2, <2>3, <2>4, <3>1, <3>2
    <3> QED
      BY <2>1, <3>3 DEF S
  <2> QED
    BY <2>1, <2>5, <2>6, <2>7
<1>3. l \in S
  <2> HIDE DEF S
  <2> QED
    BY <1>1, <1>2, PrefixInduction
<1>4. UpTo(Len(l), b) = b
  BY UpToIs
<1> QED
  BY <1>3, <1>4

LEMMA DifferentMembers ==
    ASSUME NEW T, NEW ids \in Seq(T), Cardinality(Members(ids)) = Len(ids)
    PROVE  \A i, j \in 1..Len(ids) : ids[i] = ids[j] => i = j
<1> PICK n \in Nat : n = Len(ids)
  OBVIOUS
<1> DEFINE f == [i \in 1..n |-> ids[i]]
<1>1. f \in Surjection(1..n, Members(ids))
  BY DEF Surjection, Members
<1>2. IsFiniteSet(1..n) /\ Cardinality(1..n) = n
  <2>1. 1 \in Int /\ n \in Int
    OBVIOUS
  <2>2. IsFiniteSet(1..n) /\ Cardinality(1..n) = IF 1 > n THEN 0 ELSE n - 1 + 1
    BY <2>1, FS_Interval
  <2> QED
    BY <2>2
<1>3. f \in Injection(1..n, Members(ids))
  <2> HIDE DEF f
  <2> QED
    BY <1>1, <1>2, FS_Surjection
<1>4. \A i, j \in 1..n : f[i] = f[j] => i = j
  <2> HIDE DEF f
  <2> QED
    BY <1>3 DEF Injection, IsInjective
<1> QED
  BY <1>4

\* The bounds of a page lie within the list.
LEMMA PageBounds ==
    ASSUME NEW ids, Len(ids) \in Nat, NEW i \in Nat, 1 <= i, i <= PageCount(ids)
    PROVE  /\ (i - 1) * PageLimit \in Nat /\ (i - 1) * PageLimit <= Len(ids)
           /\ i * PageLimit \in Nat /\ (i - 1) * PageLimit <= i * PageLimit
<1> PICK l \in Nat, p \in Nat \ {0} : l = Len(ids) /\ p = PageLimit
  BY RetrievalAssumption
<1> PICK q \in Nat : q = PageCount(ids)
  BY PageCountIs
<1>1. q = (l + p - 1) \div p
  BY DEF PageCount
<1>2. q * p <= l + p - 1
  BY <1>1
<1>3. \A m, n \in Nat : m <= n => m * p <= n * p /\ m * p \in Nat
  OBVIOUS
<1>4. i * p <= q * p /\ i * p \in Nat
  BY <1>3
<1>5. (i - 1) * p = i * p - p
  OBVIOUS
<1>6. (i - 1) * p \in Nat
  <2>1. i - 1 \in Nat
    OBVIOUS
  <2> QED
    BY <1>3, <2>1
<1>7. (i - 1) * p <= l
  <2> PICK u \in Nat, t \in Nat, z \in Nat : u = i * p /\ t = q * p /\ z = (i - 1) * p
    BY <1>3, <1>4, <1>6
  <2>1. u <= t /\ t <= l + p - 1 /\ z = u - p
    BY <1>2, <1>4, <1>5
  <2> QED
    BY <2>1
<1>8. (i - 1) * p <= i * p
  <2> PICK u \in Nat, z \in Nat : u = i * p /\ z = (i - 1) * p
    BY <1>4, <1>6
  <2>1. z = u - p
    BY <1>5
  <2> QED
    BY <2>1
<1> QED
  BY <1>4, <1>6, <1>7, <1>8

AllDifferent(ids) == \A i, j \in 1..Len(ids) : ids[i] = ids[j] => i = j

IsPart(S, ids, a, b) == S = {ids[j] : j \in (a + 1)..b}

LEMMA SubSeqMembers ==
    ASSUME NEW T, NEW ids \in Seq(T), NEW a \in Nat, NEW b \in Nat, a <= b, b <= Len(ids)
    PROVE  IsPart(Members(SubSeq(ids, a + 1, b)), ids, a, b)
<1>1. \A j \in (a + 1)..b : j \in 1..Len(ids)
  OBVIOUS
<1>2. \A j \in (a + 1)..b : ids[j] \in T
  BY <1>1, ElementOfSeq
<1> PICK part : part = SubSeq(ids, a + 1, b)
  OBVIOUS
<1>3. a + 1 \in Int /\ b \in Int
  OBVIOUS
<1>4. /\ part \in Seq(T) /\ Len(part) = IF a + 1 <= b THEN b - (a + 1) + 1 ELSE 0
      /\ \A k \in 1..(b - (a + 1) + 1) : part[k] = ids[(a + 1) + k - 1]
  BY <1>2, <1>3, SubSeqProperties
<1>5. Len(part) = b - a /\ DOMAIN part = 1..(b - a)
  BY <1>4
<1>6. \A k \in 1..(b - a) : part[k] = ids[a + k]
  <2>1. b - (a + 1) + 1 = b - a /\ \A k \in 1..(b - a) : (a + 1) + k - 1 = a + k
    OBVIOUS
  <2> QED
    BY <1>4, <2>1
<1>7. ASSUME NEW k \in 1..(b - a) PROVE part[k] \in {ids[j] : j \in (a + 1)..b}
  <2>1. a + k \in (a + 1)..b
    OBVIOUS
  <2> QED
    BY <1>6, <2>1
<1>8. ASSUME NEW j \in (a + 1)..b PROVE ids[j] \in Members(part)
  <2>1. j - a \in 1..(b - a) /\ a + (j - a) = j
    OBVIOUS
  <2>2. part[j - a] = ids[j]
    BY <1>6, <2>1
  <2> QED
    BY <1>5, <2>1, <2>2 DEF Members
<1>9. Members(part) \subseteq {ids[j] : j \in (a + 1)..b}
  BY <1>5, <1>7 DEF Members
<1>10. Members(part) = {ids[j] : j \in (a + 1)..b}
  BY <1>8, <1>9
<1> QED
  BY <1>10 DEF IsPart

IdentitiesOf(ids, l) == Len(ids) = Len(l) /\ \A j \in 1..Len(l) : ids[j] = l[j].id

LEMMA PageById ==
    ASSUME NEW T, NEW l \in Seq(T), NEW D, NEW ids \in Seq(D), IdentitiesOf(ids, l),
           AllDifferent(ids), NEW i \in Nat, 1 <= i, i <= PageCount(ids)
    PROVE  WithIds(l, Members(PageOf(ids, i)))
             = SubSeq(l, (i - 1) * PageLimit + 1, UpTo(i * PageLimit, Len(l)))
<1>1. Len(ids) = Len(l)
  BY DEF IdentitiesOf
<1> PICK a \in Nat : a = (i - 1) * PageLimit /\ a <= Len(l)
  BY <1>1, PageBounds
<1> PICK c \in Nat : c = i * PageLimit /\ a <= c
  BY <1>1, PageBounds
<1> PICK b : b = UpTo(c, Len(l))
  OBVIOUS
<1>2. b \in Nat /\ a <= b /\ b <= Len(l)
  <2>1. Len(l) \in Nat
    OBVIOUS
  <2>2. CASE c <= Len(l)
    BY <2>1, <2>2, UpToIs
  <2>3. CASE Len(l) <= c
    BY <2>1, <2>3, UpToIs
  <2> QED
    BY <2>1, <2>2, <2>3
<1>3. PageOf(ids, i) = SubSeq(ids, a + 1, b)
  <2>1. PageOf(ids, i)
          = SubSeq(ids, (i - 1) * PageLimit + 1, UpTo(i * PageLimit, Len(ids)))
    BY DEF PageOf, UpTo
  <2> QED
    BY <1>1, <2>1, Zenon
<1>4. Members(PageOf(ids, i)) = {ids[j] : j \in (a + 1)..b}
  <2>1. b <= Len(ids)
    BY <1>1, <1>2
  <2>2. IsPart(Members(SubSeq(ids, a + 1, b)), ids, a, b)
    BY <1>2, <2>1, SubSeqMembers
  <2> QED
    BY <1>3, <2>2, Zenon DEF IsPart
<1> PICK I : I = Members(PageOf(ids, i))
  OBVIOUS
<1>5. ASSUME NEW j \in 1..Len(l) PROVE l[j].id \in I <=> a < j /\ j <= b
  <2>1. l[j].id = ids[j]
    BY DEF IdentitiesOf
  <2>2. ASSUME a < j, j <= b PROVE l[j].id \in I
    <3>1. j \in (a + 1)..b
      BY <1>2, <2>2
    <3> QED
      BY <1>4, <2>1, <3>1
  <2>3. ASSUME l[j].id \in I PROVE a < j /\ j <= b
    <3>1. PICK k \in (a + 1)..b : ids[k] = ids[j]
      BY <1>4, <2>1, <2>3
    <3>2. k \in 1..Len(ids) /\ j \in 1..Len(ids)
      BY <1>1, <1>2
    <3>3. k = j
      BY <3>1, <3>2 DEF AllDifferent
    <3> QED
      BY <1>2, <3>3
  <2> QED
    BY <2>2, <2>3
<1>6. Between(l, I, a, b)
  BY <1>5 DEF Between
<1>7. WithIds(l, I) = SubSeq(l, a + 1, b)
  BY <1>2, <1>6, WithIdsPart
<1> QED
  BY <1>7

ServedById(ps, ids, l) ==
    \A i \in 1..Len(ps) : ps[i].body.items = WithIds(l, Members(PageOf(ids, i)))

\* The records of the first n pages.
FirstPages(l, n) == SubSeq(l, 1, UpTo(n * PageLimit, Len(l)))

LEMMA FirstPagesOn ==
    ASSUME NEW T, NEW l \in Seq(T), NEW ids, Len(ids) = Len(l), NEW n \in Nat, 1 <= n,
           n <= PageCount(ids)
    PROVE  FirstPages(l, n - 1)
             \o SubSeq(l, (n - 1) * PageLimit + 1, UpTo(n * PageLimit, Len(l)))
             = FirstPages(l, n)
<1> PICK a \in Nat : a = (n - 1) * PageLimit /\ a <= Len(l)
  BY PageBounds
<1> PICK c \in Nat : c = n * PageLimit /\ a <= c
  BY PageBounds
<1> PICK b : b = UpTo(c, Len(l))
  OBVIOUS
<1>1. Len(l) \in Nat
  OBVIOUS
<1>2. b \in Nat /\ a <= b /\ b <= Len(l)
  <2>2. CASE c <= Len(l)
    BY <1>1, <2>2, UpToIs
  <2>3. CASE Len(l) <= c
    BY <1>1, <2>3, UpToIs
  <2> QED
    BY <1>1, <2>2, <2>3
<1>3. UpTo(a, Len(l)) = a
  BY <1>1, UpToIs
<1>4. SubSeq(l, 1, a) \o SubSeq(l, a + 1, b) = SubSeq(l, 1, b)
  <2>1. 1 \in 1..(Len(l) + 1) /\ a \in (1 - 1)..Len(l) /\ b \in a..Len(l)
    BY <1>1, <1>2
  <2> QED
    BY <2>1, ConcatAdjacentSubSeq
<1>5. FirstPages(l, n - 1) = SubSeq(l, 1, a)
  BY <1>3 DEF FirstPages
<1>6. FirstPages(l, n) = SubSeq(l, 1, b)
  BY DEF FirstPages
<1> QED
  BY <1>4, <1>5, <1>6

LEMMA PagesById ==
    ASSUME NEW T, NEW l \in Seq(T), NEW D, NEW ids \in Seq(D), IdentitiesOf(ids, l),
           AllDifferent(ids), NEW E, NEW ps \in Seq(E), Len(ps) = PageCount(ids),
           ServedById(ps, ids, l)
    PROVE  ItemsIn(ps) = l
<1> DEFINE S == {x \in Seq(E) : ItemsIn(x) = FirstPages(l, Len(x))}
<1>1. Len(ids) = Len(l) /\ Len(l) \in Nat
  BY DEF IdentitiesOf
<1>2. <<>> \in S
  <2>1. ItemsIn(<<>>) = <<>> /\ <<>> \in Seq(E)
    BY OfEmpty
  <2>2. Len(<<>>) = 0 /\ 0 * PageLimit = 0
    BY RetrievalAssumption
  <2>3. UpTo(0, Len(l)) = 0
    BY <1>1, UpToIs
  <2>4. SubSeq(l, 1, 0) = <<>>
    BY SubSeqEmpty
  <2>5. ItemsIn(<<>>) = FirstPages(l, Len(<<>>))
    BY <2>1, <2>2, <2>3, <2>4, Zenon DEF FirstPages
  <2> QED
    BY <2>1, <2>5, Zenon
<1>3. ASSUME NEW n \in 1..Len(ps), Earlier(ps, n) \in S
      PROVE  Append(Earlier(ps, n), ps[n]) \in S
  <2> PICK x \in Seq(E) : x = Earlier(ps, n) /\ ItemsIn(x) = FirstPages(l, Len(x))
    BY <1>3
  <2> PICK e \in E : e = ps[n]
    BY ElementOfSeq
  <2> HIDE DEF S
  <2>1. Len(x) = n - 1 /\ \A i \in 1..(n - 1) : x[i] = ps[i]
    BY EarlierIs
  <2>2. ListsIn(x, T)
    <3>1. \A i \in 1..Len(ps) : ps[i].body.items \in Seq(T)
      BY WithIdsIn DEF ServedById
    <3>2. \A i \in 1..(n - 1) : i \in 1..Len(ps)
      OBVIOUS
    <3> QED
      BY <2>1, <3>1, <3>2 DEF ListsIn
  <2>3. e.body.items = WithIds(l, Members(PageOf(ids, n)))
    BY DEF ServedById
  <2>4. e.body.items \in Seq(T)
    BY <2>3, WithIdsIn
  <2>5. ItemsIn(Append(x, e)) = ItemsIn(x) \o e.body.items
    BY <2>2, <2>4, ItemsAppend
  <2>6. n \in Nat /\ 1 <= n /\ n <= PageCount(ids)
    OBVIOUS
  <2>7. e.body.items = SubSeq(l, (n - 1) * PageLimit + 1, UpTo(n * PageLimit, Len(l)))
    BY <2>3, <2>6, PageById
  <2>8. FirstPages(l, n - 1)
          \o SubSeq(l, (n - 1) * PageLimit + 1, UpTo(n * PageLimit, Len(l)))
          = FirstPages(l, n)
    BY <1>1, <2>6, FirstPagesOn
  <2>9. ItemsIn(Append(x, e)) = FirstPages(l, n)
    BY <2>1, <2>5, <2>7, <2>8, Zenon
  <2>10. Append(x, e) \in Seq(E) /\ Len(Append(x, e)) = n
    BY <2>1
  <2> QED
    BY <2>9, <2>10 DEF S
<1>4. ps \in S
  <2> HIDE DEF S
  <2> QED
    BY <1>2, <1>3, PrefixInduction
<1>5. PageCount(ids) \in Nat /\ PageCount(ids) * PageLimit >= Len(l)
  BY <1>1, PageCountIs
<1>6. UpTo(PageCount(ids) * PageLimit, Len(l)) = Len(l)
  <2>1. \A m, k \in Nat : m * k \in Nat
    OBVIOUS
  <2>2. PageCount(ids) * PageLimit \in Nat
    BY <1>5, <2>1, RetrievalAssumption
  <2> QED
    BY <1>1, <1>5, <2>2, UpToIs
<1>7. SubSeq(l, 1, Len(l)) = l
  BY SubSeqFull
<1>8. ItemsIn(ps) = FirstPages(l, PageCount(ids))
  BY <1>4
<1> QED
  BY <1>6, <1>7, <1>8 DEF FirstPages

LEMMA QuietReservoirs ==
    ASSUME "reservoirs" \in Sources, NEW E, NEW es \in Seq(E), Asked("reservoirs", es),
           RequestAfter("reservoirs", es) = Done, NEW v \in DOMAIN Worlds["reservoirs"],
           FromVersion(es, Worlds["reservoirs"][v])
    PROVE  ItemsOf(es, "page") = Worlds["reservoirs"][v].levels
<1> PICK w : w = Worlds["reservoirs"][v]
  OBVIOUS
<1> PICK l : l = w.levels
  OBVIOUS
<1>1. l \in Seq(Records("reservoirs", "levels"))
  <2>1. "levels" \in ListsOf("reservoirs")
    BY DEF ListsOf
  <2> QED
    BY <2>1, ListIs
<1> PICK ids : ids = es[3].body.items
  OBVIOUS
<1> PICK ps : ps = Of(es, "page")
  OBVIOUS
<1>2. PICK q \in Nat :
        /\ AllPagesRead(es, q) /\ Len(es) = 5 + q
        /\ q = PageCount(ids)
        /\ ReservoirsAccepted(ItemsOf(es, "page"), ids)
  BY ReservoirsFinished
<1>3. /\ es[3].req = <<"ids", 1>> /\ Len(ps) = q
      /\ \A i \in 1..q : ps[i] = es[3 + i] /\ es[3 + i].req = <<"page", PageOf(ids, i)>>
  BY <1>2 DEF AllPagesRead, PagesRead
<1>4. ids = [i \in DOMAIN l |-> l[i].id]
  <2>1. 3 \in 1..Len(es)
    BY <1>2
  <2>2. PICK c : es[3].body = AnswerFrom(w, c, <<"ids", 1>>)
    BY <1>3, <2>1 DEF FromVersion
  <2>3. AnswerFrom(w, c, <<"ids", 1>>) = [items |-> [i \in DOMAIN w.levels |-> w.levels[i].id]]
    BY DEF AnswerFrom, Responses, Collections, Levels
  <2> QED
    BY <2>2, <2>3
<1>5. IdentitiesOf(ids, l) /\ \E D : ids \in Seq(D)
  <2> PICK n \in Nat : n = Len(l) /\ DOMAIN l = 1..n
    BY <1>1
  <2>1. ids = [i \in 1..n |-> l[i].id]
    BY <1>4
  <2>2. Len(ids) = n /\ \A i \in 1..n : ids[i] = l[i].id
    BY <2>1
  <2>3. ids \in Seq({l[i].id : i \in 1..n})
    BY <2>1
  <2>4. IdentitiesOf(ids, l)
    BY <2>2 DEF IdentitiesOf
  <2> QED
    BY <2>3, <2>4
<1>6. PICK D : ids \in Seq(D)
  BY <1>5
<1>7. AllDifferent(ids)
  <2>1. Cardinality(Members(ids)) = Len(ids)
    BY <1>2 DEF ReservoirsAccepted, Distinct
  <2> QED
    BY <1>6, <2>1, DifferentMembers DEF AllDifferent
<1>8. ServedById(ps, ids, l)
  <2> SUFFICES ASSUME NEW i \in 1..Len(ps)
               PROVE  ps[i].body.items = WithIds(l, Members(PageOf(ids, i)))
    BY DEF ServedById
  <2>1. 3 + i \in 1..Len(es) /\ i \in 1..q
    BY <1>2, <1>3
  <2>2. PICK c : ps[i].body = AnswerFrom(w, c, <<"page", PageOf(ids, i)>>)
    BY <1>3, <2>1 DEF FromVersion
  <2> PICK page : page = PageOf(ids, i)
    OBVIOUS
  <2>3. AnswerFrom(w, c, <<"page", page>>) = [items |-> WithIds(w.levels, Members(page))]
    BY DEF AnswerFrom, Responses, Collections, Levels
  <2> QED
    BY <2>2, <2>3
<1>9. ps \in Seq(E)
  BY OfInSeq
<1>10. ItemsIn(ps) = l
  <2>1. Len(ps) = PageCount(ids)
    BY <1>2, <1>3
  <2> QED
    BY <1>1, <1>5, <1>6, <1>7, <1>8, <1>9, <2>1, PagesById
<1> QED
  BY <1>10 DEF ItemsOf

-----------------------------------------------------------------------------
(* The two theorems: nothing changed, and nothing of the reservoirs changed unseen. *)

\* Answers of one moment are answers of one version.
LEMMA OneMoment ==
    ASSUME NEW s, NEW E, NEW es \in Seq(E), NEW vs, NEW cs, ServedIn(s, es, vs, cs), NEW v,
           \A i \in 1..Len(es) : vs[i] = v
    PROVE  FromVersion(es, Worlds[s][v])
<1> SUFFICES ASSUME NEW n \in 1..Len(es)
             PROVE  \E c : es[n].body = AnswerFrom(Worlds[s][v], c, es[n].req)
  BY DEF FromVersion
<1>1. es[n].body = AnswerFrom(Worlds[s][vs[n]], cs[n], es[n].req) /\ vs[n] = v
  BY DEF ServedIn
<1> QED
  BY <1>1

\* From a publisher that does not change, what is returned or can be read is all it
\* serves: paging, its end and its budgets lose and repeat nothing (ingestion/*_client.py).
THEOREM QuietPublisherAlwaysReadWhole == RetrievalSafety => []QuietPublisherIsReadWhole
<1>1. RetrievalInv /\ AnswersInv => QuietPublisherIsReadWhole
  <2> SUFFICES ASSUME RetrievalInv, AnswersInv, Delivered, changes = 0
               PROVE  /\ \A k \in Collections \cap ListsOf(source) :
                            ItemsOf(entries, k) = World[k]
                      /\ \A k \in Responses \cap ListsOf(source) :
                            NotCut(k) => PageFor(entries, k, 0).items = World[k]
                      /\ source = "reservoirs" => ItemsOf(entries, "page") = World.levels
                      /\ source = "floods" /\ NotCut("warnings") =>
                           Known(entries, "area") = {w.area : w \in Members(World.warnings)}
                      /\ source = "catchments" =>
                           /\ TreeOf(entries).operational
                                = [o \in Operationals(World) |-> World.operational[o]]
                           /\ TreeOf(entries).geometry
                                = [d \in World.root |-> World.geometry[d]]
    BY DEF QuietPublisherIsReadWhole
  <2> PICK s \in Sources : s = source
    BY DEF RetrievalInv, RetrievalTypeOK
  <2> PICK v \in DOMAIN Worlds[s] : v = version
    BY DEF RetrievalInv, RetrievalTypeOK
  <2> PICK es : es = entries
    OBVIOUS
  <2> PICK E : E = Members(es) /\ es \in Seq(E)
    BY DEF RetrievalInv
  <2>1. RequestAfter(s, es) = Done
    BY DEF Delivered, ReaderAccepts, RetrievalInv, NextRequest
  <2>2. Asked(s, es)
    BY DEF AnswersInv
  <2>3. PICK vs, cs : /\ ServedIn(s, es, vs, cs) /\ Moments(vs, cs, Len(es))
                      /\ \A i \in 1..Len(es) :
                           cs[i] <= changes /\ (cs[i] = changes => vs[i] = version)
    BY DEF AnswersInv
  <2>4. \A i \in 1..Len(es) : vs[i] = v
    <3> SUFFICES ASSUME NEW i \in 1..Len(es) PROVE vs[i] = v
      OBVIOUS
    <3>1. cs[i] \in Nat /\ cs[i] <= 0
      BY <2>3 DEF Moments
    <3>2. cs[i] = 0
      BY <3>1
    <3> QED
      BY <2>3, <3>2
  <2>5. FromVersion(es, Worlds[s][v]) /\ World = Worlds[s][v]
    BY <2>3, <2>4, OneMoment DEF World
  <2>6. \A k \in Collections \cap ListsOf(s) : ItemsOf(es, k) = Worlds[s][v][k]
    BY <2>1, <2>2, <2>3, <2>5, QuietCollections
  <2>7. s = "reservoirs" => ItemsOf(es, "page") = Worlds[s][v].levels
    BY <2>1, <2>2, <2>5, QuietReservoirs
  <2>8. s = "floods" /\ NotCut("warnings") =>
          Known(es, "area") = {w.area : w \in Members(Worlds[s][v].warnings)}
    <3> SUFFICES ASSUME s = "floods", NotCut("warnings")
                 PROVE  Known(es, "area") = {w.area : w \in Members(Worlds[s][v].warnings)}
      OBVIOUS
    <3>1. "warnings" \in ListsOf(s)
      BY DEF ListsOf
    <3>2. Worlds[s][v].warnings \in Seq(Members(Worlds[s][v].warnings))
      BY <3>1, WorldsAssumption
    <3>3. Len(Worlds[s][v].warnings) <= ResponseLimit
      BY <2>5 DEF NotCut
    <3> QED
      BY <2>1, <2>2, <2>3, <2>5, <3>2, <3>3, QuietFloods
  <2>10. ASSUME NEW k \in Responses \cap ListsOf(s), NotCut(k)
         PROVE  PageFor(es, k, 0).items = Worlds[s][v][k]
    <3>1. Worlds[s][v][k] \in Seq(Members(Worlds[s][v][k]))
      BY WorldsAssumption
    <3>2. k \in {"waters", "facts"} \/ Len(Worlds[s][v][k]) <= ResponseLimit
      BY <2>5, <2>10 DEF NotCut
    <3> QED
      BY <2>1, <2>2, <2>3, <2>5, <3>1, <3>2, QuietResponses
  <2>9. ASSUME s = "catchments"
        PROVE  /\ TreeOf(entries).operational
                    = [o \in Operationals(World) |-> World.operational[o]]
               /\ TreeOf(entries).geometry = [d \in World.root |-> World.geometry[d]]
    <3> PICK w : w = World
      OBVIOUS
    <3>1. /\ TreeOf(es).operational = [o \in Operationals(w) |-> w.operational[o]]
          /\ TreeOf(es).geometry = [d \in w.root |-> w.geometry[d]]
      BY <2>1, <2>2, <2>3, <2>5, <2>9, QuietCatchments
    <3> QED
      BY <3>1
  <2> QED
    BY <2>5, <2>6, <2>7, <2>8, <2>9, <2>10
<1> QED
  BY <1>1, AnswersInvariant, PTL

\* The reservoir edition is one moment of the publisher: the item is the same before and
\* after the pages, so nothing changed between them (stream_client.py fetch_observations).
THEOREM ReservoirsAlwaysOneMoment == RetrievalSafety => []ReservoirsAreOneMoment
<1>1. RetrievalInv /\ AnswersInv => ReservoirsAreOneMoment
  <2> SUFFICES ASSUME RetrievalInv, AnswersInv, Delivered, source = "reservoirs"
               PROVE  \E v \in DOMAIN Worlds[source] :
                         ItemsOf(entries, "page") = Worlds[source][v].levels
    BY DEF ReservoirsAreOneMoment
  <2>s. "reservoirs" \in Sources
    BY DEF RetrievalInv, RetrievalTypeOK
  <2> PICK es : es = entries
    OBVIOUS
  <2> PICK E : E = Members(es) /\ es \in Seq(E)
    BY DEF RetrievalInv
  <2>1. RequestAfter("reservoirs", es) = Done
    BY DEF Delivered, ReaderAccepts, RetrievalInv, NextRequest
  <2>2. Asked("reservoirs", es)
    BY DEF AnswersInv
  <2>3. PICK vs, cs : ServedIn("reservoirs", es, vs, cs) /\ Moments(vs, cs, Len(es))
    BY DEF AnswersInv
  <2>4. PICK q \in Nat :
          /\ AllPagesRead(es, q) /\ Len(es) = 5 + q /\ es[5 + q].req = <<"item", 2>>
          /\ es[5 + q].body = es[1].body
    BY <2>1, <2>2, ReservoirsFinished
  <2> PICK m \in Nat : m = 5 + q
    OBVIOUS
  <2>5. 1 \in 1..Len(es) /\ m \in 1..Len(es) /\ es[1].req = <<"item", 1>>
    BY <2>4 DEF AllPagesRead, PagesRead
  <2>6. cs[1] = cs[m]
    <3>1. es[1].body = AnswerFrom(Worlds["reservoirs"][vs[1]], cs[1], <<"item", 1>>)
      BY <2>3, <2>5 DEF ServedIn
    <3>2. es[m].body = AnswerFrom(Worlds["reservoirs"][vs[m]], cs[m], <<"item", 2>>)
      BY <2>3, <2>4, <2>5 DEF ServedIn
    <3>3. ASSUME NEW w, NEW c, NEW a PROVE AnswerFrom(w, c, <<"item", a>>) = [modified |-> c]
      BY DEF AnswerFrom, Responses, Collections, Levels
    <3>4. es[1].body = [modified |-> cs[1]] /\ es[m].body = [modified |-> cs[m]]
      BY <3>1, <3>2, <3>3
    <3> QED
      BY <2>4, <3>4
  <2>7. \A i \in 1..Len(es) : vs[i] = vs[1]
    <3> SUFFICES ASSUME NEW i \in 1..Len(es) PROVE vs[i] = vs[1]
      OBVIOUS
    <3>1. 1 <= i /\ i <= m
      BY <2>4
    <3>2. /\ cs[1] \in Nat /\ cs[i] \in Nat /\ cs[m] \in Nat
          /\ cs[1] <= cs[i] /\ cs[i] <= cs[m]
          /\ cs[1] = cs[i] => vs[1] = vs[i]
      BY <2>3, <2>5, <3>1 DEF Moments
    <3>3. cs[1] = cs[i]
      BY <2>6, <3>2
    <3> QED
      BY <3>2, <3>3
  <2>8. vs[1] \in DOMAIN Worlds["reservoirs"]
    BY <2>3, <2>5 DEF ServedIn
  <2>9. FromVersion(es, Worlds["reservoirs"][vs[1]])
    BY <2>3, <2>7, OneMoment
  <2>10. ItemsOf(es, "page") = Worlds["reservoirs"][vs[1]].levels
    BY <2>s, <2>1, <2>2, <2>8, <2>9, QuietReservoirs
  <2> QED
    BY <2>8, <2>10
<1> QED
  BY <1>1, AnswersInvariant, PTL
=============================================================================
