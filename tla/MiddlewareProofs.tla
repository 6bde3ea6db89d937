-------------------------- MODULE MiddlewareProofs --------------------------
(***************************************************************************)
(* Proofs about Masking and Middleware.                                    *)
(***************************************************************************)
EXTENDS Middleware, SequenceTheorems, WellFoundedInduction, TLAPS

(***************************************************************************)
(* Masking: the addresses that maskMapValues reaches by descending, and    *)
(* the reference that reads them off the address.                          *)
(***************************************************************************)

(* The least-number principle, for the two proofs by induction below.      *)
LEMMA Least ==
    ASSUME NEW T, T \subseteq Nat, T # {}
    PROVE  \E m \in T : \A k \in T : m <= k
<1>1. PICK m \in T : \A k \in T : ~(<<k, m>> \in OpToRel(<, Nat))
  BY WFMin, NatLessThanWellFounded, Zenon
<1>2. ASSUME NEW k \in T PROVE m <= k
  <2>1. ~(k < m)
    BY <1>1, <1>2 DEF OpToRel
  <2>2. k \in Nat /\ m \in Nat
    OBVIOUS
  <2> QED BY <2>1, <2>2
<1> QED BY <1>2

LEMMA PrefixFacts ==
    ASSUME NEW S, NEW p \in Seq(S), NEW n \in 0 .. Len(p)
    PROVE  /\ Prefix(p, n) \in Seq(S)
           /\ Len(Prefix(p, n)) = n
           /\ \A i \in 1 .. n : Prefix(p, n)[i] = p[i]
           /\ Prefix(p, 0) = <<>>
<1>1. \A i \in 1 .. n : p[i] \in S
  OBVIOUS
<1>2. n \in Int /\ Len(p) \in Nat
  OBVIOUS
<1>3. /\ SubSeq(p, 1, n) \in Seq(S)
      /\ Len(SubSeq(p, 1, n)) = IF 1 <= n THEN n - 1 + 1 ELSE 0
      /\ \A i \in 1 .. n - 1 + 1 : SubSeq(p, 1, n)[i] = p[1 + i - 1]
  BY <1>1, <1>2, SubSeqProperties
<1>4. SubSeq(p, 1, 0) = <<>>
  BY SubSeqEmpty
<1> QED BY <1>2, <1>3, <1>4 DEF Prefix

LEMMA PrefixOfPrefix ==
    ASSUME NEW S, NEW p \in Seq(S), NEW n \in 0 .. Len(p), NEW m \in 0 .. n
    PROVE  Prefix(Prefix(p, n), m) = Prefix(p, m)
<1>1. CASE m = 0
  BY <1>1, PrefixFacts, SubSeqEmpty DEF Prefix
<1>2. CASE m > 0
  <2>1. SubSeq(SubSeq(p, 1, n), 1, m) = SubSeq(p, 1 + 1 - 1, 1 + m - 1)
    <3>1. 1 \in 1 .. Len(p) /\ n \in 1 .. Len(p) /\ 1 \in 1 .. n - 1 + 1 /\ m \in 1 .. n - 1 + 1
      BY <1>2
    <3> QED BY <3>1, SubSeqOfSubSeq
  <2> QED BY <2>1, <1>2 DEF Prefix
<1> QED BY <1>1, <1>2

Steps(doc) == UNION {{p[i] : i \in DOMAIN p} : p \in DOMAIN doc}

(* What IsDocument says of one address.                                    *)
LEMMA AddressFacts ==
    ASSUME NEW doc, IsDocument(doc), NEW p \in DOMAIN doc
    PROVE  /\ p \in Seq(Steps(doc))
           /\ Len(p) \in Nat
           /\ p = <<>> \/ Len(p) > 0
           /\ \A n \in 1 .. Len(p) :
                 /\ Prefix(p, n - 1) \in DOMAIN doc
                 /\ doc[Prefix(p, n - 1)].kind = "object" <=> IsKey(p[n])
           /\ \A n \in 0 .. Len(p) : Prefix(p, n) \in DOMAIN doc
<1>1. p \in Seq(Steps(doc))
  BY DEF IsDocument, Steps
<1>2. Len(p) \in Nat
  BY <1>1
<1>3. p = <<>> \/ Len(p) > 0
  BY <1>1, <1>2, EmptySeq
<1>4. ASSUME NEW n \in 1 .. Len(p)
      PROVE  /\ Prefix(p, n - 1) \in DOMAIN doc
             /\ doc[Prefix(p, n - 1)].kind = "object" <=> IsKey(p[n])
  BY DEF IsDocument
<1>5. ASSUME NEW n \in 0 .. Len(p)
      PROVE  Prefix(p, n) \in DOMAIN doc
  <2>1. CASE n = Len(p)
    BY <2>1, <1>1, SubSeqFull DEF Prefix
  <2>2. CASE n # Len(p)
    <3>1. n + 1 \in 1 .. Len(p) /\ (n + 1) - 1 = n
      BY <2>2, <1>2
    <3> QED BY <3>1, <1>4
  <2> QED BY <2>1, <2>2
<1> QED BY <1>1, <1>2, <1>3, <1>4, <1>5

(* No masked key on the address, and no list directly within a list.       *)
Open(p, keys) ==
    /\ \A n \in 1 .. Len(p) : IsKey(p[n]) => p[n][2] \notin keys
    /\ \A n \in 1 .. Len(p) - 1 : IsKey(p[n]) \/ IsKey(p[n + 1])

(* An address is open if the one it is entered from is, and the field in   *)
(* between is left as it is.                                               *)
LEMMA OpenStep ==
    ASSUME NEW doc, IsDocument(doc), doc[<<>>].kind = "object", NEW keys,
           NEW p \in DOMAIN doc, p # <<>>, IsField(Field(p))
    PROVE  /\ Parent(Field(p)) \in DOMAIN doc
           /\ doc[Parent(Field(p))].kind = "object"
           /\ Len(Parent(Field(p))) \in 0 .. Len(p) - 1
           /\ Open(p, keys) <=> Open(Parent(Field(p)), keys) /\ ~HasKey(Field(p), keys)
<1> DEFINE L == Len(p)
<1>1. /\ p \in Seq(Steps(doc)) /\ L \in Nat /\ L > 0
      /\ \A n \in 1 .. L : /\ Prefix(p, n - 1) \in DOMAIN doc
                           /\ doc[Prefix(p, n - 1)].kind = "object" <=> IsKey(p[n])
  BY AddressFacts
<1>2. \A n \in 0 .. L : /\ Len(Prefix(p, n)) = n
                        /\ \A i \in 1 .. n : Prefix(p, n)[i] = p[i]
  BY <1>1, PrefixFacts
<1> HIDE DEF L
<1>3. CASE IsField(p)
  <2> DEFINE q == Prefix(p, L - 1)
  <2>1. Field(p) = p /\ IsKey(p[L]) /\ Parent(p) = q
    BY <1>3 DEF Field, IsField, Parent, L
  <2>2. L - 1 \in 0 .. L /\ L \in 1 .. L
    BY <1>1
  <2>3. Len(q) = L - 1 /\ \A i \in 1 .. L - 1 : q[i] = p[i]
    BY <1>2, <2>2
  <2>4. q \in DOMAIN doc /\ doc[q].kind = "object"
    BY <1>1, <2>1, <2>2
  <2>5. HasKey(p, keys) <=> p[L][2] \in keys
    BY <1>3 DEF HasKey, L
  <2> HIDE DEF q
  <2>6. Open(q, keys) <=> /\ \A n \in 1 .. L - 1 : IsKey(p[n]) => p[n][2] \notin keys
                          /\ \A n \in 1 .. L - 2 : IsKey(p[n]) \/ IsKey(p[n + 1])
    <3>1. Len(q) - 1 = L - 2 /\ \A n \in 1 .. L - 2 : n \in 1 .. L - 1 /\ n + 1 \in 1 .. L - 1
      BY <2>3, <1>1
    <3> QED BY <3>1, <2>3 DEF Open
  <2>7. Open(p, keys) <=> /\ \A n \in 1 .. L : IsKey(p[n]) => p[n][2] \notin keys
                          /\ \A n \in 1 .. L - 1 : IsKey(p[n]) \/ IsKey(p[n + 1])
    BY DEF Open, L
  <2>8. Open(p, keys) <=> Open(q, keys) /\ p[L][2] \notin keys
    <3>1. \A n : n \in 1 .. L <=> n \in 1 .. L - 1 \/ n = L
      BY <1>1
    <3>2. \A n : n \in 1 .. L - 1 <=> n \in 1 .. L - 2 \/ (n = L - 1 /\ n \in 1 .. L - 1)
      BY <1>1
    <3>3. (L - 1) + 1 = L
      BY <1>1
    <3> QED BY <3>1, <3>2, <3>3, <2>1, <2>6, <2>7, Zenon
  <2> QED BY <2>1, <2>3, <2>4, <2>5, <2>8, <1>1 DEF L
<1>4. CASE ~IsField(p)
  <2> DEFINE f == Prefix(p, L - 1)
  <2> DEFINE q == Prefix(p, L - 2)
  <2>1. Field(p) = f /\ ~IsKey(p[L])
    BY <1>4 DEF Field, IsField, Parent, L
  <2>2. L - 1 \in 0 .. L /\ Len(f) = L - 1 /\ \A i \in 1 .. L - 1 : f[i] = p[i]
    BY <1>1, <1>2
  <2>3. L - 1 > 0 /\ IsKey(p[L - 1])
    <3>1. f # <<>> /\ IsKey(f[Len(f)])
      BY <2>1 DEF IsField
    <3>2. L # 1
      BY <3>1, <1>1, PrefixFacts DEF L
    <3> QED BY <3>1, <3>2, <2>2, <1>1
  <2>4. L - 2 \in 0 .. L /\ Len(q) = L - 2 /\ \A i \in 1 .. L - 2 : q[i] = p[i]
    <3>1. L - 2 \in 0 .. L
      BY <2>3, <1>1
    <3> QED BY <3>1, <1>2
  <2>5. q \in DOMAIN doc /\ doc[q].kind = "object"
    <3>1. L - 1 \in 1 .. L /\ (L - 1) - 1 = L - 2
      BY <2>3, <1>1
    <3> QED BY <3>1, <1>1, <2>3
  <2>6. Parent(f) = q
    <3>1. L - 2 \in 0 .. L - 1 /\ L - 1 \in 0 .. Len(p) /\ (L - 1) - 1 = L - 2
      BY <1>1, <2>3 DEF L
    <3> QED BY <3>1, <2>2, <1>1, PrefixOfPrefix DEF Parent
  <2>7. HasKey(f, keys) <=> p[L - 1][2] \in keys
    BY <2>1, <2>2, <2>3, <1>1 DEF HasKey
  <2> HIDE DEF q, f
  <2>8. Open(q, keys) <=> /\ \A n \in 1 .. L - 2 : IsKey(p[n]) => p[n][2] \notin keys
                          /\ \A n \in 1 .. L - 3 : IsKey(p[n]) \/ IsKey(p[n + 1])
    <3>1. Len(q) - 1 = L - 3 /\ \A n \in 1 .. L - 3 : n \in 1 .. L - 2 /\ n + 1 \in 1 .. L - 2
      BY <2>4, <1>1
    <3> QED BY <3>1, <2>4 DEF Open
  <2>9. Open(p, keys) <=> /\ \A n \in 1 .. L : IsKey(p[n]) => p[n][2] \notin keys
                          /\ \A n \in 1 .. L - 1 : IsKey(p[n]) \/ IsKey(p[n + 1])
    BY DEF Open, L
  <2>10. Open(p, keys) <=> Open(q, keys) /\ p[L - 1][2] \notin keys
    <3>0. L \in Nat /\ L > 1
      BY <1>1, <2>3
    <3>1. \A n : n \in 1 .. L <=> n \in 1 .. L - 2 \/ n = L - 1 \/ n = L
      BY <3>0
    <3>2. \A n : n \in 1 .. L - 1 <=> n \in 1 .. L - 3 \/ (n = L - 2 /\ n \in 1 .. L - 1) \/ n = L - 1
      BY <3>0
    <3>3. (L - 1) + 1 = L /\ (L - 2) + 1 = L - 1
      BY <1>1
    <3> QED BY <3>1, <3>2, <3>3, <2>1, <2>3, <2>8, <2>9, Zenon
  <2> QED BY <1>1, <2>1, <2>3, <2>4, <2>5, <2>6, <2>7, <2>10 DEF L
<1> QED BY <1>3, <1>4

(* An item of a list that is no field's value is within another list.      *)
LEMMA ItemOfItem ==
    ASSUME NEW doc, IsDocument(doc), doc[<<>>].kind = "object", NEW keys,
           NEW p \in DOMAIN doc, p # <<>>, ~IsField(Field(p))
    PROVE  ~Open(p, keys)
<1> DEFINE L == Len(p)
<1>1. /\ p \in Seq(Steps(doc)) /\ L \in Nat /\ L > 0
      /\ \A n \in 1 .. L : /\ Prefix(p, n - 1) \in DOMAIN doc
                           /\ doc[Prefix(p, n - 1)].kind = "object" <=> IsKey(p[n])
  BY AddressFacts
<1>2. \A n \in 0 .. L : /\ Len(Prefix(p, n)) = n
                        /\ \A i \in 1 .. n : Prefix(p, n)[i] = p[i]
                        /\ Prefix(p, 0) = <<>>
  BY <1>1, PrefixFacts
<1>3. ~IsField(p) /\ Field(p) = Prefix(p, L - 1)
  BY DEF Field, Parent
<1>4. ~IsKey(p[L])
  BY <1>3 DEF IsField
<1> HIDE DEF L
<1>5. L # 1
  <2>1. ASSUME L = 1 PROVE FALSE
    <3>1. Prefix(p, 0) = <<>>
      BY <1>1, <1>2
    <3>2. 1 \in 1 .. L /\ 1 - 1 = 0
      BY <2>1
    <3>3. doc[Prefix(p, 0)].kind = "object" <=> IsKey(p[1])
      BY <3>2, <1>1
    <3> QED BY <3>1, <3>3, <1>4, <2>1
  <2> QED BY <2>1
<1>6. L - 1 \in 1 .. L - 1 /\ L - 1 \in 0 .. L /\ (L - 1) + 1 = L
  BY <1>1, <1>5
<1>7. ~IsKey(p[L - 1])
  <2>1. Prefix(p, L - 1) # <<>>
    BY <1>2, <1>6, <1>5, <1>1
  <2> QED BY <2>1, <1>2, <1>3, <1>6 DEF IsField
<1> QED BY <1>4, <1>6, <1>7 DEF Open, L

(* One step of maskMapValues's descent, from visited, to address p.        *)
Enters(visited, doc, keys, p) ==
    /\ doc[p].kind = "object"
    /\ \/ p = <<>>
       \/ /\ IsField(Field(p))
          /\ ~HasKey(Field(p), keys)
          /\ visited[Parent(Field(p))]

Reached(doc, keys) == [p \in DOMAIN doc |-> doc[p].kind = "object" /\ Open(p, keys)]

LEMMA OpenRoot == ASSUME NEW keys PROVE Open(<<>>, keys)
  BY DEF Open

(* Reached solves the recursion, so that Visits, some solution, does.      *)
LEMMA VisitsUnfolds ==
    ASSUME NEW doc, IsDocument(doc), doc[<<>>].kind = "object", NEW keys
    PROVE  /\ Reached(doc, keys) = [p \in DOMAIN doc |-> Enters(Reached(doc, keys), doc, keys, p)]
           /\ Visits(doc, keys) = [p \in DOMAIN doc |-> Enters(Visits(doc, keys), doc, keys, p)]
<1> DEFINE W == Reached(doc, keys)
<1>1. ASSUME NEW p \in DOMAIN doc
      PROVE  (doc[p].kind = "object" /\ Open(p, keys)) <=> Enters(W, doc, keys, p)
  <2>1. CASE p = <<>>
    BY <2>1, OpenRoot DEF Enters
  <2>2. CASE p # <<>> /\ IsField(Field(p))
    <3>1. /\ Parent(Field(p)) \in DOMAIN doc
          /\ doc[Parent(Field(p))].kind = "object"
          /\ Open(p, keys) <=> Open(Parent(Field(p)), keys) /\ ~HasKey(Field(p), keys)
      BY <2>2, OpenStep
    <3>2. W[Parent(Field(p))] <=> Open(Parent(Field(p)), keys)
      BY <3>1 DEF Reached
    <3> QED BY <2>2, <3>1, <3>2 DEF Enters
  <2>3. CASE p # <<>> /\ ~IsField(Field(p))
    BY <2>3, ItemOfItem DEF Enters
  <2> QED BY <2>1, <2>2, <2>3
<1>2. W = [p \in DOMAIN doc |-> Enters(W, doc, keys, p)]
  <2>1. \A p \in DOMAIN doc : (doc[p].kind = "object" /\ Open(p, keys)) = Enters(W, doc, keys, p)
    BY <1>1 DEF Enters
  <2>2. [p \in DOMAIN doc |-> doc[p].kind = "object" /\ Open(p, keys)]
            = [p \in DOMAIN doc |-> Enters(W, doc, keys, p)]
    BY <2>1
  <2> QED BY <2>2 DEF Reached
<1>3. Visits(doc, keys) = CHOOSE v : v = [p \in DOMAIN doc |-> Enters(v, doc, keys, p)]
  BY DEF Visits, Enters
<1> HIDE DEF W
<1>4. Visits(doc, keys) = [p \in DOMAIN doc |-> Enters(Visits(doc, keys), doc, keys, p)]
  BY <1>2, <1>3
<1> QED BY <1>2, <1>4 DEF W

(* There is no other solution: of the addresses on which two differ, a     *)
(* shortest one would be entered from a shorter one on which they differ.  *)
LEMMA VisitsOpen ==
    ASSUME NEW doc, IsDocument(doc), doc[<<>>].kind = "object", NEW keys,
           NEW p \in DOMAIN doc
    PROVE  Visits(doc, keys)[p] <=> doc[p].kind = "object" /\ Open(p, keys)
<1> DEFINE V == Visits(doc, keys)
           W == Reached(doc, keys)
           Differ == {q \in DOMAIN doc : ~(V[q] <=> W[q])}
<1>1. ASSUME NEW q \in DOMAIN doc
      PROVE  /\ V[q] <=> Enters(V, doc, keys, q)
             /\ W[q] <=> Enters(W, doc, keys, q)
  <2> HIDE DEF V, W
  <2>1. V = [r \in DOMAIN doc |-> Enters(V, doc, keys, r)]
    BY VisitsUnfolds DEF V
  <2>2. W = [r \in DOMAIN doc |-> Enters(W, doc, keys, r)]
    BY VisitsUnfolds DEF W
  <2>3. V[q] = Enters(V, doc, keys, q)
    BY <2>1
  <2>4. W[q] = Enters(W, doc, keys, q)
    BY <2>2
  <2> QED BY <2>3, <2>4
<1>2. ASSUME NEW q \in Differ
      PROVE  \E r \in Differ : Len(r) < Len(q)
  <2>1. q # <<>> /\ IsField(Field(q)) /\ ~(V[Parent(Field(q))] <=> W[Parent(Field(q))])
    BY <1>1 DEF Enters
  <2>2. /\ Parent(Field(q)) \in DOMAIN doc
        /\ Len(Parent(Field(q))) \in 0 .. Len(q) - 1
    BY <2>1, OpenStep
  <2>3. Len(q) \in Nat
    BY AddressFacts
  <2>4. Len(Parent(Field(q))) < Len(q)
    BY <2>2, <2>3
  <2> QED BY <2>1, <2>2, <2>4
<1>3. Differ = {}
  <2>1. SUFFICES ASSUME Differ # {} PROVE FALSE
    OBVIOUS
  <2> DEFINE T == {Len(q) : q \in Differ}
  <2>2. T \subseteq Nat /\ T # {}
    BY <2>1, AddressFacts
  <2>3. PICK m \in T : \A k \in T : m <= k
    BY <2>2, Least
  <2>4. PICK q \in Differ : Len(q) = m
    BY <2>3
  <2>5. PICK r \in Differ : Len(r) < Len(q)
    BY <1>2
  <2>6. Len(r) \in T /\ Len(r) \in Nat /\ m \in Nat
    BY <2>2
  <2> QED BY <2>3, <2>4, <2>5, <2>6
<1>4. V[p] <=> W[p]
  BY <1>3
<1> QED BY <1>4 DEF Reached

(* A masked field is one whose address has no secret but its own key.      *)
LEMMA MaskedFields ==
    ASSUME NEW doc, IsDocument(doc), doc[<<>>].kind = "object", NEW keys,
           NEW p \in DOMAIN doc
    PROVE  p \in Masked(doc, keys) <=> Secret(p, keys) = {Len(p)}
<1> DEFINE L == Len(p)
           q == Prefix(p, L - 1)
<1>1. L \in Nat /\ p \in Seq(Steps(doc)) /\ (p = <<>> \/ L > 0)
  BY AddressFacts
<1>2. ASSUME L > 0
      PROVE  /\ Len(q) = L - 1
             /\ \A n \in 1 .. L - 1 : q[n] = p[n]
             /\ q \in DOMAIN doc
             /\ doc[q].kind = "object" <=> IsKey(p[L])
  <2>1. L - 1 \in 0 .. L /\ L \in 1 .. L
    BY <1>1, <1>2
  <2> QED BY <2>1, <1>1, PrefixFacts, AddressFacts
<1>3. p \in Masked(doc, keys)
        <=> L > 0 /\ IsKey(p[L]) /\ p[L][2] \in keys /\ Open(q, keys)
  <2>1. HasKey(p, keys) <=> L > 0 /\ IsKey(p[L]) /\ p[L][2] \in keys
    <3>1. p = <<>> <=> L = 0
      BY <1>1
    <3> QED BY <3>1, <1>1 DEF HasKey, IsField
  <2>2. ASSUME L > 0, IsKey(p[L])
        PROVE  Visits(doc, keys)[q] <=> Open(q, keys)
    BY <2>2, <1>2, VisitsOpen
  <2>3. Parent(p) = q
    BY DEF Parent
  <2> HIDE DEF q, L
  <2> QED BY <2>1, <2>2, <2>3 DEF Masked
<1> HIDE DEF q
<1>4. ASSUME L > 0
      PROVE  Open(q, keys) <=> /\ \A n \in 1 .. L - 1 : IsKey(p[n]) => p[n][2] \notin keys
                               /\ ~Nested(p, L)
  <2>1. \A n \in 1 .. L - 2 : n \in 1 .. L - 1 /\ n + 1 \in 1 .. L - 1
    BY <1>1
  <2>2. Len(q) - 1 = L - 2
    BY <1>1, <1>2, <1>4
  <2> HIDE DEF L
  <2>3. Open(q, keys) <=> /\ \A n \in 1 .. L - 1 : IsKey(p[n]) => p[n][2] \notin keys
                          /\ \A n \in 1 .. L - 2 : IsKey(p[n]) \/ IsKey(p[n + 1])
    BY <2>1, <2>2, <1>2, <1>4 DEF Open
  <2> QED BY <2>3 DEF Nested
<1> HIDE DEF L
<1>5. \A n \in 1 .. L : Nested(p, n) => Nested(p, L)
  BY <1>1 DEF Nested
<1>6. Secret(p, keys) = {n \in 1 .. L : IsKey(p[n]) /\ p[n][2] \in keys /\ ~Nested(p, n)}
  BY DEF Secret, L
<1>7. ASSUME L > 0, IsKey(p[L]), p[L][2] \in keys, Open(q, keys)
      PROVE  Secret(p, keys) = {L}
  <2>1. L \in Secret(p, keys)
    BY <1>1, <1>4, <1>6, <1>7
  <2>2. \A n \in Secret(p, keys) : n \notin 1 .. L - 1
    BY <1>4, <1>6, <1>7
  <2>3. \A n \in 1 .. L : n \in 1 .. L - 1 \/ n = L
    BY <1>1
  <2> QED BY <2>1, <2>2, <2>3, <1>6
<1>8. ASSUME Secret(p, keys) = {L}
      PROVE  L > 0 /\ IsKey(p[L]) /\ p[L][2] \in keys /\ Open(q, keys)
  <2>1. L \in 1 .. L /\ IsKey(p[L]) /\ p[L][2] \in keys /\ ~Nested(p, L)
    BY <1>6, <1>8
  <2>2. L > 0
    BY <2>1, <1>1
  <2>3. \A n \in 1 .. L - 1 : n \in 1 .. L /\ n # L
    BY <1>1
  <2>4. \A n \in 1 .. L - 1 : IsKey(p[n]) => p[n][2] \notin keys
    BY <2>1, <2>3, <1>5, <1>6, <1>8
  <2> QED BY <2>1, <2>2, <2>4, <1>4
<1> QED BY <1>3, <1>7, <1>8 DEF L

LEMMA SecretOfPrefix ==
    ASSUME NEW S, NEW p \in Seq(S), NEW n \in 0 .. Len(p), NEW keys
    PROVE  Secret(Prefix(p, n), keys) = {k \in Secret(p, keys) : k <= n}
<1> DEFINE q == Prefix(p, n)
<1>1. Len(q) = n /\ (\A i \in 1 .. n : q[i] = p[i]) /\ Len(p) \in Nat /\ n \in Nat /\ n <= Len(p)
  BY PrefixFacts
<1> HIDE DEF q
<1>2. ASSUME NEW k \in 1 .. n PROVE Nested(q, k) <=> Nested(p, k)
  <2>1. \A i \in 1 .. k - 2 : i \in 1 .. n /\ i + 1 \in 1 .. n
    BY <1>1
  <2> QED BY <2>1, <1>1 DEF Nested
<1>3. \A k : k \in 1 .. n <=> k \in 1 .. Len(p) /\ k <= n
  BY <1>1
<1> QED BY <1>1, <1>2, <1>3 DEF Secret, q

(* maskMapValues masks what the reference says, whatever the document:     *)
(* every value below a key to mask, in whatever objects and lists, and     *)
(* nothing else (api/req_resp_logger_mw.go:206).                           *)
THEOREM MaskedAsSpecified ==
    ASSUME NEW doc, IsDocument(doc), doc[<<>>].kind = "object", NEW keys
    PROVE  IsMaskOf(maskMapValues(doc, keys), doc, keys)
<1> DEFINE masked == Masked(doc, keys)
           m == maskMapValues(doc, keys)
<1>1. ASSUME NEW p \in DOMAIN doc
      PROVE  (\A n \in 1 .. Len(p) : Prefix(p, n - 1) \notin masked)
                <=> \A n \in Secret(p, keys) : n = Len(p)
  <2>1. Len(p) \in Nat /\ p \in Seq(Steps(doc))
    BY AddressFacts
  <2>2. Secret(p, keys) \subseteq 1 .. Len(p)
    BY DEF Secret
  <2>3. ASSUME NEW n \in 0 .. Len(p)
        PROVE  Prefix(p, n) \in masked <=> {k \in Secret(p, keys) : k <= n} = {n}
    <3>1. Prefix(p, n) \in DOMAIN doc
      BY AddressFacts
    <3>2. Len(Prefix(p, n)) = n
      BY <2>1, PrefixFacts
    <3> QED BY <3>1, <3>2, <2>1, MaskedFields, SecretOfPrefix
  <2> HIDE DEF masked
  <2>4. ASSUME NEW n \in 1 .. Len(p), Prefix(p, n - 1) \in masked
        PROVE  \E k \in Secret(p, keys) : k # Len(p)
    <3>1. n - 1 \in 0 .. Len(p) /\ n - 1 # Len(p)
      BY <2>1
    <3>2. n - 1 \in Secret(p, keys)
      BY <3>1, <2>3, <2>4
    <3> QED BY <3>1, <3>2
  <2>5. ASSUME NEW n \in Secret(p, keys), n # Len(p)
        PROVE  \E k \in 1 .. Len(p) : Prefix(p, k - 1) \in masked
    <3>1. Secret(p, keys) \subseteq Nat /\ Secret(p, keys) # {}
      BY <2>2, <2>5
    <3>2. PICK k \in Secret(p, keys) : \A i \in Secret(p, keys) : k <= i
      BY <3>1, Least
    <3>3. k \in 1 .. Len(p) /\ n \in 1 .. Len(p) /\ k <= n
      BY <3>2, <2>2
    <3>4. k + 1 \in 1 .. Len(p) /\ (k + 1) - 1 = k /\ k \in 0 .. Len(p)
      BY <3>3, <2>1, <2>5
    <3>5. {i \in Secret(p, keys) : i <= k} = {k}
      BY <3>1, <3>2
    <3>6. Prefix(p, k) \in masked
      BY <3>4, <3>5, <2>3
    <3> QED BY <3>4, <3>6
  <2> QED BY <2>4, <2>5
<1>2. DOMAIN m = {p \in DOMAIN doc : \A n \in Secret(p, keys) : n = Len(p)}
  BY <1>1 DEF maskMapValues
<1>3. ASSUME NEW p \in DOMAIN m
      PROVE  m[p] = IF Secret(p, keys) = {} THEN doc[p] ELSE MaskString
  <2>1. p \in DOMAIN doc /\ \A n \in Secret(p, keys) : n = Len(p)
    BY <1>2, <1>3
  <2>2. m[p] = IF p \in masked THEN MaskString ELSE doc[p]
    BY <1>3 DEF maskMapValues
  <2>3. p \in masked <=> Secret(p, keys) = {Len(p)}
    BY <2>1, MaskedFields
  <2>4. Secret(p, keys) = {Len(p)} <=> Secret(p, keys) # {}
    BY <2>1
  <2> HIDE DEF m, masked
  <2> QED BY <2>2, <2>3, <2>4
<1> QED BY <1>2, <1>3 DEF IsMaskOf

-----------------------------------------------------------------------------
(***************************************************************************)
(* Middleware: one request through the chain.                              *)
(***************************************************************************)

Stacks == {<<"engine">>, <<"logger", "engine">>, <<"validator", "engine">>,
           <<"validator", "logger", "engine">>, <<"logger", "validator", "engine">>,
           <<>>, <<"panic">>}

InLogger == stack \in {<<"logger", "engine">>, <<"validator", "logger", "engine">>,
                       <<"logger", "validator", "engine">>}
InValidator == stack \in {<<"validator", "engine">>, <<"validator", "logger", "engine">>,
                          <<"logger", "validator", "engine">>}

ReplyDocs == UNION {{reply.docs[i] : i \in DOMAIN reply.docs} : reply \in Replies}
Docs == ReplyDocs \cup ConverterAnswers
Statuses == {200, 400, 500} \cup {reply.status : reply \in Replies}

Responses == [status : Statuses, sent : BOOLEAN, body : Seq(Docs), direct : BOOLEAN]
Logs(status, headers, request) ==
    [status : status, headers : headers, request : request, response : Seq(Docs)]

TypeInv ==
    /\ chain \in Chains
    /\ settings \in [logFunc : BOOLEAN, mask : LogConfigs,
                      skip : BOOLEAN, converted : BOOLEAN]
    /\ body \in Bodies
    /\ index \in 0 .. Len(chain)
    /\ stack \in Stacks
    /\ aborted \in BOOLEAN
    /\ wrapped \in BOOLEAN
    /\ errors \subseteq Errors
    /\ response \in Responses
    /\ captured \in Logs({0}, {None, LastValues}, {<<>>, body})

(* Nothing of the body is read before the handler, which is the last.      *)
ReaderInv ==
    /\ ~Started("handler") => reader.docs = body
    /\ saw # None => saw[1].docs = body

(* Who is in its c.Next() has started, the logger before the validator only*)
(* if it is before it in the chain.                                        *)
StackInv ==
    /\ InLogger => Started("logger") /\ log = None
    /\ InValidator => Started("validator") /\ ~settings.skip
    /\ chain # <<>> /\ chain[1] = "logger" => stack # <<"logger", "validator", "engine">>

Ended == aborted \/ index = Len(chain)

(* What the logger has in its hands once it has started.                   *)
CapturedInv ==
    /\ Started("logger") => /\ wrapped
                            /\ captured.headers = LastValues
                            /\ captured.request = body
    /\ chain # <<>> /\ chain[1] = "logger" /\ ~response.direct =>
          captured.response = response.body

(* The log was written when the chain had ended.  After that no handler    *)
(* sends, and, if the logger is the outermost, no validator answers.       *)
LogInv ==
    log # None =>
        /\ Ended
        /\ Started("logger")
        /\ chain[1] = "logger" => stack \in {<<"engine">>, <<>>}
        /\ \E l \in Logs(Statuses, {LastValues}, {body}) :
              /\ log = <<Process(settings.mask, l)>>
              /\ chain[1] = "logger" /\ ~response.direct =>
                    l.status = response.status /\ l.response = response.body

Checked == Started("validator") /\ ~settings.skip /\ ~InValidator /\ ~Panicked

(* The validator answers when the chain has ended, so that the errors are  *)
(* all there, and nothing that the handlers send looks like its answer.    *)
AnswerInv ==
    /\ Validation(errors) # {} /\ settings.converted /\ Checked =>
          /\ Answered(errors)
          /\ response.status \in 200 .. 299 => Len(response.body) > 1
    /\ Checked => Ended
    /\ ~Checked \/ ~Answers => Panicked \/ response.body \in Seq(ReplyDocs)
    /\ response.sent /\ response.status \in 200 .. 299 => Len(response.body) > 0

IInv == TypeInv /\ ReaderInv /\ StackInv /\ CapturedInv /\ LogInv /\ AnswerInv

LEMMA ChainFacts ==
    ASSUME TypeInv
    PROVE  /\ chain \in Seq({"logger", "validator", "auth", "handler"})
           /\ Len(chain) \in Nat /\ index \in Nat
           /\ \A i, j \in 1 .. Len(chain) :
                 chain[i] = chain[j] /\ chain[i] \in {"logger", "validator"} => i = j
           /\ \A i \in 1 .. Len(chain) : chain[i] = "handler" => i = Len(chain)
<1>1. chain \in Seq({"logger", "validator", "auth", "handler"})
  BY ChainsAssumption DEF TypeInv
<1>2. DOMAIN chain = 1 .. Len(chain) /\ Len(chain) \in Nat
  BY <1>1
<1>3. chain \in Chains /\ index \in 0 .. Len(chain)
  BY DEF TypeInv
<1>4. /\ \A i, j \in DOMAIN chain :
           chain[i] = chain[j] /\ chain[i] \in {"logger", "validator"} => i = j
      /\ \A i \in DOMAIN chain : chain[i] = "handler" => i = Len(chain)
  BY <1>3, ChainsAssumption, Zenon
<1>5. index \in Nat
  BY <1>2, <1>3
<1> QED BY <1>1, <1>2, <1>4, <1>5

(* The next of the chain is started.                                       *)
LEMMA StartsFacts ==
    ASSUME TypeInv, NEW h, Starts(h), UNCHANGED chain
    PROVE  /\ index' = index + 1 /\ index' \in 0 .. Len(chain)
           /\ ~Over /\ ~Ended /\ chain # <<>>
           /\ \A g : Started(g)' <=> Started(g) \/ g = h
           /\ h \in {"logger", "validator"} => ~Started(h)
           /\ ~Started("handler")
           /\ chain[1] = "logger" => h = "logger" \/ Started("logger")
<1>1. /\ index \in Nat /\ Len(chain) \in Nat
      /\ index < Len(chain) /\ index' = index + 1 /\ chain[index + 1] = h
      /\ ~Over /\ ~Ended
  BY ChainFacts DEF Starts, Ended
<1>2. index' \in 0 .. Len(chain) /\ chain # <<>>
  BY <1>1, ChainFacts
<1>3. ASSUME NEW g PROVE Started(g)' <=> Started(g) \/ g = h
  <2>1. \A i : i \in 1 .. index + 1 <=> i \in 1 .. index \/ i = index + 1
    BY <1>1
  <2> QED BY <1>1, <2>1 DEF Started
<1>4. \A i \in 1 .. index : i \in 1 .. Len(chain) /\ i # index + 1 /\ i # Len(chain)
  BY <1>1
<1>5. index + 1 \in 1 .. Len(chain)
  BY <1>1
<1>6. h \in {"logger", "validator"} => ~Started(h)
  BY <1>1, <1>4, <1>5, ChainFacts DEF Started
<1>7. ~Started("handler")
  BY <1>4, ChainFacts DEF Started
<1>8. chain[1] = "logger" => h = "logger" \/ Started("logger")
  <2>1. CASE index = 0
    BY <2>1, <1>1
  <2>2. CASE index # 0
    <3>1. 1 \in 1 .. index
      BY <2>2, <1>1
    <3> QED BY <3>1 DEF Started
  <2> QED BY <2>1, <2>2
<1> QED BY <1>1, <1>2, <1>3, <1>6, <1>7, <1>8

(* A middleware enters its c.Next().                                       *)
LEMMA InsideFacts ==
    ASSUME stack \in Stacks, ~Over
    PROVE  /\ ~InLogger /\ Inside("logger") =>
                 /\ stack' \in Stacks /\ InLogger'
                 /\ InValidator' <=> InValidator
                 /\ stack' = <<"logger", "validator", "engine">> => InValidator
           /\ ~InValidator /\ Inside("validator") =>
                 /\ stack' \in Stacks /\ InValidator'
                 /\ InLogger' <=> InLogger
                 /\ stack' # <<"logger", "validator", "engine">>
<1>1. CASE stack = <<"engine">>
  BY <1>1 DEF Stacks, InLogger, InValidator, Inside
<1>2. CASE stack = <<"logger", "engine">>
  BY <1>2 DEF Stacks, InLogger, InValidator, Inside
<1>3. CASE stack = <<"validator", "engine">>
  BY <1>3 DEF Stacks, InLogger, InValidator, Inside
<1>4. CASE stack = <<"validator", "logger", "engine">>
  BY <1>4 DEF Stacks, InLogger, InValidator, Inside
<1>5. CASE stack = <<"logger", "validator", "engine">>
  BY <1>5 DEF Stacks, InLogger, InValidator, Inside
<1> QED BY <1>1, <1>2, <1>3, <1>4, <1>5 DEF Stacks, Over, Panicked

(* The innermost c.Next() returns.                                         *)
LEMMA ReturnFacts ==
    ASSUME stack \in Stacks, NEW h, NextReturns(h)
    PROVE  /\ stack' \in Stacks /\ stack' # <<"panic">> /\ stack # <<"panic">>
           /\ stack' # <<"logger", "validator", "engine">>
           /\ h = "engine" => stack = <<"engine">> /\ stack' = <<>>
           /\ h = "logger" => /\ InLogger /\ ~InLogger'
                              /\ InValidator' <=> InValidator
                              /\ stack' \notin {<<"engine">>, <<>>}
                                    => stack = <<"logger", "validator", "engine">>
           /\ h = "validator" => /\ InValidator /\ ~InValidator'
                                 /\ InLogger' <=> InLogger
                                 /\ stack \notin {<<"engine">>, <<>>}
<1>1. CASE stack = <<"engine">>
  BY <1>1 DEF Stacks, InLogger, InValidator, NextReturns
<1>2. CASE stack = <<"logger", "engine">>
  BY <1>2 DEF Stacks, InLogger, InValidator, NextReturns
<1>3. CASE stack = <<"validator", "engine">>
  BY <1>3 DEF Stacks, InLogger, InValidator, NextReturns
<1>4. CASE stack = <<"validator", "logger", "engine">>
  BY <1>4 DEF Stacks, InLogger, InValidator, NextReturns
<1>5. CASE stack = <<"logger", "validator", "engine">>
  BY <1>5 DEF Stacks, InLogger, InValidator, NextReturns
<1> QED BY <1>1, <1>2, <1>3, <1>4, <1>5 DEF Stacks, Over, Panicked, NextReturns

LEMMA AnswerIsDoc ==
    ASSUME NEW errs \in SUBSET Errors
    PROVE  Answer(errs) \in Docs
  BY DEF Docs, ConverterAnswers

(* What is sent has been typed, and counts for the log if it is sent       *)
(* through the logger's writer.                                            *)
LEMMA SentFacts ==
    ASSUME TypeInv, NEW status \in Statuses, NEW docs \in Seq(Docs), NEW via,
           SentWith(status, docs, via)
    PROVE  /\ response' \in Responses
           /\ response'.status = IF response.sent THEN response.status ELSE status
           /\ response'.sent
           /\ response'.body = response.body \o docs
           /\ response'.direct <=> response.direct \/ via = "WriteString"
           /\ captured'.headers = captured.headers
           /\ captured'.request = captured.request
           /\ captured'.status = captured.status
           /\ captured'.response \in Seq(Docs)
           /\ captured'.response = IF wrapped /\ via = "Write"
                                   THEN captured.response \o docs ELSE captured.response
           /\ captured' \in Logs({0}, {None, LastValues}, {<<>>, body})
<1>1. response \in Responses /\ captured \in Logs({0}, {None, LastValues}, {<<>>, body})
  BY DEF TypeInv
<1>2. response.body \o docs \in Seq(Docs) /\ captured.response \o docs \in Seq(Docs)
  BY <1>1 DEF Responses, Logs
<1> HIDE DEF TypeInv
<1>3. /\ response' = [response EXCEPT !.status = IF response.sent THEN @ ELSE status,
                                     !.sent = TRUE, !.body = @ \o docs,
                                     !.direct = @ \/ via = "WriteString"]
      /\ captured' = [captured EXCEPT !.response =
                         IF wrapped /\ via = "Write" THEN @ \o docs ELSE @]
  BY DEF SentWith
<1>4. /\ response'.status = IF response.sent THEN response.status ELSE status
      /\ response'.sent = TRUE
      /\ response'.body = response.body \o docs
      /\ response'.direct = (response.direct \/ via = "WriteString")
      /\ response' \in Responses
  BY <1>1, <1>2, <1>3 DEF Responses
<1>5. /\ captured'.headers = captured.headers
      /\ captured'.request = captured.request
      /\ captured'.status = captured.status
      /\ captured'.response = IF wrapped /\ via = "Write"
                              THEN captured.response \o docs ELSE captured.response
      /\ captured' \in Logs({0}, {None, LastValues}, {<<>>, body})
  BY <1>1, <1>2, <1>3 DEF Logs
<1>6. captured'.response \in Seq(Docs)
  BY <1>5 DEF Logs
<1> QED BY <1>4, <1>5, <1>6

LEMMA InitIInv == Init => IInv
<1> SUFFICES ASSUME Init PROVE IInv
  OBVIOUS
<1>1. chain \in Seq({"logger", "validator", "auth", "handler"}) /\ index = 0
  BY ChainsAssumption DEF Init
<1>2. \A h : ~Started(h)
  BY <1>1 DEF Started
<1>3. TypeInv
  <2>1. response \in Responses
    BY DEF Init, Responses, Statuses
  <2>2. captured \in Logs({0}, {None, LastValues}, {<<>>, body})
    BY DEF Init, Logs, None
  <2>3. stack \in Stacks
    BY DEF Init, Stacks
  <2>4. index \in 0 .. Len(chain)
    BY <1>1
  <2>5. /\ chain \in Chains /\ body \in Bodies /\ aborted \in BOOLEAN /\ wrapped \in BOOLEAN
        /\ errors \subseteq Errors
        /\ settings \in [logFunc : BOOLEAN, mask : LogConfigs,
                          skip : BOOLEAN, converted : BOOLEAN]
    BY DEF Init
  <2> QED BY <2>1, <2>2, <2>3, <2>4, <2>5 DEF TypeInv
<1>4. ReaderInv
  BY DEF Init, ReaderInv, None
<1>5. StackInv
  BY DEF Init, StackInv, InLogger, InValidator
<1>6. CapturedInv
  BY <1>2 DEF Init, CapturedInv
<1>7. LogInv
  BY DEF Init, LogInv, None
<1>8. AnswerInv
  <2>1. ~Checked
    BY <1>2 DEF Checked
  <2> QED BY <2>1 DEF Init, AnswerInv
<1> QED BY <1>3, <1>4, <1>5, <1>6, <1>7, <1>8 DEF IInv

LEMMA LoggerBeforeIInv == IInv /\ LoggerBefore => IInv'
<1> SUFFICES ASSUME IInv, LoggerBefore PROVE IInv'
  OBVIOUS
<1>1. TypeInv /\ Starts("logger") /\ Inside("logger")
      /\ UNCHANGED <<chain, settings, body, aborted, errors, response, log, saw>>
  BY DEF IInv, LoggerBefore
<1>2. /\ index' = index + 1 /\ index' \in 0 .. Len(chain)
      /\ ~Over /\ ~Ended /\ chain # <<>>
      /\ \A g : Started(g)' <=> Started(g) \/ g = "logger"
      /\ ~Started("logger") /\ ~Started("handler")
  BY <1>1, StartsFacts
<1>3. ~InLogger /\ log = None
  BY <1>2 DEF IInv, StackInv, LogInv
<1>4. /\ stack' \in Stacks /\ InLogger' /\ (InValidator' <=> InValidator)
      /\ stack' = <<"logger", "validator", "engine">> => InValidator
  BY <1>1, <1>2, <1>3, InsideFacts DEF TypeInv
<1>5. /\ reader'.docs = reader.docs /\ wrapped' = TRUE
      /\ captured' = [captured EXCEPT !.headers = LastValues, !.request = reader.docs]
  BY DEF LoggerBefore, NewReader
<1>6. reader.docs = body
  BY <1>2 DEF IInv, ReaderInv
<1>7. /\ captured' \in Logs({0}, {LastValues}, {body})
      /\ captured'.response = captured.response
  BY <1>1, <1>5, <1>6 DEF TypeInv, Logs
<1>8. TypeInv'
  <2>1. captured' \in Logs({0}, {None, LastValues}, {<<>>, body})
    BY <1>7 DEF Logs
  <2> QED BY <1>1, <1>2, <1>4, <1>5, <2>1 DEF TypeInv, Logs, LastValues
<1>9. ReaderInv'
  BY <1>1, <1>2, <1>5, <1>6 DEF IInv, ReaderInv
<1>10. StackInv'
  <2>1. InValidator' => Started("validator")' /\ ~settings'.skip
    BY <1>1, <1>2, <1>4 DEF IInv, StackInv
  <2>2. chain[1] = "logger" => stack' # <<"logger", "validator", "engine">>
    <3>1. ASSUME chain[1] = "logger", Started("validator") PROVE FALSE
      <4>1. index # 0
        BY <3>1, ChainFacts, <1>1 DEF Started
      <4>2. 1 \in 1 .. index
        BY <4>1, <1>1, ChainFacts
      <4> QED BY <3>1, <4>2, <1>2 DEF Started
    <3> QED BY <3>1, <1>4 DEF IInv, StackInv
  <2> QED BY <1>1, <1>2, <1>3, <1>4, <2>1, <2>2 DEF StackInv
<1>11. CapturedInv'
  <2>1. captured'.headers = LastValues /\ captured'.request = body
    BY <1>7 DEF Logs
  <2> QED BY <1>1, <1>5, <1>7, <2>1 DEF IInv, CapturedInv, LastValues
<1>12. LogInv'
  BY <1>1, <1>3 DEF LogInv, None
<1>13. AnswerInv'
  <2>1. Checked' => Checked
    BY <1>1, <1>2, <1>4 DEF Checked, Panicked, Over
  <2>2. ~Checked
    BY <1>2 DEF IInv, AnswerInv
  <2>3. ~Panicked
    BY <1>2 DEF Over
  <2> QED BY <1>1, <2>1, <2>2, <2>3 DEF IInv, AnswerInv
<1> QED BY <1>8, <1>9, <1>10, <1>11, <1>12, <1>13 DEF IInv

LEMMA LoggerAfterIInv == IInv /\ LoggerAfter => IInv'
<1> SUFFICES ASSUME IInv, LoggerAfter PROVE IInv'
  OBVIOUS
<1>1. /\ TypeInv /\ NextReturns("logger") /\ Ended
      /\ UNCHANGED <<chain, settings, body, index, aborted, reader, wrapped, errors,
                     response, captured, saw>>
      /\ log' = IF settings.logFunc THEN <<Process(settings.mask, Captured)>> ELSE None
  BY DEF IInv, LoggerAfter, NextReturns, context, Ended
<1>2. /\ stack' \in Stacks /\ stack' # <<"panic">> /\ stack # <<"panic">>
      /\ InLogger /\ ~InLogger' /\ (InValidator' <=> InValidator)
      /\ stack' # <<"logger", "validator", "engine">>
      /\ stack' \notin {<<"engine">>, <<>>} => stack = <<"logger", "validator", "engine">>
  BY <1>1, ReturnFacts DEF TypeInv
<1>3. \A h : Started(h)' <=> Started(h)
  BY <1>1 DEF Started
<1>4. Started("logger") /\ captured.headers = LastValues /\ captured.request = body
  BY <1>2 DEF IInv, StackInv, CapturedInv
<1>5. TypeInv'
  BY <1>1, <1>2 DEF TypeInv, Logs, LastValues
<1>6. ReaderInv'
  BY <1>1, <1>3 DEF IInv, ReaderInv
<1>7. StackInv'
  BY <1>1, <1>2, <1>3 DEF IInv, StackInv
<1>8. CapturedInv'
  BY <1>1, <1>3 DEF IInv, CapturedInv, LastValues
<1>9. LogInv'
  <2>1. chain # <<>>
    <3>1. index \in 0 .. Len(chain) /\ \E i \in 1 .. index : TRUE
      BY <1>1, <1>4 DEF TypeInv, Started
    <3> QED BY <3>1
  <2>2. chain[1] = "logger" => stack' \in {<<"engine">>, <<>>}
    BY <1>2, <2>1 DEF IInv, StackInv
  <2>3. /\ Captured \in Logs(Statuses, {LastValues}, {body})
        /\ Captured.status = response.status
        /\ Captured.response = captured.response
    BY <1>1, <1>4 DEF TypeInv, Captured, Logs, Responses
  <2>4. chain[1] = "logger" /\ ~response.direct => captured.response = response.body
    BY <2>1 DEF IInv, CapturedInv
  <2>5. Logs(Statuses, {LastValues}, {body})' = Logs(Statuses, {LastValues}, {body})
    BY <1>1 DEF Logs, LastValues
  <2>6. ASSUME log' # None
        PROVE  log' = <<Process(settings.mask, Captured)>>
    BY <1>1, <2>6
  <2> HIDE DEF Captured
  <2>7. ASSUME log' # None
        PROVE  \E l \in Logs(Statuses, {LastValues}, {body}) :
                  /\ log' = <<Process(settings.mask, l)>>
                  /\ chain[1] = "logger" /\ ~response.direct =>
                        l.status = response.status /\ l.response = response.body
    BY <2>3, <2>4, <2>6, <2>7
  <2>8. Ended' <=> Ended
    BY <1>1 DEF Ended
  <2> QED BY <1>1, <1>3, <1>4, <2>2, <2>5, <2>7, <2>8 DEF LogInv, None
<1>10. AnswerInv'
  <2>1. (Checked' <=> Checked) /\ ~Panicked /\ (Ended' <=> Ended) /\ (Answers' <=> Answers)
    BY <1>1, <1>2, <1>3 DEF Checked, Panicked, Ended, Answers, Validation
  <2>2. Answered(errors)' <=> Answered(errors)
    BY <1>1 DEF Answered
  <2> QED BY <1>1, <2>1, <2>2 DEF IInv, AnswerInv
<1> QED BY <1>5, <1>6, <1>7, <1>8, <1>9, <1>10 DEF IInv

LEMMA ValidatorBeforeIInv == IInv /\ ValidatorBefore => IInv'
<1> SUFFICES ASSUME IInv, ValidatorBefore PROVE IInv'
  OBVIOUS
<1>1. /\ TypeInv /\ Starts("validator")
      /\ IF settings.skip THEN UNCHANGED stack ELSE Inside("validator")
      /\ UNCHANGED <<chain, settings, body, aborted, reader, wrapped, errors, response,
                     captured, log, saw>>
  BY DEF IInv, ValidatorBefore, context
<1>2. /\ index' = index + 1 /\ index' \in 0 .. Len(chain)
      /\ ~Over /\ ~Ended /\ chain # <<>>
      /\ \A g : Started(g)' <=> Started(g) \/ g = "validator"
      /\ ~Started("validator")
      /\ chain[1] = "logger" => Started("logger")
  BY <1>1, StartsFacts
<1>3. ~InValidator /\ log = None
  BY <1>2 DEF IInv, StackInv, LogInv
<1>4. /\ stack' \in Stacks /\ (InLogger' <=> InLogger)
      /\ stack' # <<"logger", "validator", "engine">>
      /\ InValidator' <=> ~settings.skip
      /\ stack' # <<"panic">>
  <2>1. CASE settings.skip
    BY <2>1, <1>1, <1>2, <1>3 DEF TypeInv, InLogger, InValidator, Over, Panicked
  <2>2. CASE ~settings.skip
    BY <2>2, <1>1, <1>2, <1>3, InsideFacts DEF TypeInv, InValidator
  <2> QED BY <2>1, <2>2
<1>5. TypeInv'
  BY <1>1, <1>2, <1>4 DEF TypeInv, Logs, LastValues
<1>6. ReaderInv'
  BY <1>1, <1>2 DEF IInv, ReaderInv
<1>7. StackInv'
  BY <1>1, <1>2, <1>3, <1>4 DEF IInv, StackInv
<1>8. CapturedInv'
  BY <1>1, <1>2 DEF IInv, CapturedInv, LastValues
<1>9. LogInv'
  BY <1>1, <1>3 DEF LogInv, None
<1>10. AnswerInv'
  <2>1. ~Checked' /\ ~Checked /\ ~Panicked
    BY <1>1, <1>2, <1>4 DEF Checked, Over
  <2> QED BY <1>1, <2>1 DEF IInv, AnswerInv
<1> QED BY <1>5, <1>6, <1>7, <1>8, <1>9, <1>10 DEF IInv

LEMMA ValidatorAfterIInv == IInv /\ ValidatorAfter => IInv'
<1> SUFFICES ASSUME IInv, ValidatorAfter PROVE IInv'
  OBVIOUS
<1>1. /\ TypeInv /\ NextReturns("validator") /\ Ended
      /\ UNCHANGED <<chain, settings, body, index, reader, wrapped, errors, log, saw>>
      /\ IF Answers
         THEN SentWith(400, <<Answer(errors)>>, "Write") /\ aborted' = TRUE
         ELSE UNCHANGED <<response, captured, aborted>>
  BY DEF IInv, ValidatorAfter, NextReturns, Ended
<1>2. /\ stack' \in Stacks /\ stack' # <<"panic">> /\ stack # <<"panic">>
      /\ InValidator /\ ~InValidator' /\ (InLogger' <=> InLogger)
      /\ stack' # <<"logger", "validator", "engine">>
      /\ stack \notin {<<"engine">>, <<>>}
  BY <1>1, ReturnFacts DEF TypeInv
<1>3. \A h : Started(h)' <=> Started(h)
  BY <1>1 DEF Started
<1>4. Started("validator") /\ ~settings.skip /\ ~Checked /\ Checked' /\ ~Panicked
  BY <1>1, <1>2, <1>3 DEF IInv, StackInv, Checked, Panicked
<1>5. (Answers' <=> Answers) /\ (Ended' <=> Ended)
  BY <1>1 DEF Answers, Validation, Ended, TypeInv
<1>6. errors \in SUBSET Errors /\ <<Answer(errors)>> \in Seq(Docs) /\ 400 \in Statuses
  BY <1>1, AnswerIsDoc DEF TypeInv, Statuses
<1>7. ASSUME Answers
      PROVE  /\ response'.status = IF response.sent THEN response.status ELSE 400
             /\ response'.body = response.body \o <<Answer(errors)>>
             /\ response'.direct <=> response.direct
             /\ captured'.response = IF wrapped THEN captured.response \o <<Answer(errors)>>
                                     ELSE captured.response
  <2> DEFINE docs == <<Answer(errors)>>
  <2>1. TypeInv /\ 400 \in Statuses /\ docs \in Seq(Docs) /\ SentWith(400, docs, "Write")
    BY <1>1, <1>6, <1>7
  <2> HIDE DEF docs
  <2>2. /\ response'.status = IF response.sent THEN response.status ELSE 400
        /\ response'.body = response.body \o docs
    BY <2>1, SentFacts
  <2>3. response'.direct <=> response.direct \/ "Write" = "WriteString"
    BY <2>1, SentFacts
  <2>4. captured'.response = IF wrapped /\ "Write" = "Write"
                            THEN captured.response \o docs ELSE captured.response
    BY <2>1, SentFacts
  <2> QED BY <2>2, <2>3, <2>4 DEF docs
<1>8. /\ response' \in Responses
      /\ captured' \in Logs({0}, {None, LastValues}, {<<>>, body})
      /\ captured'.headers = captured.headers
      /\ captured'.request = captured.request
  BY <1>1, <1>6, SentFacts DEF TypeInv
<1>9. TypeInv'
  <2>1. aborted' \in BOOLEAN
    BY <1>1 DEF TypeInv
  <2> QED BY <1>1, <1>2, <1>8, <2>1 DEF TypeInv, Logs, LastValues
<1>10. ReaderInv'
  BY <1>1, <1>3 DEF IInv, ReaderInv
<1>11. StackInv'
  BY <1>1, <1>2, <1>3 DEF IInv, StackInv
<1>12. CapturedInv'
  <2>1. ASSUME chain # <<>>, chain[1] = "logger", ~response'.direct
        PROVE  captured'.response = response'.body
    <3>1. Started("logger") /\ wrapped
      <4>1. 1 \in 1 .. index
        BY <1>1, <1>4, ChainFacts DEF Started
      <4> QED BY <2>1, <4>1 DEF Started, IInv, CapturedInv
    <3>2. CASE Answers
      BY <3>1, <3>2, <2>1, <1>7 DEF IInv, CapturedInv
    <3>3. CASE ~Answers
      BY <3>3, <2>1, <1>1 DEF IInv, CapturedInv
    <3> QED BY <3>2, <3>3
  <2>2. Started("logger") => wrapped /\ captured.headers = LastValues /\ captured.request = body
    BY DEF IInv, CapturedInv
  <2> QED BY <1>1, <1>3, <1>8, <2>1, <2>2 DEF CapturedInv, LastValues
<1>13. LogInv'
  <2>1. ASSUME log # None PROVE chain[1] # "logger"
    BY <2>1, <1>2 DEF IInv, LogInv
  <2>2. Logs(Statuses, {LastValues}, {body})' = Logs(Statuses, {LastValues}, {body})
    BY <1>1 DEF Logs, LastValues
  <2> QED BY <1>1, <1>3, <1>5, <2>1, <2>2 DEF IInv, LogInv, None
<1>14. AnswerInv'
  <2>1. response.body \in Seq(ReplyDocs)
    BY <1>4 DEF IInv, AnswerInv
  <2>2. CASE Answers
    <3>1. /\ response'.status = IF response.sent THEN response.status ELSE 400
          /\ response'.body = response.body \o <<Answer(errors)>>
      BY <2>2, <1>7
    <3>2. /\ Len(response.body) \in Nat
          /\ Len(response'.body) = Len(response.body) + 1
          /\ response'.body[Len(response.body) + 1] = Answer(errors)
          /\ Len(response.body) + 1 \in DOMAIN response'.body
      BY <3>1, <2>1, <1>6
    <3>3. Answered(errors)'
      BY <3>2, <1>1 DEF Answered, Answer, Validation
    <3>4. response'.status \in 200 .. 299 => Len(response'.body) > 1
      <4>1. CASE response.sent
        BY <4>1, <3>1, <3>2 DEF IInv, AnswerInv
      <4>2. CASE ~response.sent
        BY <4>2, <3>1
      <4> QED BY <4>1, <4>2
    <3>5. Len(response'.body) > 0
      BY <3>2
    <3> QED BY <2>2, <3>3, <3>4, <3>5, <1>1, <1>4, <1>5 DEF AnswerInv
  <2>3. CASE ~Answers
    BY <2>3, <2>1, <1>1, <1>4, <1>5 DEF IInv, AnswerInv, Answers, Validation
  <2> QED BY <2>2, <2>3
<1> QED BY <1>9, <1>10, <1>11, <1>12, <1>13, <1>14 DEF IInv

LEMMA ReplyFacts ==
    ASSUME NEW reply \in Replies
    PROVE  /\ reply.docs \in Seq(ReplyDocs) /\ reply.docs \in Seq(Docs)
           /\ Len(reply.docs) \in Nat
           /\ reply.status \in Statuses
           /\ reply.status \in 200 .. 299 => Len(reply.docs) > 0
           /\ reply.via \in {"Write", "WriteString"}
<1>1. reply.docs \in Seq({reply.docs[i] : i \in DOMAIN reply.docs})
  BY RepliesAssumption
<1>2. {reply.docs[i] : i \in DOMAIN reply.docs} \subseteq ReplyDocs
  BY DEF ReplyDocs
<1>3. ReplyDocs \subseteq Docs
  BY DEF Docs
<1>4. reply.docs \in Seq(ReplyDocs) /\ reply.docs \in Seq(Docs) /\ Len(reply.docs) \in Nat
  BY <1>1, <1>2, <1>3
<1>5. reply.status \in Statuses
  BY DEF Statuses
<1> QED BY <1>4, <1>5, RepliesAssumption

(* A handler of the application runs: whatever it does, the invariant holds*)
(* if what it sends is as the middlewares expect.                          *)
LEMMA HandledIInv ==
    ASSUME IInv, NEW h \in {"auth", "handler"}, Starts(h),
           UNCHANGED <<chain, settings, body, wrapped, log>>,
           \/ UNCHANGED <<reader, saw>>
           \/ h = "handler" /\ saw' = <<reader>> /\ reader' = [reader EXCEPT !.docs = <<>>],
           errors' \subseteq Errors, aborted' \in BOOLEAN,
           UNCHANGED stack \/ stack' = <<"panic">>,
           \/ UNCHANGED <<response, captured>>
           \/ \E status \in Statuses, docs \in Seq(ReplyDocs), via \in {"Write", "WriteString"} :
                 /\ SentWith(status, docs, via)
                 /\ status \in 200 .. 299 => Len(docs) > 0
    PROVE  IInv'
<1>1. TypeInv
  BY DEF IInv
<1>2. /\ index' \in 0 .. Len(chain)
      /\ ~Over /\ ~Ended /\ chain # <<>>
      /\ \A g : Started(g)' <=> Started(g) \/ g = h
      /\ ~Started("handler")
      /\ chain[1] = "logger" => Started("logger")
  BY <1>1, StartsFacts
<1>3. log = None /\ ~Checked /\ ~Panicked
  BY <1>2 DEF IInv, LogInv, AnswerInv, Over
<1>4. /\ Started("logger")' <=> Started("logger")
      /\ Started("validator")' <=> Started("validator")
  BY <1>2
<1>5. reader.docs = body
  BY <1>2 DEF IInv, ReaderInv
<1>6. response.body \in Seq(ReplyDocs)
  BY <1>3 DEF IInv, AnswerInv
<1> DEFINE Handled ==
       /\ response' \in Responses
       /\ captured' \in Logs({0}, {None, LastValues}, {<<>>, body})
       /\ captured'.headers = captured.headers
       /\ captured'.request = captured.request
       /\ response'.body \in Seq(ReplyDocs)
       /\ response'.sent /\ response'.status \in 200 .. 299 => Len(response'.body) > 0
       /\ chain[1] = "logger" /\ ~response'.direct => captured'.response = response'.body
<1>7. Handled
  <2>1. CASE UNCHANGED <<response, captured>>
    BY <2>1, <1>1, <1>2, <1>6 DEF IInv, TypeInv, CapturedInv, AnswerInv
  <2>2. ASSUME NEW status \in Statuses, NEW docs \in Seq(ReplyDocs),
               NEW via \in {"Write", "WriteString"}, SentWith(status, docs, via),
               status \in 200 .. 299 => Len(docs) > 0
        PROVE  Handled
    <3>1. docs \in Seq(Docs) /\ response.body \in Seq(ReplyDocs)
      BY <1>6 DEF Docs
    <3>2. /\ response' \in Responses
          /\ captured' \in Logs({0}, {None, LastValues}, {<<>>, body})
          /\ captured'.headers = captured.headers
          /\ captured'.request = captured.request
          /\ response'.body = response.body \o docs
          /\ response'.status = IF response.sent THEN response.status ELSE status
      BY <3>1, <2>2, <1>1, SentFacts
    <3>3. response'.direct <=> response.direct \/ via = "WriteString"
      BY <3>1, <2>2, <1>1, SentFacts
    <3>4. captured'.response = IF wrapped /\ via = "Write"
                              THEN captured.response \o docs ELSE captured.response
      BY <3>1, <2>2, <1>1, SentFacts
    <3>5. /\ response'.body \in Seq(ReplyDocs)
          /\ Len(response'.body) = Len(response.body) + Len(docs)
          /\ Len(response.body) \in Nat /\ Len(docs) \in Nat
      BY <3>1, <3>2
    <3>6. response'.status \in 200 .. 299 => Len(response'.body) > 0
      <4>1. CASE response.sent
        BY <4>1, <3>2, <3>5 DEF IInv, AnswerInv
      <4>2. CASE ~response.sent
        BY <4>2, <3>2, <3>5, <2>2
      <4> QED BY <4>1, <4>2
    <3>7. chain[1] = "logger" /\ ~response'.direct => captured'.response = response'.body
      <4>1. ASSUME chain[1] = "logger", ~response'.direct
            PROVE  captured'.response = response'.body
        <5>1. wrapped /\ via = "Write" /\ ~response.direct
          BY <4>1, <3>3, <1>2 DEF IInv, CapturedInv
        <5>2. captured.response = response.body
          BY <4>1, <5>1, <1>2 DEF IInv, CapturedInv
        <5> QED BY <5>1, <5>2, <3>2, <3>4
      <4> QED BY <4>1
    <3> QED BY <3>2, <3>5, <3>6, <3>7
  <2> QED BY <2>1, <2>2
<1>8. TypeInv'
  <2>1. stack' \in Stacks
    BY <1>1 DEF TypeInv, Stacks
  <2> HIDE DEF Handled
  <2>2. response' \in Responses /\ captured' \in Logs({0}, {None, LastValues}, {<<>>, body})
    BY <1>7 DEF Handled
  <2> QED BY <1>1, <1>2, <2>1, <2>2 DEF TypeInv, Logs, LastValues
<1>9. ReaderInv'
  <2>1. saw' # None => saw'[1].docs = body
    BY <1>5 DEF IInv, ReaderInv
  <2>2. ~(Started("handler")') => reader'.docs = body
    BY <1>2, <1>5
  <2> QED BY <2>1, <2>2 DEF ReaderInv, None
<1>10. StackInv'
  <2>1. CASE UNCHANGED stack
    BY <2>1, <1>2, <1>4 DEF IInv, StackInv, InLogger, InValidator
  <2>2. CASE stack' = <<"panic">>
    BY <2>2 DEF StackInv, InLogger, InValidator
  <2> QED BY <2>1, <2>2
<1>11. CapturedInv'
  BY <1>4, <1>7 DEF IInv, CapturedInv, LastValues
<1>12. LogInv'
  BY <1>3 DEF LogInv, None
<1>13. AnswerInv'
  <2>1. ~Checked'
    BY <1>3, <1>4 DEF Checked, InValidator, Panicked
  <2> QED BY <2>1, <1>7 DEF AnswerInv
<1> QED BY <1>8, <1>9, <1>10, <1>11, <1>12, <1>13 DEF IInv

LEMMA HandleIInv == ASSUME NEW h \in {"auth", "handler"} PROVE IInv /\ Handle(h) => IInv'
<1> SUFFICES ASSUME IInv, Handle(h) PROVE IInv'
  OBVIOUS
<1>1. /\ Starts(h)
      /\ UNCHANGED <<chain, settings, body, stack, wrapped, log>>
      /\ \/ UNCHANGED <<reader, saw>>
         \/ h = "handler" /\ saw' = <<reader>> /\ reader' = [reader EXCEPT !.docs = <<>>]
      /\ aborted' \in BOOLEAN
  BY DEF Handle
<1>2. errors' \subseteq Errors
  BY DEF Handle, IInv, TypeInv, Errors
<1>3. \/ UNCHANGED <<response, captured>>
      \/ \E status \in Statuses, docs \in Seq(ReplyDocs), via \in {"Write", "WriteString"} :
            /\ SentWith(status, docs, via)
            /\ status \in 200 .. 299 => Len(docs) > 0
  <2>1. ASSUME NEW reply \in Replies, SentWith(reply.status, reply.docs, reply.via)
        PROVE  \E status \in Statuses, docs \in Seq(ReplyDocs), via \in {"Write", "WriteString"} :
                  /\ SentWith(status, docs, via)
                  /\ status \in 200 .. 299 => Len(docs) > 0
    BY <2>1, ReplyFacts
  <2> QED BY <2>1 DEF Handle
<1> QED BY <1>1, <1>2, <1>3, HandledIInv

LEMMA PanicsIInv == ASSUME NEW h \in {"auth", "handler"} PROVE IInv /\ Panics(h) => IInv'
<1> SUFFICES ASSUME IInv, Panics(h) PROVE IInv'
  OBVIOUS
<1>1. /\ Starts(h) /\ stack' = <<"panic">> /\ aborted' = TRUE
      /\ UNCHANGED <<chain, settings, body, reader, wrapped, errors, log, saw>>
      /\ SentWith(500, <<>>, "Write")
  BY DEF Panics
<1>2. errors' \subseteq Errors
  BY <1>1 DEF IInv, TypeInv
<1>3. 500 \in Statuses /\ 500 \notin 200 .. 299 /\ <<>> \in Seq(ReplyDocs)
  BY DEF Statuses
<1> QED BY <1>1, <1>2, <1>3, HandledIInv

LEMMA EngineDoneIInv == IInv /\ EngineDone => IInv'
<1> SUFFICES ASSUME IInv, EngineDone PROVE IInv'
  OBVIOUS
<1>1. /\ TypeInv /\ NextReturns("engine")
      /\ UNCHANGED <<chain, settings, body, index, aborted, reader, wrapped, errors,
                     response, captured, log, saw>>
  BY DEF IInv, EngineDone, context
<1>2. stack = <<"engine">> /\ stack' = <<>>
  BY <1>1, ReturnFacts DEF TypeInv
<1>3. ~InLogger' /\ ~InValidator' /\ ~InValidator /\ ~Panicked /\ ~Panicked'
  BY <1>2 DEF InLogger, InValidator, Panicked
<1>4. \A h : Started(h)' <=> Started(h)
  BY <1>1 DEF Started
<1>5. TypeInv'
  BY <1>1, <1>2 DEF TypeInv, Logs, LastValues, Stacks
<1>6. ReaderInv'
  BY <1>1, <1>4 DEF IInv, ReaderInv
<1>7. StackInv'
  BY <1>1, <1>2, <1>3, <1>4 DEF IInv, StackInv
<1>8. CapturedInv'
  BY <1>1, <1>4 DEF IInv, CapturedInv, LastValues
<1>9. LogInv'
  <2>1. Logs(Statuses, {LastValues}, {body})' = Logs(Statuses, {LastValues}, {body})
    BY <1>1 DEF Logs, LastValues
  <2> QED BY <1>1, <1>2, <1>4, <2>1 DEF IInv, LogInv, None, Ended
<1>10. AnswerInv'
  <2>1. (Checked' <=> Checked) /\ (Ended' <=> Ended) /\ (Answers' <=> Answers)
        /\ (Answered(errors)' <=> Answered(errors))
    BY <1>1, <1>3, <1>4 DEF Checked, Ended, Answers, Validation, Answered
  <2> QED BY <1>1, <1>3, <2>1 DEF IInv, AnswerInv, Validation
<1> QED BY <1>5, <1>6, <1>7, <1>8, <1>9, <1>10 DEF IInv

LEMMA StutterIInv == IInv /\ UNCHANGED vars => IInv'
<1> SUFFICES ASSUME IInv, UNCHANGED vars PROVE IInv'
  OBVIOUS
<1> USE DEF vars
<1>1. \A h : Started(h)' <=> Started(h)
  BY DEF Started
<1>2. /\ InLogger' <=> InLogger
      /\ InValidator' <=> InValidator
      /\ Checked' <=> Checked
      /\ Answers' <=> Answers
      /\ Ended' <=> Ended
      /\ Panicked' <=> Panicked
      /\ Answered(errors)' <=> Answered(errors)
  BY <1>1 DEF InLogger, InValidator, Checked, Answers, Ended, Panicked, Answered, Validation
<1>3. TypeInv'
  BY DEF IInv, TypeInv, Logs, LastValues
<1>4. ReaderInv'
  BY <1>1 DEF IInv, ReaderInv
<1>5. StackInv'
  BY <1>1, <1>2 DEF IInv, StackInv
<1>6. CapturedInv'
  BY <1>1 DEF IInv, CapturedInv, LastValues
<1>7. LogInv'
  <2>1. Logs(Statuses, {LastValues}, {body})' = Logs(Statuses, {LastValues}, {body})
    BY DEF Logs, LastValues
  <2> QED BY <1>1, <1>2, <2>1 DEF IInv, LogInv, None
<1>8. AnswerInv'
  BY <1>2 DEF IInv, AnswerInv, Validation
<1> QED BY <1>3, <1>4, <1>5, <1>6, <1>7, <1>8 DEF IInv

(* The inductive invariant: the order of starting and returning that gin   *)
(* keeps (StackInv) decides what the logger sees (CapturedInv, LogInv) and *)
(* when the validator answers (AnswerInv).                                 *)
THEOREM MiddlewareInductive == Spec => []IInv
<1>1. IInv /\ [Next]_vars => IInv'
  <2> SUFFICES ASSUME IInv, [Next]_vars PROVE IInv'
    OBVIOUS
  <2>1. CASE LoggerBefore
    BY <2>1, LoggerBeforeIInv
  <2>2. CASE LoggerAfter
    BY <2>2, LoggerAfterIInv
  <2>3. CASE ValidatorBefore
    BY <2>3, ValidatorBeforeIInv
  <2>4. CASE ValidatorAfter
    BY <2>4, ValidatorAfterIInv
  <2>5. ASSUME NEW h \in {"auth", "handler"}, Handle(h) PROVE IInv'
    BY <2>5, HandleIInv
  <2>6. ASSUME NEW h \in {"auth", "handler"}, Panics(h) PROVE IInv'
    BY <2>6, PanicsIInv
  <2>7. CASE EngineDone
    BY <2>7, EngineDoneIInv
  <2>8. CASE Done \/ UNCHANGED vars
    BY <2>8, StutterIInv DEF Done
  <2> QED BY <2>1, <2>2, <2>3, <2>4, <2>5, <2>6, <2>7, <2>8 DEF Next
<1> QED BY InitIInv, <1>1, PTL DEF Spec

(* A handler that reads the body reads what arrived, whether the logger has*)
(* read it before or not (api/req_resp_logger_mw.go:58).                   *)
THEOREM HandlerReadsWhatArrived == Spec => []HandlerSeesBody
<1>1. IInv => HandlerSeesBody
  BY DEF IInv, ReaderInv, HandlerSeesBody
<1> QED BY <1>1, MiddlewareInductive, PTL

(* With the logger outermost, and all sent through Write, the log shows    *)
(* what was sent, masked, also what the validator added after the handlers *)
(* (api/req_resp_logger_mw.go:85).                                         *)
THEOREM LogShowsWhatWasSent == Spec => []LogIsWhatWasSent
<1>1. IInv => LogIsWhatWasSent
  <2> SUFFICES ASSUME IInv, log # None, chain[1] = "logger", ~response.direct
               PROVE  log[1] = Process(settings.mask,
                                  [status |-> response.status, headers |-> LastValues,
                                   request |-> body, response |-> response.body])
    BY DEF LogIsWhatWasSent
  <2>1. PICK l \in Logs(Statuses, {LastValues}, {body}) :
           /\ log = <<Process(settings.mask, l)>>
           /\ l.status = response.status /\ l.response = response.body
    BY DEF IInv, LogInv
  <2>2. l = [status |-> response.status, headers |-> LastValues,
             request |-> body, response |-> response.body]
    BY <2>1 DEF Logs
  <2> QED BY <2>1, <2>2
<1> QED BY <1>1, MiddlewareInductive, PTL

(* What is logged of a request shows no value below a key or header to     *)
(* mask, and everything else, whatever the document and wherever the logger*)
(* is in the chain (api/req_resp_logger_mw.go:154).                        *)
THEOREM LogHidesSecrets == Spec => []SecretsMasked
<1>1. IInv => SecretsMasked
  <2> SUFFICES ASSUME IInv, log # None, settings.mask.is = "enabled"
               PROVE  /\ \A name \in DOMAIN log[1].headers :
                            log[1].headers[name] = IF name \in settings.mask.headers
                                                   THEN MaskString.value ELSE LastValues[name]
                      /\ \A i \in DOMAIN body : body[i][<<>>].kind = "object" =>
                            IsMaskOf(log[1].request[i], body[i], settings.mask.requestKeys)
    BY DEF SecretsMasked
  <2> DEFINE config == settings.mask
  <2>1. PICK l \in Logs(Statuses, {LastValues}, {body}) : log = <<Process(config, l)>>
    BY DEF IInv, LogInv
  <2>2. l.headers = LastValues /\ l.request = body
    BY DEF Logs
  <2>3. Process(config, l) = [l EXCEPT !.headers = MaskedHeaders(@, config.headers),
                                       !.request = MaskedBody(@, config.requestKeys),
                                       !.response = MaskedBody(@, config.responseKeys)]
    BY DEF Process
  <2>4. /\ log[1].headers = MaskedHeaders(LastValues, config.headers)
        /\ log[1].request = MaskedBody(body, config.requestKeys)
    BY <2>1, <2>2, <2>3 DEF Logs
  <2> HIDE DEF config
  <2>5. \A name \in DOMAIN log[1].headers :
           log[1].headers[name] = IF name \in config.headers
                                  THEN MaskString.value ELSE LastValues[name]
    BY <2>4 DEF MaskedHeaders
  <2>6. ASSUME NEW i \in DOMAIN body, body[i][<<>>].kind = "object"
        PROVE  IsMaskOf(log[1].request[i], body[i], config.requestKeys)
    <3>1. body = <<>> \/ (body = <<body[1]>> /\ IsDocument(body[1]))
      BY BodiesAssumption DEF IInv, TypeInv
    <3>2. i = 1 /\ Len(body) = 1 /\ IsDocument(body[1])
      BY <3>1
    <3>3. log[1].request = <<maskMapValues(body[1], config.requestKeys)>>
      BY <2>4, <2>6, <3>2 DEF MaskedBody
    <3>4. IsMaskOf(maskMapValues(body[1], config.requestKeys), body[1], config.requestKeys)
      BY <2>6, <3>2, MaskedAsSpecified
    <3> QED BY <3>2, <3>3, <3>4
  <2> QED BY <2>5, <2>6 DEF config
<1> QED BY <1>1, MiddlewareInductive, PTL

(* All validation errors of a request are answered together, and not as a  *)
(* success unless a handler had sent one; other errors never are           *)
(* (validator/request_validator.go:44).                                    *)
THEOREM ValidationErrorsAnswered == Spec => []ErrorsAnswered
<1>1. IInv => ErrorsAnswered
  <2> SUFFICES ASSUME IInv, Over, Started("validator"), ~settings.skip, ~Panicked
               PROVE  IF Validation(errors) # {} /\ settings.converted
                      THEN /\ Answered(errors)
                           /\ response.status \in 200 .. 299 => Len(response.body) > 1
                      ELSE \A errs \in SUBSET errors : ~Answered(errs)
    BY DEF ErrorsAnswered
  <2>1. Checked
    BY DEF Checked, Over, Panicked, InValidator
  <2>2. CASE Answers
    BY <2>1, <2>2 DEF IInv, AnswerInv, Answers
  <2>3. CASE ~Answers
    <3>1. response.body \in Seq(ReplyDocs)
      BY <2>3 DEF IInv, AnswerInv
    <3>2. ASSUME NEW errs \in SUBSET errors, NEW i \in DOMAIN response.body
          PROVE  response.body[i] # Answer(errs)
      <4>1. Answer(errs) \in ConverterAnswers
        BY DEF ConverterAnswers, IInv, TypeInv
      <4>2. response.body[i] \in ReplyDocs
        BY <3>1
      <4>3. PICK reply \in Replies : \E j \in DOMAIN reply.docs : response.body[i] = reply.docs[j]
        BY <4>2 DEF ReplyDocs
      <4>4. \A j \in DOMAIN reply.docs : reply.docs[j] \notin ConverterAnswers
        BY RepliesAssumption
      <4> QED BY <4>1, <4>3, <4>4
    <3>3. \A errs \in SUBSET errors : ~Answered(errs)
      BY <3>2 DEF Answered
    <3> QED BY <2>3, <3>3 DEF Answers
  <2> QED BY <2>2, <2>3
<1> QED BY <1>1, MiddlewareInductive, PTL

=============================================================================
