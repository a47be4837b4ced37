------------------------- MODULE ScriptIntentsProofs -------------------------
(***************************************************************************)
(* Proofs about ScriptIntents, for every script, every number of workers,  *)
(* attempts and calls, and every order of the answers.                     *)
(*                                                                         *)
(* Two things are proved by induction over data, and both rest on the      *)
(* well-ordering of the natural numbers: what the loop of the import makes *)
(* of a script, and that the last result collected for a number exists.    *)
(* IInv then says what the document in memory holds in each phase, compared *)
(* with the one that was loaded (Loaded).                                  *)
(***************************************************************************)
EXTENDS ScriptIntents, FiniteSetTheorems, WellFoundedInduction, SequenceTheorems, TLAPS

-----------------------------------------------------------------------------
(* Induction.                                                              *)

Below == {ab \in Nat \X Nat : ab[1] < ab[2]}

LEMMA BelowIsWellFounded == IsWellFoundedOn(Below, Nat)
<1>1. IsWellFoundedOn(OpToRel(<, Nat), Nat)
  BY NatLessThanWellFounded
<1>. QED
  BY <1>1 DEF OpToRel, Below

LEMMA HasLeast ==
  ASSUME NEW T \in SUBSET Nat, T # {}
  PROVE  \E x \in T : \A y \in T : x <= y
<1>1. PICK x \in T : \A y \in T : <<y, x>> \notin Below
  BY BelowIsWellFounded, WFMin
<1>2. ASSUME NEW y \in T PROVE x <= y
  <2>1. x \in Nat /\ y \in Nat
    OBVIOUS
  <2>2. ~(y < x)
    BY <1>1, <2>1 DEF Below
  <2>. QED
    BY <2>1, <2>2
<1>. QED
  BY <1>2

LEMMA HasGreatest ==
  ASSUME NEW n \in Nat, NEW T \in SUBSET (1..n), T # {}
  PROVE  \E x \in T : \A y \in T : y <= x
<1>. DEFINE Left == {m \in 0..n : n - m \in T}
<1>1. Left \in SUBSET Nat /\ Left # {}
  <2>1. PICK x \in T : x \in 1..n
    OBVIOUS
  <2>2. n - x \in 0..n /\ n - (n - x) = x
    BY <2>1
  <2>3. n - x \in Left
    BY <2>2
  <2>4. Left \subseteq Nat
    OBVIOUS
  <2>. QED
    BY <2>3, <2>4
<1>2. PICK l \in Left : \A y \in Left : l <= y
  <2>. HIDE DEF Left
  <2>. QED
    BY <1>1, HasLeast
<1>3. n - l \in T
  BY <1>2
<1>4. ASSUME NEW y \in T PROVE y <= n - l
  <2>1. y \in 1..n /\ n - y \in 0..n /\ n - (n - y) = y
    OBVIOUS
  <2>2. l <= n - y
    BY <1>2, <2>1
  <2>. QED
    BY <1>2, <2>1, <2>2
<1>. QED
  BY <1>3, <1>4

LEMMA Climb ==
  ASSUME NEW n \in Nat, NEW T, 0 \in T,
         \A k \in 0..n : k \in T /\ k < n => k + 1 \in T
  PROVE  0..n \subseteq T
<1>. DEFINE Out == {k \in 0..n : k \notin T}
<1>. SUFFICES ASSUME Out # {} PROVE FALSE
  OBVIOUS
<1>1. PICK x \in Out : \A y \in Out : x <= y
  <2>1. Out \in SUBSET Nat
    OBVIOUS
  <2>. HIDE DEF Out
  <2>. QED
    BY <2>1, HasLeast
<1>2. x \in 1..n
  BY <1>1
<1>3. x - 1 \in 0..n /\ x - 1 \in T
  BY <1>1, <1>2
<1>. QED
  BY <1>1, <1>2, <1>3

-----------------------------------------------------------------------------
(* The import. The loop over the lines is defined, line by line, and what it *)
(* has read of a script so far is known in full.                            *)

Loop(h, s, n) == h = [k \in 0..n |-> IF k = 0 THEN <<>> ELSE WithLine(h[k - 1], s, k)]

LEMMA LoopExists ==
  ASSUME NEW s, NEW n \in Nat
  PROVE  \E h : Loop(h, s, n)
<1>. DEFINE T == {m \in 0..n : \E h : Loop(h, s, m)}
<1>1. 0 \in T
  <2>. DEFINE h == [k \in 0..0 |-> <<>>]
  <2>1. Loop(h, s, 0)
    BY DEF Loop
  <2>. HIDE DEF h
  <2>. QED
    BY <2>1
<1>2. ASSUME NEW m \in 0..n, m \in T, m < n PROVE m + 1 \in T
  <2>1. PICK h : Loop(h, s, m)
    BY <1>2
  <2>. DEFINE g == [k \in 0..(m + 1) |-> IF k = m + 1 THEN WithLine(h[m], s, m + 1) ELSE h[k]]
  <2>2. ASSUME NEW k \in 0..(m + 1)
        PROVE  g[k] = IF k = 0 THEN <<>> ELSE WithLine(g[k - 1], s, k)
    <3>1. CASE k = 0
      BY <2>1, <3>1 DEF Loop
    <3>2. CASE k = m + 1
      BY <3>2
    <3>3. CASE k \in 1..m
      <4>1. k - 1 \in 0..m /\ k \in 0..m /\ k # m + 1 /\ k - 1 # m + 1 /\ k # 0
        BY <3>3
      <4>2. h[k] = WithLine(h[k - 1], s, k)
        BY <2>1, <4>1 DEF Loop
      <4>. QED
        BY <4>1, <4>2
    <3>. QED
      BY <3>1, <3>2, <3>3
  <2>3. Loop(g, s, m + 1)
    <3>. HIDE DEF g
    <3>1. g = [k \in 0..(m + 1) |-> g[k]]
      BY DEF g
    <3>. QED
      BY <2>2, <3>1 DEF Loop
  <2>4. m + 1 \in 0..n
    BY <1>2
  <2>. HIDE DEF g
  <2>. QED
    BY <2>3, <2>4
<1>3. 0..n \subseteq T
  <2>. HIDE DEF T
  <2>. QED
    BY <1>1, <1>2, Climb
<1>. QED
  BY <1>3

LEMMA ReadIsTheLoop ==
  ASSUME NEW s \in Seq(LineType)
  PROVE  /\ Read(s)[0] = <<>>
         /\ \A k \in 1..Len(s) : Read(s)[k] = WithLine(Read(s)[k - 1], s, k)
<1>1. Len(s) \in Nat
  OBVIOUS
<1>2. PICK h : Loop(h, s, Len(s))
  BY <1>1, LoopExists
<1>3. Loop(Read(s), s, Len(s))
  BY <1>2 DEF Loop, Read
<1>. QED
  BY <1>1, <1>3 DEF Loop

Paragraphs == [no : Nat, text : Nat, by : {"none", "text", "model", "user"}, of : Nat]

\* The number of the p-th paragraph that was read.
Numbering(s, d, p) ==
  IF s[d[p].text].kind = "explicit" THEN s[d[p].text].no
  ELSE IF p = 1 THEN 1 ELSE d[p - 1].no + 1

\* d are the first k lines of s: the lines that are no headings, in their order,
\* numbered by the script or by their predecessor, and without intents.
Renders(s, d, k) ==
  /\ d \in Seq(Paragraphs) /\ Len(d) <= k
  /\ \A p \in 1..Len(d) : d[p].by = "none" /\ d[p].of = d[p].text
  /\ \A p \in 1..Len(d) : d[p].text \in 1..k /\ s[d[p].text].kind # "heading"
  /\ \A p, q \in 1..Len(d) : p < q => d[p].text < d[q].text
  /\ \A j \in 1..k : s[j].kind # "heading" => \E p \in 1..Len(d) : d[p].text = j
  /\ \A p \in 1..Len(d) : d[p].no = Numbering(s, d, p)

LEMMA ExpectedIsANumber ==
  ASSUME NEW d \in Seq(Paragraphs)
  PROVE  Expected(d) \in Nat \ {0}
<1>1. CASE d = <<>>
  BY <1>1 DEF Expected
<1>2. CASE d # <<>>
  <2>1. Len(d) \in 1..Len(d)
    BY <1>2
  <2>2. d[Len(d)] \in Paragraphs
    BY <2>1
  <2>. QED
    BY <1>2, <2>2 DEF Expected, Paragraphs
<1>. QED
  BY <1>1, <1>2

LEMMA LineRenders ==
  ASSUME NEW s \in Seq(LineType), NEW k \in 1..Len(s), NEW d, Renders(s, d, k - 1)
  PROVE  Renders(s, WithLine(d, s, k), k)
<1>1. s[k] \in LineType /\ k \in Nat /\ k - 1 \in Nat
  OBVIOUS
<1>2. CASE s[k].kind = "heading"
  <2>1. WithLine(d, s, k) = d
    BY <1>2 DEF WithLine
  <2>. QED
    BY <1>1, <1>2, <2>1 DEF Renders
<1>3. CASE s[k].kind # "heading"
  <2>. DEFINE r == [no |-> IF s[k].kind = "explicit" THEN s[k].no ELSE Expected(d),
                    text |-> k, by |-> "none", of |-> k]
              e == Append(d, r)
              n == Len(d)
  <2>1. WithLine(d, s, k) = e
    BY <1>3 DEF WithLine
  <2>2. d \in Seq(Paragraphs) /\ n \in Nat /\ n <= k - 1
    BY DEF Renders
  <2>3. r \in Paragraphs
    BY <1>1, <2>2, ExpectedIsANumber DEF Paragraphs, LineType
  <2>4. /\ e \in Seq(Paragraphs) /\ Len(e) = n + 1
        /\ e[n + 1] = r
        /\ \A p \in 1..n : e[p] = d[p]
    BY <2>2, <2>3
  <2>5. r.text = k /\ r.by = "none" /\ r.of = k
    OBVIOUS
  <2>6. \A p \in 1..Len(e) : p = n + 1 \/ p \in 1..n
    BY <2>2, <2>4
  <2>. HIDE DEF r, e
  <2>7. Len(e) <= k
    BY <1>1, <2>2, <2>4
  <2>8. \A p \in 1..Len(e) : e[p].by = "none" /\ e[p].of = e[p].text
    BY <2>4, <2>5, <2>6 DEF Renders
  <2>9. \A p \in 1..Len(e) : e[p].text \in 1..k /\ s[e[p].text].kind # "heading"
    <3>1. \A p \in 1..n : d[p].text \in 1..k /\ s[d[p].text].kind # "heading"
      BY <1>1 DEF Renders
    <3>. QED
      BY <1>1, <1>3, <2>4, <2>5, <2>6, <3>1
  <2>10. ASSUME NEW p \in 1..Len(e), NEW q \in 1..Len(e), p < q
         PROVE  e[p].text < e[q].text
    <3>1. p \in 1..n
      BY <2>10, <2>2, <2>4
    <3>2. CASE q \in 1..n
      BY <2>10, <2>4, <3>1, <3>2 DEF Renders
    <3>3. CASE q = n + 1
      <4>1. d[p].text \in 1..(k - 1)
        BY <3>1 DEF Renders
      <4>. QED
        BY <1>1, <2>4, <2>5, <3>1, <3>3, <4>1
    <3>. QED
      BY <2>6, <3>2, <3>3
  <2>11. ASSUME NEW j \in 1..k, s[j].kind # "heading"
         PROVE  \E p \in 1..Len(e) : e[p].text = j
    <3>1. CASE j = k
      <4>1. n + 1 \in 1..Len(e)
        BY <2>2, <2>4
      <4>. QED
        BY <2>4, <2>5, <3>1, <4>1
    <3>2. CASE j # k
      <4>1. j \in 1..(k - 1)
        BY <1>1, <3>2
      <4>2. PICK p \in 1..n : d[p].text = j
        BY <2>11, <4>1 DEF Renders
      <4>3. p \in 1..Len(e)
        BY <2>2, <2>4
      <4>. QED
        BY <2>4, <4>2, <4>3
    <3>. QED
      BY <3>1, <3>2
  <2>12. ASSUME NEW p \in 1..Len(e) PROVE e[p].no = Numbering(s, e, p)
    <3>1. CASE p \in 1..n
      <4>1. d[p].no = Numbering(s, d, p)
        BY <3>1 DEF Renders
      <4>2. p # 1 => p - 1 \in 1..n
        BY <2>2, <3>1
      <4>3. e[p] = d[p] /\ (p # 1 => e[p - 1] = d[p - 1])
        BY <2>4, <3>1, <4>2
      <4>. QED
        BY <4>1, <4>3 DEF Numbering
    <3>2. CASE p = n + 1
      <4>1. r.no = IF s[k].kind = "explicit" THEN s[k].no ELSE Expected(d)
        BY DEF r
      <4>2. CASE n = 0
        <5>1. d = <<>>
          BY <2>2, <4>2
        <5>. QED
          BY <2>4, <2>5, <3>2, <4>1, <4>2, <5>1 DEF Numbering, Expected
      <4>3. CASE n # 0
        <5>1. d # <<>> /\ n \in 1..n /\ p # 1 /\ p - 1 = n
          BY <2>2, <3>2, <4>3
        <5>2. e[p - 1] = d[n]
          BY <2>4, <5>1
        <5>. QED
          BY <2>4, <2>5, <3>2, <4>1, <5>1, <5>2 DEF Numbering, Expected
      <4>. QED
        BY <4>2, <4>3
    <3>. QED
      BY <2>6, <3>1, <3>2
  <2>. QED
    BY <2>1, <2>4, <2>7, <2>8, <2>9, <2>10, <2>11, <2>12 DEF Renders
<1>. QED
  BY <1>2, <1>3

LEMMA ReadRenders ==
  ASSUME NEW s \in Seq(LineType)
  PROVE  \A k \in 0..Len(s) : Renders(s, Read(s)[k], k)
<1>. DEFINE n == Len(s)
            T == {k \in 0..n : Renders(s, Read(s)[k], k)}
<1>1. n \in Nat
  OBVIOUS
<1>2. 0 \in T
  <2>1. Read(s)[0] = <<>>
    BY ReadIsTheLoop
  <2>2. Renders(s, <<>>, 0)
    BY DEF Renders
  <2>. QED
    BY <1>1, <2>1, <2>2
<1>3. ASSUME NEW k \in 0..n, k \in T, k < n PROVE k + 1 \in T
  <2>1. k + 1 \in 1..n /\ (k + 1) - 1 = k /\ k + 1 \in 0..n
    BY <1>1, <1>3
  <2>2. Read(s)[k + 1] = WithLine(Read(s)[k], s, k + 1)
    BY <2>1, ReadIsTheLoop
  <2>3. Renders(s, Read(s)[k + 1], k + 1)
    BY <1>3, <2>1, <2>2, LineRenders
  <2>. QED
    BY <2>1, <2>3
<1>4. 0..n \subseteq T
  <2>. HIDE DEF T
  <2>. QED
    BY <1>1, <1>2, <1>3, Climb
<1>. QED
  BY <1>4

\* The import keeps every line that is no heading, once, in the order of the
\* script, and numbers it by what the script says or after its predecessor.
THEOREM ScriptIsRead ==
  \A s \in Seq(LineType) : Renders(s, Ingested(s), Len(s))
<1>. SUFFICES ASSUME NEW s \in Seq(LineType) PROVE Renders(s, Ingested(s), Len(s))
  OBVIOUS
<1>1. Len(s) \in 0..Len(s)
  OBVIOUS
<1>. QED
  BY <1>1, ReadRenders DEF Ingested

\* Reading on changes nothing of what was read.
Extends(d, e) == Len(d) <= Len(e) /\ \A p \in 1..Len(d) : e[p] = d[p]

LEMMA WithLineExtends ==
  ASSUME NEW s, NEW k, NEW d \in Seq(Paragraphs), WithLine(d, s, k) \in Seq(Paragraphs)
  PROVE  Extends(d, WithLine(d, s, k))
<1>. DEFINE r == [no |-> IF s[k].kind = "explicit" THEN s[k].no ELSE Expected(d),
                  text |-> k, by |-> "none", of |-> k]
<1>1. CASE s[k].kind = "heading"
  BY <1>1 DEF WithLine, Extends
<1>2. CASE s[k].kind # "heading"
  <2>1. WithLine(d, s, k) = Append(d, r)
    BY <1>2 DEF WithLine
  <2>2. Len(Append(d, r)) = Len(d) + 1 /\ \A p \in 1..Len(d) : Append(d, r)[p] = d[p]
    <3>. HIDE DEF r
    <3>. QED
      OBVIOUS
  <2>3. Len(d) \in Nat
    OBVIOUS
  <2>. QED
    BY <2>1, <2>2, <2>3 DEF Extends
<1>. QED
  BY <1>1, <1>2

LEMMA ReadExtends ==
  ASSUME NEW s \in Seq(LineType), NEW j \in 0..Len(s)
  PROVE  Extends(Read(s)[j], Ingested(s))
<1>. DEFINE n == Len(s)
            T == {k \in 0..n : k < j \/ Extends(Read(s)[j], Read(s)[k])}
<1>1. n \in Nat /\ j \in 0..n
  OBVIOUS
<1>2. ASSUME NEW k \in 0..n PROVE Read(s)[k] \in Seq(Paragraphs) /\ Len(Read(s)[k]) \in Nat
  BY ReadRenders DEF Renders
<1>3. Extends(Read(s)[j], Read(s)[j])
  BY <1>1, <1>2 DEF Extends
<1>4. 0 \in T
  BY <1>1, <1>3
<1>5. ASSUME NEW k \in 0..n, k \in T, k < n PROVE k + 1 \in T
  <2>1. k + 1 \in 1..n /\ (k + 1) - 1 = k /\ k + 1 \in 0..n
    BY <1>1, <1>5
  <2>2. CASE k + 1 < j
    BY <2>1, <2>2
  <2>3. CASE k + 1 = j
    BY <1>3, <2>1, <2>3
  <2>4. CASE k >= j
    <3>1. Read(s)[k + 1] = WithLine(Read(s)[k], s, k + 1)
      BY <2>1, ReadIsTheLoop
    <3>2. Extends(Read(s)[k], Read(s)[k + 1])
      BY <1>2, <2>1, <3>1, WithLineExtends
    <3>3. Extends(Read(s)[j], Read(s)[k])
      BY <1>1, <1>5, <2>4
    <3>4. Extends(Read(s)[j], Read(s)[k + 1])
      BY <1>1, <1>2, <2>1, <3>2, <3>3 DEF Extends
    <3>. QED
      BY <2>1, <3>4
  <2>. QED
    BY <1>1, <2>1, <2>2, <2>3, <2>4
<1>6. 0..n \subseteq T
  <2>. HIDE DEF T
  <2>. QED
    BY <1>1, <1>4, <1>5, Climb
<1>. QED
  BY <1>1, <1>6 DEF Ingested

\* The expected number of a script that is numbered in order.
LEMMA ExpectedInOrder ==
  ASSUME NEW d \in Seq(Paragraphs), \A p \in 1..Len(d) : d[p].no = p
  PROVE  Expected(d) = Len(d) + 1
<1>1. CASE d = <<>>
  BY <1>1 DEF Expected
<1>2. CASE d # <<>>
  <2>1. Len(d) \in 1..Len(d)
    BY <1>2
  <2>. QED
    BY <1>2, <2>1 DEF Expected
<1>. QED
  BY <1>1, <1>2

\* The number of the paragraph a line becomes.
LEMMA NumberOfALine ==
  ASSUME NEW s \in Seq(LineType), NEW k \in 1..Len(s), s[k].kind # "heading"
  PROVE  LET d == Read(s)[k - 1]
             e == Read(s)[k]
         IN  /\ d \in Seq(Paragraphs) /\ Len(d) \in Nat /\ Len(e) = Len(d) + 1
             /\ \A p \in 1..Len(d) : e[p] = d[p]
             /\ e[Len(d) + 1].no = IF s[k].kind = "explicit" THEN s[k].no ELSE Expected(d)
<1>. DEFINE d == Read(s)[k - 1]
            r == [no |-> IF s[k].kind = "explicit" THEN s[k].no ELSE Expected(d),
                  text |-> k, by |-> "none", of |-> k]
<1>1. k - 1 \in 0..Len(s)
  OBVIOUS
<1>2. d \in Seq(Paragraphs)
  BY <1>1, ReadRenders DEF Renders
<1>3. Read(s)[k] = Append(d, r)
  BY ReadIsTheLoop DEF WithLine
<1>4. r.no = IF s[k].kind = "explicit" THEN s[k].no ELSE Expected(d)
  OBVIOUS
<1>5. /\ Len(Append(d, r)) = Len(d) + 1 /\ Append(d, r)[Len(d) + 1] = r
      /\ \A p \in 1..Len(d) : Append(d, r)[p] = d[p]
  <2>. HIDE DEF r, d
  <2>. QED
    BY <1>2
<1>6. Len(d) \in Nat
  BY <1>2
<1>. QED
  BY <1>2, <1>3, <1>4, <1>5, <1>6

InOrder(d) == \A p \in 1..Len(d) : d[p].no = p

LEMMA NoIssuesInOrder ==
  ASSUME NEW s \in Seq(LineType), Issues(s) = {}
  PROVE  InOrder(Ingested(s))
<1>. DEFINE n == Len(s)
            T == {k \in 0..n : InOrder(Read(s)[k])}
<1>1. n \in Nat
  OBVIOUS
<1>2. 0 \in T
  <2>1. InOrder(<<>>)
    BY DEF InOrder
  <2>. QED
    BY <1>1, <2>1, ReadIsTheLoop
<1>3. ASSUME NEW j \in 0..n, j \in T, j < n PROVE j + 1 \in T
  <2>. DEFINE k == j + 1
              d == Read(s)[k - 1]
  <2>1. k \in 1..n /\ k - 1 = j /\ k \in 0..n /\ InOrder(d)
    BY <1>1, <1>3
  <2>2. d \in Seq(Paragraphs)
    BY <2>1, ReadRenders DEF Renders
  <2>3. CASE s[k].kind = "heading"
    <3>1. Read(s)[k] = d
      BY <2>1, <2>3, ReadIsTheLoop DEF WithLine
    <3>. QED
      BY <2>1, <3>1
  <2>4. CASE s[k].kind # "heading"
    <3>1. Expected(d) = Len(d) + 1
      BY <2>1, <2>2, ExpectedInOrder DEF InOrder
    <3>2. s[k].kind = "explicit" => s[k].no = Expected(d)
      BY <2>1 DEF Issues
    <3>3. /\ Len(d) \in Nat /\ Len(Read(s)[k]) = Len(d) + 1
          /\ \A p \in 1..Len(d) : Read(s)[k][p] = d[p]
          /\ Read(s)[k][Len(d) + 1].no = Len(d) + 1
      <4>. HIDE DEF k
      <4>. QED
        BY <2>1, <2>4, <3>1, <3>2, NumberOfALine
    <3>4. InOrder(Read(s)[k])
      <4>. DEFINE e == Read(s)[k]
      <4>1. ASSUME NEW p \in 1..Len(e) PROVE e[p].no = p
        <5>1. CASE p \in 1..Len(d)
          <6>1. d[p].no = p
            BY <2>1, <5>1 DEF InOrder
          <6>. QED
            BY <3>3, <5>1, <6>1
        <5>2. CASE p \notin 1..Len(d)
          <6>. HIDE DEF d, e
          <6>1. p = Len(d) + 1
            BY <3>3, <5>2, <4>1 DEF e
          <6>. QED
            BY <3>3, <6>1 DEF e
        <5>. QED
          BY <5>1, <5>2
      <4>. QED
        BY <4>1 DEF InOrder
    <3>. QED
      BY <2>1, <3>4
  <2>. QED
    BY <2>3, <2>4
<1>4. 0..n \subseteq T
  <2>. HIDE DEF T
  <2>. QED
    BY <1>1, <1>2, <1>3, Climb
<1>. QED
  BY <1>1, <1>4 DEF Ingested

\* A script is without issues exactly when its paragraphs are numbered 1, 2, 3 and
\* so on and none that has a number is empty: nothing else is refused.
THEOREM IssuesAreOfNumbers ==
  \A s \in Seq(LineType) :
    Issues(s) = {} <=> /\ InOrder(Ingested(s))
                       /\ \A k \in 1..Len(s) : s[k].kind = "explicit" => ~s[k].empty
<1>. SUFFICES ASSUME NEW s \in Seq(LineType)
              PROVE  Issues(s) = {} <=>
                       /\ InOrder(Ingested(s))
                       /\ \A k \in 1..Len(s) : s[k].kind = "explicit" => ~s[k].empty
  OBVIOUS
<1>1. ASSUME Issues(s) = {}
      PROVE  \A k \in 1..Len(s) : s[k].kind = "explicit" => ~s[k].empty
  BY <1>1 DEF Issues
<1>2. ASSUME InOrder(Ingested(s)), NEW k \in 1..Len(s), s[k].kind = "explicit"
      PROVE  s[k].no = Expected(Read(s)[k - 1])
  <2>. DEFINE d == Read(s)[k - 1]
              e == Read(s)[k]
  <2>1. /\ d \in Seq(Paragraphs) /\ Len(d) \in Nat /\ Len(e) = Len(d) + 1
        /\ \A p \in 1..Len(d) : e[p] = d[p]
        /\ e[Len(d) + 1].no = s[k].no
    BY <1>2, NumberOfALine
  <2>2. Extends(e, Ingested(s))
    BY ReadExtends
  <2>3. InOrder(e)
    <3>. SUFFICES ASSUME NEW p \in 1..Len(e) PROVE e[p].no = p
      BY DEF InOrder
    <3>0. Len(Ingested(s)) \in Nat
      BY ScriptIsRead DEF Renders
    <3>1. p \in 1..Len(Ingested(s)) /\ Ingested(s)[p] = e[p]
      BY <2>1, <2>2, <3>0 DEF Extends
    <3>. QED
      BY <1>2, <3>1 DEF InOrder
  <2>4. \A p \in 1..Len(d) : d[p].no = p
    BY <2>1, <2>3 DEF InOrder
  <2>5. s[k].no = Len(d) + 1
    BY <2>1, <2>3 DEF InOrder
  <2>. QED
    BY <2>1, <2>4, <2>5, ExpectedInOrder
<1>. QED
  BY <1>1, <1>2, NoIssuesInOrder DEF Issues

-----------------------------------------------------------------------------
(* The invariant.                                                          *)

Whole == Ingested(Script)

\* A document of the script: its paragraphs in their order with their numbers, and
\* each that shares its number with no other has its own text and intent.
OfScript(d) ==
  /\ d \in Seq(Paragraphs)
  /\ Len(d) <= Len(Whole)
  /\ \A p \in DOMAIN d : d[p].no = Whole[p].no
  /\ \A p \in DOMAIN d :
       Alone(Whole, p) => d[p].text = Whole[p].text /\ d[p].of = Whole[p].text

FilesInv ==
  /\ project # None => /\ plan.desktop /\ OfScript(project)
                       /\ Len(project) = Len(Whole)
                       /\ \A p \in DOMAIN project : project[p].by # "none"
  /\ plan.desktop => output = None /\ pc \in {"idle", "ask", "save"}
  /\ pc \in {"idle", "ask", "save", "refused"} => output = None
  /\ output \notin {None, Torn} => output = doc /\ pc = "done"

\* What extract_document was called with.
Loaded == IF plan.desktop THEN project ELSE Whole

Asked(p) == IF task[p] = "answered" THEN FromModel(Loaded[p]) ELSE Loaded[p]

WorkInv ==
  /\ plan \in PlanType
  /\ pc \in {"ask", "save", "raised", "done"} =>
       /\ plan.desktop => project # None
       /\ ~plan.desktop => Issues(Script) = {}
       /\ doc \in Seq(Paragraphs) /\ OfScript(doc)
       /\ plan.desktop => Len(doc) = Len(Whole)
       /\ task \in [1..Len(doc) ->
                      {"queued", "asking", "answered", "failed"}]
       /\ results \in Seq(1..Len(doc))
       /\ Cardinality(Collected) = Len(results)
       /\ \A t \in Collected : task[t] \in {"answered", "failed"}
  /\ pc \in {"save", "raised", "done"} => Collected = DOMAIN doc
  /\ pc = "ask" => \A p \in DOMAIN doc : doc[p] = Loaded[p]

\* After the results are put together.
Final ==
  /\ \A p \in DOMAIN doc : Alone(Whole, p) => doc[p] = Asked(p)
  /\ plan.desktop => \A p \in DOMAIN doc : doc[p].by # "none"
  /\ plan.failFast /\ ~plan.desktop => \A p \in DOMAIN doc : doc[p].by = "model"

ResultInv ==
  /\ pc \in {"save", "done"} => Final
  /\ pc = "raised" =>
       \/ plan.failFast /\ output = None /\ \E t \in DOMAIN task : task[t] = "failed"
       \/ Final

IInv == FilesInv /\ WorkInv /\ ResultInv

-----------------------------------------------------------------------------
(* Facts about documents.                                                  *)

LEMMA AboutParagraphs ==
  ASSUME NEW r \in Paragraphs, NEW text \in Nat, NEW by \in {"text", "model", "user"}
  PROVE  /\ About(r, text, by) \in Paragraphs
         /\ About(r, text, by).no = r.no /\ About(r, text, by).text = r.text
         /\ About(r, text, by).by = by /\ About(r, text, by).of = text
BY DEF About, Paragraphs

LEMMA FromModelParagraphs ==
  ASSUME NEW r \in Paragraphs
  PROVE  FromModel(r).by = "model"
<1>1. r.text \in Nat
  BY DEF Paragraphs
<1>. QED
  BY <1>1, AboutParagraphs DEF FromModel

LEMMA WholeFacts ==
  ASSUME plan \in PlanType
  PROVE  /\ Whole \in Seq(Paragraphs) /\ Len(Whole) \in Nat
         /\ \A p \in 1..Len(Whole) : Whole[p].by = "none" /\ Whole[p].of = Whole[p].text
         /\ Issues(Script) = {} => \A p \in 1..Len(Whole) : Whole[p].no = p
<1>1. Script \in Seq(LineType)
  BY DEF Script, PlanType
<1>2. Renders(Script, Whole, Len(Script))
  BY <1>1, ScriptIsRead DEF Whole
<1>3. Issues(Script) = {} => InOrder(Whole)
  BY <1>1, IssuesAreOfNumbers DEF Whole
<1>. QED
  BY <1>2, <1>3 DEF Renders, InOrder

\* The last result for a number that was collected exists, and has that number.
LEMMA KeptIsCollected ==
  ASSUME results \in Seq(1..Len(doc)), NEW no, NEW t \in Collected, doc[t].no = no
  PROVE  Kept(no) \in Collected /\ doc[Kept(no)].no = no
<1>. DEFINE N == {n \in 1..Len(results) : doc[results[n]].no = no}
            n == CHOOSE n \in 1..Len(results) :
                   /\ doc[results[n]].no = no
                   /\ \A m \in 1..Len(results) : doc[results[m]].no = no => m <= n
<1>1. N \in SUBSET (1..Len(results)) /\ N # {} /\ Len(results) \in Nat
  BY DEF Collected
<1>2. \E x \in N : \A y \in N : y <= x
  <2>. HIDE DEF N
  <2>. QED
    BY <1>1, HasGreatest
<1>3. n \in 1..Len(results) /\ doc[results[n]].no = no
  BY <1>2
<1>. QED
  BY <1>3 DEF Kept, Collected

\* So does the first paragraph with a number, for an edit.
LEMMA FirstNumberedIsThere ==
  ASSUME NEW d \in Seq(Paragraphs), NEW p \in 1..Len(d)
  PROVE  /\ FirstNumbered(d, d[p].no) \in 1..Len(d)
         /\ d[FirstNumbered(d, d[p].no)].no = d[p].no
<1>. DEFINE N == {q \in 1..Len(d) : d[q].no = d[p].no}
<1>1. N \in SUBSET Nat /\ N # {} /\ DOMAIN d = 1..Len(d)
  OBVIOUS
<1>2. \E x \in N : \A y \in N : x <= y
  <2>. HIDE DEF N
  <2>. QED
    BY <1>1, HasLeast
<1>3. \E x \in DOMAIN d : d[x].no = d[p].no /\ \A q \in DOMAIN d : d[q].no = d[p].no => x <= q
  BY <1>1, <1>2
<1>. QED
  BY <1>1, <1>3 DEF FirstNumbered

-----------------------------------------------------------------------------
(* Every step keeps the invariant.                                         *)

LEMMA InitHolds == Init => IInv
<1>. SUFFICES ASSUME Init PROVE IInv
  OBVIOUS
<1>. QED
  BY PlansAssumption DEF Init, IInv, FilesInv, WorkInv, ResultInv

LEMMA PlanIsKept ==
  ASSUME UNCHANGED plan
  PROVE  /\ Whole' = Whole /\ Script' = Script
         /\ UNCHANGED doc => OfScript(doc)' = OfScript(doc)
         /\ UNCHANGED project => OfScript(project)' = OfScript(project) /\ Loaded' = Loaded
         /\ UNCHANGED results => Collected' = Collected
         /\ UNCHANGED <<project, task>> => \A p : Asked(p)' = Asked(p)
<1>1. Whole' = Whole /\ Script' = Script
  BY DEF Whole, Script
<1>2. UNCHANGED doc => OfScript(doc)' = OfScript(doc)
  BY <1>1 DEF OfScript, Alone
<1>3. UNCHANGED project => OfScript(project)' = OfScript(project) /\ Loaded' = Loaded
  BY <1>1 DEF OfScript, Alone, Loaded
<1>4. UNCHANGED results => Collected' = Collected
  BY DEF Collected
<1>5. UNCHANGED <<project, task>> => \A p : Asked(p)' = Asked(p)
  BY <1>3 DEF Asked
<1>. QED
  BY <1>1, <1>2, <1>3, <1>4, <1>5

LEMMA NothingChanges ==
  ASSUME IInv, UNCHANGED <<plan, pc, doc, project, output, task, results>>
  PROVE  IInv'
<1>1. FilesInv'
  BY PlanIsKept DEF IInv, FilesInv
<1>2. WorkInv'
  BY PlanIsKept DEF IInv, WorkInv
<1>3. Final' = Final
  <2>1. \A p : Alone(Whole, p)' = Alone(Whole, p)
    BY PlanIsKept DEF Alone
  <2>. QED
    BY PlanIsKept, <2>1 DEF Final
<1>4. ResultInv'
  BY <1>3 DEF IInv, ResultInv
<1>. QED
  BY <1>1, <1>2, <1>4 DEF IInv

\* A paragraph that is asked for moves on.
LEMMA TaskMoves ==
  ASSUME IInv, UNCHANGED <<plan, pc, doc, project, output, results>>,
         NEW t \in DOMAIN task, task[t] \in {"queued", "asking"},
         NEW v \in {"asking", "answered", "failed"}, task' = [task EXCEPT ![t] = v]
  PROVE  IInv'
<1>1. FilesInv'
  BY PlanIsKept DEF IInv, FilesInv
<1>2. CASE pc \in {"save", "raised", "done"}
  BY <1>2 DEF IInv, WorkInv
<1>3. CASE pc = "ask"
  <2>1. t \notin Collected
    BY <1>3 DEF IInv, WorkInv
  <2>2. /\ task' \in [1..Len(doc) -> {"queued", "asking", "answered", "failed"}]
        /\ \A u \in Collected : task'[u] \in {"answered", "failed"}
    BY <1>3, <2>1 DEF IInv, WorkInv
  <2>3. WorkInv'
    BY <1>3, <2>2, PlanIsKept DEF IInv, WorkInv
  <2>. QED
    BY <1>1, <1>3, <2>3 DEF IInv, ResultInv
<1>4. CASE pc \notin {"ask", "save", "raised", "done"}
  BY <1>1, <1>4 DEF IInv, WorkInv, ResultInv
<1>. QED
  BY <1>1, <1>2, <1>3, <1>4

LEMMA CollectHolds ==
  ASSUME IInv, NEW t \in DOMAIN task, Collect(t)
  PROVE  IInv'
<1>. USE DEF Collect, files
<1>1. FilesInv'
  BY PlanIsKept DEF IInv, FilesInv
<1>2. /\ results \in Seq(1..Len(doc)) /\ t \in 1..Len(doc) /\ Len(results) \in Nat
      /\ Cardinality(Collected) = Len(results)
  BY DEF IInv, WorkInv
<1>3. /\ results' \in Seq(1..Len(doc)) /\ Len(results') = Len(results) + 1
      /\ results'[Len(results) + 1] = t
      /\ \A n \in 1..Len(results) : results'[n] = results[n]
  BY <1>2
<1>4. Collected' = Collected \cup {t}
  <2>1. ASSUME NEW x \in Collected' PROVE x \in Collected \cup {t}
    <3>1. PICK n \in 1..Len(results') : x = results'[n]
      BY DEF Collected
    <3>2. n = Len(results) + 1 \/ n \in 1..Len(results)
      BY <1>2, <1>3
    <3>. QED
      BY <1>3, <3>1, <3>2 DEF Collected
  <2>2. ASSUME NEW x \in Collected PROVE x \in Collected'
    <3>1. PICK n \in 1..Len(results) : x = results[n]
      BY DEF Collected
    <3>2. n \in 1..Len(results')
      BY <1>2, <1>3
    <3>. QED
      BY <1>3, <3>1, <3>2 DEF Collected
  <2>3. t \in Collected'
    <3>1. Len(results) + 1 \in 1..Len(results')
      BY <1>2, <1>3
    <3>. QED
      BY <1>3, <3>1 DEF Collected
  <2>. QED
    BY <2>1, <2>2, <2>3
<1>5. Cardinality(Collected') = Len(results')
  <2>1. Collected \subseteq 1..Len(doc)
    <3>1. \A n \in 1..Len(results) : results[n] \in 1..Len(doc)
      BY <1>2
    <3>. QED
      BY <3>1 DEF Collected
  <2>2. Len(doc) \in Nat
    BY DEF IInv, WorkInv
  <2>3. IsFiniteSet(1..Len(doc))
    <3>1. 1 \in Int /\ Len(doc) \in Int
      BY <2>2
    <3>. QED
      BY <3>1, FS_Interval
  <2>4. IsFiniteSet(Collected)
    BY <2>1, <2>3, FS_Subset
  <2>. QED
    BY <1>2, <1>3, <1>4, <2>4, FS_AddElement
<1>6. WorkInv'
  BY <1>3, <1>4, <1>5, PlanIsKept DEF IInv, WorkInv
<1>. QED
  BY <1>1, <1>6 DEF IInv, ResultInv

\* With as many results as paragraphs, all of them were collected.
LEMMA AllCollected ==
  ASSUME WorkInv, pc = "ask", Len(results) = Len(doc)
  PROVE  Collected = DOMAIN doc
<1>1. /\ doc \in Seq(Paragraphs) /\ Len(doc) \in Nat /\ DOMAIN doc = 1..Len(doc)
      /\ Collected \subseteq 1..Len(doc) /\ Cardinality(Collected) = Len(doc)
  BY DEF WorkInv, Collected
<1>2. IsFiniteSet(1..Len(doc)) /\ Cardinality(1..Len(doc)) = Len(doc)
  <2>1. 1 \in Int /\ Len(doc) \in Int
    BY <1>1
  <2>2. Cardinality(1..Len(doc)) = IF 1 > Len(doc) THEN 0 ELSE Len(doc) - 1 + 1
    BY <2>1, FS_Interval
  <2>3. IsFiniteSet(1..Len(doc))
    BY <2>1, FS_Interval
  <2>. QED
    BY <1>1, <2>2, <2>3
<1>. QED
  BY <1>1, <1>2, FS_Subset

LEMMA OpenScriptHolds == IInv /\ OpenScript => IInv'
<1>. SUFFICES ASSUME IInv, OpenScript PROVE IInv'
  OBVIOUS
<1>. DEFINE b == Bootstrapped(Ingested(Script))
<1>1. plan \in PlanType /\ plan.desktop /\ pc = "idle" /\ project' = b
      /\ UNCHANGED <<plan, pc, output>>
  BY DEF OpenScript, IInv, WorkInv
<1>2. /\ b \in Seq(Paragraphs) /\ Len(b) = Len(Whole)
      /\ \A p \in 1..Len(Whole) :
           /\ b[p].no = Whole[p].no /\ b[p].by = "text"
           /\ b[p].text = Whole[p].text /\ b[p].of = Whole[p].text
  <2>1. Whole \in Seq(Paragraphs) /\ Len(Whole) \in Nat
        /\ \A p \in 1..Len(Whole) : Whole[p] \in Paragraphs /\ Whole[p].by = "none"
    BY <1>1, WholeFacts
  <2>2. b = [p \in 1..Len(Whole) |-> FromText(Whole[p])]
    BY <2>1 DEF Bootstrapped, Whole
  <2>3. ASSUME NEW p \in 1..Len(Whole)
        PROVE  /\ FromText(Whole[p]) \in Paragraphs
               /\ FromText(Whole[p]).no = Whole[p].no /\ FromText(Whole[p]).by = "text"
               /\ FromText(Whole[p]).text = Whole[p].text
               /\ FromText(Whole[p]).of = Whole[p].text
    <3>1. Whole[p] \in Paragraphs /\ Whole[p].text \in Nat
      BY <2>1 DEF Paragraphs
    <3>. QED
      BY <3>1, AboutParagraphs DEF FromText
  <2>4. b \in Seq(Paragraphs) /\ Len(b) = Len(Whole)
    <3>. HIDE DEF b
    <3>. QED
      BY <2>1, <2>2, <2>3
  <2>. QED
    BY <2>2, <2>3, <2>4
<1>3. OfScript(b) /\ \A p \in DOMAIN b : b[p].by # "none"
  <2>1. DOMAIN b = 1..Len(Whole) /\ Len(Whole) \in Nat
    BY <1>1, <1>2, WholeFacts
  <2>. HIDE DEF b
  <2>. QED
    BY <1>2, <2>1 DEF OfScript
<1>4. OfScript(project)'
  BY <1>1, <1>3, PlanIsKept DEF OfScript, Alone
<1>5. FilesInv'
  BY <1>1, <1>2, <1>3, <1>4, PlanIsKept DEF IInv, FilesInv
<1>. QED
  BY <1>1, <1>5 DEF IInv, WorkInv, ResultInv

LEMMA EditHolds ==
  ASSUME IInv, project # None, NEW p \in DOMAIN project, Edit(p)
  PROVE  IInv'
<1>. DEFINE q == FirstNumbered(project, project[p].no)
            r == About(project[q], project[p].text, "user")
<1>1. /\ plan.desktop /\ pc = "idle" /\ UNCHANGED <<plan, pc, output>>
      /\ project' = [project EXCEPT ![q] = r]
  BY DEF Edit
<1>2. /\ project \in Seq(Paragraphs) /\ OfScript(project) /\ Len(project) = Len(Whole)
      /\ \A x \in DOMAIN project : project[x].by # "none"
      /\ DOMAIN project = 1..Len(project) /\ p \in 1..Len(project)
  BY DEF IInv, FilesInv, OfScript
<1>3. q \in 1..Len(project) /\ project[q].no = project[p].no
  BY <1>2, FirstNumberedIsThere
<1>4. /\ r \in Paragraphs /\ r.no = project[q].no /\ r.by = "user"
      /\ r.text = project[q].text /\ r.of = project[p].text
  <2>1. project[q] \in Paragraphs /\ project[p] \in Paragraphs
    BY <1>2, <1>3
  <2>2. project[p].text \in Nat
    BY <2>1 DEF Paragraphs
  <2>. QED
    BY <2>1, <2>2, AboutParagraphs
<1>5. Alone(Whole, q) => p = q
  <2>1. DOMAIN Whole = 1..Len(Whole) /\ Whole[p].no = project[p].no /\ Whole[q].no = project[q].no
    BY <1>2, <1>3, WholeFacts DEF OfScript, IInv, WorkInv
  <2>. QED
    BY <1>2, <1>3, <2>1 DEF Alone
<1>. HIDE DEF q, r
<1>6. /\ project' \in Seq(Paragraphs) /\ Len(project') = Len(project)
      /\ DOMAIN project' = DOMAIN project
      /\ project'[q] = r /\ \A x \in DOMAIN project : x # q => project'[x] = project[x]
  BY <1>1, <1>2, <1>3, <1>4
<1>7. OfScript(project)'
  <2>1. \A x \in DOMAIN project' : project'[x].no = Whole[x].no
    BY <1>2, <1>3, <1>4, <1>6 DEF OfScript
  <2>2. ASSUME NEW x \in DOMAIN project', Alone(Whole, x)
        PROVE  project'[x].text = Whole[x].text /\ project'[x].of = Whole[x].text
    <3>1. project[x].text = Whole[x].text /\ project[x].of = Whole[x].text
      BY <1>6, <2>2, <1>2 DEF OfScript
    <3>. QED
      BY <1>4, <1>5, <1>6, <2>2, <3>1
  <2>. QED
    BY <1>1, <1>2, <1>6, <2>1, <2>2, PlanIsKept DEF OfScript, Alone
<1>8. FilesInv'
  BY <1>1, <1>2, <1>4, <1>6, <1>7, PlanIsKept DEF IInv, FilesInv
<1>. QED
  BY <1>1, <1>8 DEF IInv, WorkInv, ResultInv

\* What Ask leaves behind for a document of the script.
LEMMA AskHolds ==
  ASSUME IInv, pc = "idle", NEW d, Ask(d), UNCHANGED <<plan, files>>, OfScript(d),
         \A p \in DOMAIN d : d[p] = Loaded[p],
         plan.desktop => project # None /\ Len(d) = Len(Whole),
         ~plan.desktop => Issues(Script) = {}
  PROVE  IInv'
<1>. USE DEF Ask, files
<1>1. /\ d \in Seq(Paragraphs) /\ doc' = d /\ pc' = "ask" /\ results' = <<>>
      /\ Len(d) \in Nat /\ DOMAIN d = 1..Len(d)
  BY DEF OfScript
<1>2. FilesInv'
  BY PlanIsKept DEF IInv, FilesInv
<1>3. Collected' = {} /\ Cardinality(Collected') = 0
  <2>1. Len(results') = 0 /\ 1..Len(results') = {}
    BY <1>1
  <2>2. Collected' = {}
    BY <2>1 DEF Collected
  <2>3. Cardinality({}) = 0
    BY FS_EmptySet
  <2>. QED
    BY <2>2, <2>3
<1>4. OfScript(doc)'
  BY <1>1, PlanIsKept DEF OfScript, Alone
<1>5. task' \in [1..Len(d) -> {"queued", "asking", "answered", "failed"}]
  BY <1>1
<1>6. results' \in Seq(1..Len(doc')) /\ Len(results') = 0
  BY <1>1
<1>7. WorkInv'
  BY <1>1, <1>3, <1>4, <1>5, <1>6, PlanIsKept DEF IInv, WorkInv
<1>. QED
  BY <1>1, <1>2, <1>7 DEF IInv, ResultInv

LEMMA EnrichHolds == IInv /\ Enrich => IInv'
<1>. SUFFICES ASSUME IInv, Enrich PROVE IInv'
  OBVIOUS
<1>1. /\ plan.desktop /\ pc = "idle" /\ project # None /\ Ask(project)
      /\ UNCHANGED <<plan, files>>
  BY DEF Enrich
<1>. QED
  BY <1>1, AskHolds DEF IInv, FilesInv, Loaded

LEMMA ExtractHolds == IInv /\ Extract => IInv'
<1>. SUFFICES ASSUME IInv, Extract PROVE IInv'
  OBVIOUS
<1>. DEFINE m == IF plan.limit < Len(Whole) THEN plan.limit ELSE Len(Whole)
            d == SubSeq(Whole, 1, m)
<1>1. /\ ~plan.desktop /\ pc = "idle" /\ Issues(Script) = {} /\ Ask(d)
      /\ UNCHANGED <<plan, files>> /\ plan \in PlanType
  BY DEF Extract, Refused, Whole, IInv, WorkInv
<1>2. /\ Whole \in Seq(Paragraphs) /\ Len(Whole) \in Nat
      /\ \A p \in 1..Len(Whole) : Whole[p].of = Whole[p].text
  BY <1>1, WholeFacts
<1>3. m \in 0..Len(Whole)
  <2>1. plan.limit \in Nat
    BY <1>1 DEF PlanType
  <2>. QED
    BY <1>2, <2>1
<1>4. /\ d \in Seq(Paragraphs) /\ Len(d) = m /\ DOMAIN d = 1..m
      /\ \A p \in 1..m : d[p] = Whole[p]
  <2>. HIDE DEF m
  <2>. QED
    BY <1>2, <1>3, SubSeqProperties
<1>. HIDE DEF d, m
<1>5. OfScript(d)
  BY <1>2, <1>3, <1>4 DEF OfScript
<1>. QED
  BY <1>1, <1>4, <1>5, AskHolds DEF Loaded

\* The paragraphs that extract_document puts together.
LEMMA Assembled ==
  ASSUME IInv, pc = "ask", Len(results) = Len(doc)
  PROVE  /\ Assemble \in Seq(Paragraphs) /\ Len(Assemble) = Len(doc)
         /\ DOMAIN Assemble = DOMAIN doc /\ DOMAIN doc = 1..Len(doc)
         /\ \A p \in DOMAIN doc : \E t \in DOMAIN doc :
              /\ Assemble[p] = Result(t) /\ doc[t].no = doc[p].no
              /\ Result(t) \in Paragraphs
              /\ Result(t).no = doc[p].no /\ Result(t).text = doc[t].text
              /\ Result(t).of \in {doc[t].of, doc[t].text}
              /\ Result(t).by \in {doc[t].by, "model"}
<1>1. /\ doc \in Seq(Paragraphs) /\ Len(doc) \in Nat /\ DOMAIN doc = 1..Len(doc)
      /\ results \in Seq(1..Len(doc)) /\ Collected = DOMAIN doc
  BY AllCollected DEF IInv, WorkInv
<1>2. ASSUME NEW p \in DOMAIN doc
      PROVE  Kept(doc[p].no) \in DOMAIN doc /\ doc[Kept(doc[p].no)].no = doc[p].no
  BY <1>1, KeptIsCollected
<1>3. ASSUME NEW t \in DOMAIN doc
      PROVE  /\ Result(t) \in Paragraphs
             /\ Result(t).no = doc[t].no /\ Result(t).text = doc[t].text
             /\ Result(t).of \in {doc[t].of, doc[t].text}
             /\ Result(t).by \in {doc[t].by, "model"}
  <2>1. doc[t] \in Paragraphs
    BY <1>1
  <2>2. doc[t].text \in Nat
    BY <2>1 DEF Paragraphs
  <2>. QED
    BY <2>1, <2>2, AboutParagraphs DEF Result, FromModel
<1>4. Assemble = [p \in 1..Len(doc) |-> Result(Kept(doc[p].no))]
  BY <1>1 DEF Assemble
<1>5. \A p \in 1..Len(doc) : Result(Kept(doc[p].no)) \in Paragraphs
  BY <1>1, <1>2, <1>3
<1>6. Assemble \in Seq(Paragraphs) /\ Len(Assemble) = Len(doc)
  BY <1>1, <1>4, <1>5
<1>7. ASSUME NEW p \in DOMAIN doc
      PROVE  \E t \in DOMAIN doc :
              /\ Assemble[p] = Result(t) /\ doc[t].no = doc[p].no
              /\ Result(t) \in Paragraphs
              /\ Result(t).no = doc[p].no /\ Result(t).text = doc[t].text
              /\ Result(t).of \in {doc[t].of, doc[t].text}
              /\ Result(t).by \in {doc[t].by, "model"}
  <2>1. Assemble[p] = Result(Kept(doc[p].no))
    BY <1>1, <1>4
  <2>. QED
    BY <1>2, <1>3, <2>1
<1>. QED
  BY <1>1, <1>4, <1>6, <1>7

\* A paragraph that shares its number with no other gets its own result.
LEMMA AloneIsOne ==
  ASSUME IInv, pc = "ask", NEW p \in DOMAIN doc, NEW t \in DOMAIN doc,
         Alone(Whole, p), doc[t].no = doc[p].no
  PROVE  t = p
<1>1. /\ OfScript(doc) /\ Len(doc) \in Nat /\ DOMAIN doc = 1..Len(doc)
      /\ DOMAIN Whole = 1..Len(Whole) /\ Len(Whole) \in Nat
  BY WholeFacts DEF IInv, WorkInv
<1>2. p \in DOMAIN Whole /\ t \in DOMAIN Whole /\ Whole[t].no = Whole[p].no
  BY <1>1 DEF OfScript
<1>. QED
  BY <1>2 DEF Alone

LEMMA ApplyHolds == IInv /\ Apply => IInv'
<1>. SUFFICES ASSUME IInv, Apply PROVE IInv'
  OBVIOUS
<1>. USE DEF Apply, files, work
<1>1. /\ pc = "ask" /\ Len(results) = Len(doc) /\ plan \in PlanType
      /\ UNCHANGED <<plan, project, output, task, results>> /\ output = None
      /\ doc \in Seq(Paragraphs) /\ Len(doc) \in Nat /\ DOMAIN doc = 1..Len(doc)
      /\ OfScript(doc) /\ \A p \in DOMAIN doc : doc[p] = Loaded[p]
  BY DEF IInv, WorkInv, FilesInv
<1>2. Collected = DOMAIN doc
  BY <1>1, AllCollected DEF IInv
<1>3. plan.desktop => \A p \in DOMAIN doc : doc[p].by # "none"
  <2>1. plan.desktop => project # None /\ OfScript(project) /\ Len(doc) = Len(project)
                        /\ \A p \in DOMAIN project : project[p].by # "none"
    BY <1>1 DEF IInv, WorkInv, FilesInv
  <2>2. plan.desktop => DOMAIN project = DOMAIN doc
    BY <1>1, <2>1 DEF OfScript
  <2>. QED
    BY <1>1, <2>1, <2>2 DEF Loaded
<1>4. ASSUME NEW t \in DOMAIN doc, Result(t).by = "none"
      PROVE  task[t] = "failed" /\ ~plan.desktop
  <2>1. doc[t] \in Paragraphs
    BY <1>1
  <2>2. task[t] # "answered"
    <3>1. doc[t].text \in Nat
      BY <2>1 DEF Paragraphs
    <3>. QED
      BY <1>4, <2>1, <3>1, AboutParagraphs DEF Result, FromModel
  <2>3. task[t] \in {"answered", "failed"}
    BY <1>1, <1>2 DEF IInv, WorkInv
  <2>. QED
    BY <1>3, <1>4, <2>2, <2>3 DEF Result
<1>5. CASE Raises
  <2>1. pc' = "raised" /\ UNCHANGED doc
    BY <1>5
  <2>2. PICK t \in DOMAIN doc : Result(t).by = "none"
    BY <1>5 DEF Raises, InError
  <2>3. task[t] = "failed" /\ t \in DOMAIN task /\ ~plan.desktop /\ plan.failFast
    BY <1>1, <1>4, <1>5, <2>2 DEF Raises, IInv, WorkInv
  <2>4. FilesInv'
    BY <1>1, <2>1, <2>3, PlanIsKept DEF IInv, FilesInv
  <2>5. WorkInv'
    BY <1>1, <1>2, <2>1, PlanIsKept DEF IInv, WorkInv
  <2>6. ResultInv'
    BY <1>1, <2>1, <2>3 DEF ResultInv
  <2>. QED
    BY <2>4, <2>5, <2>6 DEF IInv
<1>6. CASE ~Raises
  <2>1. pc' = "save" /\ doc' = Assemble
    BY <1>6
  <2>2. /\ doc' \in Seq(Paragraphs) /\ Len(doc') = Len(doc) /\ DOMAIN doc' = DOMAIN doc
    BY <1>1, <2>1, Assembled
  <2>3. ASSUME NEW p \in DOMAIN doc
        PROVE  /\ doc'[p].no = doc[p].no
               /\ Alone(Whole, p) => /\ doc'[p] = Result(p)
                                     /\ doc'[p].text = doc[p].text
                                     /\ doc'[p].of \in {doc[p].of, doc[p].text}
               /\ \E t \in DOMAIN doc : /\ doc'[p].by = Result(t).by
                                        /\ doc'[p].by \in {doc[t].by, "model"}
    <3>1. PICK t \in DOMAIN doc :
            /\ doc'[p] = Result(t) /\ doc[t].no = doc[p].no
            /\ Result(t).no = doc[p].no /\ Result(t).text = doc[t].text
            /\ Result(t).of \in {doc[t].of, doc[t].text}
            /\ Result(t).by \in {doc[t].by, "model"}
      BY <1>1, <2>1, Assembled
    <3>2. Alone(Whole, p) => t = p
      BY <1>1, <3>1, AloneIsOne
    <3>. QED
      BY <3>1, <3>2
  <2>4. OfScript(doc)'
    <3>1. \A p \in DOMAIN doc' : doc'[p].no = Whole[p].no
      BY <1>1, <2>2, <2>3 DEF OfScript
    <3>2. \A p \in DOMAIN doc' : Alone(Whole, p) =>
             doc'[p].text = Whole[p].text /\ doc'[p].of = Whole[p].text
      BY <1>1, <2>2, <2>3 DEF OfScript
    <3>3. Len(doc') <= Len(Whole)
      BY <1>1, <2>2 DEF OfScript
    <3>. QED
      BY <1>1, <2>2, <3>1, <3>2, <3>3, PlanIsKept DEF OfScript, Alone
  <2>5. FilesInv'
    BY <1>1, <2>1, PlanIsKept DEF IInv, FilesInv
  <2>6. WorkInv'
    BY <1>1, <1>2, <2>1, <2>2, <2>4, PlanIsKept DEF IInv, WorkInv
  <2>7. Final'
    <3>1. \A p \in DOMAIN doc : Alone(Whole, p) => doc'[p] = Asked(p)
      BY <1>1, <2>3 DEF Result, Asked
    <3>2. plan.desktop => \A p \in DOMAIN doc : doc'[p].by # "none"
      BY <1>3, <2>3
    <3>3. ASSUME plan.failFast, ~plan.desktop, NEW p \in DOMAIN doc
          PROVE  doc'[p].by = "model"
      <4>1. PICK t \in DOMAIN doc : /\ doc'[p].by = Result(t).by
                                    /\ doc'[p].by \in {doc[t].by, "model"}
        BY <2>3
      <4>2. Result(t).by # "none"
        BY <1>6, <3>3 DEF Raises, InError
      <4>3. doc[t].by = "none"
        <5>1. t \in 1..Len(Whole) /\ doc[t] = Whole[t]
          BY <1>1, <3>3, WholeFacts DEF Loaded, OfScript
        <5>. QED
          BY <1>1, <5>1, WholeFacts
      <4>. QED
        BY <4>1, <4>2, <4>3
    <3>4. \A p : Alone(Whole, p)' = Alone(Whole, p)
      BY <1>1, PlanIsKept DEF Alone
    <3>. QED
      BY <1>1, <2>2, <3>1, <3>2, <3>3, <3>4, PlanIsKept DEF Final
  <2>. QED
    BY <2>1, <2>5, <2>6, <2>7 DEF IInv, ResultInv
<1>. QED
  BY <1>5, <1>6

LEMMA SaveProjectHolds == IInv /\ (SaveProject \/ SaveProjectFails) => IInv'
<1>. SUFFICES ASSUME IInv, SaveProject \/ SaveProjectFails PROVE IInv'
  OBVIOUS
<1>1. /\ plan.desktop /\ pc = "save" /\ pc' = "idle" /\ UNCHANGED <<plan, output>>
      /\ project' = doc \/ project' = project
      /\ OfScript(doc) /\ Len(doc) = Len(Whole) /\ \A p \in DOMAIN doc : doc[p].by # "none"
  BY DEF SaveProject, SaveProjectFails, Back, files, IInv, WorkInv, ResultInv, Final
<1>2. CASE project' = project
  BY <1>1, <1>2, PlanIsKept DEF IInv, FilesInv, WorkInv, ResultInv
<1>3. CASE project' = doc
  <2>1. OfScript(project)'
    BY <1>1, <1>3, PlanIsKept DEF OfScript, Alone
  <2>. QED
    BY <1>1, <1>3, <2>1, PlanIsKept DEF IInv, FilesInv, WorkInv, ResultInv
<1>. QED
  BY <1>1, <1>2, <1>3

LEMMA WriteHolds == IInv /\ (WriteOutput \/ WriteFails) => IInv'
<1>. SUFFICES ASSUME IInv, WriteOutput \/ WriteFails PROVE IInv'
  OBVIOUS
<1>1. /\ ~plan.desktop /\ pc = "save" /\ pc' \in {"done", "raised"}
      /\ UNCHANGED <<plan, doc, project, task, results>>
      /\ output = None
      /\ output' \in {None, Torn} \/ (output' = doc /\ pc' = "done")
  BY DEF WriteOutput, WriteFails, work, IInv, FilesInv
<1>2. FilesInv'
  BY <1>1, PlanIsKept DEF IInv, FilesInv
<1>3. WorkInv'
  BY <1>1, PlanIsKept DEF IInv, WorkInv
<1>4. Final'
  <2>1. \A p : Alone(Whole, p)' = Alone(Whole, p)
    BY <1>1, PlanIsKept DEF Alone
  <2>. QED
    BY <1>1, <2>1, PlanIsKept DEF IInv, ResultInv, Final
<1>. QED
  BY <1>1, <1>2, <1>3, <1>4 DEF IInv, ResultInv

\* No step of the import, of the questions to the model, of the assembly and of the
\* saves breaks the invariant.
THEOREM StepHolds == IInv /\ [Next]_vars => IInv'
<1>. SUFFICES ASSUME IInv, [Next]_vars PROVE IInv'
  OBVIOUS
<1>. USE DEF files, work
<1>1. CASE OpenScript
  BY <1>1, OpenScriptHolds
<1>2. CASE Enrich
  BY <1>2, EnrichHolds
<1>3. CASE Extract
  BY <1>3, ExtractHolds
<1>4. CASE Refuse
  BY <1>4, PlanIsKept DEF Refuse, IInv, FilesInv, WorkInv, ResultInv
<1>5. ASSUME project # None, NEW p \in DOMAIN project, Edit(p) PROVE IInv'
  BY <1>5, EditHolds
<1>6. ASSUME NEW t \in DOMAIN task, Paragraph(t) PROVE IInv'
  <2>1. CASE Begin(t)
    BY <2>1, TaskMoves DEF Begin
  <2>2. CASE Answer(t)
    BY <2>2, TaskMoves DEF Answer
  <2>3. CASE BadAnswer(t)
    BY <2>3, TaskMoves, NothingChanges DEF BadAnswer
  <2>4. CASE Transient(t)
    BY <2>4, TaskMoves, NothingChanges DEF Transient
  <2>5. CASE CallFails(t)
    BY <2>5, TaskMoves DEF CallFails
  <2>6. CASE Collect(t)
    BY <2>6, CollectHolds
  <2>. QED
    BY <1>6, <2>1, <2>2, <2>3, <2>4, <2>5, <2>6 DEF Paragraph
<1>7. CASE Apply
  BY <1>7, ApplyHolds
<1>8. CASE SaveProject \/ SaveProjectFails
  BY <1>8, SaveProjectHolds
<1>9. CASE WriteOutput \/ WriteFails
  BY <1>9, WriteHolds
<1>10. CASE Terminated \/ UNCHANGED vars
  BY <1>10, NothingChanges DEF Terminated, vars
<1>. QED
  BY <1>1, <1>2, <1>3, <1>4, <1>5, <1>6, <1>7, <1>8, <1>9, <1>10 DEF Next

\* The inductive invariant of a session, for every script, order of the answers,
\* number of workers, and faults of the model and of the disk.
THEOREM IntentsInvariant == Spec => []IInv
BY InitHolds, StepHolds, PTL DEF Spec

-----------------------------------------------------------------------------
(* The properties.                                                         *)

\* What is saved of a project and what the command line writes have every paragraph
\* of the script at its place, with its number, text and intent.
THEOREM ParagraphsKeepTheirPlace == Spec => []EveryParagraphItsOwn
<1>1. IInv => EveryParagraphItsOwn
  <2>. SUFFICES ASSUME IInv PROVE EveryParagraphItsOwn
    OBVIOUS
  <2>1. plan \in PlanType /\ Whole \in Seq(Paragraphs) /\ Len(Whole) \in Nat
        /\ DOMAIN Whole = 1..Len(Whole)
    BY WholeFacts DEF IInv, WorkInv
  <2>2. ASSUME project # None
        PROVE  /\ Len(project) = Len(Whole)
               /\ \A p \in DOMAIN Whole : project[p].no = Whole[p].no
               /\ \A p \in DOMAIN Whole : Alone(Whole, p) =>
                    project[p].text = Whole[p].text /\ project[p].of = Whole[p].text
    <3>1. OfScript(project) /\ Len(project) = Len(Whole) /\ DOMAIN project = 1..Len(project)
      BY <2>2 DEF IInv, FilesInv, OfScript
    <3>. QED
      BY <2>1, <3>1 DEF OfScript
  <2>3. ASSUME output \notin {None, Torn}, NEW p \in DOMAIN output
        PROVE  /\ output[p].text = Whole[p].text /\ output[p].of = Whole[p].text
               /\ output[p].no = p
    <3>1. /\ output = doc /\ pc = "done" /\ OfScript(doc) /\ Issues(Script) = {}
          /\ Len(doc) \in Nat /\ DOMAIN doc = 1..Len(doc)
      BY <2>3 DEF IInv, FilesInv, WorkInv
    <3>2. \A q \in DOMAIN Whole : Whole[q].no = q
      BY <2>1, <3>1, WholeFacts
    <3>3. p \in DOMAIN doc /\ p \in DOMAIN Whole /\ Alone(Whole, p)
      BY <2>1, <2>3, <3>1, <3>2 DEF Alone, OfScript
    <3>. QED
      BY <3>1, <3>2, <3>3 DEF OfScript
  <2>. QED
    BY <2>2, <2>3 DEF EveryParagraphItsOwn, Whole
<1>. QED
  BY <1>1, IntentsInvariant, PTL

\* --fail-fast writes an intent for every paragraph, or nothing.
THEOREM FailFastWritesAllOrNothing == Spec => []FailFastIsAllOrNothing
<1>1. IInv => FailFastIsAllOrNothing
  <2>. SUFFICES ASSUME IInv PROVE FailFastIsAllOrNothing
    OBVIOUS
  <2>1. ASSUME plan.failFast, output \notin {None, Torn}, NEW p \in DOMAIN output
        PROVE  output[p].by = "model"
    <3>1. output = doc /\ pc = "done" /\ ~plan.desktop
      BY <2>1 DEF IInv, FilesInv
    <3>. QED
      BY <2>1, <3>1 DEF IInv, ResultInv, Final
  <2>2. ASSUME pc = "raised",
               ~(plan.failFast /\ output = None /\ \E t \in DOMAIN task : task[t] = "failed"),
               NEW t \in DOMAIN doc
        PROVE  doc[t].by = "model" <=> task[t] = "answered"
    <3>1. /\ Final /\ ~plan.desktop /\ Issues(Script) = {} /\ OfScript(doc)
          /\ plan \in PlanType /\ Len(doc) \in Nat /\ DOMAIN doc = 1..Len(doc)
      BY <2>2 DEF IInv, ResultInv, FilesInv, WorkInv
    <3>2. t \in 1..Len(Whole) /\ DOMAIN Whole = 1..Len(Whole)
          /\ Whole[t] \in Paragraphs /\ Whole[t].by = "none"
      BY <2>2, <3>1, WholeFacts DEF OfScript
    <3>3. Alone(Whole, t)
      BY <3>1, <3>2, WholeFacts DEF Alone
    <3>4. doc[t] = Asked(t)
      BY <2>2, <3>1, <3>3 DEF Final
    <3>5. FromModel(Whole[t]).by = "model"
      BY <3>2, FromModelParagraphs
    <3>. QED
      BY <3>1, <3>2, <3>4, <3>5 DEF Asked, Loaded
  <2>. QED
    BY <2>1, <2>2 DEF FailFastIsAllOrNothing
<1>. QED
  BY <1>1, IntentsInvariant, PTL

\* Neither a failed question nor a failed save costs a paragraph its intent, and
\* what the operator wrote gives way to the model or to another edit alone.
THEOREM IntentsSurviveFailures == Spec => FailuresKeepIntents
<1>. DEFINE Survives(p) ==
       /\ project'[p].by # "none"
       /\ project'[p] # project[p] /\ pc = "save" => task[p] = "answered"
       /\ project[p].by = "user" => project'[p].by \in {"user", "model"}
<1>1. ASSUME IInv, Next, project # None, NEW p \in DOMAIN project, Alone(project, p)
      PROVE  Survives(p)
  <2>. USE DEF files, work
  <2>1. /\ project \in Seq(Paragraphs) /\ OfScript(project) /\ Len(project) = Len(Whole)
        /\ project[p].by # "none" /\ plan.desktop /\ p \in 1..Len(project)
        /\ DOMAIN project = 1..Len(project) /\ plan \in PlanType
        /\ DOMAIN Whole = 1..Len(Whole)
    BY <1>1, WholeFacts DEF IInv, FilesInv, OfScript, WorkInv
  <2>2. CASE project' = project
    BY <2>1, <2>2
  <2>3. ASSUME NEW r \in DOMAIN project, Edit(r) PROVE Survives(p)
    <3>. DEFINE q == FirstNumbered(project, project[r].no)
                e == About(project[q], project[r].text, "user")
    <3>1. pc = "idle" /\ project' = [project EXCEPT ![q] = e]
      BY <2>3 DEF Edit
    <3>2. q \in 1..Len(project)
      BY <2>1, FirstNumberedIsThere
    <3>3. e.by = "user"
      <4>1. project[q] \in Paragraphs /\ project[r] \in Paragraphs
        BY <2>1, <3>2
      <4>2. project[r].text \in Nat
        BY <4>1 DEF Paragraphs
      <4>. QED
        BY <4>1, <4>2, AboutParagraphs
    <3>. HIDE DEF q, e
    <3>4. project'[p] = project[p] \/ project'[p] = e
      BY <2>1, <3>1, <3>2
    <3>. QED
      BY <2>1, <3>1, <3>3, <3>4
  <2>4. CASE SaveProject
    <3>1. pc = "save" /\ project' = doc
      BY <2>4 DEF SaveProject
    <3>2. /\ Final /\ Len(doc) = Len(Whole) /\ doc \in Seq(Paragraphs)
          /\ p \in DOMAIN doc
      BY <1>1, <2>1, <3>1 DEF IInv, ResultInv, WorkInv
    <3>3. Alone(Whole, p)
      BY <1>1, <2>1 DEF Alone, OfScript
    <3>4. doc[p] = IF task[p] = "answered" THEN FromModel(project[p]) ELSE project[p]
      BY <2>1, <3>2, <3>3 DEF Final, Asked, Loaded
    <3>5. FromModel(project[p]).by = "model"
      <4>1. project[p] \in Paragraphs
        BY <2>1
      <4>. QED
        BY <4>1, FromModelParagraphs
    <3>. QED
      BY <2>1, <3>1, <3>4, <3>5
  <2>5. CASE OpenScript
    BY <1>1, <2>5 DEF OpenScript
  <2>6. CASE Enrich \/ Extract \/ Refuse \/ Apply \/ SaveProjectFails \/ WriteOutput
              \/ WriteFails \/ Terminated
    <3>1. project' = project
      BY <2>6 DEF Enrich, Extract, Refuse, Apply, SaveProjectFails, WriteOutput, WriteFails,
                  Terminated, vars
    <3>. QED
      BY <2>2, <3>1
  <2>7. ASSUME NEW t \in DOMAIN task, Paragraph(t) PROVE project' = project
    BY <2>7 DEF Paragraph, Begin, Answer, BadAnswer, Transient, CallFails, Collect
  <2>. QED
    BY <1>1, <2>2, <2>3, <2>4, <2>5, <2>6, <2>7 DEF Next
<1>2. IInv /\ [Next]_vars =>
        [project # None => \A p \in DOMAIN project : Alone(project, p) => Survives(p)]_vars
  BY <1>1
<1>3. Spec => [][project # None =>
                   \A p \in DOMAIN project : Alone(project, p) => Survives(p)]_vars
  BY <1>2, IntentsInvariant, PTL DEF Spec
<1>. QED
  BY <1>3 DEF FailuresKeepIntents
=============================================================================
