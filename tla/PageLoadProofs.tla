--------------------------- MODULE PageLoadProofs ---------------------------
(***************************************************************************)
(* Theorems about PageLoad, for every set of documents, pages and          *)
(* pipelines and any number of retries, crashes and changes of the table.  *)
(***************************************************************************)
EXTENDS PageLoad, WellFoundedInduction, SequenceTheorems, TLAPS

-----------------------------------------------------------------------------
(* Induction.  The library's principles take a predicate as a parameter;   *)
(* these take the set of the numbers that satisfy it.                      *)

\* A set of natural numbers has a least element.
LEMMA LeastNumber ==
  ASSUME NEW T \in SUBSET Nat, T # {}
  PROVE  \E n \in T : \A m \in T : n <= m
<1> DEFINE R == OpToRel(<, Nat)
<1>1. IsWellFoundedOn(R, Nat)
  BY NatLessThanWellFounded
<1> HIDE DEF R
<1>2. PICK n \in T : \A m \in T : <<m, n>> \notin R
  BY <1>1, WFMin
<1>3. ASSUME NEW m \in T PROVE n <= m
  <2>1. m \in Nat /\ n \in Nat
    OBVIOUS
  <2>2. m < n => <<m, n>> \in R
    BY <2>1 DEF R, OpToRel
  <2> QED
    BY <1>2, <2>1, <2>2
<1> QED
  BY <1>3

\* A set that holds 0 and the successors of its members holds every number.
LEMMA Counting ==
  ASSUME NEW S, 0 \in S, \A n \in Nat : n \in S => n + 1 \in S
  PROVE  \A n \in Nat : n \in S
<1>1. SUFFICES ASSUME Nat \ S # {} PROVE FALSE
  OBVIOUS
<1>2. PICK n \in Nat \ S : \A m \in Nat \ S : n <= m
  BY <1>1, LeastNumber
<1>3. n # 0 /\ n - 1 \in Nat
  BY <1>2
<1>4. n - 1 \in S
  BY <1>2, <1>3
<1>5. (n - 1) + 1 \in S
  BY <1>3, <1>4
<1> QED
  BY <1>2, <1>5

-----------------------------------------------------------------------------
(* get_by_path.                                                            *)

\* What FoldLeft computes over the first n segments of a path, as the function
\* of its definition, over the sets of positions.
IsWalk(f, document, path, n) ==
  f = [s \in SUBSET (1 .. n) |->
         IF s = {} THEN document
         ELSE LET x == Max(s) IN Field(f[s \ {x}], path[x])]

\* FoldLeft's definition, for a path: some such function, at all positions.
LEMMA FoldIsWalk ==
  ASSUME NEW document, NEW path \in Seq(Names)
  PROVE  GetByPath(document, path) =
           (CHOOSE f : IsWalk(f, document, path, Len(path)))[1 .. Len(path)]
<1>1. DOMAIN path = 1 .. Len(path)
  OBVIOUS
<1> QED
  BY <1>1 DEF GetByPath, FoldLeft, MapThenFoldSet, IsWalk

\* Max picks the largest position, and without it the others remain.
LEMMA LastPosition ==
  ASSUME NEW n \in Nat, NEW s \in SUBSET (1 .. n + 1), n + 1 \in s
  PROVE  Max(s) = n + 1 /\ s \ {Max(s)} \in SUBSET (1 .. n)
<1>1. \A y \in s : y \in Int /\ n + 1 >= y
  OBVIOUS
<1>2. \A x \in s : (\A y \in s : x >= y) => x = n + 1
  BY <1>1
<1>3. Max(s) = n + 1
  BY <1>1, <1>2 DEF Max
<1> QED
  BY <1>3

\* The recursion is well founded: for every number of segments there is a
\* function that satisfies it.
LEMMA WalkExists ==
  ASSUME NEW document, NEW path
  PROVE  \A n \in Nat : \E f : IsWalk(f, document, path, n)
<1> DEFINE S == {n \in Nat : \E f : IsWalk(f, document, path, n)}
<1>1. 0 \in S
  <2> DEFINE f == [s \in SUBSET (1 .. 0) |-> document]
  <2>1. \A s \in SUBSET (1 .. 0) : s = {}
    OBVIOUS
  <2>2. IsWalk(f, document, path, 0)
    BY <2>1 DEF IsWalk
  <2> QED
    BY <2>2
<1>2. ASSUME NEW n \in Nat, n \in S PROVE n + 1 \in S
  <2>1. PICK f : IsWalk(f, document, path, n)
    BY <1>2
  <2> DEFINE g == [s \in SUBSET (1 .. n + 1) |->
                     IF n + 1 \in s THEN Field(f[s \ {n + 1}], path[n + 1]) ELSE f[s]]
  <2> DEFINE h == [s \in SUBSET (1 .. n + 1) |->
                     IF s = {} THEN document
                     ELSE LET x == Max(s) IN Field(g[s \ {x}], path[x])]
  <2>2. SUFFICES ASSUME NEW s \in SUBSET (1 .. n + 1) PROVE g[s] = h[s]
    <3>1. g = h
      BY <2>2
    <3> HIDE DEF g
    <3>2. IsWalk(g, document, path, n + 1)
      BY <3>1 DEF IsWalk
    <3> QED
      BY <3>2
  <2>3. CASE n + 1 \in s
    <3>1. Max(s) = n + 1 /\ s \ {Max(s)} \in SUBSET (1 .. n)
      BY <2>3, LastPosition
    <3>2. s \ {Max(s)} \in SUBSET (1 .. n + 1) /\ n + 1 \notin s \ {Max(s)}
      BY <3>1
    <3>3. g[s \ {Max(s)}] = f[s \ {Max(s)}]
      BY <3>2
    <3> QED
      BY <2>3, <3>1, <3>3
  <2>4. CASE n + 1 \notin s
    <3>1. s \in SUBSET (1 .. n) /\ g[s] = f[s]
      BY <2>4
    <3>2. f[s] = IF s = {} THEN document
                 ELSE LET x == Max(s) IN Field(f[s \ {x}], path[x])
      BY <2>1, <3>1 DEF IsWalk
    <3>3. s # {} => s \ {Max(s)} \in SUBSET (1 .. n + 1) /\ n + 1 \notin s \ {Max(s)}
      BY <2>4
    <3>4. s # {} => g[s \ {Max(s)}] = f[s \ {Max(s)}]
      BY <3>3
    <3>5. h[s] = IF s = {} THEN document
                 ELSE LET x == Max(s) IN Field(g[s \ {x}], path[x])
      OBVIOUS
    <3> HIDE DEF g, h
    <3> QED
      BY <3>1, <3>2, <3>4, <3>5
  <2> QED
    BY <2>3, <2>4
<1> HIDE DEF S
<1>3. \A n \in Nat : n \in S
  BY <1>1, <1>2, Counting
<1> QED
  BY <1>3 DEF S

\* What get_by_path has after the first n segments.
Walk(document, path, n) ==
  (CHOOSE f : IsWalk(f, document, path, Len(path)))[1 .. n]

\* get_by_path takes one segment after the other.
LEMMA WalkSteps ==
  ASSUME NEW document, NEW path \in Seq(Names)
  PROVE  /\ Walk(document, path, 0) = document
         /\ \A n \in 0 .. Len(path) - 1 :
              Walk(document, path, n + 1) = Field(Walk(document, path, n), path[n + 1])
         /\ GetByPath(document, path) = Walk(document, path, Len(path))
<1>1. Len(path) \in Nat
  OBVIOUS
<1>2. PICK f : f = (CHOOSE g : IsWalk(g, document, path, Len(path)))
  OBVIOUS
<1>3. IsWalk(f, document, path, Len(path))
  BY <1>1, <1>2, WalkExists
<1>4. \A n : Walk(document, path, n) = f[1 .. n]
  BY <1>2 DEF Walk
<1>5. Walk(document, path, 0) = document
  <2>1. 1 .. 0 = {} /\ {} \in SUBSET (1 .. Len(path))
    OBVIOUS
  <2> QED
    BY <1>3, <1>4, <2>1 DEF IsWalk
<1>6. ASSUME NEW n \in 0 .. Len(path) - 1
      PROVE  Walk(document, path, n + 1) = Field(Walk(document, path, n), path[n + 1])
  <2>1. n \in Nat /\ n + 1 <= Len(path)
    BY <1>1
  <2>2. n + 1 \in 1 .. n + 1
    BY <2>1
  <2>3. 1 .. n + 1 \in SUBSET (1 .. Len(path)) /\ 1 .. n + 1 # {}
    <3>1. \A i \in 1 .. n + 1 : i \in 1 .. Len(path)
      BY <1>1, <2>1
    <3> QED
      BY <2>2, <3>1, Zenon
  <2>4. Max(1 .. n + 1) = n + 1
    BY <2>1, <2>2, LastPosition
  <2>5. (1 .. n + 1) \ {n + 1} = 1 .. n
    BY <2>1
  <2>6. f[1 .. n + 1] = Field(f[(1 .. n + 1) \ {Max(1 .. n + 1)}], path[Max(1 .. n + 1)])
    BY <1>3, <2>3 DEF IsWalk
  <2> QED
    BY <1>4, <2>4, <2>5, <2>6
<1>7. GetByPath(document, path) = Walk(document, path, Len(path))
  BY FoldIsWalk DEF Walk
<1> QED
  BY <1>5, <1>6, <1>7

\* On the way there are documents only, or nothing any more.
LEMMA WalkType ==
  ASSUME NEW document \in Documents, NEW path \in Seq(Names)
  PROVE  \A n \in 0 .. Len(path) : Walk(document, path, n) \in Documents \cup {Missing}
<1> DEFINE S == {n \in Nat : n <= Len(path) =>
                              Walk(document, path, n) \in Documents \cup {Missing}}
<1>1. Len(path) \in Nat
  OBVIOUS
<1>2. 0 \in S
  BY WalkSteps
<1>3. ASSUME NEW n \in Nat, n \in S PROVE n + 1 \in S
  <2>1. SUFFICES ASSUME n + 1 <= Len(path)
                 PROVE  Walk(document, path, n + 1) \in Documents \cup {Missing}
    OBVIOUS
  <2>2. n \in 0 .. Len(path) - 1
    BY <1>1, <2>1
  <2>3. Walk(document, path, n) \in Documents \cup {Missing}
    BY <1>1, <1>3, <2>1
  <2>4. Walk(document, path, n + 1) = Field(Walk(document, path, n), path[n + 1])
    BY <2>2, WalkSteps
  <2> QED
    BY <2>3, <2>4, LoadAssumption DEF Field, IsObject
<1> HIDE DEF S
<1>4. \A n \in Nat : n \in S
  BY <1>2, <1>3, Counting
<1> QED
  BY <1>1, <1>4 DEF S

\* The recursion of Members, up to a depth.
Deeper(members) ==
  UNION {{<<Append(m[1], key), m[2][key]>> :
            key \in IF m[2] \in Atoms THEN {} ELSE DOMAIN m[2]} : m \in members}

IsTree(f, document, depth) ==
  f = [n \in 0 .. depth |-> IF n = 0 THEN {<< <<>>, document >>} ELSE Deeper(f[n - 1])]

\* That recursion too is well founded: a function satisfies it, for every
\* depth.
LEMMA TreeExists ==
  ASSUME NEW document
  PROVE  \A depth \in Nat : \E f : IsTree(f, document, depth)
<1> DEFINE S == {n \in Nat : \E f : IsTree(f, document, n)}
<1>1. 0 \in S
  <2> DEFINE f == [n \in 0 .. 0 |-> {<< <<>>, document >>}]
  <2>1. IsTree(f, document, 0)
    BY DEF IsTree
  <2> QED
    BY <2>1
<1>2. ASSUME NEW d \in Nat, d \in S PROVE d + 1 \in S
  <2>1. PICK f : IsTree(f, document, d)
    BY <1>2
  <2> DEFINE g == [n \in 0 .. d + 1 |-> IF n = d + 1 THEN Deeper(f[d]) ELSE f[n]]
  <2> DEFINE h == [n \in 0 .. d + 1 |->
                     IF n = 0 THEN {<< <<>>, document >>} ELSE Deeper(g[n - 1])]
  <2>2. ASSUME NEW n \in 0 .. d + 1 PROVE g[n] = h[n]
    <3>1. n # 0 => n - 1 \in 0 .. d /\ g[n - 1] = f[n - 1]
      OBVIOUS
    <3>2. n # d + 1 => n \in 0 .. d /\ g[n] = f[n]
      OBVIOUS
    <3>3. n # d + 1 => f[n] = IF n = 0 THEN {<< <<>>, document >>} ELSE Deeper(f[n - 1])
      BY <2>1, <3>2 DEF IsTree
    <3>4. n = d + 1 => n # 0 /\ n - 1 = d /\ g[n] = Deeper(f[d])
      OBVIOUS
    <3>5. h[n] = IF n = 0 THEN {<< <<>>, document >>} ELSE Deeper(g[n - 1])
      OBVIOUS
    <3> HIDE DEF g, h
    <3> QED
      BY <3>1, <3>2, <3>3, <3>4, <3>5
  <2>3. g = h
    BY <2>2
  <2> HIDE DEF g
  <2>4. IsTree(g, document, d + 1)
    BY <2>3 DEF IsTree
  <2> QED
    BY <2>4
<1> HIDE DEF S
<1>3. \A n \in Nat : n \in S
  BY <1>1, <1>2, Counting
<1> QED
  BY <1>3 DEF S

\* Members is the last level of such a function.
LEMMA MembersIsTree ==
  ASSUME NEW document, NEW depth \in Nat
  PROVE  \E f : /\ f[0] = {<< <<>>, document >>}
                /\ \A n \in 0 .. depth - 1 : f[n + 1] = Deeper(f[n])
                /\ Members(document, depth) = f[depth]
<1>1. PICK f : f = (CHOOSE g : IsTree(g, document, depth))
  OBVIOUS
<1>2. IsTree(f, document, depth)
  BY <1>1, TreeExists
<1>3. Members(document, depth) = f[depth]
  BY <1>1 DEF Members, IsTree, Deeper
<1>4. f[0] = {<< <<>>, document >>}
  BY <1>2 DEF IsTree
<1>5. ASSUME NEW n \in 0 .. depth - 1 PROVE f[n + 1] = Deeper(f[n])
  <2>1. n + 1 \in 0 .. depth /\ n + 1 # 0 /\ (n + 1) - 1 = n
    OBVIOUS
  <2> QED
    BY <1>2, <2>1 DEF IsTree
<1> QED
  BY <1>3, <1>4, <1>5

\* A prefix of a path, one segment longer.
LEMMA LongerPrefix ==
  ASSUME NEW path \in Seq(Names), NEW n \in 0 .. Len(path) - 1
  PROVE  /\ SubSeq(path, 1, n) \in Seq(Names)
         /\ SubSeq(path, 1, n + 1) = Append(SubSeq(path, 1, n), path[n + 1])
<1>1. n \in Nat /\ n + 1 <= Len(path) /\ Len(path) \in Nat
  OBVIOUS
<1>2. SubSeq(path, 1, n) \in Seq(Names) /\ Len(SubSeq(path, 1, n)) = n
  BY <1>1
<1>3. path[n + 1] \in Names
  BY <1>1
<1>4. SubSeq(path, 1, n + 1) \in Seq(Names) /\ Len(SubSeq(path, 1, n + 1)) = n + 1
  BY <1>1
<1>5. Append(SubSeq(path, 1, n), path[n + 1]) \in Seq(Names)
      /\ Len(Append(SubSeq(path, 1, n), path[n + 1])) = n + 1
  BY <1>2, <1>3
<1>6. \A i \in 1 .. n + 1 : SubSeq(path, 1, n + 1)[i] = Append(SubSeq(path, 1, n), path[n + 1])[i]
  BY <1>1, <1>2, <1>3
<1> QED
  BY <1>2, <1>4, <1>5, <1>6, SeqEqual

\* What the walks of the path and of the document have in common after n steps:
\* the document's pairs are of paths of that length, the pair of the path's
\* prefix is what get_by_path has, and there is one unless it has nothing.
Agree(members, document, path, n) ==
  /\ \A m \in members : \E p \in Seq(Names), d \in Documents : m = <<p, d>>
  /\ \A m \in members : m[1] = SubSeq(path, 1, n) => m[2] = Walk(document, path, n)
  /\ Walk(document, path, n) # Missing
       => <<SubSeq(path, 1, n), Walk(document, path, n)>> \in members

\* One segment more.
LEMMA AgreeDeeper ==
  ASSUME NEW document \in Documents, NEW path \in Seq(Names), NEW n \in 0 .. Len(path) - 1,
         NEW members, Agree(members, document, path, n)
  PROVE  Agree(Deeper(members), document, path, n + 1)
<1> DEFINE prefix == SubSeq(path, 1, n)
           segment == path[n + 1]
           here == Walk(document, path, n)
           there == Walk(document, path, n + 1)
<1>1. prefix \in Seq(Names) /\ SubSeq(path, 1, n + 1) = Append(prefix, segment) /\ segment \in Names
  <2>1. n + 1 \in 1 .. Len(path)
    OBVIOUS
  <2> QED
    BY <2>1, LongerPrefix
<1>2. there = Field(here, segment)
  BY WalkSteps
<1>3. here \in Documents \cup {Missing} /\ there \in Documents \cup {Missing}
  <2>1. n \in 0 .. Len(path) /\ n + 1 \in 0 .. Len(path)
    OBVIOUS
  <2> QED
    BY <2>1, WalkType
<1>4. \A m \in members : \E p \in Seq(Names), d \in Documents : m = <<p, d>>
  BY DEF Agree
<1>5. \A m \in members : m[1] = prefix => m[2] = here
  BY DEF Agree
<1>6. here # Missing => <<prefix, here>> \in members
  BY DEF Agree
<1> HIDE DEF prefix, segment, here, there
<1>7. ASSUME NEW m \in Deeper(members)
      PROVE  \E q \in members, k \in Names :
               /\ q[2] \in Documents \ Atoms /\ k \in DOMAIN q[2] /\ q[1] \in Seq(Names)
               /\ m = <<Append(q[1], k), q[2][k]>>
  <2>1. PICK q \in members : \E k \in IF q[2] \in Atoms THEN {} ELSE DOMAIN q[2] :
                               m = <<Append(q[1], k), q[2][k]>>
    BY DEF Deeper
  <2>2. PICK k \in IF q[2] \in Atoms THEN {} ELSE DOMAIN q[2] : m = <<Append(q[1], k), q[2][k]>>
    BY <2>1
  <2>3. q[1] \in Seq(Names) /\ q[2] \in Documents
    BY <1>4
  <2>4. q[2] \notin Atoms /\ k \in DOMAIN q[2]
    BY <2>2
  <2>5. k \in Names
    BY <2>3, <2>4, LoadAssumption
  <2> QED
    BY <2>2, <2>3, <2>4, <2>5
<1>8. ASSUME NEW m \in Deeper(members)
      PROVE  \E p \in Seq(Names), d \in Documents : m = <<p, d>>
  <2>1. PICK q \in members, k \in Names :
               /\ q[2] \in Documents \ Atoms /\ k \in DOMAIN q[2] /\ q[1] \in Seq(Names)
               /\ m = <<Append(q[1], k), q[2][k]>>
    BY <1>7
  <2>2. Append(q[1], k) \in Seq(Names)
    BY <2>1, AppendProperties
  <2>3. q[2][k] \in Documents
    BY <2>1, LoadAssumption
  <2> QED
    BY <2>1, <2>2, <2>3
<1>9. ASSUME NEW m \in Deeper(members), m[1] = Append(prefix, segment)
      PROVE  m[2] = there
  <2>1. PICK q \in members, k \in Names :
               /\ q[2] \in Documents \ Atoms /\ k \in DOMAIN q[2] /\ q[1] \in Seq(Names)
               /\ m = <<Append(q[1], k), q[2][k]>>
    BY <1>7
  <2>2. PICK p \in Seq(Names) : p = q[1]
    BY <2>1
  <2>3. Append(p, k) = Append(prefix, segment)
    BY <1>9, <2>1, <2>2
  <2>4. p = prefix /\ k = segment
    BY <1>1, <2>3, AppendInjective
  <2>5. here = q[2] /\ IsObject(here)
    BY <1>5, <2>1, <2>2, <2>4, LoadAssumption DEF IsObject
  <2> QED
    BY <1>2, <2>1, <2>4, <2>5 DEF Field
<1>10. ASSUME there # Missing PROVE <<Append(prefix, segment), there>> \in Deeper(members)
  <2>1. IsObject(here) /\ segment \in DOMAIN here /\ there = here[segment]
    BY <1>2, <1>10 DEF Field
  <2>2. <<prefix, here>> \in members /\ here \notin Atoms
    BY <1>6, <2>1 DEF IsObject
  <2> DEFINE q == <<prefix, here>>
  <2>3. q[1] = prefix /\ q[2] = here
    OBVIOUS
  <2> HIDE DEF q
  <2>4. q \in members
    BY <2>2 DEF q
  <2> QED
    BY <2>1, <2>2, <2>3, <2>4 DEF Deeper
<1> QED
  BY <1>1, <1>8, <1>9, <1>10 DEF Agree, prefix, segment, there

\* get_by_path finds a value exactly when the document has the path, and then
\* the value the document has there.
THEOREM GetByPathIsReference ==
  ASSUME NEW document \in Documents, NEW path \in Seq(Names)
  PROVE  /\ GetByPath(document, path) \in Documents \cup {Missing}
         /\ Has(document, path) <=> GetByPath(document, path) # Missing
         /\ Has(document, path) => ValueAt(document, path) = GetByPath(document, path)
<1>1. Len(path) \in Nat
  OBVIOUS
<1>2. PICK f : /\ f[0] = {<< <<>>, document >>}
               /\ \A n \in 0 .. Len(path) - 1 : f[n + 1] = Deeper(f[n])
               /\ Members(document, Len(path)) = f[Len(path)]
  BY <1>1, MembersIsTree
<1> DEFINE S == {n \in Nat : n <= Len(path) => Agree(f[n], document, path, n)}
<1>3. 0 \in S
  <2>1. SubSeq(path, 1, 0) = <<>> /\ <<>> \in Seq(Names)
    BY <1>1
  <2>2. Walk(document, path, 0) = document
    BY WalkSteps
  <2> QED
    BY <1>2, <2>1, <2>2 DEF Agree
<1>4. ASSUME NEW n \in Nat, n \in S PROVE n + 1 \in S
  <2>1. SUFFICES ASSUME n + 1 <= Len(path) PROVE Agree(f[n + 1], document, path, n + 1)
    OBVIOUS
  <2>2. n \in 0 .. Len(path) - 1 /\ n <= Len(path)
    BY <1>1, <2>1
  <2>3. Agree(f[n], document, path, n)
    BY <1>4, <2>2
  <2> QED
    BY <1>2, <2>2, <2>3, AgreeDeeper
<1> HIDE DEF S
<1>5. Len(path) \in S
  BY <1>1, <1>3, <1>4, Counting
<1>6. Agree(Members(document, Len(path)), document, path, Len(path))
  BY <1>1, <1>2, <1>5 DEF S
<1>7. SubSeq(path, 1, Len(path)) = path
  BY <1>1
<1>8. GetByPath(document, path) = Walk(document, path, Len(path))
  BY WalkSteps
<1>9. GetByPath(document, path) \in Documents \cup {Missing}
  BY <1>1, <1>8, WalkType
<1>10. \A m \in Members(document, Len(path)) :
         m[2] \in Documents /\ (m[1] = path => m[2] = GetByPath(document, path))
  BY <1>6, <1>7, <1>8 DEF Agree
<1>11. GetByPath(document, path) # Missing => Has(document, path)
  BY <1>6, <1>7, <1>8 DEF Agree, Has
<1>12. Missing \notin Documents
  BY LoadAssumption
<1> QED
  BY <1>9, <1>10, <1>11, <1>12 DEF Has, ValueAt

-----------------------------------------------------------------------------
(* Copies of a page.                                                       *)

\* Dividing n times l by l leaves n, and position k of a copy after n of them is
\* at remainder k - 1.
LEMMA Quotients ==
  ASSUME NEW n \in Nat, NEW l \in Nat \ {0}
  PROVE  /\ n * l \in Nat
         /\ (n * l) \div l = n
         /\ \A k \in 0 .. l - 1 : (n * l + k) % l = k
<1>1. n * l \in Nat
  OBVIOUS
<1>2. ASSUME NEW k \in 0 .. l - 1, NEW q \in Int, NEW r \in 0 .. l - 1, n * l + k = q * l + r
      PROVE  q = n /\ r = k
  <2>1. (q - n) * l = k - r
    BY <1>2
  <2>2. q - n >= 1 => (q - n) * l >= l
    OBVIOUS
  <2>3. q - n <= -1 => (q - n) * l <= -l
    OBVIOUS
  <2>4. k - r < l /\ k - r > -l
    OBVIOUS
  <2>5. q = n
    BY <2>1, <2>2, <2>3, <2>4
  <2> QED
    BY <1>2, <2>5
<1>3. ASSUME NEW a \in Nat
      PROVE  a \div l \in Int /\ a % l \in 0 .. l - 1 /\ a = (a \div l) * l + (a % l)
  OBVIOUS
<1>4. (n * l) \div l = n
  BY <1>1, <1>2, <1>3
<1>5. ASSUME NEW k \in 0 .. l - 1 PROVE (n * l + k) % l = k
  BY <1>1, <1>2, <1>3
<1> QED
  BY <1>1, <1>4, <1>5

\* t is whole copies of the page, one after the other.
AreCopies(t, n, page) ==
  /\ Len(t) = n * Len(page)
  /\ \A i \in 1 .. Len(t) : t[i] = page[((i - 1) % Len(page)) + 1]

\* With the page appended there is one copy more.
LEMMA OneMoreCopy ==
  ASSUME NEW S, NEW page \in Seq(S), page # <<>>, NEW t \in Seq(S), NEW n \in Nat,
         AreCopies(t, n, page)
  PROVE  t \o page \in Seq(S) /\ AreCopies(t \o page, n + 1, page)
<1> DEFINE l == Len(page)
<1>1. l \in Nat \ {0} /\ Len(t) \in Nat
  <2>1. l \in Nat /\ Len(t) \in Nat
    OBVIOUS
  <2>2. l # 0
    BY EmptySeq
  <2> QED
    BY <2>1, <2>2
<1>2. t \o page \in Seq(S) /\ Len(t \o page) = Len(t) + l
  BY ConcatProperties
<1>3. Len(t) = n * l
  BY DEF AreCopies
<1>4. n * l \in Nat /\ n * l + l = (n + 1) * l
  BY <1>1
<1>5. ASSUME NEW i \in 1 .. Len(t) + l PROVE (t \o page)[i] = page[((i - 1) % l) + 1]
  <2>1. CASE i <= Len(t)
    <3>1. i \in 1 .. Len(t) /\ (t \o page)[i] = t[i]
      BY <1>1, <2>1, ConcatProperties
    <3> QED
      BY <3>1 DEF AreCopies
  <2>2. CASE ~(i <= Len(t))
    <3>1. PICK k \in 0 .. l - 1 : i - Len(t) = k + 1
      <4>1. i - Len(t) - 1 \in 0 .. l - 1 /\ i - Len(t) = (i - Len(t) - 1) + 1
        BY <1>1, <2>2
      <4> QED
        BY <4>1
    <3>2. (t \o page)[i] = page[k + 1]
      BY <2>2, <3>1, ConcatProperties
    <3>3. i - 1 = n * l + k
      BY <1>1, <1>3, <3>1
    <3>4. (i - 1) % l = k
      BY <1>1, <3>3, Quotients
    <3> QED
      BY <3>2, <3>4
  <2> QED
    BY <2>1, <2>2
<1> QED
  BY <1>2, <1>3, <1>4, <1>5 DEF AreCopies

\* The number of copies is what Copies computes.
LEMMA CopiesCounted ==
  ASSUME NEW S, NEW page \in Seq(S), page # <<>>, NEW t, NEW n \in Nat, AreCopies(t, n, page)
  PROVE  Len(t) \div Len(page) = n
<1>1. Len(page) \in Nat \ {0}
  BY EmptySeq
<1> QED
  BY <1>1, Quotients DEF AreCopies

-----------------------------------------------------------------------------
(* The page.                                                               *)

RowSet == {PageRows[i] : i \in DOMAIN records}

\* A record that keeps the page out.
Blocked ==
  \E i \in DOMAIN records :
     \/ records[i] \in Atoms
     \/ /\ pipeline.strict
        /\ \E c \in DOMAIN pipeline.mapping : ~Has(records[i], pipeline.mapping[c])

\* map_records returns the rows the reference definition asks for, or fails; and
\* it fails for a page with such a record.
LEMMA MapIsReference ==
  ASSUME records \in Inputs, pipeline \in Pipelines
  PROVE  /\ MapRecords.ok => MapRecords.rows = PageRows
         /\ Blocked => ~MapRecords.ok
<1>1. records \in Seq(Documents)
  BY LoadAssumption
<1>2. ASSUME NEW i \in DOMAIN records, NEW c \in DOMAIN pipeline.mapping
      PROVE  records[i] \in Documents /\ pipeline.mapping[c] \in Seq(Names)
  BY <1>1, LoadAssumption DEF IsPipeline
<1>3. ASSUME NEW i \in DOMAIN records PROVE MapRecord(records[i]) = PageRows[i]
  <2>1. ASSUME NEW c \in DOMAIN pipeline.mapping
        PROVE  MapRecord(records[i])[c] = PageRows[i][c]
    BY <1>2, GetByPathIsReference DEF MapRecord, PageRows
  <2> QED
    BY <2>1 DEF MapRecord, PageRows
<1>4. MapRecords.ok => MapRecords.rows = PageRows
  BY <1>3 DEF MapRecords, PageRows
<1>5. ASSUME Blocked PROVE ~MapRecords.ok
  <2>1. PICK i \in DOMAIN records :
               \/ records[i] \in Atoms
               \/ /\ pipeline.strict
                  /\ \E c \in DOMAIN pipeline.mapping : ~Has(records[i], pipeline.mapping[c])
    BY <1>5 DEF Blocked
  <2>2. Unmappable(records[i])
    BY <1>2, <2>1, GetByPathIsReference DEF Unmappable, IsObject
  <2> QED
    BY <2>2 DEF MapRecords
<1> QED
  BY <1>4, <1>5

\* The page is a sequence of rows, one for each record.
LEMMA PageType ==
  ASSUME records \in Inputs, pipeline \in Pipelines
  PROVE  /\ Len(records) \in Nat /\ pipeline.batch \in Nat
         /\ PageRows \in Seq(RowSet) /\ Len(PageRows) = Len(records)
         /\ records = <<>> <=> PageRows = <<>>
<1>1. records \in Seq(Documents) /\ pipeline.batch \in Nat
  BY LoadAssumption DEF IsPipeline
<1>2. Len(records) \in Nat /\ DOMAIN records = 1 .. Len(records)
  BY <1>1
<1>3. DOMAIN PageRows = 1 .. Len(records)
  BY <1>2 DEF PageRows
<1>4. \A i \in 1 .. Len(records) : PageRows[i] \in RowSet
  BY <1>2 DEF RowSet
<1>5. PageRows \in [1 .. Len(records) -> RowSet]
  <2>1. PageRows = [i \in 1 .. Len(records) |-> PageRows[i]]
    BY <1>2 DEF PageRows
  <2> QED
    BY <1>4, <2>1
<1>6. PageRows \in Seq(RowSet)
  BY <1>2, <1>5, SeqDef
<1>7. Len(PageRows) = Len(records)
  BY <1>2, <1>3, <1>6
<1>8. records = <<>> <=> Len(records) = 0
  BY <1>1, EmptySeq
<1>9. PageRows = <<>> <=> Len(PageRows) = 0
  BY <1>6, EmptySeq
<1> QED
  BY <1>1, <1>2, <1>6, <1>7, <1>8, <1>9

\* What the page should become depends on the page and the pipeline alone.
LEMMA PageStays ==
  ASSUME UNCHANGED <<records, pipeline>>
  PROVE  PageRows' = PageRows /\ RowSet' = RowSet /\ MapRecords' = MapRecords
<1>1. PageRows' = PageRows
  BY DEF PageRows
<1>2. RowSet' = RowSet
  BY <1>1 DEF RowSet
<1>3. MapRecords' = MapRecords
  BY DEF MapRecords, MapRecord, Unmappable
<1> QED
  BY <1>1, <1>2, <1>3

-----------------------------------------------------------------------------
(* The invariant: where an attempt is says what it has done.               *)

Countdowns == UNION {BackoffSeconds(retry) : retry \in 0 .. MaxRetries}

\* Past map_records the attempt holds the page's rows; in load there are some.
Staged ==
  /\ pc \in {"reflect", "insert", "commit", "save", "saved"} => MapRecords.ok /\ rows = PageRows
  /\ pc \in {"reflect", "insert", "commit"} => PageRows # <<>> /\ pipeline.batch >= 1

\* The transaction holds the rows of the batches so far, and loaded counts them.
InTransaction ==
  /\ pc = "reflect" => start = 1 /\ loaded = 0
  /\ pc = "insert" =>
       /\ txn \in Seq(RowSet)
       /\ start <= Len(PageRows) /\ Len(txn) = start - 1 /\ loaded = start - 1
       /\ \A i \in 1 .. start - 1 : txn[i] = PageRows[i]
  /\ pc = "commit" => txn = PageRows
  /\ pc \notin {"insert", "commit"} => txn = <<>>
  /\ pc \in {"commit", "save", "saved"} => loaded = Len(PageRows)

\* The table holds whole copies of the page, each the attempt's own or one whose
\* commit went unnoticed; none of a page that cannot be mapped.
InTable ==
  /\ table \in Seq(RowSet)
  /\ table # <<>> => MapRecords.ok
  /\ \E n \in Nat :
       /\ AreCopies(table, n, PageRows)
       /\ PageRows # <<>> =>
            /\ n <= lost + 1
            /\ pc \notin {"save", "saved", "failed"} => n <= lost
            /\ pc \in {"save", "saved"} => n >= 1

LoadInv == TypeOK /\ waits \in Seq(Countdowns) /\ Staged /\ InTransaction /\ InTable

\* A batch continues the page where the transaction's rows end.
LEMMA NextBatch ==
  ASSUME NEW S, NEW page \in Seq(S), NEW t \in Seq(S), NEW s \in 1 .. Len(page),
         NEW e \in s .. Len(page), Len(t) = s - 1, \A i \in 1 .. s - 1 : t[i] = page[i]
  PROVE  /\ Len(SubSeq(page, s, e)) = e - s + 1
         /\ t \o SubSeq(page, s, e) \in Seq(S)
         /\ Len(t \o SubSeq(page, s, e)) = e
         /\ \A i \in 1 .. e : (t \o SubSeq(page, s, e))[i] = page[i]
<1> DEFINE b == SubSeq(page, s, e)
<1>1. Len(page) \in Nat /\ s \in Nat /\ e \in Nat /\ 1 <= s /\ s <= e /\ e <= Len(page)
  OBVIOUS
<1>2. /\ b \in Seq(S) /\ Len(b) = e - s + 1
      /\ \A i \in 1 .. e - s + 1 : b[i] = page[s + i - 1]
  BY <1>1, SubSeqProperties
<1> HIDE DEF b
<1>3. t \o b \in Seq(S) /\ Len(t \o b) = e
  <2>1. t \o b \in Seq(S) /\ Len(t \o b) = Len(t) + Len(b)
    BY <1>2, ConcatProperties
  <2>2. Len(t) + Len(b) = e
    BY <1>1, <1>2
  <2> QED
    BY <2>1, <2>2
<1>4. ASSUME NEW i \in 1 .. e PROVE (t \o b)[i] = page[i]
  <2>1. (t \o b)[i] = IF i <= Len(t) THEN t[i] ELSE b[i - Len(t)]
    BY <1>1, <1>2, ConcatProperties
  <2>2. CASE i <= s - 1
    BY <1>1, <2>1, <2>2
  <2>3. CASE ~(i <= s - 1)
    <3>1. i - (s - 1) \in 1 .. e - s + 1 /\ s + (i - (s - 1)) - 1 = i
      BY <1>1, <2>3
    <3>2. b[i - (s - 1)] = page[i]
      BY <1>2, <3>1
    <3> QED
      BY <1>1, <2>1, <2>3, <3>2
  <2> QED
    BY <2>2, <2>3
<1> QED
  BY <1>2, <1>3, <1>4 DEF b

\* The initial states.
LEMMA LoadInit == Init => LoadInv
<1> SUFFICES ASSUME Init PROVE LoadInv
  OBVIOUS
<1>1. TypeOK /\ waits \in Seq(Countdowns) /\ Staged /\ InTransaction
  BY LoadAssumption DEF Init, TypeOK, Staged, InTransaction
<1>2. AreCopies(table, 0, PageRows)
  <2>1. Len(PageRows) \in Nat
    BY PageType DEF Init
  <2> QED
    BY <2>1 DEF Init, AreCopies
<1>3. InTable
  BY <1>2 DEF Init, InTable
<1> QED
  BY <1>1, <1>3 DEF LoadInv

\* An error ends the attempt: no transaction, and a retry only if one is left and
\* the error is retryable.
LEMMA RaiseEnds ==
  ASSUME LoadInv, NEW category, Raise(category)
  PROVE  /\ pc' \in {"waiting", "failed"} /\ txn' = <<>>
         /\ waits' \in Seq(Countdowns) /\ Len(waits') <= MaxRetries
         /\ ~IsRetryable(category) => pc' = "failed"
<1>1. waits \in Seq(Countdowns) /\ Len(waits) \in Nat /\ Len(waits) <= MaxRetries
  BY DEF LoadInv, TypeOK
<1>2. MaxRetries \in Nat
  BY LoadAssumption
<1>3. CASE IsRetryable(category) /\ RetriesLeft
  <2>1. PICK countdown \in BackoffSeconds(Len(waits)) : waits' = Append(waits, countdown)
    BY <1>3 DEF Raise
  <2>2. Len(waits) < MaxRetries /\ Len(waits) \in 0 .. MaxRetries
    BY <1>1, <1>2, <1>3 DEF RetriesLeft
  <2>3. countdown \in Countdowns
    BY <2>1, <2>2 DEF Countdowns
  <2>4. waits' \in Seq(Countdowns) /\ Len(waits') = Len(waits) + 1
    BY <1>1, <2>1, <2>3, AppendProperties
  <2> QED
    BY <1>1, <1>2, <1>3, <2>2, <2>4 DEF Raise
<1>4. CASE ~(IsRetryable(category) /\ RetriesLeft)
  BY <1>1, <1>4 DEF Raise
<1> QED
  BY <1>3, <1>4

\* The same for whatever a statement of the database raises.
LEMMA DatabaseEnds ==
  ASSUME LoadInv, DatabaseFails
  PROVE  /\ pc' \in {"waiting", "failed"} /\ txn' = <<>>
         /\ waits' \in Seq(Countdowns) /\ Len(waits') <= MaxRetries
  BY RaiseEnds DEF DatabaseFails

\* While the table stays as it is, a copy that was the attempt's own is either
\* still its own or counted as unnoticed.
LEMMA TableKept ==
  ASSUME LoadInv, UNCHANGED <<records, pipeline, table>>, lost' \in Nat, lost <= lost',
         PageRows # <<>> /\ pc \in {"save", "saved", "failed"}
           => pc' \in {"save", "saved", "failed"} \/ lost < lost',
         pc' \in {"save", "saved"} => PageRows = <<>> \/ pc \in {"save", "saved"}
  PROVE  InTable'
<1>1. PageRows' = PageRows /\ RowSet' = RowSet /\ MapRecords' = MapRecords
  BY PageStays
<1>2. lost \in Nat
  BY DEF LoadInv, TypeOK
<1>3. PICK n \in Nat :
       /\ AreCopies(table, n, PageRows)
       /\ PageRows # <<>> =>
            /\ n <= lost + 1
            /\ pc \notin {"save", "saved", "failed"} => n <= lost
            /\ pc \in {"save", "saved"} => n >= 1
  BY DEF LoadInv, InTable
<1>4. AreCopies(table', n, PageRows')
  BY <1>1, <1>3
<1>5. PageRows' # <<>> =>
            /\ n <= lost' + 1
            /\ pc' \notin {"save", "saved", "failed"} => n <= lost'
            /\ pc' \in {"save", "saved"} => n >= 1
  <2> SUFFICES ASSUME PageRows # <<>>
               PROVE  /\ n <= lost' + 1
                      /\ pc' \notin {"save", "saved", "failed"} => n <= lost'
                      /\ pc' \in {"save", "saved"} => n >= 1
    BY <1>1
  <2>1. pc' \in {"save", "saved"} => n >= 1
    BY <1>3
  <2>2. n <= lost + 1 /\ (pc \notin {"save", "saved", "failed"} => n <= lost)
    BY <1>2, <1>3
  <2>3. n <= lost' + 1
    <3>1. \A a, b \in Nat : a <= b /\ n <= a + 1 => n <= b + 1
      OBVIOUS
    <3> QED
      BY <1>2, <2>2, <3>1, Zenon
  <2>4. ASSUME pc' \notin {"save", "saved", "failed"} PROVE n <= lost'
    <3>1. CASE pc \in {"save", "saved", "failed"}
      <4>1. lost < lost'
        BY <2>4, <3>1
      <4> QED
        BY <1>2, <2>2, <4>1
    <3>2. CASE pc \notin {"save", "saved", "failed"}
      <4>1. n <= lost
        BY <2>2, <3>2
      <4> QED
        BY <1>2, <4>1
    <3> QED
      BY <3>1, <3>2
  <2> QED
    BY <2>1, <2>3, <2>4
<1>6. table' \in Seq(RowSet') /\ (table' # <<>> => MapRecords'.ok)
  BY <1>1 DEF LoadInv, InTable
<1> QED
  BY <1>4, <1>5, <1>6 DEF InTable

\* An attempt that has ended owes nothing but the table.
LEMMA AttemptEnded ==
  ASSUME LoadInv, UNCHANGED <<records, pipeline>>, pc' \in {"ready", "waiting", "failed"},
         txn' = <<>>
  PROVE  Staged' /\ InTransaction'
  BY DEF Staged, InTransaction

\* map_records and the head of load.
LEMMA MapKeeps == LoadInv /\ Map => LoadInv'
<1> SUFFICES ASSUME LoadInv, Map PROVE LoadInv'
  OBVIOUS
<1>1. PageRows' = PageRows /\ RowSet' = RowSet /\ MapRecords' = MapRecords
  BY PageStays DEF Map
<1>2. records \in Inputs /\ pipeline \in Pipelines
  BY DEF LoadInv, TypeOK
<1>3. pc \in {"ready", "waiting"} /\ txn = <<>>
  BY DEF Map, LoadInv, InTransaction
<1>4. CASE ~MapRecords.ok /\ Raise("MappingError") /\ UNCHANGED attempt
  <2>1. pc' = "failed" /\ txn' = <<>> /\ waits' \in Seq(Countdowns) /\ Len(waits') <= MaxRetries
    BY <1>4, RaiseEnds DEF IsRetryable
  <2>2. TypeOK' /\ Staged' /\ InTransaction'
    BY <1>4, <2>1, AttemptEnded DEF Map, LoadInv, TypeOK, world, attempt
  <2>3. InTable'
    BY <1>3, <2>1, TableKept DEF Map, LoadInv, TypeOK
  <2> QED
    BY <2>1, <2>2, <2>3 DEF LoadInv
<1>5. CASE MapRecords.ok /\ rows' = MapRecords.rows /\ start' = 1 /\ loaded' = 0
  <2>1. rows' = PageRows
    BY <1>2, <1>5, MapIsReference
  <2>2. CASE rows' = <<>> /\ pc' = "save" /\ UNCHANGED <<error, txn, waits>>
    <3>1. TypeOK' /\ waits' \in Seq(Countdowns)
      BY <1>5, <2>2 DEF Map, LoadInv, TypeOK, world
    <3>2. PageRows = <<>> /\ Len(PageRows) = 0
      BY <2>1, <2>2
    <3>3. Staged' /\ InTransaction'
      BY <1>1, <1>3, <1>5, <2>1, <2>2, <3>2 DEF Staged, InTransaction
    <3>4. InTable'
      BY <1>3, <2>2, <3>2, TableKept DEF Map, LoadInv, TypeOK
    <3> QED
      BY <3>1, <3>3, <3>4 DEF LoadInv
  <2>3. CASE Raise("ConfigurationError")
    <3>1. pc' = "failed" /\ txn' = <<>> /\ waits' \in Seq(Countdowns) /\ Len(waits') <= MaxRetries
      BY <2>3, RaiseEnds DEF IsRetryable
    <3>2. TypeOK' /\ Staged' /\ InTransaction'
      BY <1>5, <3>1, AttemptEnded DEF Map, LoadInv, TypeOK, world
    <3>3. InTable'
      BY <1>3, <3>1, TableKept DEF Map, LoadInv, TypeOK
    <3> QED
      BY <3>1, <3>2, <3>3 DEF LoadInv
  <2>4. CASE /\ rows' # <<>> /\ pipeline.batch >= 1
             /\ pc' = "reflect" /\ UNCHANGED <<error, txn, waits>>
    <3>1. TypeOK' /\ waits' \in Seq(Countdowns)
      BY <1>5, <2>4 DEF Map, LoadInv, TypeOK, world
    <3>2. Staged' /\ InTransaction'
      BY <1>1, <1>3, <1>5, <2>1, <2>4 DEF Map, Staged, InTransaction
    <3>3. InTable'
      BY <1>3, <2>4, TableKept DEF Map, LoadInv, TypeOK
    <3> QED
      BY <3>1, <3>2, <3>3 DEF LoadInv
  <2> QED
    BY <1>3, <1>5, <2>2, <2>3, <2>4 DEF Map
<1> QED
  BY <1>4, <1>5 DEF Map

\* A failing statement of the database, the commit apart.
LEMMA FailureKeeps ==
  ASSUME LoadInv, DatabaseFails \/ Raise("SchemaMismatchError") \/ Raise("IntegrityError"),
         pc \notin {"save", "saved", "failed"},
         UNCHANGED <<records, pipeline, world, table, attempt, crashes, lost>>
  PROVE  LoadInv'
<1>1. /\ pc' \in {"waiting", "failed"} /\ txn' = <<>>
      /\ waits' \in Seq(Countdowns) /\ Len(waits') <= MaxRetries
  BY DatabaseEnds, RaiseEnds
<1>2. TypeOK' /\ Staged' /\ InTransaction'
  BY <1>1, AttemptEnded DEF LoadInv, TypeOK, world, attempt
<1>3. lost' \in Nat /\ lost <= lost'
  BY DEF LoadInv, TypeOK
<1>4. InTable'
  BY <1>1, <1>3, TableKept
<1> QED
  BY <1>1, <1>2, <1>4 DEF LoadInv

\* _reflect_table and _validate_columns: the first batch starts with the first
\* row.
LEMMA ReflectKeeps == LoadInv /\ Reflect => LoadInv'
<1> SUFFICES ASSUME LoadInv, Reflect PROVE LoadInv'
  OBVIOUS
<1>1. CASE DatabaseFails \/ Raise("SchemaMismatchError")
  BY <1>1, FailureKeeps DEF Reflect
<1>2. CASE Fits(rows) /\ pc' = "insert" /\ UNCHANGED <<error, txn, waits>>
  <2>1. PageRows' = PageRows /\ RowSet' = RowSet /\ MapRecords' = MapRecords
    BY PageStays DEF Reflect
  <2>2. TypeOK' /\ waits' \in Seq(Countdowns) /\ Staged'
    BY <1>2, <2>1 DEF Reflect, LoadInv, TypeOK, Staged, world, attempt
  <2>3. txn' = <<>> /\ start' = 1 /\ loaded' = 0
    BY <1>2 DEF Reflect, LoadInv, InTransaction, attempt
  <2>4. 1 <= Len(PageRows)
    <3>1. PageRows \in Seq(RowSet) /\ PageRows # <<>>
      BY PageType DEF Reflect, LoadInv, TypeOK, Staged
    <3> QED
      BY <3>1, EmptySeq
  <2>5. InTransaction'
    BY <1>2, <2>1, <2>3, <2>4 DEF InTransaction
  <2>6. InTable'
    BY <1>2, TableKept DEF Reflect, LoadInv, TypeOK
  <2> QED
    BY <2>2, <2>5, <2>6 DEF LoadInv
<1> QED
  BY <1>1, <1>2 DEF Reflect

\* One batch: the transaction's rows go on where they ended, and after the last
\* batch they are the page.
LEMMA InsertKeeps == LoadInv /\ Insert => LoadInv'
<1> SUFFICES ASSUME LoadInv, Insert PROVE LoadInv'
  OBVIOUS
<1>1. CASE /\ DatabaseFails \/ (Fits(Batch) /\ ~Sound(Batch) /\ Raise("IntegrityError"))
           /\ UNCHANGED <<attempt, table>>
  BY <1>1, FailureKeeps DEF Insert
<1>2. CASE /\ Write(Batch)
           /\ loaded' = loaded + Count(Batch)
           /\ start' = start + pipeline.batch
           /\ pc' = IF start' > Len(rows) THEN "commit" ELSE "insert"
           /\ UNCHANGED <<rows, error, waits>>
  <2>1. PageRows' = PageRows /\ RowSet' = RowSet /\ MapRecords' = MapRecords
    BY PageStays DEF Insert
  <2>2. /\ PageRows \in Seq(RowSet) /\ Len(PageRows) \in Nat
        /\ pipeline.batch \in Nat /\ pipeline.batch >= 1
        /\ rows = PageRows /\ PageRows # <<>> /\ MapRecords.ok
    BY PageType DEF Insert, LoadInv, TypeOK, Staged
  <2>3. /\ txn \in Seq(RowSet) /\ start \in 1 .. Len(PageRows)
        /\ Len(txn) = start - 1 /\ loaded = start - 1
        /\ \A i \in 1 .. start - 1 : txn[i] = PageRows[i]
    BY <2>2 DEF Insert, LoadInv, TypeOK, InTransaction
  <2>4. PICK s : s = start
    OBVIOUS
  <2>5. PICK e : e = IF start + pipeline.batch > Len(PageRows) THEN Len(PageRows)
                     ELSE start + pipeline.batch - 1
    OBVIOUS
  <2>6. e \in s .. Len(PageRows) /\ s \in 1 .. Len(PageRows)
    BY <2>2, <2>3, <2>4, <2>5
  <2>7. Batch = SubSeq(PageRows, s, e)
    BY <2>2, <2>4, <2>5 DEF Batch
  <2>8. /\ Len(Batch) = e - s + 1 /\ txn \o Batch \in Seq(RowSet) /\ Len(txn \o Batch) = e
        /\ \A i \in 1 .. e : (txn \o Batch)[i] = PageRows[i]
    <3>1. PICK page \in Seq(RowSet), t \in Seq(RowSet) : page = PageRows /\ t = txn
      BY <2>2, <2>3
    <3>2. Len(t) = s - 1 /\ (\A i \in 1 .. s - 1 : t[i] = page[i])
      BY <2>3, <2>4, <3>1
    <3>3. e \in s .. Len(page) /\ s \in 1 .. Len(page)
      BY <2>6, <3>1
    <3>4. /\ Len(SubSeq(page, s, e)) = e - s + 1
          /\ t \o SubSeq(page, s, e) \in Seq(RowSet)
          /\ Len(t \o SubSeq(page, s, e)) = e
          /\ \A i \in 1 .. e : (t \o SubSeq(page, s, e))[i] = page[i]
      BY <3>2, <3>3, NextBatch
    <3> QED
      BY <2>7, <3>1, <3>4
  <2>9. txn' = txn \o Batch /\ table' = table /\ loaded' = e
    BY <1>2, <2>3, <2>4, <2>6, <2>8 DEF Write, Count
  <2>10. start' \in Nat \ {0} /\ loaded' \in Nat /\ pc' \in {"insert", "commit"}
    BY <1>2, <2>2, <2>3, <2>6, <2>9
  <2>11. TypeOK' /\ waits' \in Seq(Countdowns) /\ Staged'
    BY <1>2, <2>1, <2>2, <2>10 DEF Insert, LoadInv, TypeOK, Staged, world
  <2>12. InTable'
    BY <2>9, <2>10, TableKept DEF Insert, LoadInv, TypeOK
  <2>13. CASE start + pipeline.batch > Len(PageRows)
    <3>1. e = Len(PageRows) /\ pc' = "commit"
      BY <1>2, <2>2, <2>5, <2>13
    <3>2. txn' = PageRows
      BY <2>2, <2>8, <2>9, <3>1, SeqEqual
    <3>3. InTransaction'
      BY <2>1, <2>9, <3>1, <3>2 DEF InTransaction
    <3> QED
      BY <2>11, <2>12, <3>3 DEF LoadInv
  <2>14. CASE ~(start + pipeline.batch > Len(PageRows))
    <3>1. e = start' - 1 /\ pc' = "insert" /\ start' <= Len(PageRows)
      BY <1>2, <2>2, <2>3, <2>5, <2>14
    <3>2. InTransaction'
      BY <2>1, <2>8, <2>9, <3>1 DEF InTransaction
    <3> QED
      BY <2>11, <2>12, <3>2 DEF LoadInv
  <2> QED
    BY <2>13, <2>14
<1> QED
  BY <1>1, <1>2 DEF Insert

\* A commit that takes effect adds one copy: the attempt's own when it is
\* confirmed, an unnoticed one when it is not.
LEMMA CommitAdds ==
  ASSUME LoadInv, pc = "commit", UNCHANGED <<records, pipeline>>,
         table' = table \o txn, lost' \in Nat,
         \/ pc' = "save" /\ lost' = lost
         \/ pc' \in {"waiting", "failed"} /\ lost' = lost + 1
  PROVE  InTable'
<1>1. PageRows' = PageRows /\ RowSet' = RowSet /\ MapRecords' = MapRecords
  BY PageStays
<1>2. lost \in Nat /\ txn = PageRows /\ PageRows # <<>> /\ MapRecords.ok /\ table \in Seq(RowSet)
  BY DEF LoadInv, TypeOK, InTransaction, Staged, InTable
<1>3. PageRows \in Seq(RowSet)
  BY PageType DEF LoadInv, TypeOK
<1>4. PICK n \in Nat : AreCopies(table, n, PageRows) /\ n <= lost
  BY <1>2 DEF LoadInv, InTable
<1>5. table' \in Seq(RowSet) /\ AreCopies(table', n + 1, PageRows)
  <2>1. PICK page \in Seq(RowSet), t \in Seq(RowSet) : page = PageRows /\ t = table
    BY <1>2, <1>3
  <2>2. t \o page \in Seq(RowSet) /\ AreCopies(t \o page, n + 1, page)
    BY <1>2, <1>4, <2>1, OneMoreCopy
  <2> QED
    BY <1>2, <2>1, <2>2
<1>6. n + 1 <= lost' + 1 /\ (pc' # "save" => n + 1 <= lost') /\ n + 1 >= 1 /\ n + 1 \in Nat
  <2>1. PICK a \in Nat, b \in Nat : a = lost /\ b = lost'
    BY <1>2
  <2>2. a <= b /\ (pc' # "save" => b = a + 1) /\ n <= a
    BY <1>4, <2>1
  <2>3. n + 1 <= b + 1 /\ (b = a + 1 => n + 1 <= b) /\ n + 1 >= 1 /\ n + 1 \in Nat
    BY <2>2
  <2> QED
    BY <2>1, <2>2, <2>3
<1>7. pc' \in {"save", "waiting", "failed"}
  OBVIOUS
<1>8. PICK m \in Nat : m = n + 1
  BY <1>6
<1>9. /\ AreCopies(table', m, PageRows') /\ m <= lost' + 1
      /\ pc' \notin {"save", "saved", "failed"} => m <= lost'
      /\ pc' \in {"save", "saved"} => m >= 1
  BY <1>1, <1>5, <1>6, <1>7, <1>8
<1> QED
  BY <1>1, <1>2, <1>5, <1>9 DEF InTable

\* The end of the transaction: confirmed, failed, or in doubt.
LEMMA CommitKeeps == LoadInv /\ Commit => LoadInv'
<1> SUFFICES ASSUME LoadInv, Commit PROVE LoadInv'
  OBVIOUS
<1>1. PageRows' = PageRows /\ RowSet' = RowSet /\ MapRecords' = MapRecords
  BY PageStays DEF Commit
<1>2. lost \in Nat /\ pc = "commit"
  BY DEF LoadInv, TypeOK, Commit
<1>3. CASE DatabaseFails /\ UNCHANGED <<table, lost>>
  BY <1>2, <1>3, FailureKeeps DEF Commit
<1>4. CASE table' = table \o txn /\ txn' = <<>> /\ pc' = "save" /\ UNCHANGED <<error, waits, lost>>
  <2>1. InTable'
    BY <1>2, <1>4, CommitAdds DEF Commit
  <2>2. TypeOK' /\ waits' \in Seq(Countdowns) /\ Staged' /\ InTransaction'
    BY <1>1, <1>2, <1>4 DEF Commit, LoadInv, TypeOK, Staged, InTransaction, world, attempt
  <2> QED
    BY <2>1, <2>2 DEF LoadInv
<1>5. CASE DatabaseFails /\ table' = table \o txn /\ lost' = lost + 1
  <2>1. /\ pc' \in {"waiting", "failed"} /\ txn' = <<>>
        /\ waits' \in Seq(Countdowns) /\ Len(waits') <= MaxRetries
    BY <1>5, DatabaseEnds
  <2>2. lost' \in Nat
    BY <1>2, <1>5
  <2>3. TypeOK' /\ Staged' /\ InTransaction'
    BY <2>1, <2>2, AttemptEnded DEF Commit, LoadInv, TypeOK, world, attempt
  <2>4. InTable'
    BY <1>2, <1>5, <2>1, <2>2, CommitAdds DEF Commit
  <2> QED
    BY <2>1, <2>3, <2>4 DEF LoadInv
<1> QED
  BY <1>3, <1>4, <1>5 DEF Commit

\* The saved progress: the attempt's copy stays its own, recorded or given up.
LEMMA SaveKeeps == LoadInv /\ Save => LoadInv'
<1> SUFFICES ASSUME LoadInv, Save PROVE LoadInv'
  OBVIOUS
<1>1. PageRows' = PageRows /\ RowSet' = RowSet /\ MapRecords' = MapRecords
  BY PageStays DEF Save
<1>2. lost' \in Nat /\ lost <= lost' /\ pc = "save"
  BY DEF LoadInv, TypeOK, Save
<1>3. CASE pc' = "saved" /\ UNCHANGED <<error, txn, waits>>
  <2>1. TypeOK' /\ waits' \in Seq(Countdowns) /\ Staged' /\ InTransaction'
    BY <1>1, <1>2, <1>3 DEF Save, LoadInv, TypeOK, Staged, InTransaction, world, attempt
  <2>2. InTable'
    BY <1>2, <1>3, TableKept DEF Save
  <2> QED
    BY <2>1, <2>2 DEF LoadInv
<1>4. CASE Raise("UnexpectedError")
  <2>1. pc' = "failed" /\ txn' = <<>> /\ waits' \in Seq(Countdowns) /\ Len(waits') <= MaxRetries
    BY <1>4, RaiseEnds DEF IsRetryable
  <2>2. TypeOK' /\ Staged' /\ InTransaction'
    BY <1>2, <2>1, AttemptEnded DEF Save, LoadInv, TypeOK, world, attempt
  <2>3. InTable'
    BY <1>2, <2>1, TableKept DEF Save
  <2> QED
    BY <2>1, <2>2, <2>3 DEF LoadInv
<1> QED
  BY <1>3, <1>4 DEF Save

\* A worker that dies before it saved takes the knowledge of its commit along.
LEMMA CrashKeeps == LoadInv /\ Crash => LoadInv'
<1> SUFFICES ASSUME LoadInv, Crash PROVE LoadInv'
  OBVIOUS
<1>1. lost \in Nat /\ lost' \in Nat /\ lost <= lost'
  BY DEF LoadInv, TypeOK, Crash
<1>2. pc \notin {"saved", "failed"} /\ pc' = "ready" /\ txn' = <<>>
  BY DEF Crash, Unacknowledged
<1>3. TypeOK' /\ waits' \in Seq(Countdowns) /\ Staged' /\ InTransaction'
  BY <1>1, <1>2, AttemptEnded DEF Crash, LoadInv, TypeOK, world
<1>4. PageRows # <<>> /\ pc = "save" => lost < lost'
  BY <1>1 DEF Crash, LoadInv, Staged
<1>5. InTable'
  BY <1>1, <1>2, <1>4, TableKept DEF Crash
<1> QED
  BY <1>3, <1>5 DEF LoadInv

\* The table's owner changes its columns, not its rows.
LEMMA AlterKeeps == LoadInv /\ Alter => LoadInv'
<1> SUFFICES ASSUME LoadInv, Alter PROVE LoadInv'
  OBVIOUS
<1>1. PageRows' = PageRows /\ RowSet' = RowSet /\ MapRecords' = MapRecords
  BY PageStays DEF Alter
<1>2. lost' \in Nat /\ lost <= lost'
  BY DEF LoadInv, TypeOK, Alter
<1>3. TypeOK' /\ waits' \in Seq(Countdowns) /\ Staged' /\ InTransaction'
  BY <1>1 DEF Alter, LoadInv, TypeOK, Staged, InTransaction, attempt
<1>4. InTable'
  BY <1>2, TableKept DEF Alter
<1> QED
  BY <1>3, <1>4 DEF LoadInv

\* Nothing happens.
LEMMA StutterKeeps == LoadInv /\ UNCHANGED vars => LoadInv'
<1> SUFFICES ASSUME LoadInv, UNCHANGED vars PROVE LoadInv'
  OBVIOUS
<1>1. PageRows' = PageRows /\ RowSet' = RowSet /\ MapRecords' = MapRecords
  BY PageStays DEF vars
<1>2. lost' \in Nat /\ lost <= lost'
  BY DEF LoadInv, TypeOK, vars
<1>3. TypeOK' /\ waits' \in Seq(Countdowns) /\ Staged' /\ InTransaction'
  BY <1>1 DEF vars, LoadInv, TypeOK, Staged, InTransaction, attempt, world
<1>4. InTable'
  BY <1>2, TableKept DEF vars
<1> QED
  BY <1>3, <1>4 DEF LoadInv

\* The invariant holds in every reachable state.
LEMMA LoadInvariant == Spec => []LoadInv
<1>1. LoadInv /\ [Next]_vars => LoadInv'
  BY MapKeeps, ReflectKeeps, InsertKeeps, CommitKeeps, SaveKeeps, CrashKeeps, AlterKeeps,
     StutterKeeps DEF Next, Progress
<1> QED
  BY <1>1, LoadInit, PTL DEF Spec

-----------------------------------------------------------------------------
(* Theorems.                                                               *)

\* The attempt, its retries and the page are always well typed.
THEOREM LoadTypeCorrect == Spec => []TypeOK
<1>1. LoadInv => TypeOK
  BY DEF LoadInv
<1> QED
  BY <1>1, LoadInvariant, PTL

\* Copies counts the copies the invariant speaks of.
LEMMA CopiesAre ==
  ASSUME LoadInv
  PROVE  /\ Copies \in Nat /\ AreCopies(table, Copies, PageRows) /\ Copies <= 1 + lost
         /\ pc \in {"save", "saved"} /\ records # <<>> => Copies >= 1
<1>1. /\ PageRows \in Seq(RowSet) /\ Len(PageRows) = Len(records) /\ Len(records) \in Nat
      /\ records = <<>> <=> PageRows = <<>>
  BY PageType DEF LoadInv, TypeOK
<1>2. PICK n \in Nat :
       /\ AreCopies(table, n, PageRows)
       /\ PageRows # <<>> =>
            /\ n <= lost + 1
            /\ pc \in {"save", "saved"} => n >= 1
  BY DEF LoadInv, InTable
<1>3. lost \in Nat
  BY DEF LoadInv, TypeOK
<1>4. CASE records = <<>>
  <2>1. Copies = 0 /\ Len(PageRows) = 0
    BY <1>1, <1>4 DEF Copies
  <2>2. Len(table) = 0
    BY <1>2, <2>1 DEF AreCopies
  <2>3. AreCopies(table, 0, PageRows)
    BY <2>1, <2>2 DEF AreCopies
  <2> QED
    BY <1>3, <1>4, <2>1, <2>3
<1>5. CASE records # <<>>
  <2>1. Copies = n
    <3>1. PICK page \in Seq(RowSet) : page = PageRows
      BY <1>1
    <3>2. Len(table) \div Len(page) = n
      BY <1>1, <1>2, <1>5, <3>1, CopiesCounted
    <3> QED
      BY <1>1, <1>5, <3>1, <3>2 DEF Copies
  <2> QED
    BY <1>1, <1>2, <1>3, <1>5, <2>1
<1> QED
  BY <1>4, <1>5

\* Whatever fails in whichever batch, is retried, crashes or is altered, the
\* destination holds whole copies of the page, each the mapping of its records
\* as the reference defines it (engine.begin around the batch loop).
THEOREM PagesAreWhole == Spec => []WholePages
<1>1. ASSUME LoadInv PROVE WholePages
  <2>1. AreCopies(table, Copies, PageRows) /\ Len(PageRows) = Len(records) /\ table \in Seq(RowSet)
    BY <1>1, CopiesAre, PageType DEF LoadInv, TypeOK, InTable
  <2>2. DOMAIN table = 1 .. Len(table)
    BY <2>1
  <2> QED
    BY <2>1, <2>2 DEF WholePages, AreCopies
<1> QED
  BY <1>1, LoadInvariant, PTL

\* There is a second copy only for a commit the code never learnt of: no retry of
\* run_pipeline_task duplicates rows otherwise.
THEOREM DuplicatesAreExplained == Spec => []DuplicatesExplained
<1>1. LoadInv => DuplicatesExplained
  BY CopiesAre DEF DuplicatesExplained
<1> QED
  BY <1>1, LoadInvariant, PTL

\* One record that map_record refuses keeps the page out, on every attempt.
THEOREM BadRecordsBlockPages == Spec => []BadRecordBlocksPage
<1>1. ASSUME LoadInv PROVE BadRecordBlocksPage
  <2>1. Blocked => ~MapRecords.ok
    BY <1>1, MapIsReference DEF LoadInv, TypeOK
  <2>2. (table # <<>> => MapRecords.ok) /\ (pc \in {"save", "saved"} => MapRecords.ok)
    BY <1>1 DEF LoadInv, InTable, Staged
  <2> QED
    BY <2>1, <2>2 DEF BadRecordBlocksPage, Blocked
<1> QED
  BY <1>1, LoadInvariant, PTL

\* What load returns is the number of the page's records, and their rows are there.
THEOREM CountsAreHonest == Spec => []CountIsHonest
<1>1. ASSUME LoadInv PROVE CountIsHonest
  <2>1. pc \in {"save", "saved"} => loaded = Len(records)
    BY <1>1, PageType DEF LoadInv, TypeOK, InTransaction
  <2> QED
    BY <1>1, <2>1, CopiesAre DEF CountIsHonest
<1> QED
  BY <1>1, LoadInvariant, PTL

\* load is atomic for the run that calls it: every step of mapping, batches,
\* transaction, retries and crashes is a step of AtomicLoad or invisible.  (The
\* safety part of ImplementsAtomicLoad.)
THEOREM LoadIsAtomic == Spec => Atomic!Safety
<1>1. Init => Atomic!Init
  BY DEF Init, Atomic!Init, Status
<1>2. ASSUME LoadInv, [Next]_vars PROVE [Atomic!Next]_(Atomic!loadVars)
  <2>1. CASE UNCHANGED vars
    BY <2>1, PageStays DEF vars, Atomic!loadVars, Status
  <2>2. CASE Next
    <3>1. PageRows' = PageRows
      BY <2>2, PageStays DEF Next, Progress, Map, Reflect, Insert, Commit, Save, Crash, Alter
    <3>2. pc \in {"ready", "waiting", "reflect", "insert", "commit", "save", "saved", "failed"}
      BY <1>2 DEF LoadInv, TypeOK
    <3>3. table \in Seq(RowSet)
      BY <1>2 DEF LoadInv, InTable
    <3>4. CASE Map
      <4>1. Status = "trying" /\ table' = table
        BY <3>4 DEF Map, Status
      <4>2. CASE pc' \in {"reflect", "waiting"}
        BY <3>1, <4>1, <4>2 DEF Status, Atomic!loadVars
      <4>3. CASE pc' = "failed"
        BY <3>1, <4>1, <4>3 DEF Status, Atomic!Next, Atomic!Fail
      <4>4. CASE pc' = "save"
        <5>1. rows' = PageRows /\ rows' = <<>>
          BY <1>2, <3>4, <4>4, MapIsReference DEF Map, LoadInv, TypeOK, Raise
        <5>2. table' = table \o PageRows
          BY <3>3, <4>1, <5>1, ConcatEmptySeq
        <5> QED
          BY <3>1, <4>1, <4>4, <5>2 DEF Status, Atomic!Next, Atomic!Load
      <4> QED
        BY <3>4, <4>2, <4>3, <4>4 DEF Map, Raise
    <3>5. CASE Reflect
      <4>1. Status = "trying" /\ table' = table /\ pc' \in {"insert", "waiting", "failed"}
        BY <3>5 DEF Reflect, Status, DatabaseFails, Raise
      <4>2. pc' = "failed" => Atomic!Fail
        BY <3>1, <4>1 DEF Status, Atomic!Fail
      <4>3. pc' # "failed" => UNCHANGED Atomic!loadVars
        BY <3>1, <4>1 DEF Status, Atomic!loadVars
      <4> QED
        BY <4>2, <4>3 DEF Atomic!Next
    <3>6. CASE Insert
      <4>1. Status = "trying" /\ table' = table /\ pc' \in {"insert", "commit", "waiting", "failed"}
        BY <3>6 DEF Insert, Status, DatabaseFails, Raise, Write
      <4>2. pc' = "failed" => Atomic!Fail
        BY <3>1, <4>1 DEF Status, Atomic!Fail
      <4>3. pc' # "failed" => UNCHANGED Atomic!loadVars
        BY <3>1, <4>1 DEF Status, Atomic!loadVars
      <4> QED
        BY <4>2, <4>3 DEF Atomic!Next
    <3>7. CASE Commit
      <4>1. Status = "trying" /\ txn = PageRows
        BY <1>2, <3>7 DEF Commit, Status, LoadInv, InTransaction
      <4>2. CASE table' = table \o txn /\ pc' = "save"
        BY <3>1, <4>1, <4>2 DEF Status, Atomic!Next, Atomic!Load
      <4>3. CASE table' = table /\ pc' \in {"waiting", "failed"}
        <5>1. pc' = "failed" => Atomic!Fail
          BY <3>1, <4>1, <4>3 DEF Status, Atomic!Fail
        <5>2. pc' # "failed" => UNCHANGED Atomic!loadVars
          BY <3>1, <4>1, <4>3 DEF Status, Atomic!loadVars
        <5> QED
          BY <5>1, <5>2 DEF Atomic!Next
      <4>4. CASE table' = table \o txn /\ pc' \in {"waiting", "failed"}
        BY <3>1, <4>1, <4>4 DEF Status, Atomic!Next, Atomic!LoadInDoubt
      <4> QED
        BY <3>7, <4>2, <4>3, <4>4 DEF Commit, DatabaseFails, Raise
    <3>8. CASE Save
      <4>1. Status = "committed" /\ table' = table /\ pc' \in {"saved", "failed"}
        BY <3>8 DEF Save, Status, Raise, IsRetryable
      <4> QED
        BY <3>1, <4>1 DEF Status, Atomic!Next, Atomic!Save, Atomic!Fail
    <3>9. CASE Crash
      <4>1. table' = table /\ pc' = "ready" /\ pc \notin {"saved", "failed"}
        BY <3>9 DEF Crash, Unacknowledged
      <4>2. pc = "save" => Atomic!Forget
        BY <3>1, <4>1 DEF Status, Atomic!Forget
      <4>3. pc # "save" => UNCHANGED Atomic!loadVars
        BY <3>1, <4>1 DEF Status, Atomic!loadVars
      <4> QED
        BY <4>2, <4>3 DEF Atomic!Next
    <3>10. CASE Alter
      BY <3>1, <3>10 DEF Alter, Status, Atomic!loadVars
    <3> QED
      BY <2>2, <3>4, <3>5, <3>6, <3>7, <3>8, <3>9, <3>10 DEF Next, Progress
  <2> QED
    BY <1>2, <2>1, <2>2
<1> QED
  BY <1>1, <1>2, LoadInvariant, PTL DEF Spec, Atomic!Safety

-----------------------------------------------------------------------------
(* Backoff.                                                                *)

\* What exponentiation to the base 2 is.  The provers know nothing of ^, so the
\* theorem below has this fact of arithmetic as its hypothesis.
PowersOfTwo == 2^0 = 1 /\ \A n \in Nat : 2^(n + 1) = 2 * 2^n

\* A power of two is a positive number.
LEMMA PowersArePositive ==
  ASSUME PowersOfTwo
  PROVE  \A n \in Nat : 2^n \in Nat \ {0}
<1> DEFINE S == {n \in Nat : 2^n \in Nat \ {0}}
<1>1. 0 \in S
  BY DEF PowersOfTwo
<1>2. ASSUME NEW n \in Nat, n \in S PROVE n + 1 \in S
  <2>1. PICK p \in Nat \ {0} : p = 2^n
    BY <1>2
  <2>2. 2^(n + 1) = 2 * p
    BY <2>1 DEF PowersOfTwo
  <2>3. 2 * p \in Nat \ {0}
    OBVIOUS
  <2> QED
    BY <2>2, <2>3
<1> HIDE DEF S
<1>3. \A n \in Nat : n \in S
  BY <1>1, <1>2, Counting
<1> QED
  BY <1>3 DEF S

\* Every later power is at least twice as large.
LEMMA PowersGrow ==
  ASSUME PowersOfTwo, NEW n \in Nat
  PROVE  \A k \in Nat : 2^(n + 1 + k) >= 2 * 2^n
<1>1. \A m \in Nat : 2^m \in Nat \ {0}
  BY PowersArePositive
<1> DEFINE S == {k \in Nat : 2^(n + 1 + k) >= 2 * 2^n}
<1>2. 0 \in S
  <2>1. 2^(n + 1) = 2 * 2^n /\ n + 1 + 0 = n + 1 /\ 2 * 2^n \in Int
    BY <1>1 DEF PowersOfTwo
  <2> QED
    BY <2>1
<1>3. ASSUME NEW k \in Nat, k \in S PROVE k + 1 \in S
  <2>1. n + 1 + (k + 1) = (n + 1 + k) + 1 /\ n + 1 + k \in Nat
    OBVIOUS
  <2>2. PICK p \in Nat, q \in Nat : p = 2^(n + 1 + k) /\ q = 2^n
    BY <1>1, <2>1
  <2>3. 2^(n + 1 + (k + 1)) = 2 * p
    BY <2>1, <2>2 DEF PowersOfTwo
  <2>4. p >= 2 * q
    BY <1>3, <2>2
  <2>5. 2 * p >= 2 * q
    BY <2>4
  <2> QED
    BY <2>2, <2>3, <2>5
<1> HIDE DEF S
<1>4. \A k \in Nat : k \in S
  BY <1>2, <1>3, Counting
<1> QED
  BY <1>4 DEF S

\* The delays of compute_backoff_seconds are between the base and the cap, and
\* double until they reach it.
LEMMA Delays ==
  ASSUME PowersOfTwo, NEW r \in Nat
  PROVE  /\ Exponential(r) \in Nat /\ Base <= Exponential(r) /\ Exponential(r) <= Cap
         /\ \A s \in Nat : r < s =>
              2 * Exponential(r) <= Exponential(s) \/ Exponential(s) = Cap
<1>1. \A n \in Nat : 2^n \in Nat \ {0}
  BY PowersArePositive
<1>2. Base \in Nat \ {0} /\ Cap \in Nat /\ Base <= Cap
  BY LoadAssumption
<1>3. PICK p \in Nat \ {0} : p = 2^r
  BY <1>1
<1>4. Base * p \in Nat /\ Base <= Base * p
  BY <1>2
<1>5. Exponential(r) = IF Base * p < Cap THEN Base * p ELSE Cap
  BY <1>3 DEF Exponential
<1>6. Exponential(r) \in Nat /\ Base <= Exponential(r) /\ Exponential(r) <= Cap
  BY <1>2, <1>4, <1>5
<1>7. ASSUME NEW s \in Nat, r < s
      PROVE  2 * Exponential(r) <= Exponential(s) \/ Exponential(s) = Cap
  <2>1. PICK q \in Nat \ {0} : q = 2^s
    BY <1>1
  <2>2. q >= 2 * p
    <3>1. s - r - 1 \in Nat /\ r + 1 + (s - r - 1) = s
      BY <1>7
    <3>2. 2^(r + 1 + (s - r - 1)) >= 2 * 2^r
      BY <3>1, PowersGrow
    <3> QED
      BY <1>3, <2>1, <3>1, <3>2
  <2>3. Base * q >= Base * (2 * p) /\ Base * (2 * p) = 2 * (Base * p) /\ Base * q \in Nat
    BY <1>2, <2>2
  <2>4. Exponential(s) = IF Base * q < Cap THEN Base * q ELSE Cap
    BY <2>1 DEF Exponential
  <2>5. PICK a \in Nat, b \in Nat : a = Base * p /\ b = Base * q
    BY <1>4, <2>3
  <2> QED
    BY <1>2, <1>5, <2>3, <2>4, <2>5
<1> QED
  BY <1>6, <1>7

\* The i-th wait is one of the delays of retry i - 1.
WaitInv == LoadInv /\ \A i \in 1 .. Len(waits) : waits[i] \in BackoffSeconds(i - 1)

\* A retry's wait is computed from the number of waits before it.
LEMMA WaitsAppended ==
  ASSUME WaitInv, NEW category, Raise(category)
  PROVE  (\A i \in 1 .. Len(waits) : waits[i] \in BackoffSeconds(i - 1))'
<1>1. waits \in Seq(Countdowns) /\ Len(waits) \in Nat
  BY DEF WaitInv, LoadInv
<1>2. CASE UNCHANGED waits
  BY <1>2 DEF WaitInv
<1>3. CASE Len(waits) < MaxRetries /\
           \E countdown \in BackoffSeconds(Len(waits)) : waits' = Append(waits, countdown)
  <2>1. PICK countdown \in BackoffSeconds(Len(waits)) : waits' = Append(waits, countdown)
    BY <1>3
  <2>2. countdown \in Countdowns
    <3>1. Len(waits) \in 0 .. MaxRetries
      BY <1>1, <1>3, LoadAssumption
    <3> QED
      BY <3>1 DEF Countdowns
  <2>3. /\ Len(waits') = Len(waits) + 1 /\ waits'[Len(waits) + 1] = countdown
        /\ \A i \in 1 .. Len(waits) : waits'[i] = waits[i]
    BY <1>1, <2>1, <2>2, AppendProperties
  <2>4. ASSUME NEW i \in 1 .. Len(waits') PROVE waits'[i] \in BackoffSeconds(i - 1)
    <3>1. CASE i = Len(waits) + 1
      <4>1. i - 1 = Len(waits)
        BY <1>1, <3>1
      <4> QED
        BY <2>1, <2>3, <3>1, <4>1
    <3>2. CASE i # Len(waits) + 1
      <4>1. i \in 1 .. Len(waits)
        BY <1>1, <2>3, <3>2
      <4> QED
        BY <2>3, <4>1 DEF WaitInv
    <3> QED
      BY <3>1, <3>2
  <2> QED
    BY <2>4
<1> QED
  BY <1>2, <1>3 DEF Raise, RetriesLeft

\* Each retry waits longer than the one before until the cap is reached, whatever
\* the jitter, and none exceeds the cap by more than the jitter
\* (compute_backoff_seconds, and a retry counter that counts retries).
THEOREM BackoffIsBounded ==
  ASSUME PowersOfTwo
  PROVE  Spec => []BackoffGrows
<1>1. Init => WaitInv
  BY LoadInit DEF Init, WaitInv
<1>2. WaitInv /\ LoadInv' /\ [Next]_vars => WaitInv'
  <2> SUFFICES ASSUME WaitInv, LoadInv', [Next]_vars PROVE WaitInv'
    OBVIOUS
  <2>1. CASE UNCHANGED waits
    BY <2>1 DEF WaitInv
  <2>2. CASE \E category : Raise(category)
    BY <2>2, WaitsAppended DEF WaitInv
  <2> QED
    BY <2>1, <2>2 DEF Next, Progress, Map, Reflect, Insert, Commit, Save, Crash, Alter,
                      DatabaseFails, vars
<1>3. ASSUME WaitInv PROVE BackoffGrows
  <2>1. waits \in Seq(Countdowns) /\ DOMAIN waits = 1 .. Len(waits) /\ Len(waits) \in Nat
    BY <1>3 DEF WaitInv, LoadInv
  <2>2. Base \in Nat \ {0} /\ Cap \in Nat /\ Base <= Cap
    BY LoadAssumption
  <2>3. ASSUME NEW i \in 1 .. Len(waits)
        PROVE  \E e \in Nat : /\ e = Exponential(i - 1) /\ Base <= e /\ e <= Cap
                              /\ waits[i] \in {e, e + e \div 4}
    <3>1. i - 1 \in Nat /\ waits[i] \in BackoffSeconds(i - 1)
      BY <1>3, <2>1 DEF WaitInv
    <3> QED
      BY <3>1, Delays DEF BackoffSeconds
  <2>4. ASSUME NEW i \in DOMAIN waits PROVE waits[i] >= Base /\ 4 * waits[i] <= 5 * Cap
    <3>1. PICK e \in Nat : /\ e = Exponential(i - 1) /\ Base <= e /\ e <= Cap
                           /\ waits[i] \in {e, e + e \div 4}
      BY <2>1, <2>3
    <3>2. e \div 4 \in Nat /\ 4 * (e \div 4) <= e
      OBVIOUS
    <3> QED
      BY <2>2, <3>1, <3>2
  <2>5. ASSUME NEW i \in DOMAIN waits, NEW j \in DOMAIN waits, i < j
        PROVE  waits[i] < waits[j] \/ waits[i] >= Cap
    <3>1. PICK e \in Nat : /\ e = Exponential(i - 1) /\ Base <= e /\ e <= Cap
                           /\ waits[i] \in {e, e + e \div 4}
      BY <2>1, <2>3
    <3>2. PICK f \in Nat : /\ f = Exponential(j - 1) /\ Base <= f /\ f <= Cap
                           /\ waits[j] \in {f, f + f \div 4}
      BY <2>1, <2>3
    <3>3. i - 1 \in Nat /\ j - 1 \in Nat /\ i - 1 < j - 1
      BY <2>1, <2>5
    <3>4. 2 * e <= f \/ f = Cap
      BY <3>1, <3>2, <3>3, Delays
    <3>5. e \div 4 \in Nat /\ 4 * (e \div 4) <= e /\ f \div 4 \in Nat
      OBVIOUS
    <3>6. waits[i] \in Nat /\ waits[i] < 2 * e /\ waits[j] \in Nat /\ waits[j] >= f
      BY <2>2, <3>1, <3>2, <3>5
    <3> QED
      BY <2>2, <3>4, <3>6
  <2> QED
    BY <2>4, <2>5 DEF BackoffGrows
<1> QED
  BY <1>1, <1>2, <1>3, LoadInvariant, PTL DEF Spec
=============================================================================
