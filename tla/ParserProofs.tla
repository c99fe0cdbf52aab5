--------------------------- MODULE ParserProofs ------------------------------
(***************************************************************************)
(* What the parser keeps of the parts of a mail (MimeParts), for every mail *)
(* of every depth, and the theorems about the analysis (MCParser): with     *)
(* what AnalysisProofs says of the other functions, every answer is right.  *)
(*                                                                         *)
(* ParsePart goes down the parts; PartsAreKept looks at one path.  Between  *)
(* them are lists: what is kept of a part lists what is shown by the paths  *)
(* in it (KeptListed, by induction on parts), the lists of the parts of a   *)
(* part joined list the paths of the part (JoinListed), and a list has at   *)
(* the place of a path the content it leads to (ListedCount).               *)
(***************************************************************************)
EXTENDS AnalysisProofs

-----------------------------------------------------------------------------
(* Parts in parts. *)
\* The parts with others in them that are in inner.
PartsOf(inner) ==
  [ct : Mime!Types, file : {"none", "ok", "bad"}, read : Mime!Bodies, id : Contents, sub : Seq(inner)]
  \cup [ct : {"message"}, file : {"none", "ok", "bad"}, read : Mime!Bodies, id : Contents,
        sub : [1..1 -> inner]]

\* What a part of depth n can hold.
InnerParts(n) == IF n = 0 THEN {} ELSE Mime!PartsTo[n - 1]

\* PartsTo, level by level: the recursive function exists.
LEMMA PartsToIs ==
  \A n \in 0..Depth : Mime!PartsTo[n] = PartsOf(InnerParts(n))
<1> DEFINE Def(g, i) == PartsOf(IF i = 0 THEN {} ELSE g[i - 1])
           P == {n \in Nat : \E g : g = [i \in 0..n |-> Def(g, i)]}
<1>1. 0 \in P
  <2> DEFINE h == [i \in 0..0 |-> PartsOf({})]
  <2>1. h = [i \in 0..0 |-> Def(h, i)] OBVIOUS
  <2> HIDE DEF Def, h
  <2> QED BY <2>1
<1>2. ASSUME NEW n \in P PROVE n + 1 \in P
  <2>1. PICK g : g = [i \in 0..n |-> Def(g, i)] OBVIOUS
  <2> DEFINE h == [i \in 0..n + 1 |-> Def(g, i)]
  <2>2. \A i \in 0..n : h[i] = g[i]
    <3> HIDE DEF Def
    <3> QED BY <2>1
  <2>3. ASSUME NEW i \in 0..n + 1 PROVE Def(h, i) = Def(g, i)
    <3>1. CASE i = 0 BY <3>1
    <3>2. CASE i # 0
      <4>1. i - 1 \in 0..n BY <3>2
      <4>2. h[i - 1] = g[i - 1] BY <2>2, <4>1
      <4> HIDE DEF h
      <4> QED BY <4>2
    <3> QED BY <3>1, <3>2
  <2>4. h = [i \in 0..n + 1 |-> Def(h, i)]
    <3>1. h = [i \in 0..n + 1 |-> Def(g, i)] OBVIOUS
    <3> HIDE DEF h, Def
    <3> QED BY <2>3, <3>1
  <2>5. \E x : x = [i \in 0..n + 1 |-> Def(x, i)]
    <3> HIDE DEF h, Def
    <3> QED BY <2>4, Zenon
  <2>6. n + 1 \in Nat OBVIOUS
  <2> HIDE DEF Def
  <2> QED BY <2>5, <2>6
<1>3. P = Nat
  <2>1. P \in SUBSET Nat OBVIOUS
  <2> HIDE DEF P
  <2> QED BY <1>1, <1>2, <2>1, SetInduction
<1>4. \E g : g = [i \in 0..Depth |-> Def(g, i)] BY <1>3, DepthAssumption
<1> DEFINE f == Mime!PartsTo
<1>5. f = CHOOSE g : g = [i \in 0..Depth |-> Def(g, i)] BY DEF Mime!PartsTo, PartsOf
<1> HIDE DEF f
<1>6. \A i \in 0..Depth : f[i] = Def(f, i)
  <2> HIDE DEF Def
  <2>1. f = [i \in 0..Depth |-> Def(f, i)] BY <1>4, <1>5
  <2> QED BY <2>1
<1> QED BY <1>6 DEF f, InnerParts

\* What a part holds lies less deep than it.
LEMMA PartFacts ==
  ASSUME NEW n \in 0..Depth, NEW p \in Mime!PartsTo[n]
  PROVE  /\ p.ct \in Mime!Types \cup {"message"} /\ p.file \in {"none", "ok", "bad"}
         /\ p.read \in Mime!Bodies /\ p.id \in Contents
         /\ p.sub \in Seq(InnerParts(n))
         /\ p.ct = "message" => DOMAIN p.sub = {1} /\ p.sub[1] \in InnerParts(n)
<1> DEFINE inner == InnerParts(n)
           SI == Seq(inner)
           FI == [1..1 -> inner]
<1>1. p \in PartsOf(inner) BY PartsToIs
<1>2. "message" \notin Mime!Types BY DEF Mime!Types
<1>3. FI \subseteq SI
  <2> DEFINE one == 1
  <2>1. one \in Nat OBVIOUS
  <2> HIDE DEF one, inner
  <2>2. [1..one -> inner] \subseteq Seq(inner) BY <2>1
  <2> QED BY <2>2 DEF one
<1>4. \A s \in FI : DOMAIN s = {1} /\ s[1] \in inner
  <2>1. 1..1 = {1} OBVIOUS
  <2> HIDE DEF inner
  <2> QED BY <2>1
<1>5. \/ p \in [ct : Mime!Types, file : {"none", "ok", "bad"}, read : Mime!Bodies, id : Contents, sub : SI]
      \/ p \in [ct : {"message"}, file : {"none", "ok", "bad"}, read : Mime!Bodies, id : Contents, sub : FI]
  BY <1>1 DEF PartsOf
<1> HIDE DEF SI, FI, inner
<1>6. /\ p.ct \in Mime!Types \cup {"message"} /\ p.file \in {"none", "ok", "bad"}
      /\ p.read \in Mime!Bodies /\ p.id \in Contents
  BY <1>5
<1>7. p.sub \in SI /\ (p.ct = "message" => p.sub \in FI) BY <1>2, <1>3, <1>5
<1> QED BY <1>4, <1>6, <1>7 DEF SI, inner

\* A part that lies less deep is one that lies deeper.
LEMMA PartsGrow ==
  \A n \in 0..Depth : InnerParts(n) \subseteq Mime!PartsTo[n]
<1> DEFINE P == {n \in Nat : n <= Depth => InnerParts(n) \subseteq Mime!PartsTo[n]}
<1>1. 0 \in P BY DEF InnerParts
<1>2. ASSUME NEW n \in P PROVE n + 1 \in P
  <2>0. n \in Nat /\ n + 1 \in Nat /\ Depth \in Nat BY DepthAssumption
  <2>1. ASSUME n + 1 <= Depth PROVE InnerParts(n + 1) \subseteq Mime!PartsTo[n + 1]
    <3>1. n \in 0..Depth /\ n + 1 \in 0..Depth /\ n + 1 # 0 /\ (n + 1) - 1 = n BY <2>0, <2>1
    <3>2. InnerParts(n) \subseteq Mime!PartsTo[n] BY <2>0, <2>1
    <3>3. InnerParts(n + 1) = Mime!PartsTo[n] BY <3>1 DEF InnerParts
    <3>4. Mime!PartsTo[n] = PartsOf(InnerParts(n)) /\ Mime!PartsTo[n + 1] = PartsOf(Mime!PartsTo[n])
      BY <3>1, <3>3, PartsToIs
    <3> DEFINE A == InnerParts(n)
               B == Mime!PartsTo[n]
    <3> HIDE DEF A, B
    <3>5. A \subseteq B BY <3>2 DEF A, B
    <3>6. PartsOf(A) \subseteq PartsOf(B)
      <4>1. Seq(A) \subseteq Seq(B) BY <3>5
      <4>2. [1..1 -> A] \subseteq [1..1 -> B] BY <3>5
      <4> DEFINE SA == Seq(A)
                 SB == Seq(B)
                 FA == [1..1 -> A]
                 FB == [1..1 -> B]
                 F == {"none", "ok", "bad"}
                 R == Mime!Bodies
      <4> HIDE DEF SA, SB, FA, FB, F, R
      <4>3. [ct : Mime!Types, file : F, read : R, id : Contents, sub : SA]
              \subseteq [ct : Mime!Types, file : F, read : R, id : Contents, sub : SB]
        BY <4>1 DEF SA, SB
      <4>4. [ct : {"message"}, file : F, read : R, id : Contents, sub : FA]
              \subseteq [ct : {"message"}, file : F, read : R, id : Contents, sub : FB]
        BY <4>2 DEF FA, FB
      <4> QED BY <4>3, <4>4 DEF PartsOf, SA, SB, FA, FB, F, R
    <3> QED BY <3>3, <3>4, <3>6 DEF A, B
  <2> QED BY <2>0, <2>1
<1>3. P = Nat
  <2>1. P \in SUBSET Nat OBVIOUS
  <2> HIDE DEF P
  <2> QED BY <1>1, <1>2, <2>1, SetInduction
<1> QED BY <1>3

\* The parts of each depth are parts.
LEMMA PartsIn ==
  \A n \in 0..Depth : Mime!PartsTo[n] \subseteq Mime!Parts
<1> DEFINE P == {k \in Nat : k <= Depth => Mime!PartsTo[Depth - k] \subseteq Mime!Parts}
<1>0. Depth \in Nat BY DepthAssumption
<1>1. 0 \in P
  <2>1. Depth - 0 = Depth BY <1>0
  <2> QED BY <2>1 DEF Mime!Parts
<1>2. ASSUME NEW k \in P PROVE k + 1 \in P
  <2>0. k \in Nat /\ k + 1 \in Nat OBVIOUS
  <2>1. ASSUME k + 1 <= Depth PROVE Mime!PartsTo[Depth - (k + 1)] \subseteq Mime!Parts
    <3>1. k <= Depth /\ Depth - k \in 0..Depth /\ Depth - k # 0 /\ (Depth - k) - 1 = Depth - (k + 1)
      BY <1>0, <2>0, <2>1
    <3>2. Mime!PartsTo[Depth - k] \subseteq Mime!Parts BY <3>1
    <3>3. Mime!PartsTo[Depth - (k + 1)] \subseteq Mime!PartsTo[Depth - k] BY <3>1, PartsGrow DEF InnerParts
    <3> QED BY <3>2, <3>3
  <2> QED BY <2>0, <2>1
<1>3. P = Nat
  <2>1. P \in SUBSET Nat OBVIOUS
  <2> HIDE DEF P
  <2> QED BY <1>1, <1>2, <2>1, SetInduction
<1>4. ASSUME NEW n \in 0..Depth PROVE Mime!PartsTo[n] \subseteq Mime!Parts
  <2>1. Depth - n \in Nat /\ Depth - n <= Depth /\ Depth - (Depth - n) = n BY <1>0
  <2>2. Depth - n \in P BY <1>3, <2>1
  <2> QED BY <2>1, <2>2
<1> QED BY <1>4

\* What a part is, whatever its depth.
LEMMA PartShape ==
  ASSUME NEW p \in Mime!Parts
  PROVE  /\ p.ct \in Mime!Types \cup {"message"} /\ p.file \in {"none", "ok", "bad"}
         /\ p.read \in Mime!Bodies /\ p.id \in Contents
         /\ p.sub \in Seq(Mime!Parts)
         /\ p.ct = "message" => DOMAIN p.sub = {1}
<1>1. Depth \in 0..Depth /\ p \in Mime!PartsTo[Depth] BY DepthAssumption DEF Mime!Parts
<1>2. p.sub \in Seq(InnerParts(Depth)) BY <1>1, PartFacts
<1>3. InnerParts(Depth) \subseteq Mime!Parts BY <1>1, PartsGrow, PartsIn
<1>4. Seq(InnerParts(Depth)) \subseteq Seq(Mime!Parts) BY <1>3
<1> QED BY <1>1, <1>2, <1>4, PartFacts

\* What holds of a part when it holds of its parts holds of all parts.
LEMMA PartInduction ==
  ASSUME NEW G, \A p \in Mime!Parts : (\A i \in DOMAIN p.sub : p.sub[i] \in G) => p \in G
  PROVE  Mime!Parts \subseteq G
<1> DEFINE P == {n \in Nat : n <= Depth => Mime!PartsTo[n] \subseteq G}
<1>0. Depth \in Nat BY DepthAssumption
<1>1. ASSUME NEW n \in 0..Depth, InnerParts(n) \subseteq G PROVE Mime!PartsTo[n] \subseteq G
  <2>1. ASSUME NEW p \in Mime!PartsTo[n] PROVE p \in G
    <3>1. p.sub \in Seq(InnerParts(n)) BY PartFacts
    <3>2. \A i \in DOMAIN p.sub : p.sub[i] \in G BY <1>1, <3>1
    <3>3. p \in Mime!Parts BY PartsIn
    <3> QED BY <3>2, <3>3
  <2> QED BY <2>1
<1>2. 0 \in P
  <2>1. 0 \in 0..Depth /\ InnerParts(0) \subseteq G BY <1>0 DEF InnerParts
  <2> QED BY <1>1, <2>1
<1>3. ASSUME NEW n \in P PROVE n + 1 \in P
  <2>0. n \in Nat /\ n + 1 \in Nat OBVIOUS
  <2>1. ASSUME n + 1 <= Depth PROVE Mime!PartsTo[n + 1] \subseteq G
    <3>1. n + 1 \in 0..Depth /\ n <= Depth /\ n + 1 # 0 /\ (n + 1) - 1 = n BY <1>0, <2>0, <2>1
    <3>2. InnerParts(n + 1) \subseteq G BY <3>1 DEF InnerParts
    <3> QED BY <1>1, <3>1, <3>2
  <2> QED BY <2>0, <2>1
<1>4. P = Nat
  <2>1. P \in SUBSET Nat OBVIOUS
  <2> HIDE DEF P
  <2> QED BY <1>2, <1>3, <2>1, SetInduction
<1> QED BY <1>0, <1>4 DEF Mime!Parts
-----------------------------------------------------------------------------
(* ParsePart and Sub, level by level. *)
\* ParsePart, given itself for the parts of a part.
ParseOf(g, p) ==
  LET subs == [i \in DOMAIN p.sub |-> Mime!SubPart(g, p.sub[i])]
  IN IF p.read = "broken" \/ p.ct \in {"bad", "unbounded"} THEN Mime!NothingKept
     ELSE CASE p.ct = "none"      -> Mime!Text([p EXCEPT !.ct = "plain"])
            [] p.ct = "multipart" -> IF Mime!Holds(p) THEN Mime!Join(subs) ELSE Mime!NothingKept
            [] OTHER              -> Mime!Text(p)

\* It asks only of the parts of the part, and of what a message holds.
LEMMA ParseSame ==
  ASSUME NEW n \in 0..Depth, NEW p \in Mime!PartsTo[n], NEW g, NEW h,
         \A x \in InnerParts(n) : g[x] = h[x]
  PROVE  ParseOf(g, p) = ParseOf(h, p)
<1>1. p.sub \in Seq(InnerParts(n)) BY PartFacts
<1>2. ASSUME NEW i \in DOMAIN p.sub PROVE Mime!SubPart(g, p.sub[i]) = Mime!SubPart(h, p.sub[i])
  <2> DEFINE s == p.sub[i]
  <2>1. s \in InnerParts(n) BY <1>1
  <2>2. n # 0 /\ n - 1 \in 0..Depth /\ InnerParts(n) = Mime!PartsTo[n - 1] BY <2>1, DepthAssumption DEF InnerParts
  <2>3. s.ct = "message" => s.sub[1] \in InnerParts(n)
    <3> HIDE DEF s
    <3>1. s.ct = "message" => s.sub[1] \in InnerParts(n - 1) BY <2>1, <2>2, PartFacts
    <3>2. InnerParts(n - 1) \subseteq Mime!PartsTo[n - 1] BY <2>2, PartsGrow
    <3> QED BY <2>2, <3>1, <3>2
  <2> HIDE DEF s
  <2>4. g[s] = h[s] /\ (s.ct = "message" => g[s.sub[1]] = h[s.sub[1]]) BY <2>1, <2>3
  <2>5. Mime!SubPart(g, s) = Mime!SubPart(h, s) BY <2>4 DEF Mime!SubPart
  <2> QED BY <2>5 DEF s
<1>3. [i \in DOMAIN p.sub |-> Mime!SubPart(g, p.sub[i])] = [i \in DOMAIN p.sub |-> Mime!SubPart(h, p.sub[i])]
  BY <1>2
<1> QED BY <1>3, Zenon DEF ParseOf

\* ParsePart is that function of itself, which exists level by level.
LEMMA ParseIs ==
  \A p \in Mime!Parts : Mime!ParsePart[p] = ParseOf(Mime!ParsePart, p)
<1> DEFINE P == {n \in Nat : n <= Depth => \E g : g = [p \in Mime!PartsTo[n] |-> ParseOf(g, p)]}
<1>0. Depth \in Nat BY DepthAssumption
<1>1. 0 \in P
  <2> DEFINE g == 0
             h == [p \in Mime!PartsTo[0] |-> ParseOf(g, p)]
  <2>1. \A p \in Mime!PartsTo[0] : ParseOf(g, p) = ParseOf(h, p)
    <3>1. 0 \in 0..Depth /\ InnerParts(0) = {} BY <1>0 DEF InnerParts
    <3> HIDE DEF g, h
    <3> QED BY <3>1, ParseSame
  <2>2. h = [p \in Mime!PartsTo[0] |-> ParseOf(h, p)]
    <3>1. h = [p \in Mime!PartsTo[0] |-> ParseOf(g, p)] OBVIOUS
    <3> HIDE DEF g, h
    <3> QED BY <2>1, <3>1
  <2> HIDE DEF h
  <2> QED BY <2>2
<1>2. ASSUME NEW n \in P PROVE n + 1 \in P
  <2>0. n \in Nat /\ n + 1 \in Nat OBVIOUS
  <2>1. ASSUME n + 1 <= Depth PROVE \E g : g = [p \in Mime!PartsTo[n + 1] |-> ParseOf(g, p)]
    <3>1. n \in 0..Depth /\ n + 1 \in 0..Depth /\ n <= Depth /\ n + 1 # 0 /\ (n + 1) - 1 = n BY <1>0, <2>0, <2>1
    <3>2. PICK g : g = [p \in Mime!PartsTo[n] |-> ParseOf(g, p)] BY <3>1
    <3>3. InnerParts(n + 1) = Mime!PartsTo[n] BY <3>1 DEF InnerParts
    <3>4. Mime!PartsTo[n] \subseteq Mime!PartsTo[n + 1] BY <3>1, <3>3, PartsGrow
    <3> DEFINE h == [p \in Mime!PartsTo[n + 1] |-> ParseOf(g, p)]
    <3>5. \A p \in Mime!PartsTo[n] : h[p] = g[p]
      <4>1. \A p \in Mime!PartsTo[n] : g[p] = ParseOf(g, p) BY <3>2
      <4> QED BY <3>4, <4>1
    <3>6. \A p \in Mime!PartsTo[n + 1] : ParseOf(g, p) = ParseOf(h, p)
      <4> HIDE DEF h
      <4>1. \A x \in InnerParts(n + 1) : g[x] = h[x] BY <3>3, <3>5
      <4> QED BY <3>1, <4>1, ParseSame
    <3>7. h = [p \in Mime!PartsTo[n + 1] |-> ParseOf(h, p)]
      <4>1. h = [p \in Mime!PartsTo[n + 1] |-> ParseOf(g, p)] OBVIOUS
      <4> HIDE DEF h
      <4> QED BY <3>6, <4>1
    <3> HIDE DEF h
    <3> QED BY <3>7
  <2> QED BY <2>0, <2>1
<1>3. P = Nat
  <2>1. P \in SUBSET Nat OBVIOUS
  <2> HIDE DEF P
  <2> QED BY <1>1, <1>2, <2>1, SetInduction
<1>4. \E g : g = [p \in Mime!Parts |-> ParseOf(g, p)] BY <1>0, <1>3 DEF Mime!Parts
<1> DEFINE A == Mime!ParsePart
<1>5. A = CHOOSE g : g = [p \in Mime!Parts |-> ParseOf(g, p)] BY DEF Mime!ParsePart, ParseOf
<1> HIDE DEF A
<1>6. A = [p \in Mime!Parts |-> ParseOf(A, p)] BY <1>4, <1>5
<1>7. \A p \in Mime!Parts : A[p] = ParseOf(A, p)
  <2> DEFINE B(p) == ParseOf(A, p)
  <2> HIDE DEF B
  <2>1. A = [p \in Mime!Parts |-> B(p)] BY <1>6 DEF B
  <2>2. \A p \in Mime!Parts : A[p] = B(p) BY <2>1
  <2> QED BY <2>2 DEF B
<1> QED BY <1>7 DEF A

\* Sub, given itself for the parts of a part.
Push(i, r)    == <<i>> \o r
PathsOf(g, p) == {<<>>} \cup UNION {{Push(i, r) : r \in DOMAIN g[p.sub[i]]} : i \in DOMAIN p.sub}
SubOf(g, p)   == [q \in PathsOf(g, p) |-> IF q = <<>> THEN p ELSE g[p.sub[q[1]]][Tail(q)]]

\* A path with one step put before it.
LEMMA PushFacts ==
  ASSUME NEW i \in Nat, NEW r \in Seq(Nat)
  PROVE  /\ Push(i, r) \in Seq(Nat) /\ Len(Push(i, r)) = Len(r) + 1 /\ Push(i, r) # <<>>
         /\ Push(i, r)[1] = i /\ \A j \in 1..Len(r) : Push(i, r)[j + 1] = r[j]
         /\ Tail(Push(i, r)) = r
<1>1. Tail(<<i>> \o r) = r OBVIOUS
<1>2. <<i>> \o r # <<>> OBVIOUS
<1> QED BY <1>1, <1>2, ConsFacts DEF Push

\* The paths of a part: the empty one, or a step into a part and a path of it.
LEMMA PathIn ==
  ASSUME NEW g, NEW p
  PROVE  \A q : q \in PathsOf(g, p) <=> q = <<>> \/ \E i \in DOMAIN p.sub : \E r \in DOMAIN g[p.sub[i]] : q = Push(i, r)
<1> DEFINE F(i) == {Push(i, r) : r \in DOMAIN g[p.sub[i]]}
           D == DOMAIN p.sub
<1>1. PathsOf(g, p) = {<<>>} \cup UNION {F(i) : i \in D} BY DEF PathsOf
<1>2. \A i \in D : \A q : q \in F(i) <=> \E r \in DOMAIN g[p.sub[i]] : q = Push(i, r) OBVIOUS
<1> HIDE DEF F
<1>3. \A q : q \in PathsOf(g, p) <=> q = <<>> \/ \E i \in D : q \in F(i) BY <1>1
<1> QED BY <1>2, <1>3

\* They are sequences of numbers.
LEMMA PathsAre ==
  ASSUME NEW n \in 0..Depth, NEW p \in Mime!PartsTo[n], NEW g,
         \A x \in InnerParts(n) : DOMAIN g[x] \subseteq Seq(Nat)
  PROVE  DOMAIN SubOf(g, p) = PathsOf(g, p) /\ PathsOf(g, p) \subseteq Seq(Nat)
<1>1. p.sub \in Seq(InnerParts(n)) BY PartFacts
<1>2. \A i \in DOMAIN p.sub : i \in Nat /\ DOMAIN g[p.sub[i]] \subseteq Seq(Nat) BY <1>1
<1>3. ASSUME NEW i \in DOMAIN p.sub, NEW r \in DOMAIN g[p.sub[i]] PROVE Push(i, r) \in Seq(Nat)
  <2>1. i \in Nat /\ r \in Seq(Nat) BY <1>2, <1>3
  <2> QED BY <2>1, PushFacts
<1>4. <<>> \in Seq(Nat) OBVIOUS
<1>5. ASSUME NEW q \in PathsOf(g, p) PROVE q \in Seq(Nat)
  <2>1. q = <<>> \/ \E i \in DOMAIN p.sub : \E r \in DOMAIN g[p.sub[i]] : q = Push(i, r) BY <1>5, PathIn
  <2> QED BY <1>3, <1>4, <2>1
<1>6. DOMAIN SubOf(g, p) = PathsOf(g, p) BY DEF SubOf
<1> QED BY <1>5, <1>6

\* It asks only of the parts of the part.
LEMMA SubSame ==
  ASSUME NEW n \in 0..Depth, NEW p \in Mime!PartsTo[n], NEW g, NEW h,
         \A x \in InnerParts(n) : g[x] = h[x] /\ DOMAIN g[x] \subseteq Seq(Nat)
  PROVE  SubOf(g, p) = SubOf(h, p)
<1>1. p.sub \in Seq(InnerParts(n)) BY PartFacts
<1>2. \A i \in DOMAIN p.sub : g[p.sub[i]] = h[p.sub[i]] BY <1>1
<1> DEFINE F(i) == {Push(i, r) : r \in DOMAIN g[p.sub[i]]}
           H(i) == {Push(i, r) : r \in DOMAIN h[p.sub[i]]}
<1>3. \A i \in DOMAIN p.sub : F(i) = H(i) BY <1>2
<1>4. PathsOf(g, p) = {<<>>} \cup UNION {F(i) : i \in DOMAIN p.sub} BY DEF PathsOf
<1>5. PathsOf(h, p) = {<<>>} \cup UNION {H(i) : i \in DOMAIN p.sub} BY DEF PathsOf
<1>6. \A i \in DOMAIN p.sub : \A q \in F(i) : q[1] = i
  <2>1. ASSUME NEW i \in DOMAIN p.sub, NEW r \in DOMAIN g[p.sub[i]] PROVE (Push(i, r))[1] = i
    <3>1. i \in Nat /\ r \in Seq(Nat) BY <1>1, <2>1
    <3> QED BY <3>1, PushFacts
  <2> QED BY <2>1
<1> HIDE DEF F, H
<1>7. PathsOf(g, p) = PathsOf(h, p)
  <2>1. {F(i) : i \in DOMAIN p.sub} = {H(i) : i \in DOMAIN p.sub} BY <1>3
  <2> QED BY <1>4, <1>5, <2>1
<1>8. ASSUME NEW q \in PathsOf(g, p), q # <<>> PROVE g[p.sub[q[1]]][Tail(q)] = h[p.sub[q[1]]][Tail(q)]
  <2>1. q[1] \in DOMAIN p.sub BY <1>4, <1>6, <1>8
  <2> QED BY <1>2, <2>1
<1>9. [q \in PathsOf(g, p) |-> IF q = <<>> THEN p ELSE g[p.sub[q[1]]][Tail(q)]]
        = [q \in PathsOf(g, p) |-> IF q = <<>> THEN p ELSE h[p.sub[q[1]]][Tail(q)]]
  BY <1>8
<1> QED BY <1>7, <1>9, Zenon DEF SubOf

\* Such a function exists, level by level.
LEMMA SubExists ==
  \E g : g = [p \in Mime!Parts |-> SubOf(g, p)] /\ \A p \in Mime!Parts : DOMAIN g[p] \subseteq Seq(Nat)
<1> DEFINE Good(g, n) == /\ g = [p \in Mime!PartsTo[n] |-> SubOf(g, p)]
                         /\ \A p \in Mime!PartsTo[n] : DOMAIN g[p] \subseteq Seq(Nat)
           P == {n \in Nat : n <= Depth => \E g : Good(g, n)}
<1>0. Depth \in Nat BY DepthAssumption
<1>1. ASSUME NEW n \in 0..Depth, NEW g, \A x \in InnerParts(n) : g[x] = SubOf(g, x) /\ DOMAIN g[x] \subseteq Seq(Nat)
      PROVE  \E h : Good(h, n)
  <2> DEFINE h == [p \in Mime!PartsTo[n] |-> SubOf(g, p)]
  <2>1. \A x \in InnerParts(n) : h[x] = g[x]
    <3>1. InnerParts(n) \subseteq Mime!PartsTo[n] BY PartsGrow
    <3> QED BY <1>1, <3>1
  <2>2. \A p \in Mime!PartsTo[n] : SubOf(g, p) = SubOf(h, p)
    <3> HIDE DEF h
    <3>1. \A x \in InnerParts(n) : g[x] = h[x] /\ DOMAIN g[x] \subseteq Seq(Nat) BY <1>1, <2>1
    <3> QED BY <3>1, SubSame
  <2>3. h = [p \in Mime!PartsTo[n] |-> SubOf(h, p)]
    <3>1. h = [p \in Mime!PartsTo[n] |-> SubOf(g, p)] OBVIOUS
    <3> HIDE DEF h
    <3> QED BY <2>2, <3>1
  <2>4. \A p \in Mime!PartsTo[n] : DOMAIN h[p] \subseteq Seq(Nat)
    <3>1. \A p \in Mime!PartsTo[n] : h[p] = SubOf(g, p) OBVIOUS
    <3>2. \A p \in Mime!PartsTo[n] : DOMAIN SubOf(g, p) \subseteq Seq(Nat) BY <1>1, PathsAre
    <3> HIDE DEF h
    <3> QED BY <3>1, <3>2
  <2> HIDE DEF h
  <2> QED BY <2>3, <2>4
<1>2. 0 \in P
  <2>1. 0 \in 0..Depth /\ InnerParts(0) = {} BY <1>0 DEF InnerParts
  <2> HIDE DEF Good
  <2> QED BY <1>1, <2>1
<1>3. ASSUME NEW n \in P PROVE n + 1 \in P
  <2>0. n \in Nat /\ n + 1 \in Nat OBVIOUS
  <2>1. ASSUME n + 1 <= Depth PROVE \E g : Good(g, n + 1)
    <3>1. n + 1 \in 0..Depth /\ n <= Depth /\ n + 1 # 0 /\ (n + 1) - 1 = n BY <1>0, <2>0, <2>1
    <3>2. PICK g : Good(g, n) BY <3>1
    <3>3. InnerParts(n + 1) = Mime!PartsTo[n] BY <3>1 DEF InnerParts
    <3>4. \A x \in InnerParts(n + 1) : g[x] = SubOf(g, x) /\ DOMAIN g[x] \subseteq Seq(Nat)
      <4>1. g = [p \in Mime!PartsTo[n] |-> SubOf(g, p)] BY <3>2
      <4>2. \A x \in Mime!PartsTo[n] : g[x] = SubOf(g, x)
        <5> DEFINE B(p) == SubOf(g, p)
        <5> HIDE DEF B
        <5>1. g = [p \in Mime!PartsTo[n] |-> B(p)] BY <4>1 DEF B
        <5>2. \A x \in Mime!PartsTo[n] : g[x] = B(x) BY <5>1
        <5> QED BY <5>2 DEF B
      <4> QED BY <3>2, <3>3, <4>2
    <3> HIDE DEF Good
    <3> QED BY <1>1, <3>1, <3>4
  <2> QED BY <2>0, <2>1
<1>4. P = Nat
  <2>1. P \in SUBSET Nat OBVIOUS
  <2> HIDE DEF P
  <2> QED BY <1>2, <1>3, <2>1, SetInduction
<1> QED BY <1>0, <1>4 DEF Mime!Parts

\* Sub is that function of itself.
LEMMA SubIs ==
  \A p \in Mime!Parts : Mime!Sub[p] = SubOf(Mime!Sub, p) /\ DOMAIN Mime!Sub[p] \subseteq Seq(Nat)
<1> DEFINE A == Mime!Sub
<1>1. A = CHOOSE g : g = [p \in Mime!Parts |-> SubOf(g, p)] BY DEF Mime!Sub, SubOf, PathsOf, Push
<1> HIDE DEF A
<1>2. A = [p \in Mime!Parts |-> SubOf(A, p)] BY <1>1, SubExists
<1>3. \A p \in Mime!Parts : A[p] = SubOf(A, p)
  <2> DEFINE B(p) == SubOf(A, p)
  <2> HIDE DEF B
  <2>1. A = [p \in Mime!Parts |-> B(p)] BY <1>2 DEF B
  <2>2. \A p \in Mime!Parts : A[p] = B(p) BY <2>1
  <2> QED BY <2>2 DEF B
<1> DEFINE G == {p \in Mime!Parts : DOMAIN A[p] \subseteq Seq(Nat)}
<1>4. ASSUME NEW p \in Mime!Parts, \A i \in DOMAIN p.sub : p.sub[i] \in G PROVE p \in G
  <2>1. p.sub \in Seq(Mime!Parts) BY PartShape
  <2>2. \A i \in DOMAIN p.sub : i \in Nat BY <2>1
  <2>3. DOMAIN A[p] = PathsOf(A, p)
    <3>1. DOMAIN SubOf(A, p) = PathsOf(A, p) BY DEF SubOf
    <3> QED BY <1>3, <1>4, <3>1
  <2>4. ASSUME NEW i \in DOMAIN p.sub, NEW r \in DOMAIN A[p.sub[i]] PROVE Push(i, r) \in Seq(Nat)
    <3>1. i \in Nat /\ r \in Seq(Nat) BY <1>4, <2>2, <2>4
    <3> QED BY <3>1, PushFacts
  <2>5. <<>> \in Seq(Nat) OBVIOUS
  <2>6. ASSUME NEW q \in PathsOf(A, p) PROVE q \in Seq(Nat)
    <3>1. q = <<>> \/ \E i \in DOMAIN p.sub : \E r \in DOMAIN A[p.sub[i]] : q = Push(i, r) BY <2>6, PathIn
    <3> QED BY <2>4, <2>5, <3>1
  <2> QED BY <1>4, <2>3, <2>6
<1>5. Mime!Parts \subseteq G
  <2> HIDE DEF G
  <2> QED BY <1>4, PartInduction
<1> QED BY <1>3, <1>5 DEF A

\* The paths of a part and what they lead to, step by step.
LEMMA PathFacts ==
  ASSUME NEW p \in Mime!Parts
  PROVE  /\ DOMAIN Mime!Sub[p] \subseteq Seq(Nat)
         /\ \A q : q \in DOMAIN Mime!Sub[p] <=>
                    q = <<>> \/ \E i \in DOMAIN p.sub : \E r \in DOMAIN Mime!Sub[p.sub[i]] : q = Push(i, r)
         /\ Mime!Sub[p][<<>>] = p
         /\ \A i \in DOMAIN p.sub : \A r \in DOMAIN Mime!Sub[p.sub[i]] :
              Mime!Sub[p][Push(i, r)] = Mime!Sub[p.sub[i]][r]
<1> DEFINE A == Mime!Sub
<1>1. A[p] = SubOf(A, p) /\ DOMAIN A[p] \subseteq Seq(Nat) BY SubIs
<1>2. p.sub \in Seq(Mime!Parts) BY PartShape
<1>3. \A i \in DOMAIN p.sub : i \in Nat /\ DOMAIN A[p.sub[i]] \subseteq Seq(Nat) BY <1>2, SubIs
<1> HIDE DEF A
<1>4. /\ DOMAIN A[p] = PathsOf(A, p)
      /\ \A q \in PathsOf(A, p) : A[p][q] = IF q = <<>> THEN p ELSE A[p.sub[q[1]]][Tail(q)]
  <2>1. DOMAIN SubOf(A, p) = PathsOf(A, p) BY DEF SubOf
  <2>2. \A q \in PathsOf(A, p) : SubOf(A, p)[q] = IF q = <<>> THEN p ELSE A[p.sub[q[1]]][Tail(q)] BY DEF SubOf
  <2> QED BY <1>1, <2>1, <2>2
<1>5. \A q : q \in PathsOf(A, p) <=> q = <<>> \/ \E i \in DOMAIN p.sub : \E r \in DOMAIN A[p.sub[i]] : q = Push(i, r)
  BY PathIn
<1>6. A[p][<<>>] = p BY <1>4, <1>5
<1>7. ASSUME NEW i \in DOMAIN p.sub, NEW r \in DOMAIN A[p.sub[i]] PROVE A[p][Push(i, r)] = A[p.sub[i]][r]
  <2>1. i \in Nat /\ r \in Seq(Nat) BY <1>3, <1>7
  <2> DEFINE q == Push(i, r)
  <2>2. q # <<>> /\ q[1] = i /\ Tail(q) = r BY <2>1, PushFacts
  <2>3. q \in PathsOf(A, p) BY <1>5, <1>7
  <2> HIDE DEF q
  <2>4. A[p][q] = A[p.sub[i]][r] BY <1>4, <2>2, <2>3
  <2> QED BY <2>4 DEF q
<1> QED BY <1>1, <1>4, <1>5, <1>6, <1>7 DEF A
-----------------------------------------------------------------------------
(* Lists of paths, in their order. *)
\* A set listed without repetition has as many elements as the list.
LEMMA Counted ==
  ASSUME NEW D, NEW n \in Nat, NEW e \in [1..n -> D],
         \A q \in D : \E j \in 1..n : e[j] = q, \A i, j \in 1..n : i < j => e[i] # e[j]
  PROVE  Cardinality(D) = n
<1>1. \A i, j \in 1..n : e[i] = e[j] => i = j
  <2>1. \A i, j \in 1..n : i < j \/ j < i \/ i = j OBVIOUS
  <2> QED BY <2>1
<1>2. ExistsBijection(1..n, D)
  BY <1>1 DEF ExistsBijection, Bijection, Injection, Surjection, IsInjective
<1> QED BY <1>2, FS_CountingElements

\* Before, with prefixes compared by their elements.
Ahead(q, r) == \E n \in 0..Len(q) :
  /\ n <= Len(r) /\ \A j \in 1..n : q[j] = r[j]
  /\ IF n = Len(q) THEN n < Len(r) ELSE n < Len(r) /\ q[n + 1] < r[n + 1]

\* They are the same order.
LEMMA BeforeIs ==
  ASSUME NEW q \in Seq(Nat), NEW r \in Seq(Nat)
  PROVE  Mime!Before(q, r) <=> Ahead(q, r)
<1>1. ASSUME NEW n \in 0..Len(q), n <= Len(r)
      PROVE  SubSeq(q, 1, n) = SubSeq(r, 1, n) <=> \A j \in 1..n : q[j] = r[j]
  <2>1. /\ Len(SubSeq(q, 1, n)) = n /\ Len(SubSeq(r, 1, n)) = n
        /\ \A j \in 1..n : SubSeq(q, 1, n)[j] = q[j] /\ SubSeq(r, 1, n)[j] = r[j]
        /\ SubSeq(q, 1, n) \in Seq(Nat) /\ SubSeq(r, 1, n) \in Seq(Nat)
    BY <1>1
  <2> DEFINE x == SubSeq(q, 1, n)
             y == SubSeq(r, 1, n)
  <2> HIDE DEF x, y
  <2>2. x \in Seq(Nat) /\ y \in Seq(Nat) /\ Len(x) = Len(y) /\ Len(x) = n BY <2>1 DEF x, y
  <2>3. x = y <=> \A j \in 1..n : x[j] = y[j]
    <3>1. ASSUME \A j \in 1..n : x[j] = y[j] PROVE x = y
      <4> QED BY <2>2, <3>1, SeqEqual
    <3> QED BY <3>1
  <2> QED BY <2>1, <2>3 DEF x, y
<1> QED BY <1>1 DEF Mime!Before, Ahead

\* Of two paths only one is before the other.
LEMMA BeforeOrders ==
  ASSUME NEW q \in Seq(Nat), NEW r \in Seq(Nat), Mime!Before(q, r)
  PROVE  ~Mime!Before(r, q)
<1> SUFFICES ASSUME Ahead(q, r), Ahead(r, q) PROVE FALSE BY BeforeIs
<1>0. Len(q) \in Nat /\ Len(r) \in Nat /\ (\A j \in 1..Len(q) : q[j] \in Nat) /\ (\A j \in 1..Len(r) : r[j] \in Nat)
  OBVIOUS
<1>1. PICK n \in 0..Len(q) : /\ n <= Len(r) /\ \A j \in 1..n : q[j] = r[j]
                             /\ IF n = Len(q) THEN n < Len(r) ELSE n < Len(r) /\ q[n + 1] < r[n + 1]
  BY DEF Ahead
<1>2. PICK m \in 0..Len(r) : /\ m <= Len(q) /\ \A j \in 1..m : r[j] = q[j]
                             /\ IF m = Len(r) THEN m < Len(q) ELSE m < Len(q) /\ r[m + 1] < q[m + 1]
  BY DEF Ahead
<1>3. n \in Nat /\ m \in Nat BY <1>0
<1>4. CASE n < m
  <2>1. n # Len(q) /\ n + 1 \in 1..m /\ n + 1 \in 1..Len(q) BY <1>0, <1>2, <1>3, <1>4
  <2>2. q[n + 1] < r[n + 1] /\ r[n + 1] = q[n + 1] BY <1>1, <1>2, <2>1
  <2> QED BY <1>0, <2>1, <2>2
<1>5. CASE m < n
  <2>1. m # Len(r) /\ m + 1 \in 1..n /\ m + 1 \in 1..Len(r) BY <1>0, <1>1, <1>3, <1>5
  <2>2. r[m + 1] < q[m + 1] /\ q[m + 1] = r[m + 1] BY <1>1, <1>2, <2>1
  <2> QED BY <1>0, <2>1, <2>2
<1>6. CASE n = m
  <2>1. n < Len(r) /\ n < Len(q) BY <1>1, <1>2, <1>6
  <2>2. n + 1 \in 1..Len(q) /\ n + 1 \in 1..Len(r) BY <1>0, <1>3, <2>1
  <2>3. q[n + 1] < r[n + 1] /\ r[n + 1] < q[n + 1] BY <1>1, <1>2, <1>6, <2>1
  <2> QED BY <1>0, <2>2, <2>3
<1> QED BY <1>3, <1>4, <1>5, <1>6

\* The parts of a part come in its order, and those of each in theirs.
LEMMA BeforePush ==
  ASSUME NEW i \in Nat, NEW j \in Nat, NEW q \in Seq(Nat), NEW r \in Seq(Nat)
  PROVE  /\ i < j => Mime!Before(Push(i, q), Push(j, r))
         /\ Mime!Before(q, r) => Mime!Before(Push(i, q), Push(i, r))
<1> DEFINE x == Push(i, q)
           y == Push(j, r)
           z == Push(i, r)
<1>1. /\ x \in Seq(Nat) /\ Len(x) = Len(q) + 1 /\ x[1] = i /\ \A k \in 1..Len(q) : x[k + 1] = q[k]
      /\ y \in Seq(Nat) /\ Len(y) = Len(r) + 1 /\ y[1] = j
      /\ z \in Seq(Nat) /\ Len(z) = Len(r) + 1 /\ z[1] = i /\ \A k \in 1..Len(r) : z[k + 1] = r[k]
  BY PushFacts
<1>0. Len(q) \in Nat /\ Len(r) \in Nat OBVIOUS
<1> HIDE DEF x, y, z
<1>n. i \in Nat /\ j \in Nat OBVIOUS
<1>2. ASSUME i < j PROVE Mime!Before(x, y)
  <2>1. 0 \in 0..Len(x) /\ 0 <= Len(y) /\ 0 # Len(x) /\ 0 < Len(y) /\ 1..0 = {} /\ 0 + 1 = 1 BY <1>0, <1>1
  <2>2. x[0 + 1] < y[0 + 1] BY <1>1, <1>2, <2>1
  <2>3. Ahead(x, y) BY <2>1, <2>2 DEF Ahead
  <2> QED BY <1>1, <2>3, BeforeIs
<1>3. ASSUME Mime!Before(q, r) PROVE Mime!Before(x, z)
  <2>1. Ahead(q, r) BY <1>3, BeforeIs
  <2>2. PICK n \in 0..Len(q) : /\ n <= Len(r) /\ \A k \in 1..n : q[k] = r[k]
                               /\ IF n = Len(q) THEN n < Len(r) ELSE n < Len(r) /\ q[n + 1] < r[n + 1]
    BY <2>1 DEF Ahead
  <2>3. n + 1 \in 0..Len(x) /\ n + 1 <= Len(z) /\ n \in Nat BY <1>0, <1>1, <2>2
  <2>4. ASSUME NEW k \in 1..n + 1 PROVE x[k] = z[k]
    <3>1. CASE k = 1 BY <1>1, <3>1
    <3>2. CASE k # 1
      <4>1. k - 1 \in 1..n /\ k - 1 \in 1..Len(q) /\ k - 1 \in 1..Len(r) /\ (k - 1) + 1 = k
        BY <1>0, <2>2, <2>3, <3>2
      <4>2. x[k] = q[k - 1] /\ z[k] = r[k - 1] BY <1>1, <4>1
      <4> QED BY <2>2, <4>1, <4>2
    <3> QED BY <3>1, <3>2
  <2>5. IF n + 1 = Len(x) THEN n + 1 < Len(z) ELSE n + 1 < Len(z) /\ x[(n + 1) + 1] < z[(n + 1) + 1]
    <3>1. CASE n = Len(q) BY <1>0, <1>1, <2>2, <2>3, <3>1
    <3>2. CASE n # Len(q)
      <4>0. n < Len(r) /\ n < Len(q) BY <1>0, <2>2, <2>3, <3>2
      <4>a. Len(x) = Len(q) + 1 /\ Len(z) = Len(r) + 1 BY <1>1
      <4>1. n + 1 # Len(x) /\ n + 1 \in 1..Len(q) /\ n + 1 \in 1..Len(r) /\ n < Len(r) /\ n + 1 < Len(z)
        BY <1>0, <2>3, <4>0, <4>a
      <4>2. x[(n + 1) + 1] = q[n + 1] /\ z[(n + 1) + 1] = r[n + 1] BY <1>1, <4>1
      <4> QED BY <2>2, <3>2, <4>1, <4>2
    <3> QED BY <3>1, <3>2
  <2>6. Ahead(x, z) BY <2>3, <2>4, <2>5 DEF Ahead
  <2> QED BY <1>1, <2>6, BeforeIs
<1> QED BY <1>2, <1>3 DEF x, y, z

\* k lists what g has at the paths D, in their order: e is the order.
Listed(D, g, k, e) ==
  /\ e \in Seq(D) /\ Len(e) = Len(k)
  /\ \A q \in D : \E j \in 1..Len(e) : e[j] = q
  /\ \A i, j \in 1..Len(e) : i < j => Mime!Before(e[i], e[j])
  /\ \A j \in 1..Len(e) : k[j] = g[e[j]]

\* k lists them in their order.
Enumerates(D, g, k) == \E e : Listed(D, g, k, e)

\* Nothing lists no paths.
LEMMA ListedEmpty ==
  ASSUME NEW g
  PROVE  Enumerates({}, g, <<>>)
<1>1. Listed({}, g, <<>>, <<>>) BY DEF Listed
<1> QED BY <1>1 DEF Enumerates

\* One value lists one path.
LEMMA ListedOne ==
  ASSUME NEW q, NEW v, NEW g, g[q] = v
  PROVE  Enumerates({q}, g, <<v>>)
<1> DEFINE e == <<q>>
           k == <<v>>
<1>0. e \in Seq({q}) /\ Len(e) = 1 /\ Len(k) = 1 /\ e[1] = q /\ k[1] = v OBVIOUS
<1> HIDE DEF e, k
<1>1. Listed({q}, g, k, e)
  <2>1. 1..Len(e) = {1} BY <1>0
  <2>2. \A i, j \in 1..Len(e) : i < j => Mime!Before(e[i], e[j]) BY <2>1
  <2>3. \A j \in 1..Len(e) : k[j] = g[e[j]] BY <1>0, <2>1
  <2>4. \A r \in {q} : \E j \in 1..Len(e) : e[j] = r BY <1>0, <2>1
  <2> QED BY <1>0, <2>2, <2>3, <2>4 DEF Listed
<1> QED BY <1>1 DEF Enumerates, k

\* The place of the path q in the order of the paths D.
Rank(D, q) == 1 + Cardinality({r \in D : Mime!Before(r, q)})

\* A list has one value for each path, at the place of the path.
LEMMA ListedCount ==
  ASSUME NEW D \in SUBSET Seq(Nat), NEW g, NEW k, Enumerates(D, g, k)
  PROVE  /\ Len(k) = Cardinality(D)
         /\ \A q \in D : k[Rank(D, q)] = g[q]
<1>1. PICK e : Listed(D, g, k, e) BY DEF Enumerates
<1> DEFINE n == Len(e)
<1>2. /\ e \in [1..n -> D] /\ n \in Nat /\ n = Len(k)
      /\ \A q \in D : \E j \in 1..n : e[j] = q
      /\ \A i, j \in 1..n : i < j => Mime!Before(e[i], e[j])
      /\ \A j \in 1..n : k[j] = g[e[j]]
  BY <1>1 DEF Listed
<1> HIDE DEF n
<1>3. \A i, j \in 1..n : i < j => e[i] # e[j] /\ ~Mime!Before(e[j], e[i])
  <2>1. \A j \in 1..n : e[j] \in Seq(Nat) BY <1>2
  <2>2. \A j \in 1..n : ~Mime!Before(e[j], e[j]) BY <2>1, BeforeOrders
  <2>3. \A i, j \in 1..n : Mime!Before(e[i], e[j]) => ~Mime!Before(e[j], e[i]) BY <2>1, BeforeOrders
  <2> QED BY <1>2, <2>2, <2>3
<1>4. Cardinality(D) = n
  <2>1. \A i, j \in 1..n : i < j => e[i] # e[j] BY <1>3
  <2>2. e \in [1..n -> D] /\ n \in Nat BY <1>2
  <2>3. \A q \in D : \E j \in 1..n : e[j] = q BY <1>2
  <2> QED BY <2>1, <2>2, <2>3, Counted
<1>5. ASSUME NEW q \in D PROVE k[Rank(D, q)] = g[q]
  <2>1. PICK j \in 1..n : e[j] = q BY <1>2
  <2> DEFINE E == {r \in D : Mime!Before(r, q)}
             f == [i \in 1..j - 1 |-> e[i]]
  <2>2. j - 1 \in Nat /\ \A i \in 1..j - 1 : i \in 1..n /\ i < j BY <1>2
  <2>3. f \in [1..j - 1 -> E] BY <1>2, <2>1, <2>2
  <2>4. ASSUME NEW r \in E PROVE \E i \in 1..j - 1 : f[i] = r
    <3>1. PICK i \in 1..n : e[i] = r BY <1>2
    <3>2. Mime!Before(e[i], e[j]) BY <2>1, <3>1
    <3>3. ~(j < i) /\ i # j
      <4>1. ~(j < i) BY <1>3, <3>2
      <4>2. ASSUME i = j PROVE FALSE
        <5>1. e[j] \in Seq(Nat) BY <1>2
        <5> QED BY <3>2, <4>2, <5>1, BeforeOrders
      <4> QED BY <4>1, <4>2
    <3>4. i \in 1..j - 1 BY <1>2, <3>3
    <3> QED BY <3>1, <3>4
  <2>5. \A i, m \in 1..j - 1 : i < m => f[i] # f[m] BY <1>3, <2>2
  <2> HIDE DEF E, f
  <2>6. Cardinality(E) = j - 1 BY <2>2, <2>3, <2>4, <2>5, Counted
  <2>7. 1 + Cardinality(E) = j BY <1>2, <2>6
  <2>8. Rank(D, q) = j BY <2>7 DEF E, Rank
  <2> QED BY <1>2, <2>1, <2>8
<1> QED BY <1>2, <1>4, <1>5

\* The elements of two sequences put together.
LEMMA ConcatFacts ==
  ASSUME NEW S, NEW s \in Seq(S), NEW t \in Seq(S)
  PROVE  /\ s \o t \in Seq(S) /\ Len(s \o t) = Len(s) + Len(t)
         /\ \A i \in 1..Len(s) : (s \o t)[i] = s[i]
         /\ \A i \in 1..Len(t) : (s \o t)[i + Len(s)] = t[i]
<1>1. s \o t \in Seq(S) OBVIOUS
<1>2. Len(s \o t) = Len(s) + Len(t) OBVIOUS
<1>3. \A i \in 1..Len(s) : (s \o t)[i] = s[i] OBVIOUS
<1>4. \A i \in 1..Len(t) : (s \o t)[i + Len(s)] = t[i] OBVIOUS
<1> QED BY <1>1, <1>2, <1>3, <1>4

\* Two lists, one of paths before those of the other, make one.
LEMMA ListedConcat ==
  ASSUME NEW A \in SUBSET Seq(Nat), NEW B \in SUBSET Seq(Nat), NEW g, NEW S, NEW k \in Seq(S), NEW l \in Seq(S),
         \A q \in A, r \in B : Mime!Before(q, r), Enumerates(A, g, k), Enumerates(B, g, l)
  PROVE  Enumerates(A \cup B, g, k \o l)
<1>1. PICK e : Listed(A, g, k, e) BY DEF Enumerates
<1>2. PICK f : Listed(B, g, l, f) BY DEF Enumerates
<1> DEFINE y == e \o f
           z == k \o l
           n == Len(e)
           m == Len(f)
<1>3. /\ e \in Seq(A) /\ f \in Seq(B) /\ n = Len(k) /\ m = Len(l) /\ n \in Nat /\ m \in Nat
      /\ \A i \in 1..n : e[i] \in A
      /\ \A i \in 1..m : f[i] \in B
  BY <1>1, <1>2 DEF Listed
<1>0. e \in Seq(A \cup B) /\ f \in Seq(A \cup B) BY <1>3
<1>4. /\ Len(y) = n + m /\ Len(z) = n + m
      /\ \A i \in 1..n : y[i] = e[i] /\ z[i] = k[i]
      /\ \A i \in 1..m : y[i + n] = f[i] /\ z[i + n] = l[i]
  <2>1. Len(y) = n + m /\ (\A i \in 1..n : y[i] = e[i]) /\ \A i \in 1..m : y[i + n] = f[i]
    BY <1>0, ConcatFacts
  <2>2. Len(z) = Len(k) + Len(l) /\ (\A i \in 1..Len(k) : z[i] = k[i]) /\ \A i \in 1..Len(l) : z[i + Len(k)] = l[i]
    BY ConcatFacts
  <2> HIDE DEF n, m, y, z
  <2>3. Len(k) = n /\ Len(l) = m BY <1>3
  <2>4. Len(z) = n + m /\ (\A i \in 1..n : z[i] = k[i]) /\ \A i \in 1..m : z[i + n] = l[i] BY <2>2, <2>3
  <2> QED BY <2>1, <2>4
<1>5. y \in Seq(A \cup B) BY <1>0, ConcatFacts
<1>a. /\ \A q \in A : \E j \in 1..n : e[j] = q
      /\ \A i, j \in 1..n : i < j => Mime!Before(e[i], e[j])
      /\ \A j \in 1..n : k[j] = g[e[j]]
  BY <1>1 DEF Listed
<1>b. /\ \A q \in B : \E j \in 1..m : f[j] = q
      /\ \A i, j \in 1..m : i < j => Mime!Before(f[i], f[j])
      /\ \A j \in 1..m : l[j] = g[f[j]]
  BY <1>2 DEF Listed
<1> HIDE DEF y, z, n, m
<1>6. ASSUME NEW i \in 1..n + m PROVE i \in 1..n \/ (i - n \in 1..m /\ (i - n) + n = i) BY <1>3
<1>7. ASSUME NEW q \in A \cup B PROVE \E j \in 1..n + m : y[j] = q
  <2>1. CASE q \in A
    <3>1. PICK j \in 1..n : e[j] = q BY <1>a, <2>1
    <3>2. j \in 1..n + m BY <1>3
    <3> QED BY <1>4, <3>1, <3>2
  <2>2. CASE q \in B
    <3>1. PICK j \in 1..m : f[j] = q BY <1>b, <2>2
    <3>2. j + n \in 1..n + m BY <1>3
    <3> QED BY <1>4, <3>1, <3>2
  <2> QED BY <2>1, <2>2
<1>8. ASSUME NEW i \in 1..n + m, NEW j \in 1..n + m, i < j PROVE Mime!Before(y[i], y[j])
  <2>1. CASE i \in 1..n /\ j \in 1..n BY <1>4, <1>8, <1>a, <2>1
  <2>2. CASE i \in 1..n /\ j \notin 1..n
    <3>1. j - n \in 1..m /\ (j - n) + n = j BY <1>6, <2>2
    <3>2. y[i] = e[i] /\ y[j] = f[j - n] BY <1>4, <2>2, <3>1
    <3> QED BY <1>3, <2>2, <3>1, <3>2
  <2>3. CASE i \notin 1..n
    <3>1. i - n \in 1..m /\ (i - n) + n = i BY <1>6, <2>3
    <3>2. j \notin 1..n BY <1>3, <1>8, <3>1
    <3>3. j - n \in 1..m /\ (j - n) + n = j /\ i - n < j - n BY <1>3, <1>6, <1>8, <3>2
    <3>4. y[i] = f[i - n] /\ y[j] = f[j - n] BY <1>4, <3>1, <3>3
    <3> QED BY <1>b, <3>1, <3>3, <3>4
  <2> QED BY <2>1, <2>2, <2>3
<1>9. ASSUME NEW i \in 1..n + m PROVE z[i] = g[y[i]]
  <2>1. CASE i \in 1..n BY <1>4, <1>a, <2>1
  <2>2. CASE i \notin 1..n
    <3>1. i - n \in 1..m /\ (i - n) + n = i BY <1>6, <2>2
    <3>2. y[i] = f[i - n] /\ z[i] = l[i - n] BY <1>4, <3>1
    <3> QED BY <1>b, <3>1, <3>2
  <2> QED BY <2>1, <2>2
<1>10. Listed(A \cup B, g, z, y) BY <1>4, <1>5, <1>7, <1>8, <1>9 DEF Listed
<1> QED BY <1>10 DEF Enumerates, z

\* The paths D of the part i, as paths of what holds it.
Pushed(i, D) == {Push(i, r) : r \in D}

\* A list of parts of a part is one of parts of what holds it.
LEMMA ListedPush ==
  ASSUME NEW i \in Nat, NEW D \in SUBSET Seq(Nat), NEW g, NEW h, NEW k,
         \A r \in D : h[Push(i, r)] = g[r], Enumerates(D, g, k)
  PROVE  Enumerates(Pushed(i, D), h, k)
<1>1. PICK e : Listed(D, g, k, e) BY DEF Enumerates
<1> DEFINE n == Len(e)
           y == [j \in 1..n |-> Push(i, e[j])]
<1>2. /\ n \in Nat /\ n = Len(k)
      /\ \A j \in 1..n : e[j] \in D
      /\ \A q \in D : \E j \in 1..n : e[j] = q
      /\ \A j, m \in 1..n : j < m => Mime!Before(e[j], e[m])
      /\ \A j \in 1..n : k[j] = g[e[j]]
  <2>1. e \in Seq(D) BY <1>1 DEF Listed
  <2>2. n \in Nat /\ \A j \in 1..n : e[j] \in D BY <2>1
  <2> QED BY <1>1, <2>2 DEF Listed
<1> HIDE DEF n
<1>3. \A j \in 1..n : y[j] = Push(i, e[j]) OBVIOUS
<1>4. \A j \in 1..n : y[j] \in Pushed(i, D) BY <1>2, <1>3 DEF Pushed
<1>5. y \in Seq(Pushed(i, D)) /\ Len(y) = n
  <2> DEFINE T == Pushed(i, D)
  <2>1. y \in [1..n -> T] BY <1>4
  <2> HIDE DEF T, y
  <2> QED BY <1>2, <2>1 DEF T
<1> HIDE DEF y
<1>6. ASSUME NEW q \in Pushed(i, D) PROVE \E j \in 1..n : y[j] = q
  <2>1. PICK r \in D : q = Push(i, r) BY DEF Pushed
  <2>2. PICK j \in 1..n : e[j] = r BY <1>2
  <2> QED BY <1>3, <2>1, <2>2
<1>7. ASSUME NEW j \in 1..n, NEW m \in 1..n, j < m PROVE Mime!Before(y[j], y[m])
  <2>1. e[j] \in Seq(Nat) /\ e[m] \in Seq(Nat) /\ Mime!Before(e[j], e[m]) BY <1>2, <1>7
  <2>2. Mime!Before(Push(i, e[j]), Push(i, e[m])) BY <2>1, BeforePush
  <2> QED BY <1>3, <2>2
<1>8. ASSUME NEW j \in 1..n PROVE k[j] = h[y[j]] BY <1>2, <1>3
<1>9. Listed(Pushed(i, D), h, k, y) BY <1>2, <1>5, <1>6, <1>7, <1>8 DEF Listed
<1> QED BY <1>9 DEF Enumerates

\* The paths D[i] of each of the first n parts.
PushedTo(D, n) == UNION {Pushed(i, D[i]) : i \in 1..n}

\* Lists of parts, one after the other, list the parts of what holds them.
LEMMA JoinListed ==
  ASSUME NEW S, NEW N \in Nat, NEW D, NEW g, NEW h, NEW s \in Seq(Seq(S)), Len(s) = N,
         \A i \in 1..N : D[i] \in SUBSET Seq(Nat),
         \A i \in 1..N : \A r \in D[i] : h[Push(i, r)] = g[i][r],
         \A i \in 1..N : Enumerates(D[i], g[i], s[i])
  PROVE  Enumerates(PushedTo(D, N), h, FlattenSeq(s))
<1> DEFINE Claim(n) == \A t \in Seq(Seq(S)) :
                         Len(t) = n /\ (\A i \in 1..n : Enumerates(D[i], g[i], t[i]))
                           => Enumerates(PushedTo(D, n), h, FlattenSeq(t))
           P == {n \in Nat : n <= N => Claim(n)}
<1>0. \A n \in Nat : 1..n + 1 = 1..n \cup {n + 1} OBVIOUS
<1>1. 0 \in P
  <2>1. ASSUME NEW t \in Seq(Seq(S)), Len(t) = 0 PROVE Enumerates(PushedTo(D, 0), h, FlattenSeq(t))
    <3>1. t = <<>> BY <2>1
    <3>2. FlattenSeq(t) = <<>> BY <2>1, <3>1, FlattenEmpty
    <3>3. PushedTo(D, 0) = {}
      <4>1. 1..0 = {} OBVIOUS
      <4> QED BY <4>1 DEF PushedTo
    <3> QED BY <3>2, <3>3, ListedEmpty
  <2> QED BY <2>1
<1>2. ASSUME NEW n \in P PROVE n + 1 \in P
  <2>0. n \in Nat /\ n + 1 \in Nat OBVIOUS
  <2>1. ASSUME n + 1 <= N, NEW t \in Seq(Seq(S)), Len(t) = n + 1, \A i \in 1..n + 1 : Enumerates(D[i], g[i], t[i])
        PROVE  Enumerates(PushedTo(D, n + 1), h, FlattenSeq(t))
    <3>0. Len(t) # 0 /\ n <= N /\ n + 1 \in 1..N /\ n + 1 \in Nat /\ n + 1 \in 1..n + 1 BY <2>0, <2>1
    <3>1. PICK u \in Seq(Seq(S)), v \in Seq(S) : t = Append(u, v) /\ Len(t) = Len(u) + 1
      <4> DEFINE T == Seq(S)
      <4> HIDE DEF T
      <4>1. t \in Seq(T) BY <2>1 DEF T
      <4>2. \E u \in Seq(T), v \in T : t = Append(u, v) /\ Len(t) = Len(u) + 1 BY <3>0, <4>1, SeqLast
      <4> QED BY <4>2 DEF T
    <3>2. Len(u) = n /\ t[n + 1] = v /\ \A i \in 1..n : t[i] = u[i] BY <2>0, <2>1, <3>1
    <3>3. \A i \in 1..n : i \in 1..n + 1 /\ i \in 1..N /\ i \in Nat /\ i < n + 1 BY <2>0, <2>1
    <3>4. Enumerates(PushedTo(D, n), h, FlattenSeq(u))
      <4>1. Claim(n) BY <3>0
      <4>2. \A i \in 1..n : Enumerates(D[i], g[i], u[i]) BY <2>1, <3>2, <3>3
      <4> HIDE DEF P
      <4> QED BY <3>2, <4>1, <4>2
    <3> DEFINE A == PushedTo(D, n)
               B == Pushed(n + 1, D[n + 1])
    <3>5. Enumerates(B, h, v)
      <4>1. Enumerates(D[n + 1], g[n + 1], v) BY <2>1, <3>0, <3>2
      <4> QED BY <3>0, <4>1, ListedPush
    <3>6. FlattenSeq(t) = FlattenSeq(u) \o v /\ FlattenSeq(u) \in Seq(S) BY <3>1, FlattenAppend, FlattenType
    <3>7. PushedTo(D, n + 1) = A \cup B
      <4> DEFINE F(i) == Pushed(i, D[i])
      <4>1. 1..n + 1 = 1..n \cup {n + 1} BY <1>0, <2>0
      <4>2. A = UNION {F(i) : i \in 1..n} /\ PushedTo(D, n + 1) = UNION {F(i) : i \in 1..n + 1} /\ B = F(n + 1)
        BY DEF PushedTo
      <4> HIDE DEF F, A, B
      <4> QED BY <4>1, <4>2
    <3>8. A \in SUBSET Seq(Nat) /\ B \in SUBSET Seq(Nat)
      <4>1. ASSUME NEW i \in 1..N, NEW r \in D[i] PROVE Push(i, r) \in Seq(Nat)
        <5>1. i \in Nat /\ r \in Seq(Nat) BY <4>1
        <5> QED BY <5>1, PushFacts
      <4>2. \A i \in 1..N : Pushed(i, D[i]) \subseteq Seq(Nat) BY <4>1 DEF Pushed
      <4> QED BY <3>0, <3>3, <4>2 DEF PushedTo
    <3>9. ASSUME NEW q \in A, NEW r \in B PROVE Mime!Before(q, r)
      <4>1. PICK i \in 1..n : q \in Pushed(i, D[i]) BY <3>9 DEF PushedTo
      <4>2. PICK x \in D[i] : q = Push(i, x) BY <4>1 DEF Pushed
      <4>3. PICK y \in D[n + 1] : r = Push(n + 1, y) BY <3>9 DEF Pushed
      <4>4. x \in Seq(Nat) /\ y \in Seq(Nat) /\ i \in Nat /\ i < n + 1 BY <3>0, <3>3
      <4> QED BY <3>0, <4>2, <4>3, <4>4, BeforePush
    <3> HIDE DEF A, B
    <3>10. Enumerates(A \cup B, h, FlattenSeq(u) \o v)
      <4> DEFINE w == FlattenSeq(u)
      <4>1. w \in Seq(S) /\ Enumerates(A, h, w) BY <3>4, <3>6 DEF A
      <4> HIDE DEF w
      <4>2. Enumerates(A \cup B, h, w \o v) BY <3>5, <3>8, <3>9, <4>1, ListedConcat
      <4> QED BY <4>2 DEF w
    <3> QED BY <3>6, <3>7, <3>10
  <2> QED BY <2>0, <2>1
<1>3. P = Nat
  <2>1. P \in SUBSET Nat OBVIOUS
  <2> HIDE DEF P
  <2> QED BY <1>1, <1>2, <2>1, SetInduction
<1>4. Claim(N) BY <1>3
<1> HIDE DEF P
<1> QED BY <1>4
-----------------------------------------------------------------------------
(* What a part shows does not depend on what is around it. *)
\* The prefixes of a path with a step put before it.
LEMMA PushPrefix ==
  ASSUME NEW i \in Nat, NEW r \in Seq(Nat)
  PROVE  /\ SubSeq(r, 1, 0) = <<>> /\ SubSeq(Push(i, r), 1, 0) = <<>>
         /\ \A n \in 0..Len(r) : SubSeq(Push(i, r), 1, n + 1) = Push(i, SubSeq(r, 1, n))
         /\ \A n \in 0..Len(r) : SubSeq(r, 1, n) \in Seq(Nat) /\ Len(SubSeq(r, 1, n)) = n
<1> DEFINE x == Push(i, r)
<1>1. x \in Seq(Nat) /\ Len(x) = Len(r) + 1 /\ x[1] = i /\ \A j \in 1..Len(r) : x[j + 1] = r[j] BY PushFacts
<1> HIDE DEF x
<1>0. Len(r) \in Nat OBVIOUS
<1>2. SubSeq(r, 1, 0) = <<>> /\ SubSeq(x, 1, 0) = <<>> BY <1>1
<1>3. \A n \in 0..Len(r) : /\ SubSeq(r, 1, n) \in Seq(Nat) /\ Len(SubSeq(r, 1, n)) = n
                           /\ \A j \in 1..n : SubSeq(r, 1, n)[j] = r[j]
  OBVIOUS
<1>4. ASSUME NEW n \in 0..Len(r) PROVE SubSeq(x, 1, n + 1) = Push(i, SubSeq(r, 1, n))
  <2> DEFINE y == SubSeq(x, 1, n + 1)
             u == SubSeq(r, 1, n)
             z == Push(i, u)
  <2>0. n + 1 \in 0..Len(x) /\ n \in Nat BY <1>0, <1>1
  <2>1. y \in Seq(Nat) /\ Len(y) = n + 1 /\ \A j \in 1..n + 1 : y[j] = x[j] BY <1>1, <2>0
  <2>2. u \in Seq(Nat) /\ Len(u) = n /\ \A j \in 1..n : u[j] = r[j] BY <1>3
  <2> HIDE DEF u, y
  <2>3. z \in Seq(Nat) /\ Len(z) = n + 1 /\ z[1] = i /\ \A j \in 1..n : z[j + 1] = u[j] BY <2>2, PushFacts
  <2> HIDE DEF z
  <2>4. ASSUME NEW j \in 1..n + 1 PROVE y[j] = z[j]
    <3>1. CASE j = 1 BY <1>1, <2>1, <2>3, <2>4, <3>1
    <3>2. CASE j # 1
      <4>1. j - 1 \in 1..n /\ j - 1 \in 1..Len(r) /\ (j - 1) + 1 = j BY <1>0, <2>0, <2>4, <3>2
      <4>2. y[j] = x[j] /\ x[j] = r[j - 1] BY <1>1, <2>1, <2>4, <4>1
      <4>3. z[j] = u[j - 1] /\ u[j - 1] = r[j - 1] BY <2>2, <2>3, <4>1
      <4> QED BY <4>2, <4>3
    <3> QED BY <3>1, <3>2
  <2>5. y = z BY <2>1, <2>3, <2>4, SeqEqual
  <2> QED BY <2>5 DEF y, z, u
<1> QED BY <1>2, <1>3, <1>4 DEF x

\* Above each part of a part is a part of it.
LEMMA PathPrefix ==
  \A p \in Mime!Parts : \A q \in DOMAIN Mime!Sub[p] : \A n \in 0..Len(q) : SubSeq(q, 1, n) \in DOMAIN Mime!Sub[p]
<1> DEFINE A == Mime!Sub
           Claim(p) == \A q \in DOMAIN A[p] : \A n \in 0..Len(q) : SubSeq(q, 1, n) \in DOMAIN A[p]
           G == {p \in Mime!Parts : Claim(p)}
<1> HIDE DEF A
<1>1. ASSUME NEW p \in Mime!Parts, \A i \in DOMAIN p.sub : p.sub[i] \in G PROVE p \in G
  <2>0. p.sub \in Seq(Mime!Parts) BY PartShape
  <2>1. /\ \A q : q \in DOMAIN A[p] <=> q = <<>> \/ \E i \in DOMAIN p.sub : \E r \in DOMAIN A[p.sub[i]] : q = Push(i, r)
    BY PathFacts DEF A
  <2>2. ASSUME NEW q \in DOMAIN A[p], NEW n \in 0..Len(q) PROVE SubSeq(q, 1, n) \in DOMAIN A[p]
    <3>1. CASE q = <<>>
      <4>1. n = 0 /\ SubSeq(<<>>, 1, 0) = <<>> BY <2>2, <3>1
      <4> QED BY <2>1, <3>1, <4>1
    <3>2. CASE q # <<>>
      <4>1. PICK i \in DOMAIN p.sub : \E r \in DOMAIN A[p.sub[i]] : q = Push(i, r) BY <2>1, <2>2, <3>2
      <4>2. PICK r \in DOMAIN A[p.sub[i]] : q = Push(i, r) BY <4>1
      <4>3. p.sub[i] \in Mime!Parts /\ i \in Nat BY <2>0
      <4>4. r \in Seq(Nat)
        <5>1. DOMAIN A[p.sub[i]] \subseteq Seq(Nat) BY <4>3, PathFacts DEF A
        <5> QED BY <5>1
      <4>5. Len(q) = Len(r) + 1 /\ Len(r) \in Nat BY <4>2, <4>3, <4>4, PushFacts
      <4>6. CASE n = 0
        <5>1. SubSeq(q, 1, n) = <<>> BY <4>2, <4>3, <4>4, <4>6, PushPrefix
        <5> QED BY <2>1, <5>1
      <4>7. CASE n # 0
        <5>1. n - 1 \in 0..Len(r) /\ (n - 1) + 1 = n BY <2>2, <4>5, <4>7
        <5>2. SubSeq(q, 1, n) = Push(i, SubSeq(r, 1, n - 1)) BY <4>2, <4>3, <4>4, <5>1, PushPrefix
        <5>3. SubSeq(r, 1, n - 1) \in DOMAIN A[p.sub[i]] BY <1>1, <5>1
        <5> QED BY <2>1, <5>2, <5>3
      <4> QED BY <4>6, <4>7
    <3> QED BY <3>1, <3>2
  <2> QED BY <1>1, <2>2
<1>2. Mime!Parts \subseteq G
  <2> HIDE DEF G
  <2> QED BY <1>1, PartInduction
<1> QED BY <1>2 DEF A

\* Shows, of the parts of a part p that need not be a mail: m says whether it is.
MailAt(m, p, q)  == IF q = <<>> THEN m ELSE Mime!Above(p, q).ct = "message"
OpenTo(m, s)     == Mime!Holds(s) /\ (s.ct = "multipart" \/ (s.ct = "message" /\ ~m))
ReachedIn(m, p, q) == \A n \in 0..Len(q) - 1 :
  OpenTo(MailAt(m, p, SubSeq(q, 1, n)), Mime!Sub[p][SubSeq(q, 1, n)])
Says(m, s, field) ==
  LET text == m \/ s.file = "none"
  IN /\ s.read # "broken"
     /\ CASE field = "plain" -> text /\ Mime!Readable(s) /\ (s.ct = "plain" \/ (m /\ s.ct = "none"))
          [] field = "htmls" -> text /\ s.ct \in {"html", "markdown"}
          [] field = "atts"  -> /\ ~m /\ s.file = "ok" /\ Mime!Readable(s)
                                /\ s.ct \in {"plain", "html", "markdown", "other"}
ShowsIn(m, p, q, field) == ReachedIn(m, p, q) /\ Says(MailAt(m, p, q), Mime!Sub[p][q], field)
ShownIn(m, p, field)    == {q \in DOMAIN Mime!Sub[p] : ShowsIn(m, p, q, field)}

\* What is kept of a mail.
Fields == {"plain", "htmls", "atts"}

\* In a mail the two are the same.
LEMMA ShowsTop ==
  ASSUME NEW p, NEW q, NEW field \in Fields
  PROVE  Mime!Shows(p, q, field) <=> ShowsIn(TRUE, p, q, field)
<1>1. \A r : Mime!IsMail(p, r) <=> MailAt(TRUE, p, r) BY DEF Mime!IsMail, MailAt
<1>2. Mime!Reached(p, q) <=> ReachedIn(TRUE, p, q) BY <1>1 DEF Mime!Reached, ReachedIn, OpenTo
<1> DEFINE M == Mime!IsMail(p, q)
           N == MailAt(TRUE, p, q)
           s == Mime!Sub[p][q]
<1>3. Mime!Shows(p, q, field) <=> Mime!Reached(p, q) /\ Says(M, s, field) BY DEF Mime!Shows, Says
<1>4. Says(M, s, field) <=> Says(N, s, field)
  <2>1. M <=> N BY <1>1
  <2> HIDE DEF M, N, s
  <2>2. CASE field = "plain" BY <2>1, <2>2 DEF Says
  <2>3. CASE field = "htmls" BY <2>1, <2>3 DEF Says
  <2>4. CASE field = "atts" BY <2>1, <2>4 DEF Says
  <2> QED BY <2>2, <2>3, <2>4 DEF Fields
<1> QED BY <1>2, <1>3, <1>4 DEF ShowsIn

\* Whether a part of a part is a mail does not depend on what is around.
LEMMA MailAtPush ==
  ASSUME NEW m \in BOOLEAN, NEW p \in Mime!Parts, NEW i \in DOMAIN p.sub, NEW r \in DOMAIN Mime!Sub[p.sub[i]]
  PROVE  MailAt(m, p, Push(i, r)) <=> MailAt(p.ct = "message", p.sub[i], r)
<1> DEFINE s == p.sub[i]
           q == Push(i, r)
<1>1. s \in Mime!Parts /\ i \in Nat
  <2>1. p.sub \in Seq(Mime!Parts) BY PartShape
  <2> QED BY <2>1
<1>2. r \in Seq(Nat) BY <1>1, PathFacts
<1>3. q # <<>> /\ Len(q) - 1 = Len(r) /\ Len(r) \in Nat BY <1>1, <1>2, PushFacts
<1>4. MailAt(m, p, q) <=> Mime!Sub[p][SubSeq(q, 1, Len(r))].ct = "message" BY <1>3 DEF MailAt, Mime!Above
<1>5. CASE r = <<>>
  <2>1. Len(r) = 0 BY <1>5
  <2>2. SubSeq(q, 1, Len(r)) = <<>> BY <1>1, <1>2, <2>1, PushPrefix
  <2>3. Mime!Sub[p][<<>>] = p BY PathFacts
  <2> QED BY <1>4, <1>5, <2>2, <2>3 DEF MailAt
<1>6. CASE r # <<>>
  <2>1. Len(r) - 1 \in 0..Len(r) /\ (Len(r) - 1) + 1 = Len(r) BY <1>2, <1>6
  <2> DEFINE u == SubSeq(r, 1, Len(r) - 1)
  <2>2. SubSeq(q, 1, Len(r)) = Push(i, u) BY <1>1, <1>2, <2>1, PushPrefix
  <2>3. u \in DOMAIN Mime!Sub[s] BY <1>1, <2>1, PathPrefix
  <2>4. Mime!Sub[p][Push(i, u)] = Mime!Sub[s][u] BY <2>3, PathFacts
  <2>5. MailAt(p.ct = "message", s, r) <=> Mime!Sub[s][u].ct = "message" BY <1>6 DEF MailAt, Mime!Above
  <2> HIDE DEF u, s, q
  <2>6. MailAt(m, p, q) <=> MailAt(p.ct = "message", s, r) BY <1>4, <2>2, <2>4, <2>5
  <2> QED BY <2>6 DEF s, q
<1> QED BY <1>5, <1>6

\* A part of a part shows what it shows there, when the part is opened.
LEMMA ShowsPush ==
  ASSUME NEW m \in BOOLEAN, NEW p \in Mime!Parts, NEW i \in DOMAIN p.sub, NEW r \in DOMAIN Mime!Sub[p.sub[i]], NEW field
  PROVE  ShowsIn(m, p, Push(i, r), field) <=> OpenTo(m, p) /\ ShowsIn(p.ct = "message", p.sub[i], r, field)
<1> DEFINE s == p.sub[i]
           q == Push(i, r)
           t == p.ct = "message"
           n == Len(r)
           O(k) == OpenTo(MailAt(m, p, SubSeq(q, 1, k)), Mime!Sub[p][SubSeq(q, 1, k)])
           I(k) == OpenTo(MailAt(t, s, SubSeq(r, 1, k)), Mime!Sub[s][SubSeq(r, 1, k)])
<1>1. s \in Mime!Parts /\ i \in Nat
  <2>1. p.sub \in Seq(Mime!Parts) BY PartShape
  <2> QED BY <2>1
<1>2. r \in Seq(Nat) BY <1>1, PathFacts
<1>3. Len(q) - 1 = n /\ n \in Nat BY <1>1, <1>2, PushFacts
<1>4. ReachedIn(m, p, q) <=> \A k \in 0..n : O(k) BY <1>3 DEF ReachedIn
<1>5. ReachedIn(t, s, r) <=> \A k \in 0..n - 1 : I(k) BY DEF ReachedIn
<1>6. O(0) <=> OpenTo(m, p)
  <2>1. SubSeq(q, 1, 0) = <<>> BY <1>1, <1>2, PushPrefix
  <2>2. Mime!Sub[p][<<>>] = p BY PathFacts
  <2>3. MailAt(m, p, <<>>) = m BY DEF MailAt
  <2> HIDE DEF q
  <2> QED BY <2>1, <2>2, <2>3
<1>7. ASSUME NEW k \in 0..n - 1 PROVE O(k + 1) <=> I(k)
  <2>1. k \in 0..n BY <1>3
  <2> DEFINE u == SubSeq(r, 1, k)
  <2>2. SubSeq(q, 1, k + 1) = Push(i, u) BY <1>1, <1>2, <2>1, PushPrefix
  <2>3. u \in DOMAIN Mime!Sub[s] BY <1>1, <2>1, PathPrefix
  <2>4. Mime!Sub[p][Push(i, u)] = Mime!Sub[s][u] BY <2>3, PathFacts
  <2>5. MailAt(m, p, Push(i, u)) <=> MailAt(t, s, u) BY <2>3, MailAtPush
  <2>6. OpenTo(MailAt(m, p, Push(i, u)), Mime!Sub[p][Push(i, u)]) <=> OpenTo(MailAt(t, s, u), Mime!Sub[s][u])
    BY <2>4, <2>5 DEF OpenTo
  <2> HIDE DEF q
  <2> QED BY <2>2, <2>6
<1> HIDE DEF O, I
<1>8. (\A k \in 0..n : O(k)) <=> OpenTo(m, p) /\ \A k \in 0..n - 1 : I(k)
  <2> HIDE DEF n
  <2>1. ASSUME \A k \in 0..n : O(k) PROVE OpenTo(m, p) /\ \A k \in 0..n - 1 : I(k)
    <3>1. 0 \in 0..n /\ \A k \in 0..n - 1 : k + 1 \in 0..n BY <1>3
    <3> QED BY <1>6, <1>7, <2>1, <3>1
  <2>2. ASSUME OpenTo(m, p), \A k \in 0..n - 1 : I(k), NEW k \in 0..n PROVE O(k)
    <3>1. CASE k = 0 BY <1>6, <2>2, <3>1
    <3>2. CASE k # 0
      <4>1. k - 1 \in 0..n - 1 /\ (k - 1) + 1 = k BY <1>3, <2>2, <3>2
      <4> QED BY <1>7, <2>2, <4>1
    <3> QED BY <3>1, <3>2
  <2> QED BY <2>1, <2>2
<1>9. Says(MailAt(m, p, q), Mime!Sub[p][q], field) <=> Says(MailAt(t, s, r), Mime!Sub[s][r], field)
  <2>1. MailAt(m, p, q) <=> MailAt(t, s, r) BY MailAtPush
  <2>2. Mime!Sub[p][q] = Mime!Sub[s][r] BY PathFacts
  <2> DEFINE M == MailAt(m, p, q)
             N == MailAt(t, s, r)
             x == Mime!Sub[p][q]
  <2> HIDE DEF M, N, x
  <2>3. Says(M, x, field) <=> Says(N, x, field)
    <3>1. M <=> N BY <2>1 DEF M, N
    <3> QED BY <3>1 DEF Says
  <2> QED BY <2>2, <2>3 DEF M, N, x
<1>10. ShowsIn(m, p, q, field) <=> OpenTo(m, p) /\ ShowsIn(t, s, r, field)
  BY <1>4, <1>5, <1>8, <1>9 DEF ShowsIn
<1> QED BY <1>10
-----------------------------------------------------------------------------
(* What is kept of a part lists what it shows. *)
\* The contents of the parts of p, the values a field can have, and what is
\* kept of a part that is a mail or not.
ContentOf(p, field) == [q \in DOMAIN Mime!Sub[p] |-> Mime!Content(p, q, field)]
ValueOf(p, field)   == CASE field = "plain" -> p.id [] field = "htmls" -> Mime!decodeBody(p)
                         [] field = "atts" -> Mime!attachment(p)
KeptValues(field)   == CASE field = "plain" -> Contents [] field = "htmls" -> Seq(Contents)
                         [] field = "atts" -> [of : Contents, decoded : BOOLEAN]
KeptOf(m, p)        == IF m THEN Mime!ParsePart[p] ELSE Mime!SubPart(Mime!ParsePart, p)

\* The same for each part of p.
InnerShown(p, field)   == [i \in DOMAIN p.sub |-> ShownIn(p.ct = "message", p.sub[i], field)]
InnerKept(p, field)    == [i \in DOMAIN p.sub |-> KeptOf(p.ct = "message", p.sub[i])[field]]
InnerContent(p, field) == [i \in DOMAIN p.sub |-> ContentOf(p.sub[i], field)]

\* A part of a part has the content that it has there.
LEMMA ContentPush ==
  ASSUME NEW p \in Mime!Parts, NEW i \in DOMAIN p.sub, NEW r \in DOMAIN Mime!Sub[p.sub[i]], NEW field
  PROVE  ContentOf(p, field)[Push(i, r)] = InnerContent(p, field)[i][r]
<1> DEFINE q == Push(i, r)
           s == p.sub[i]
<1>1. q \in DOMAIN Mime!Sub[p] /\ Mime!Sub[p][q] = Mime!Sub[s][r] BY PathFacts
<1>2. InnerContent(p, field)[i] = ContentOf(s, field) BY DEF InnerContent
<1> HIDE DEF q, s
<1>3. ContentOf(p, field)[q] = Mime!Content(p, q, field) BY <1>1 DEF ContentOf
<1>4. Mime!Content(p, q, field) = Mime!Content(s, r, field) BY <1>1 DEF Mime!Content
<1>5. r \in DOMAIN Mime!Sub[s] BY DEF s
<1>6. ContentOf(s, field)[r] = Mime!Content(s, r, field) BY <1>5 DEF ContentOf
<1> QED BY <1>2, <1>3, <1>4, <1>6 DEF q, s

\* The part itself has its own.
LEMMA ContentRoot ==
  ASSUME NEW p \in Mime!Parts, NEW field
  PROVE  ContentOf(p, field)[<<>>] = ValueOf(p, field)
<1>1. <<>> \in DOMAIN Mime!Sub[p] /\ Mime!Sub[p][<<>>] = p BY PathFacts
<1>2. ContentOf(p, field)[<<>>] = Mime!Content(p, <<>>, field) BY <1>1 DEF ContentOf
<1> QED BY <1>1, <1>2 DEF Mime!Content, ValueOf

\* The part itself is reached.
LEMMA ShowsRoot ==
  ASSUME NEW m \in BOOLEAN, NEW p \in Mime!Parts, NEW field
  PROVE  ShowsIn(m, p, <<>>, field) <=> Says(m, p, field)
<1> DEFINE root == <<>>
<1>1. Mime!Sub[p][root] = p BY PathFacts
<1>2. MailAt(m, p, root) = m BY DEF MailAt
<1>3. 0..Len(root) - 1 = {} OBVIOUS
<1> HIDE DEF root
<1>4. ReachedIn(m, p, root) BY <1>3 DEF ReachedIn
<1>5. ShowsIn(m, p, root, field) <=> Says(m, p, field) BY <1>1, <1>2, <1>4 DEF ShowsIn
<1> QED BY <1>5 DEF root

\* A part that is opened shows what its parts show, and nothing itself.
LEMMA ShownOpen ==
  ASSUME NEW m \in BOOLEAN, NEW p \in Mime!Parts, NEW field \in Fields, OpenTo(m, p)
  PROVE  ShownIn(m, p, field) = PushedTo(InnerShown(p, field), Len(p.sub))
<1> DEFINE D == InnerShown(p, field)
           t == p.ct = "message"
<1>1. p.sub \in Seq(Mime!Parts) /\ DOMAIN p.sub = 1..Len(p.sub)
  <2>1. p.sub \in Seq(Mime!Parts) BY PartShape
  <2> QED BY <2>1
<1>2. ~Says(m, p, field)
  <2>1. p.ct = "multipart" \/ (p.ct = "message" /\ ~m) BY DEF OpenTo
  <2>2. CASE field = "plain" BY <2>1, <2>2 DEF Says
  <2>3. CASE field = "htmls" BY <2>1, <2>3 DEF Says
  <2>4. CASE field = "atts" BY <2>1, <2>4 DEF Says
  <2> QED BY <2>2, <2>3, <2>4 DEF Fields
<1>3. <<>> \notin ShownIn(m, p, field) BY <1>2, ShowsRoot DEF ShownIn
<1>4. ASSUME NEW i \in DOMAIN p.sub PROVE D[i] = ShownIn(t, p.sub[i], field) BY DEF InnerShown
<1> HIDE DEF D
<1>5. ASSUME NEW q \in ShownIn(m, p, field) PROVE q \in PushedTo(D, Len(p.sub))
  <2>1. q \in DOMAIN Mime!Sub[p] /\ ShowsIn(m, p, q, field) /\ q # <<>> BY <1>3, <1>5 DEF ShownIn
  <2>2. PICK i \in DOMAIN p.sub : \E r \in DOMAIN Mime!Sub[p.sub[i]] : q = Push(i, r) BY <2>1, PathFacts
  <2>3. PICK r \in DOMAIN Mime!Sub[p.sub[i]] : q = Push(i, r) BY <2>2
  <2>4. ShowsIn(t, p.sub[i], r, field) BY <2>1, <2>3, ShowsPush
  <2>5. r \in D[i] BY <1>4, <2>4 DEF ShownIn
  <2>6. q \in Pushed(i, D[i]) BY <2>3, <2>5 DEF Pushed
  <2> QED BY <1>1, <2>6 DEF PushedTo
<1>6. ASSUME NEW q \in PushedTo(D, Len(p.sub)) PROVE q \in ShownIn(m, p, field)
  <2>1. PICK i \in 1..Len(p.sub) : q \in Pushed(i, D[i]) BY <1>6 DEF PushedTo
  <2>2. PICK r \in D[i] : q = Push(i, r) BY <2>1 DEF Pushed
  <2>3. i \in DOMAIN p.sub BY <1>1
  <2>4. r \in DOMAIN Mime!Sub[p.sub[i]] /\ ShowsIn(t, p.sub[i], r, field) BY <1>4, <2>3 DEF ShownIn
  <2>5. ShowsIn(m, p, q, field) BY <2>2, <2>3, <2>4, ShowsPush
  <2>6. q \in DOMAIN Mime!Sub[p] BY <2>2, <2>3, <2>4, PathFacts
  <2> QED BY <2>5, <2>6 DEF ShownIn
<1> QED BY <1>5, <1>6 DEF D

\* One that is not shows at most itself.
LEMMA ShownClosed ==
  ASSUME NEW m \in BOOLEAN, NEW p \in Mime!Parts, NEW field, ~OpenTo(m, p)
  PROVE  ShownIn(m, p, field) = IF Says(m, p, field) THEN {<<>>} ELSE {}
<1>1. ASSUME NEW q \in ShownIn(m, p, field) PROVE q = <<>>
  <2>1. q \in DOMAIN Mime!Sub[p] /\ ShowsIn(m, p, q, field) BY <1>1 DEF ShownIn
  <2>2. ASSUME q # <<>> PROVE FALSE
    <3>1. PICK i \in DOMAIN p.sub : \E r \in DOMAIN Mime!Sub[p.sub[i]] : q = Push(i, r) BY <2>1, <2>2, PathFacts
    <3>2. PICK r \in DOMAIN Mime!Sub[p.sub[i]] : q = Push(i, r) BY <3>1
    <3> QED BY <2>1, <3>2, ShowsPush
  <2> QED BY <2>2
<1>2. <<>> \in ShownIn(m, p, field) <=> Says(m, p, field)
  <2>1. <<>> \in DOMAIN Mime!Sub[p] BY PathFacts
  <2> QED BY <2>1, ShowsRoot DEF ShownIn
<1> QED BY <1>1, <1>2

\* A part is its five fields.
LEMMA PartRecord ==
  ASSUME NEW p \in Mime!Parts
  PROVE  p = [ct |-> p.ct, file |-> p.file, read |-> p.read, id |-> p.id, sub |-> p.sub]
<1> DEFINE inner == InnerParts(Depth)
           S == Seq(inner)
           F == [1..1 -> inner]
           M == Mime!Types
<1>1. p \in PartsOf(inner) BY PartsToIs, DepthAssumption DEF Mime!Parts
<1>2. \/ p \in [ct : M, file : {"none", "ok", "bad"}, read : Mime!Bodies, id : Contents, sub : S]
      \/ p \in [ct : {"message"}, file : {"none", "ok", "bad"}, read : Mime!Bodies, id : Contents, sub : F]
  BY <1>1 DEF PartsOf
<1> HIDE DEF S, F, M
<1> QED BY <1>2

\* What is kept of a part that is not opened is what it says.
LEMMA KeptClosed ==
  ASSUME NEW m \in BOOLEAN, NEW p \in Mime!Parts, NEW field \in Fields, ~OpenTo(m, p)
  PROVE  KeptOf(m, p)[field] = IF Says(m, p, field) THEN <<ValueOf(p, field)>> ELSE <<>>
<1>1. /\ p.ct \in Mime!Types \cup {"message"} /\ p.file \in {"none", "ok", "bad"}
      /\ p.read \in Mime!Bodies /\ p.id \in Contents
  BY PartShape
<1> DEFINE d == Mime!decodeBody(p)
<1>2. d = IF Mime!Readable(p) THEN <<p.id>> ELSE <<>> BY DEF Mime!decodeBody
<1> HIDE DEF d
<1>3. /\ Mime!Text(p) = CASE p.ct = "plain"                -> Mime!Kept(d, <<>>, <<>>)
                          [] p.ct \in {"html", "markdown"} -> Mime!Kept(<<>>, <<d>>, <<>>)
                          [] OTHER                         -> Mime!NothingKept
  BY DEF Mime!Text, d
<1>4. Mime!Text([p EXCEPT !.ct = "plain"]) = Mime!Kept(d, <<>>, <<>>)
  <2> DEFINE q == [p EXCEPT !.ct = "plain"]
  <2>1. q.ct = "plain" /\ q.read = p.read /\ q.id = p.id
    <3> DEFINE T == Seq(Mime!Parts)
    <3>1. p \in [ct : Mime!Types \cup {"message"}, file : {"none", "ok", "bad"}, read : Mime!Bodies,
                 id : Contents, sub : T]
      <4>1. p = [ct |-> p.ct, file |-> p.file, read |-> p.read, id |-> p.id, sub |-> p.sub] BY PartRecord
      <4> QED BY <1>1, <4>1, PartShape
    <3> HIDE DEF T
    <3> QED BY <3>1
  <2> HIDE DEF q
  <2> QED BY <2>1, <1>2 DEF Mime!Text, Mime!decodeBody, Mime!Readable
<1> DEFINE k == KeptOf(m, p)
<1>5. k = Mime!Kept(IF Says(m, p, "plain") THEN <<p.id>> ELSE <<>>,
                    IF Says(m, p, "htmls") THEN <<d>> ELSE <<>>,
                    IF Says(m, p, "atts") THEN <<Mime!attachment(p)>> ELSE <<>>)
  <2>1. CASE m
    <3>1. k = ParseOf(Mime!ParsePart, p) BY <2>1, ParseIs DEF KeptOf
    <3>2. CASE p.read = "broken" \/ p.ct \in {"bad", "unbounded"}
      <4>1. k = Mime!NothingKept BY <3>1, <3>2 DEF ParseOf
      <4>2. ~Says(m, p, "plain") /\ ~Says(m, p, "htmls") /\ ~Says(m, p, "atts") BY <2>1, <3>2 DEF Says
      <4> QED BY <4>1, <4>2 DEF Mime!NothingKept
    <3>3. CASE p.read # "broken" /\ p.ct = "none"
      <4>1. k = Mime!Text([p EXCEPT !.ct = "plain"]) BY <3>1, <3>3 DEF ParseOf
      <4>2. Says(m, p, "plain") <=> Mime!Readable(p) BY <2>1, <3>3 DEF Says
      <4>3. ~Says(m, p, "htmls") /\ ~Says(m, p, "atts") BY <2>1, <3>3 DEF Says
      <4> QED BY <1>2, <1>4, <4>1, <4>2, <4>3
    <3>m. CASE p.read # "broken" /\ p.ct = "multipart"
      <4>1. ~Mime!Holds(p) BY <3>m DEF OpenTo
      <4>2. k = Mime!NothingKept BY <3>1, <3>m, <4>1 DEF ParseOf
      <4>3. ~Says(m, p, "plain") /\ ~Says(m, p, "htmls") /\ ~Says(m, p, "atts") BY <2>1, <3>m DEF Says
      <4> QED BY <4>2, <4>3 DEF Mime!NothingKept
    <3>4. CASE p.read # "broken" /\ p.ct \notin {"bad", "unbounded", "none", "multipart"}
      <4>1. p.ct # "multipart" BY <3>4
      <4>2. k = Mime!Text(p) BY <3>1, <3>4, <4>1 DEF ParseOf
      <4>3. Says(m, p, "plain") <=> Mime!Readable(p) /\ p.ct = "plain" BY <2>1, <3>4 DEF Says
      <4>4. Says(m, p, "htmls") <=> p.ct \in {"html", "markdown"} BY <2>1, <3>4 DEF Says
      <4>5. ~Says(m, p, "atts") BY <2>1 DEF Says
      <4> QED BY <1>2, <1>3, <4>2, <4>3, <4>4, <4>5 DEF Mime!NothingKept
    <3> QED BY <3>2, <3>3, <3>m, <3>4
  <2>2. CASE ~m
    <3>1. k = Mime!SubPart(Mime!ParsePart, p) BY <2>2 DEF KeptOf
    <3>2. CASE Mime!Unread(p)
      <4>1. k = Mime!NothingKept BY <3>1, <3>2 DEF Mime!SubPart
      <4>2. ~Says(m, p, "plain") /\ ~Says(m, p, "htmls") /\ ~Says(m, p, "atts")
        BY <2>2, <3>2 DEF Says, Mime!Unread
      <4> QED BY <4>1, <4>2 DEF Mime!NothingKept
    <3>3. CASE ~Mime!Unread(p) /\ p.ct \in {"unbounded", "multipart"}
      <4>1. k = Mime!ParsePart[p] BY <3>1, <3>3 DEF Mime!SubPart
      <4>h. p.ct = "multipart" => ~Mime!Holds(p) BY DEF OpenTo
      <4>2. k = Mime!NothingKept BY <3>3, <4>1, <4>h, ParseIs DEF ParseOf
      <4>3. ~Says(m, p, "plain") /\ ~Says(m, p, "htmls") /\ ~Says(m, p, "atts") BY <2>2, <3>3 DEF Says
      <4> QED BY <4>2, <4>3 DEF Mime!NothingKept
    <3>4. CASE ~Mime!Unread(p) /\ p.ct \notin {"unbounded", "multipart"}
      <4>0. p.read # "broken" /\ p.ct \in {"plain", "html", "markdown", "other"}
        <5>1. p.read # "broken" /\ p.ct \notin {"none", "bad", "unbounded"} BY <3>4 DEF Mime!Unread
        <5>2. p.ct # "multipart" /\ p.ct # "message" BY <2>2, <3>4 DEF OpenTo, Mime!Unread
        <5> QED BY <1>1, <5>1, <5>2 DEF Mime!Types
      <4>1. k = IF p.file # "none" THEN Mime!AnalysePart(p) ELSE Mime!Text(p)
        BY <3>1, <3>4, <4>0 DEF Mime!SubPart
      <4>2. Says(m, p, "plain") <=> p.file = "none" /\ Mime!Readable(p) /\ p.ct = "plain" BY <2>2, <4>0 DEF Says
      <4>3. Says(m, p, "htmls") <=> p.file = "none" /\ p.ct \in {"html", "markdown"} BY <2>2, <4>0 DEF Says
      <4>4. Says(m, p, "atts") <=> p.file = "ok" /\ Mime!Readable(p) BY <2>2, <4>0 DEF Says
      <4>5. CASE p.file # "none"
        <5>1. Mime!AnalysePart(p) = IF p.file = "ok" /\ Mime!Readable(p) THEN Mime!Kept(<<>>, <<>>, <<Mime!attachment(p)>>)
                                    ELSE Mime!Kept(<<>>, <<>>, <<>>)
          BY <1>1, <4>0 DEF Mime!AnalysePart, Mime!NothingKept
        <5> QED BY <4>1, <4>2, <4>3, <4>4, <4>5, <5>1
      <4>6. CASE p.file = "none" BY <1>2, <1>3, <4>0, <4>1, <4>2, <4>3, <4>4, <4>6 DEF Mime!NothingKept
      <4> QED BY <4>5, <4>6
    <3> QED BY <3>2, <3>3, <3>4
  <2> QED BY <2>1, <2>2
<1> HIDE DEF k
<1>6. CASE field = "plain"
  <2>1. k[field] = IF Says(m, p, field) THEN <<p.id>> ELSE <<>> BY <1>5, <1>6 DEF Mime!Kept
  <2> QED BY <1>6, <2>1 DEF ValueOf, k
<1>7. CASE field = "htmls"
  <2>1. k[field] = IF Says(m, p, field) THEN <<d>> ELSE <<>> BY <1>5, <1>7 DEF Mime!Kept
  <2> QED BY <1>7, <2>1 DEF ValueOf, k, d
<1>8. CASE field = "atts"
  <2>1. k[field] = IF Says(m, p, field) THEN <<Mime!attachment(p)>> ELSE <<>> BY <1>5, <1>8 DEF Mime!Kept
  <2> QED BY <1>8, <2>1 DEF ValueOf, k
<1> QED BY <1>6, <1>7, <1>8 DEF Fields

\* What is joined is flattened, field by field.
LEMMA JoinIs ==
  ASSUME NEW ks, NEW field \in Fields
  PROVE  Mime!Join(ks)[field] = FlattenSeq([i \in DOMAIN ks |-> ks[i][field]])
<1> DEFINE J == Mime!Join(ks)
           P == [i \in DOMAIN ks |-> ks[i].plain]
           H == [i \in DOMAIN ks |-> ks[i].htmls]
           A == [i \in DOMAIN ks |-> ks[i].atts]
           F == [i \in DOMAIN ks |-> ks[i][field]]
<1>1. J = Mime!Kept(FlattenSeq(P), FlattenSeq(H), FlattenSeq(A))
  <2>1. J = Mime!Kept(Mime!FlattenSeq(P), Mime!FlattenSeq(H), Mime!FlattenSeq(A)) BY DEF Mime!Join
  <2> HIDE DEF J, P, H, A
  <2> QED BY <2>1, SameFlatten
<1>2. (field = "plain" => F = P) /\ (field = "htmls" => F = H) /\ (field = "atts" => F = A) OBVIOUS
<1> HIDE DEF J, P, H, A, F
<1>3. J.plain = FlattenSeq(P) /\ J.htmls = FlattenSeq(H) /\ J.atts = FlattenSeq(A) BY <1>1 DEF Mime!Kept
<1>4. J[field] = FlattenSeq(F) BY <1>2, <1>3 DEF Fields
<1> QED BY <1>4 DEF J, F

\* What is kept of a part that is opened is what is kept of its parts, one
\* after the other.
LEMMA KeptOpen ==
  ASSUME NEW m \in BOOLEAN, NEW p \in Mime!Parts, NEW field \in Fields, OpenTo(m, p),
         NEW S, InnerKept(p, field) \in Seq(Seq(S))
  PROVE  KeptOf(m, p)[field] = FlattenSeq(InnerKept(p, field))
<1> DEFINE K == InnerKept(p, field)
<1>1. Mime!Holds(p) /\ p.read # "broken" /\ (p.ct = "multipart" \/ (p.ct = "message" /\ ~m))
  BY DEF OpenTo, Mime!Holds
<1>2. ~Mime!Unread(p) BY <1>1 DEF Mime!Unread
<1>3. CASE p.ct = "multipart"
  <2> DEFINE subs == [i \in DOMAIN p.sub |-> Mime!SubPart(Mime!ParsePart, p.sub[i])]
  <2>1. KeptOf(m, p) = Mime!ParsePart[p] BY <1>2, <1>3 DEF KeptOf, Mime!SubPart
  <2>2. Mime!ParsePart[p] = ParseOf(Mime!ParsePart, p) BY ParseIs
  <2>3. ParseOf(Mime!ParsePart, p) = Mime!Join(subs) BY <1>1, <1>3 DEF ParseOf
  <2>4. DOMAIN subs = DOMAIN p.sub /\ \A i \in DOMAIN p.sub : subs[i] = KeptOf(p.ct = "message", p.sub[i])
    BY <1>3 DEF KeptOf
  <2> HIDE DEF subs
  <2>5. [i \in DOMAIN subs |-> subs[i][field]] = K BY <2>4 DEF InnerKept
  <2>6. Mime!Join(subs)[field] = FlattenSeq([i \in DOMAIN subs |-> subs[i][field]]) BY JoinIs
  <2> QED BY <2>1, <2>2, <2>3, <2>5, <2>6
<1>4. CASE p.ct = "message" /\ ~m
  <2>1. KeptOf(m, p) = Mime!ParsePart[p.sub[1]] BY <1>2, <1>4 DEF KeptOf, Mime!SubPart
  <2>2. DOMAIN p.sub = {1} BY <1>4, PartShape
  <2>3. DOMAIN K = {1} /\ K[1] = Mime!ParsePart[p.sub[1]][field] BY <1>4, <2>2 DEF InnerKept, KeptOf
  <2> DEFINE x == K[1]
             T == Seq(S)
             none == <<>>
  <2>4. K \in Seq(T) BY DEF K
  <2> HIDE DEF K, T
  <2>5. Len(K) = 1 /\ 1 \in 1..Len(K)
    <3>1. Len(K) \in Nat /\ DOMAIN K = 1..Len(K) BY <2>4
    <3>2. 1 \in 1..Len(K) /\ ~(2 \in 1..Len(K)) BY <2>3, <3>1
    <3> QED BY <3>1, <3>2
  <2>6. x \in T /\ none \in Seq(T) /\ none \in T
    <3>1. x \in T
      <4>1. \A i \in 1..Len(K) : K[i] \in T BY <2>4
      <4> QED BY <2>5, <4>1
    <3>2. none \in T BY DEF T
    <3>3. none \in Seq(T) OBVIOUS
    <3> QED BY <3>1, <3>2, <3>3
  <2>7. K = Append(none, x)
    <3>1. Append(none, x) \in Seq(T) /\ Len(Append(none, x)) = 1 /\ Append(none, x)[1] = x BY <2>6
    <3> DEFINE y == Append(none, x)
    <3> HIDE DEF y
    <3>2. \A i \in 1..1 : K[i] = y[i] BY <3>1 DEF y
    <3>3. y \in Seq(T) /\ Len(y) = 1 BY <3>1 DEF y
    <3> QED BY <2>4, <2>5, <3>2, <3>3, SeqEqual DEF y
  <2>8. FlattenSeq(Append(none, x)) = FlattenSeq(none) \o x
    <3> HIDE DEF x, none
    <3> QED BY <2>6, FlattenAppend DEF T
  <2>9. FlattenSeq(none) = none BY FlattenEmpty
  <2>10. none \o x = x
    <3> HIDE DEF x
    <3>1. x \in Seq(S) BY <2>6 DEF T
    <3> QED BY <3>1
  <2>11. FlattenSeq(K) = x BY <2>7, <2>8, <2>9, <2>10
  <2> QED BY <2>1, <2>3, <2>11 DEF K
<1> QED BY <1>1, <1>3, <1>4

\* What is kept of a part lists what it shows: in it, and of the parts in it.
LEMMA KeptListed ==
  \A p \in Mime!Parts : \A m \in BOOLEAN, field \in Fields :
    /\ KeptOf(m, p)[field] \in Seq(KeptValues(field))
    /\ Enumerates(ShownIn(m, p, field), ContentOf(p, field), KeptOf(m, p)[field])
<1> DEFINE Good(p, m, field) ==
             /\ KeptOf(m, p)[field] \in Seq(KeptValues(field))
             /\ Enumerates(ShownIn(m, p, field), ContentOf(p, field), KeptOf(m, p)[field])
           G == {p \in Mime!Parts : \A m \in BOOLEAN, field \in Fields : Good(p, m, field)}
<1>1. ASSUME NEW p \in Mime!Parts, \A i \in DOMAIN p.sub : p.sub[i] \in G PROVE p \in G
  <2>1. ASSUME NEW m \in BOOLEAN, NEW field \in Fields PROVE Good(p, m, field)
    <3> DEFINE k == KeptOf(m, p)[field]
    <3>1. CASE OpenTo(m, p)
      <4> DEFINE s == InnerKept(p, field)
                 D == InnerShown(p, field)
                 g == InnerContent(p, field)
                 h == ContentOf(p, field)
                 t == p.ct = "message"
                 S == KeptValues(field)
                 N == Len(p.sub)
      <4>1. p.sub \in Seq(Mime!Parts) /\ N \in Nat /\ DOMAIN p.sub = 1..N
        <5>1. p.sub \in Seq(Mime!Parts) BY PartShape
        <5> QED BY <5>1
      <4>2. ASSUME NEW i \in 1..N
            PROVE  /\ s[i] \in Seq(S) /\ D[i] \in SUBSET Seq(Nat) /\ Enumerates(D[i], g[i], s[i])
                   /\ \A r \in D[i] : h[Push(i, r)] = g[i][r]
        <5> DEFINE x == p.sub[i]
        <5>1. i \in DOMAIN p.sub /\ x \in Mime!Parts BY <4>1
        <5>2. t \in BOOLEAN OBVIOUS
        <5>3. Good(x, t, field) BY <1>1, <2>1, <5>1, <5>2
        <5>4. s[i] = KeptOf(t, x)[field] /\ D[i] = ShownIn(t, x, field) /\ g[i] = ContentOf(x, field)
          BY <5>1 DEF InnerKept, InnerShown, InnerContent
        <5>5. D[i] \subseteq DOMAIN Mime!Sub[x] BY <5>4 DEF ShownIn
        <5>6. DOMAIN Mime!Sub[x] \subseteq Seq(Nat) BY <5>1, PathFacts
        <5>7. \A r \in D[i] : h[Push(i, r)] = g[i][r] BY <5>1, <5>5, ContentPush
        <5> HIDE DEF s, D, g, h, S, x, t
        <5> QED BY <5>3, <5>4, <5>5, <5>6, <5>7 DEF S
      <4>3. DOMAIN s = 1..N BY <4>1 DEF InnerKept
      <4>s. s \in [1..N -> Seq(S)]
        <5> DEFINE T == Seq(S)
        <5>1. s = [i \in 1..N |-> s[i]] BY <4>1 DEF InnerKept
        <5>2. \A i \in 1..N : s[i] \in T BY <4>2
        <5> HIDE DEF s, T
        <5> QED BY <5>1, <5>2 DEF T
      <4>4. s \in Seq(Seq(S)) /\ Len(s) = N
        <5> DEFINE T == Seq(S)
        <5>1. s \in [1..N -> T] BY <4>s
        <5> HIDE DEF T, s
        <5>2. s \in Seq(T) BY <4>1, <5>1
        <5> QED BY <4>1, <4>3, <5>2 DEF T
      <4>5. ShownIn(m, p, field) = PushedTo(D, N) BY <3>1, ShownOpen
      <4>6. k = FlattenSeq(s)
        <5> HIDE DEF S
        <5> QED BY <3>1, <4>4, KeptOpen
      <4> HIDE DEF s, D, g, h, S, N, k
      <4>7. Enumerates(PushedTo(D, N), h, FlattenSeq(s)) BY <4>1, <4>2, <4>4, JoinListed
      <4>8. FlattenSeq(s) \in Seq(S) BY <4>4, FlattenType
      <4> QED BY <4>5, <4>6, <4>7, <4>8 DEF k, h, S
    <3>2. CASE ~OpenTo(m, p)
      <4> DEFINE v == ValueOf(p, field)
                 E == KeptValues(field)
                 h == ContentOf(p, field)
                 root == <<>>
      <4>1. v \in E
        <5>1. p.id \in Contents BY PartShape
        <5>2. CASE field = "htmls"
          <6>1. Mime!decodeBody(p) \in Seq(Contents) BY <5>1 DEF Mime!decodeBody
          <6> QED BY <5>2, <6>1 DEF ValueOf, KeptValues
        <5>3. CASE field = "plain" BY <5>1, <5>3 DEF ValueOf, KeptValues
        <5>4. CASE field = "atts"
          <6>1. Mime!attachment(p) \in [of : Contents, decoded : BOOLEAN] BY <5>1 DEF Mime!attachment
          <6> QED BY <5>4, <6>1 DEF ValueOf, KeptValues
        <5> QED BY <5>2, <5>3, <5>4 DEF Fields
      <4>2. h[root] = v BY ContentRoot
      <4>3. k = IF Says(m, p, field) THEN <<v>> ELSE <<>> BY <3>2, KeptClosed
      <4>4. ShownIn(m, p, field) = IF Says(m, p, field) THEN {root} ELSE {} BY <3>2, ShownClosed
      <4> HIDE DEF v, E, h, root, k
      <4>5. <<v>> \in Seq(E) /\ <<>> \in Seq(E) BY <4>1
      <4>6. Enumerates({root}, h, <<v>>) BY <4>2, ListedOne
      <4>7. Enumerates({}, h, <<>>) BY ListedEmpty
      <4>8. CASE Says(m, p, field) BY <4>3, <4>4, <4>5, <4>6, <4>8 DEF k, E, h
      <4>9. CASE ~Says(m, p, field) BY <4>3, <4>4, <4>5, <4>7, <4>9 DEF k, E, h
      <4> QED BY <4>8, <4>9
    <3> QED BY <3>1, <3>2
  <2> QED BY <2>1
<1>2. Mime!Parts \subseteq G
  <2> HIDE DEF G
  <2> QED BY <1>1, PartInduction
<1> QED BY <1>2

\* Each part that has something to show is kept once and in its order
\* (ParsePart); nothing else is.
LEMMA PartsAreKeptAll ==
  ASSUME NEW p \in Mime!Parts
  PROVE  Mime!PartsAreKept(p, Mime!ParsePart[p])
<1> DEFINE k == Mime!ParsePart[p]
<1>1. ASSUME NEW field \in Fields
      PROVE  /\ Len(k[field]) = Mime!Cardinality(Mime!Shown(p, field))
             /\ \A q \in Mime!Shown(p, field) :
                  k[field][1 + Mime!Cardinality({r \in Mime!Shown(p, field) : Mime!Before(r, q)})]
                    = Mime!Content(p, q, field)
  <2> DEFINE D == Mime!Shown(p, field)
             g == ContentOf(p, field)
             x == k[field]
  <2>1. D = ShownIn(TRUE, p, field)
    <3>1. \A q : Mime!Shows(p, q, field) <=> ShowsIn(TRUE, p, q, field) BY ShowsTop
    <3> QED BY <3>1 DEF Mime!Shown, ShownIn
  <2>2. x = KeptOf(TRUE, p)[field] BY DEF KeptOf
  <2>3. Enumerates(D, g, x) BY <2>1, <2>2, KeptListed
  <2>4. D \subseteq DOMAIN Mime!Sub[p] BY DEF Mime!Shown
  <2>5. D \in SUBSET Seq(Nat) BY <2>4, PathFacts
  <2>6. \A q \in D : g[q] = Mime!Content(p, q, field) BY <2>4 DEF ContentOf
  <2> HIDE DEF D, g, x
  <2>7. /\ Len(x) = Cardinality(D)
        /\ \A q \in D : x[Rank(D, q)] = g[q]
    BY <2>3, <2>5, ListedCount
  <2>8. \A T : Mime!Cardinality(T) = Cardinality(T) BY SameCardinality
  <2>9. ASSUME NEW q \in D PROVE x[1 + Mime!Cardinality({r \in D : Mime!Before(r, q)})] = Mime!Content(p, q, field)
    <3> DEFINE T == {r \in D : Mime!Before(r, q)}
    <3>1. x[1 + Cardinality(T)] = g[q] BY <2>7 DEF Rank
    <3> HIDE DEF T
    <3>2. x[1 + Mime!Cardinality(T)] = Mime!Content(p, q, field) BY <2>6, <2>8, <3>1
    <3> QED BY <3>2 DEF T
  <2>10. Len(x) = Mime!Cardinality(D) BY <2>7, <2>8
  <2> QED BY <2>9, <2>10 DEF D, x
<1> HIDE DEF k
<1>2. Mime!PartsAreKept(p, k) BY <1>1 DEF Mime!PartsAreKept, Fields
<1> QED BY <1>2 DEF k

\* A mail put into another is kept with all that it shows.
LEMMA ForwardingKeepsAll ==
  ASSUME NEW p \in Mime!PartsTo[Depth - 2], NEW outer \in Mime!Parts, 0 \in Contents
  PROVE  Mime!ForwardingKeeps(p, outer)
<1> DEFINE mail == [ct |-> "message", file |-> "ok", read |-> "ok", id |-> 0, sub |-> <<p>>]
           more == [outer EXCEPT !.sub = Append(@, mail)]
<1> SUFFICES ASSUME outer.ct = "multipart", outer.read = "ok"
             PROVE  Mime!ParsePart[more] = Mime!Join(<<Mime!ParsePart[outer], Mime!ParsePart[p]>>)
  BY DEF Mime!ForwardingKeeps
<1>0. /\ Depth \in Nat \ {0, 1} /\ Depth \in 0..Depth /\ Depth - 1 \in 0..Depth /\ Depth - 2 \in 0..Depth
      /\ Depth # 0 /\ Depth - 1 # 0 /\ (Depth - 1) - 1 = Depth - 2
  BY DepthAssumption
<1>1. InnerParts(Depth) = Mime!PartsTo[Depth - 1] /\ InnerParts(Depth - 1) = Mime!PartsTo[Depth - 2]
  BY <1>0 DEF InnerParts
<1>2. mail \in Mime!PartsTo[Depth - 1]
  <2> DEFINE inner == InnerParts(Depth - 1)
             one == <<p>>
  <2>1. one \in [1..1 -> inner]
    <3>1. p \in inner BY <1>1
    <3> HIDE DEF inner
    <3> QED BY <3>1
  <2>2. Mime!PartsTo[Depth - 1] = PartsOf(inner) BY <1>0, PartsToIs
  <2>3. mail = [ct |-> "message", file |-> "ok", read |-> "ok", id |-> 0, sub |-> one] OBVIOUS
  <2> DEFINE F == [1..1 -> inner]
  <2> HIDE DEF one, mail
  <2>4. mail \in [ct : {"message"}, file : {"none", "ok", "bad"}, read : Mime!Bodies,
                  id : Contents, sub : F]
    <3>1. one \in F BY <2>1
    <3>2. "ok" \in Mime!Bodies BY DEF Mime!Bodies
    <3> HIDE DEF F
    <3> QED BY <2>3, <3>1, <3>2
  <2> QED BY <2>2, <2>4 DEF PartsOf
<1> DEFINE T == Seq(InnerParts(Depth))
           s == outer.sub
           t == Append(s, mail)
<1>3. s \in T /\ t \in T /\ Len(t) = Len(s) + 1 /\ t[Len(s) + 1] = mail /\ Len(s) \in Nat
      /\ DOMAIN s = 1..Len(s) /\ DOMAIN t = 1..Len(s) + 1 /\ \A i \in 1..Len(s) : t[i] = s[i]
  <2> DEFINE inner == InnerParts(Depth)
  <2>1. mail \in inner BY <1>1, <1>2
  <2>2. s \in Seq(inner) BY <1>0, PartFacts DEF Mime!Parts
  <2> HIDE DEF inner, mail, s
  <2>3. t \in Seq(inner) BY <2>1, <2>2
  <2>4. Len(t) = Len(s) + 1 /\ t[Len(s) + 1] = mail BY <2>1, <2>2
  <2>5. \A i \in 1..Len(s) : t[i] = s[i] BY <2>1, <2>2
  <2>6. Len(s) \in Nat /\ DOMAIN s = 1..Len(s) /\ DOMAIN t = 1..Len(t) BY <2>2, <2>3
  <2> HIDE DEF t
  <2> QED BY <2>2, <2>3, <2>4, <2>5, <2>6 DEF inner
<1> HIDE DEF s, t, mail
<1>4. more = [ct |-> "multipart", file |-> outer.file, read |-> "ok", id |-> outer.id, sub |-> t]
  <2>1. outer = [ct |-> outer.ct, file |-> outer.file, read |-> outer.read, id |-> outer.id, sub |-> outer.sub]
    BY PartRecord
  <2> QED BY <2>1 DEF s, t
<1>5. more.ct = "multipart" /\ more.read = "ok" /\ more.sub = t
  <2> HIDE DEF more
  <2> QED BY <1>4
<1>6. more \in Mime!Parts
  <2>1. outer.file \in {"none", "ok", "bad"} /\ outer.id \in Contents BY PartShape
  <2>2. Mime!Parts = PartsOf(InnerParts(Depth)) BY <1>0, PartsToIs DEF Mime!Parts
  <2>3. "multipart" \in Mime!Types /\ "ok" \in Mime!Bodies BY DEF Mime!Types, Mime!Bodies
  <2> DEFINE M == Mime!Types
  <2> HIDE DEF more, T, M
  <2>4. more \in [ct : M, file : {"none", "ok", "bad"}, read : Mime!Bodies, id : Contents, sub : T]
    BY <1>3, <1>4, <2>1, <2>3 DEF M
  <2> QED BY <2>2, <2>4 DEF PartsOf, M, T
<1> HIDE DEF more
<1>7. p \in Mime!Parts BY <1>0, PartsIn
<1> DEFINE A == Mime!ParsePart
           k == A[outer]
           l == A[p]
           u == A[more]
           N == Len(s)
<1>8. ASSUME NEW field \in Fields
      PROVE  u[field] = FlattenSeq(<<k[field], l[field]>>)
  <2> DEFINE S == KeptValues(field)
             x == InnerKept(outer, field)
             y == InnerKept(more, field)
             v == l[field]
  <2>1. k[field] = KeptOf(TRUE, outer)[field] /\ u[field] = KeptOf(TRUE, more)[field] BY DEF KeptOf
  <2>2. OpenTo(TRUE, outer) /\ OpenTo(TRUE, more) BY <1>5 DEF OpenTo, Mime!Holds
  <2>3. /\ DOMAIN x = 1..N /\ DOMAIN y = 1..N + 1
        /\ \A i \in 1..N : x[i] = KeptOf(FALSE, s[i])[field]
        /\ \A i \in 1..N + 1 : y[i] = KeptOf(FALSE, t[i])[field]
    BY <1>3, <1>5 DEF InnerKept, s
  <2>4. KeptOf(FALSE, mail)[field] = v
    <3>1. mail.ct = "message" /\ mail.read = "ok" /\ mail.sub[1] = p BY DEF mail
    <3>2. Mime!SubPart(A, mail) = A[mail.sub[1]] BY <3>1 DEF Mime!SubPart, Mime!Unread, Mime!Holds
    <3> QED BY <3>1, <3>2 DEF KeptOf
  <2>5. \A i \in 1..N : x[i] \in Seq(S)
    <3>1. \A i \in 1..N : s[i] \in Mime!Parts
      <4>1. s \in Seq(Mime!Parts) BY PartShape DEF s
      <4> QED BY <1>3, <4>1
    <3> HIDE DEF x, s, S, N
    <3> QED BY <2>3, <3>1, KeptListed DEF S
  <2>6. v \in Seq(S)
    <3>1. v = KeptOf(TRUE, p)[field] BY DEF KeptOf
    <3> QED BY <1>7, <3>1, KeptListed
  <2> DEFINE Q == Seq(S)
  <2> HIDE DEF S, x, y, v
  <2>7. x \in Seq(Q) /\ Len(x) = N
    <3> HIDE DEF Q
    <3>1. \A i \in 1..N : x[i] \in Q BY <2>5 DEF Q
    <3>2. N \in Nat /\ DOMAIN x = 1..N BY <1>3, <2>3
    <3>3. x = [i \in 1..N |-> x[i]] BY DEF x, InnerKept, s, N
    <3> HIDE DEF N
    <3>4. x \in [1..N -> Q] BY <3>1, <3>3
    <3>5. x \in Seq(Q) BY <3>2, <3>4
    <3> QED BY <3>2, <3>5
  <2>8. y = Append(x, v)
    <3> DEFINE z == Append(x, v)
    <3>1. z \in Seq(Q) /\ Len(z) = N + 1 /\ z[N + 1] = v /\ \A i \in 1..N : z[i] = x[i]
      <4>1. v \in Q BY <2>6 DEF Q
      <4> HIDE DEF Q, N
      <4> QED BY <2>7, <4>1
    <3> HIDE DEF z
    <3>2. ASSUME NEW i \in 1..N + 1 PROVE y[i] = z[i]
      <4>1. CASE i \in 1..N BY <1>3, <2>3, <3>1, <4>1
      <4>2. CASE i \notin 1..N
        <5>1. i = N + 1 BY <1>3, <4>2
        <5>2. y[i] = KeptOf(FALSE, t[i])[field] BY <2>3
        <5>3. t[i] = mail BY <1>3, <5>1
        <5> QED BY <2>4, <3>1, <5>1, <5>2, <5>3
      <4> QED BY <4>1, <4>2
    <3>3. y = [i \in 1..N + 1 |-> y[i]] BY <1>3, <1>5 DEF y, InnerKept
    <3>4. z = [i \in 1..N + 1 |-> z[i]]
      <4> HIDE DEF Q, N
      <4>1. DOMAIN z = 1..N + 1 BY <3>1
      <4> QED BY <3>1, <4>1
    <3>5. y = z BY <3>2, <3>3, <3>4
    <3> QED BY <3>5 DEF z
  <2> DEFINE F == FlattenSeq(x)
  <2>9. F \in Q /\ v \in Q BY <2>6, <2>7, FlattenType DEF Q
  <2>10. FlattenSeq(y) = F \o v
    <3>1. x \in Seq(Seq(S)) /\ v \in Seq(S) BY <2>6, <2>7 DEF Q
    <3> QED BY <2>8, <3>1, FlattenAppend
  <2>11. y \in Seq(Seq(S))
    <3> HIDE DEF Q
    <3>1. y \in Seq(Q) BY <2>7, <2>8, <2>9
    <3> QED BY <3>1 DEF Q
  <2>12. k[field] = F /\ u[field] = F \o v
    <3>1. x \in Seq(Seq(S)) BY <2>7 DEF Q
    <3>2. KeptOf(TRUE, outer)[field] = FlattenSeq(x) BY <2>2, <3>1, KeptOpen DEF x
    <3>3. KeptOf(TRUE, more)[field] = FlattenSeq(y) BY <1>6, <2>2, <2>11, KeptOpen DEF y
    <3> QED BY <2>1, <2>10, <3>2, <3>3
  <2>13. FlattenSeq(<<F, v>>) = F \o v
    <3> HIDE DEF F
    <3> DEFINE none == <<>>
               one == <<F>>
    <3>1. none \in Seq(Q) /\ one \in Seq(Q) BY <2>9
    <3>2. one = Append(none, F) /\ <<F, v>> = Append(one, v)
      <4> HIDE DEF Q
      <4> QED BY <2>9
    <3> HIDE DEF none, one
    <3>3. FlattenSeq(one) = FlattenSeq(none) \o F BY <2>9, <3>1, <3>2, FlattenAppend DEF Q
    <3>4. FlattenSeq(<<F, v>>) = FlattenSeq(one) \o v BY <2>9, <3>1, <3>2, FlattenAppend DEF Q
    <3>5. FlattenSeq(none) = <<>> BY FlattenEmpty DEF none
    <3>6. <<>> \o F = F BY <2>9 DEF Q
    <3> QED BY <3>3, <3>4, <3>5, <3>6
  <2> QED BY <2>12, <2>13 DEF v
<1> DEFINE kl == <<k, l>>
           J == Mime!Join(kl)
<1>9. ASSUME NEW field \in Fields PROVE J[field] = u[field]
  <2>1. J[field] = FlattenSeq([i \in DOMAIN kl |-> kl[i][field]]) BY JoinIs
  <2>2. [i \in DOMAIN kl |-> kl[i][field]] = <<k[field], l[field]>>
    <3> HIDE DEF k, l
    <3> QED OBVIOUS
  <2> QED BY <1>8, <2>1, <2>2
<1>10. \E x, y, z : u = Mime!Kept(x, y, z)
  <2>1. u = ParseOf(A, more) BY <1>6, ParseIs
  <2>2. \E ks : u = Mime!Join(ks) BY <1>5, <2>1 DEF ParseOf, Mime!Holds
  <2> QED BY <2>2 DEF Mime!Join
<1>11. \E x, y, z : J = Mime!Kept(x, y, z) BY DEF Mime!Join
<1> HIDE DEF J, u
<1>12. J.plain = u.plain /\ J.htmls = u.htmls /\ J.atts = u.atts BY <1>9 DEF Fields
<1>13. J = u BY <1>10, <1>11, <1>12 DEF Mime!Kept
<1> QED BY <1>13 DEF J, u
-----------------------------------------------------------------------------
(* The answers. *)
\* An answer is that of the function to the input, which is one of the bounded inputs.
AnalysisInv ==
  /\ part = "mime"       => in \in Trees /\ out \in {<<>>, <<Mime!ParsePart[in]>>}
  /\ part = "attachment" => in \in Attached \X BOOLEAN /\ out \in {<<>>, <<Att!AnalyseAttachment(in[1], in[2])>>}
  /\ part = "features"   => in \in Texts /\ out \in {<<>>, <<Feat!Features(in)>>}
  /\ part = "address"    => in \in Names
  /\ part = "words"      => in \in Sentences /\ out \in {<<>>, <<Feat!StemmedBag(in)>>}
  /\ part = "received"   => in \in Hops \X BOOLEAN /\ out \in {<<>>, <<Feat!ParseReceivedHeader(in[1], in[2])>>}
  /\ part = "form"       => in \in Forms

\* Nothing is answered at the start.
LEMMA InitAnalysis == MCInit => AnalysisInv
BY DEF MCInit, AnalysisInit, AnalysisInv

\* Each function answers its own input, and a step of the command leaves the
\* answer alone.
LEMMA StepAnalysis == AnalysisInv /\ [MCNext]_<<analysis, vars>> => AnalysisInv'
<1> SUFFICES ASSUME AnalysisInv, [MCNext]_<<analysis, vars>> PROVE AnalysisInv' OBVIOUS
<1>1. CASE ParsePart BY <1>1 DEF ParsePart, Does, AnalysisInv
<1>2. CASE AnalyseAttachment BY <1>2 DEF AnalyseAttachment, Does, AnalysisInv
<1>3. CASE ParseText BY <1>3 DEF ParseText, Does, AnalysisInv
<1>4. CASE nameContainsAddress BY <1>4 DEF nameContainsAddress, Does, AnalysisInv
<1>5. CASE BagOfWords BY <1>5 DEF BagOfWords, Does, AnalysisInv
<1>6. CASE ParseReceivedHeader BY <1>6 DEF ParseReceivedHeader, Does, AnalysisInv
<1>7. CASE analyze BY <1>7 DEF analyze, Does, AnalysisInv
<1>8. CASE UNCHANGED analysis BY <1>8 DEF analysis, AnalysisInv
<1>9. CASE UNCHANGED <<analysis, vars>> BY <1>9 DEF analysis, AnalysisInv
<1> QED BY <1>1, <1>2, <1>3, <1>4, <1>5, <1>6, <1>7, <1>8, <1>9 DEF MCNext

\* So it is of every answer.
LEMMA AnalysisAlways == MCSpec => []AnalysisInv
BY InitAnalysis, StepAnalysis, PTL DEF MCSpec

\* For every depth, every set of mails and every content: each part of a mail
\* that says something is kept once, in its place and as what it is, and a mail
\* in a mail says what it said alone.
THEOREM PartsAreAlwaysKept == MCSpec => []PartsAreKept
<1>1. ASSUME AnalysisInv, Done("mime") PROVE Mime!PartsAreKept(in, out[1]) /\ \A x \in Outers : Mime!ForwardingKeeps(in, x)
  <2>1. in \in Trees /\ out[1] = Mime!ParsePart[in] BY <1>1 DEF AnalysisInv, Done
  <2>2. in \in Mime!PartsTo[Depth - 2] /\ Outers \subseteq Mime!Parts /\ 0 \in Contents BY <2>1, TreesAssumption
  <2>3. in \in Mime!Parts
    <3>1. Depth - 2 \in 0..Depth BY DepthAssumption
    <3> QED BY <2>2, <3>1, PartsIn
  <2>4. Mime!PartsAreKept(in, Mime!ParsePart[in]) BY <2>3, PartsAreKeptAll
  <2>5. ASSUME NEW x \in Outers PROVE Mime!ForwardingKeeps(in, x)
    <3>1. x \in Mime!Parts BY <2>2
    <3> QED BY <2>2, <3>1, ForwardingKeepsAll
  <2> QED BY <2>1, <2>4, <2>5
<1>2. AnalysisInv => PartsAreKept BY <1>1 DEF PartsAreKept
<1> QED BY <1>2, AnalysisAlways, PTL

\* For every depth and every set of files: a program in an attachment is
\* reported exactly when nothing broken and no compression inside an archive
\* hides it, one file more hides none, and what kills the process is known.
THEOREM ExecutablesAreAlwaysSeen == MCSpec => []ExecutablesAreSeen
<1>1. ASSUME AnalysisInv, Done("attachment")
      PROVE  /\ Att!ExecutablesAreSeen(in[1], out[1]) /\ Att!PanicsWithoutTool(in[1], in[2], out[1])
             /\ \A e \in Extras : Att!MoreIsSeen(in[1], e, in[2])
  <2> DEFINE f == in[1]
             tool == in[2]
  <2>1. f \in Attached /\ tool \in BOOLEAN /\ out[1] = Att!AnalyseAttachment(f, tool) BY <1>1 DEF AnalysisInv, Done
  <2>2. f \in Att!Files /\ Extras \subseteq Att!FilesTo[Depth - 1] BY <2>1, FilesAssumption
  <2> HIDE DEF f, tool
  <2>3. Att!ExecutablesAreSeen(f, Att!AnalyseAttachment(f, tool)) BY <2>2, ExecutablesAreSeenAll
  <2>4. Att!PanicsWithoutTool(f, tool, Att!AnalyseAttachment(f, tool)) BY <2>1, <2>2, PanicsWithoutToolAll
  <2>5. \A e \in Extras : Att!MoreIsSeen(f, e, tool) BY <2>2, MoreIsSeenAll
  <2> QED BY <2>1, <2>3, <2>4, <2>5 DEF f, tool
<1>2. AnalysisInv => ExecutablesAreSeen BY <1>1 DEF ExecutablesAreSeen
<1> QED BY <1>2, AnalysisAlways, PTL

\* For every text, word, name and hop: what is said of headers, links,
\* signatures, senders, words and hops is in the mail, and what is not said
\* is known.
THEOREM FeaturesAreAlwaysTrue == MCSpec => []FeaturesAreTrue
<1>1. ASSUME AnalysisInv, Done("features")
      PROVE  /\ Feat!HeadersAccounted(in, out[1]) /\ Feat!LinksAccounted(in, out[1].urls)
             /\ Feat!SignaturesAccounted(in, out[1].dkim)
  <2>1. in \in Texts /\ out[1] = Feat!Features(in) BY <1>1 DEF AnalysisInv, Done
  <2>2. out[1].urls = Feat!URLs(in) /\ out[1].dkim = Feat!DKIM(in) BY <2>1 DEF Feat!Features
  <2>3. /\ \A f \in DOMAIN in.headers : in.headers[f] \in Seq(Value)
        /\ in.links \in Seq(Str) /\ in.texts \in Seq([v : Str, ok : BOOLEAN])
    BY <2>1, TextsAssumption DEF Value
  <2>4. Feat!HeadersAccounted(in, Feat!Features(in)) BY <2>3, HeadersAccountedAll
  <2>5. Feat!LinksAccounted(in, Feat!URLs(in)) BY <2>3, LinksAccountedAll
  <2>6. Feat!SignaturesAccounted(in, Feat!DKIM(in)) BY SignaturesAccountedAll
  <2> QED BY <2>1, <2>2, <2>4, <2>5, <2>6
<1>2. ASSUME AnalysisInv, Done("address") PROVE Feat!SpoofingIsSeen(in.name, in.addr)
  <2>1. in \in Names BY <1>2 DEF AnalysisInv, Done
  <2>2. /\ in.name \in NameType /\ in.addr \in AddressType
        /\ \A i \in DOMAIN in.name.addrs : in.name.addrs[i].v = in.addr.v => in.name.addrs[i].domain = in.addr.domain
    BY <2>1, NamesAssumption DEF NameType, AddressType
  <2> QED BY <2>2, SpoofingIsSeenAll
<1>3. ASSUME AnalysisInv, Done("words") PROVE Feat!WordsAreCounted(in, out[1])
  <2>1. in \in Sentences /\ out[1] = Feat!StemmedBag(in) BY <1>3 DEF AnalysisInv, Done
  <2>2. in \in Seq(Words) BY <2>1, WordsAssumption
  <2> QED BY <2>1, <2>2, WordsAreCountedAll
<1>4. ASSUME AnalysisInv, Done("received") PROVE Feat!ReceivedIsRead(in[1], in[2], out[1])
  <2>1. in[2] \in BOOLEAN /\ out[1] = Feat!ParseReceivedHeader(in[1], in[2]) BY <1>4 DEF AnalysisInv, Done
  <2> QED BY <2>1, ReceivedIsReadAll
<1>5. AnalysisInv => FeaturesAreTrue BY <1>1, <1>2, <1>3, <1>4 DEF FeaturesAreTrue
<1> QED BY <1>5, AnalysisAlways, PTL

\* For every set of forms: the mail and the envelope made of a form have its
\* sender, recipients, copies, texts and files, each in its field and nothing
\* else, and what is left when the mail is handed in again is known.
THEOREM FormIsAlwaysKept == MCSpec => []FormIsKept
<1>1. ASSUME AnalysisInv, Done("form")
      PROVE  /\ Form!FieldsAreKept(in)
             /\ Form!EnvelopeSurvives(in) /\ Form!BlindStaysBlind(in) /\ Form!FilesAreNamed(in)
             /\ \A t \in Lists : \A i \in DOMAIN t : Form!GivenEnvelopeWins(in, t[i], t)
  <2>1. in \in Forms BY <1>1 DEF AnalysisInv, Done
  <2>2. in \in FormType /\ Lists \subseteq Seq(Seq(Str)) BY <2>1, FormsAssumption DEF FormType
  <2>3. ASSUME NEW t \in Lists, NEW i \in DOMAIN t PROVE Form!GivenEnvelopeWins(in, t[i], t)
    <3> DEFINE T == Seq(Str)
    <3>1. t \in Seq(T) BY <2>2
    <3> HIDE DEF T
    <3>2. t[i] \in T BY <2>3, <3>1
    <3> QED BY <2>2, <3>1, <3>2, GivenEnvelopeWinsAll DEF T
  <2> QED BY <2>2, <2>3, FieldsAreKeptAll, EnvelopeSurvivesAll, BlindStaysBlindAll, FilesAreNamedAll
<1>2. AnalysisInv => FormIsKept BY <1>1 DEF FormIsKept
<1> QED BY <1>2, AnalysisAlways, PTL
-----------------------------------------------------------------------------
(* The command that parses many mails (BatchAction), for every set of mails *)
(* and of workers: no mail is in two hands or in none, and a command that   *)
(* ends undisturbed has consumed every mail that can be parsed.             *)

(* Where a mail can be, worker by worker. *)
Somewhere(m) ==
  \/ m \in todo \/ m = fetched \/ m = incoming \/ \E w \in Workers : job[w] = m
  \/ m = feature \/ m \in consumed \/ m \in dropped

(* Nor is it in two of these places. *)
Exclusive(m) ==
  /\ m \in todo => m \notin {fetched, incoming, feature} \cup consumed \cup dropped
  /\ m = fetched => m \notin {incoming, feature} \cup consumed \cup dropped
  /\ m = incoming => m \notin {feature} \cup consumed \cup dropped
  /\ m = feature => m \notin consumed \cup dropped
  /\ m \in consumed => m \notin dropped
  /\ \A v \in Workers : job[v] = m =>
       /\ m \notin todo \cup {fetched, incoming, feature} \cup consumed \cup dropped
       /\ \A w \in Workers : job[w] = m => v = w

PlaceInv == \A m \in Mails : Somewhere(m) /\ Exclusive(m)

(* How far the command has come, while no error and no signal disturbs it. *)
Undisturbed ==
  /\ dropped \subseteq broken /\ consumed \cap broken = {} /\ feature \notin broken
  /\ \A w \in Workers : work[w] = "send" => job[w] \notin broken
  /\ fetch # "lost"
  /\ fetch = "closed" => todo = {} /\ fetched = None
  /\ reader = "done" => incoming = None /\ todo = {} /\ fetched = None
  /\ \A w \in Workers : work[w] = "done" => reader = "done"
  /\ cons = "done" => results = "closed"

OrderInv ==
  /\ action = "scan" => fetch = "search" /\ fetched = None
  /\ results = "closed" => \A w \in Workers : work[w] = "done"
  /\ ~lctxDone => Undisturbed

IInv == TypeOK /\ PlaceInv /\ OrderInv
(* Of all the steps, these leave every mail where it is. *)
LEMMA NobodyMoves ==
  ASSUME IInv, UNCHANGED <<todo, fetched, incoming, job, feature, consumed, dropped>>
  PROVE  PlaceInv'
BY DEF IInv, PlaceInv, Somewhere, Exclusive

(* The commands start with all mails unread. *)
LEMMA InitInv == Init => IInv
<1> SUFFICES ASSUME Init PROVE IInv OBVIOUS
<1>1. /\ work \in [Workers -> {"recv", "parse", "send", "done"}]
      /\ job \in [Workers -> Mails \cup {None}]
  BY DEF Init
<1>2. TypeOK BY <1>1 DEF Init, TypeOK
<1>3. PlaceInv BY NoneAssumption DEF Init, PlaceInv, Somewhere, Exclusive
<1>4. OrderInv BY NoneAssumption DEF Init, OrderInv, Undisturbed
<1> QED BY <1>2, <1>3, <1>4 DEF IInv

(* The reader of files, or of the messages that the IMAP client fetches. *)
LEMMA ReadStep ==
  ASSUME IInv, \/ Read \/ ReadEnd \/ ReadCancel \/ Search \/ SearchFails \/ Fetch
               \/ FetchEnd \/ FetchFails \/ ImapRead \/ ImapReadEnd
  PROVE  IInv'
<1> USE NoneAssumption DEF IInv, vars, fetchVars, readVars, workVars, consVars
<1>1. ASSUME Read PROVE IInv'
  <2>1. TypeOK' BY <1>1 DEF Read, TypeOK
  <2>2. PlaceInv'
    <3> SUFFICES ASSUME NEW m \in Mails PROVE (Somewhere(m) /\ Exclusive(m))'
      BY DEF PlaceInv
    <3>1. Somewhere(m) /\ Exclusive(m) BY DEF PlaceInv
    <3>2. Somewhere(m)' BY <1>1, <3>1 DEF Read, Somewhere, TypeOK
    <3>3. Exclusive(m)' BY <1>1, <3>1 DEF Read, Exclusive, TypeOK
    <3> QED BY <3>2, <3>3
  <2>3. OrderInv' BY <1>1 DEF Read, TypeOK, OrderInv, Undisturbed, lctxDone
  <2> QED BY <2>1, <2>2, <2>3
<1>2. ASSUME ReadEnd PROVE IInv'
  <2>1. TypeOK' BY <1>2 DEF ReadEnd, TypeOK
  <2>2. PlaceInv' BY <1>2, NobodyMoves DEF ReadEnd
  <2>3. OrderInv' BY <1>2 DEF ReadEnd, TypeOK, OrderInv, Undisturbed, lctxDone
  <2> QED BY <2>1, <2>2, <2>3
<1>3. ASSUME ReadCancel PROVE IInv'
  <2>1. TypeOK' BY <1>3 DEF ReadCancel, TypeOK
  <2>2. PlaceInv'
    <3> SUFFICES ASSUME NEW m \in Mails PROVE (Somewhere(m) /\ Exclusive(m))'
      BY DEF PlaceInv
    <3>1. Somewhere(m) /\ Exclusive(m) BY DEF PlaceInv
    <3>2. Somewhere(m)' BY <1>3, <3>1 DEF ReadCancel, Somewhere, TypeOK
    <3>3. Exclusive(m)' BY <1>3, <3>1 DEF ReadCancel, Exclusive, TypeOK
    <3> QED BY <3>2, <3>3
  <2>3. OrderInv' BY <1>3 DEF ReadCancel, TypeOK, OrderInv, Undisturbed, lctxDone
  <2> QED BY <2>1, <2>2, <2>3
<1>4. ASSUME Search PROVE IInv'
  <2>1. TypeOK' BY <1>4 DEF Search, TypeOK
  <2>2. PlaceInv' BY <1>4, NobodyMoves DEF Search
  <2>3. OrderInv' BY <1>4 DEF Search, TypeOK, OrderInv, Undisturbed, lctxDone
  <2> QED BY <2>1, <2>2, <2>3
<1>5. ASSUME SearchFails PROVE IInv'
  <2>1. TypeOK' BY <1>5 DEF SearchFails, TypeOK
  <2>2. PlaceInv' BY <1>5, NobodyMoves DEF SearchFails
  <2>3. OrderInv' BY <1>5 DEF SearchFails, TypeOK, OrderInv, Undisturbed, lctxDone
  <2> QED BY <2>1, <2>2, <2>3
<1>6. ASSUME Fetch PROVE IInv'
  <2>1. TypeOK' BY <1>6 DEF Fetch, TypeOK
  <2>2. PlaceInv'
    <3> SUFFICES ASSUME NEW m \in Mails PROVE (Somewhere(m) /\ Exclusive(m))'
      BY DEF PlaceInv
    <3>1. Somewhere(m) /\ Exclusive(m) BY DEF PlaceInv
    <3>2. Somewhere(m)' BY <1>6, <3>1 DEF Fetch, Somewhere, TypeOK
    <3>3. Exclusive(m)' BY <1>6, <3>1 DEF Fetch, Exclusive, TypeOK
    <3> QED BY <3>2, <3>3
  <2>3. OrderInv' BY <1>6 DEF Fetch, TypeOK, OrderInv, Undisturbed, lctxDone
  <2> QED BY <2>1, <2>2, <2>3
<1>7. ASSUME FetchEnd PROVE IInv'
  <2>1. TypeOK' BY <1>7 DEF FetchEnd, TypeOK
  <2>2. PlaceInv' BY <1>7, NobodyMoves DEF FetchEnd
  <2>3. OrderInv' BY <1>7 DEF FetchEnd, TypeOK, OrderInv, Undisturbed, lctxDone
  <2> QED BY <2>1, <2>2, <2>3
<1>8. ASSUME FetchFails PROVE IInv'
  <2>1. TypeOK' BY <1>8 DEF FetchFails, TypeOK
  <2>2. PlaceInv' BY <1>8, NobodyMoves DEF FetchFails
  <2>3. OrderInv' BY <1>8 DEF FetchFails, TypeOK, OrderInv, Undisturbed, lctxDone
  <2> QED BY <2>1, <2>2, <2>3
<1>9. ASSUME ImapRead PROVE IInv'
  <2>1. TypeOK' BY <1>9 DEF ImapRead, TypeOK
  <2>2. PlaceInv'
    <3> SUFFICES ASSUME NEW m \in Mails PROVE (Somewhere(m) /\ Exclusive(m))'
      BY DEF PlaceInv
    <3>1. Somewhere(m) /\ Exclusive(m) BY DEF PlaceInv
    <3>2. Somewhere(m)' BY <1>9, <3>1 DEF ImapRead, Somewhere, TypeOK
    <3>3. Exclusive(m)' BY <1>9, <3>1 DEF ImapRead, Exclusive, TypeOK
    <3> QED BY <3>2, <3>3
  <2>3. OrderInv' BY <1>9 DEF ImapRead, TypeOK, OrderInv, Undisturbed, lctxDone
  <2> QED BY <2>1, <2>2, <2>3
<1>10. ASSUME ImapReadEnd PROVE IInv'
  <2>1. TypeOK' BY <1>10 DEF ImapReadEnd, TypeOK
  <2>2. PlaceInv' BY <1>10, NobodyMoves DEF ImapReadEnd
  <2>3. OrderInv' BY <1>10 DEF ImapReadEnd, TypeOK, OrderInv, Undisturbed, lctxDone
  <2> QED BY <2>1, <2>2, <2>3
<1> QED BY <1>1, <1>2, <1>3, <1>4, <1>5, <1>6, <1>7, <1>8, <1>9, <1>10

(* The workers of ParseMany. *)
LEMMA WorkStep ==
  ASSUME IInv, NEW w \in Workers,
         Receive(w) \/ Parse(w) \/ Send(w) \/ WorkerEnd(w)
  PROVE  IInv'
<1> USE NoneAssumption DEF IInv, vars, fetchVars, readVars, workVars, consVars
<1>1. ASSUME Receive(w) PROVE IInv'
  <2>1. TypeOK' BY <1>1 DEF Receive, TypeOK
  <2>2. PlaceInv'
    <3> SUFFICES ASSUME NEW m \in Mails PROVE (Somewhere(m) /\ Exclusive(m))'
      BY DEF PlaceInv
    <3>1. Somewhere(m) /\ Exclusive(m) BY DEF PlaceInv
    <3>2. Somewhere(m)' BY <1>1, <3>1 DEF Receive, Somewhere, TypeOK
    <3>3. Exclusive(m)' BY <1>1, <3>1 DEF Receive, Exclusive, TypeOK
    <3> QED BY <3>2, <3>3
  <2>3. OrderInv' BY <1>1 DEF Receive, TypeOK, OrderInv, Undisturbed, lctxDone
  <2> QED BY <2>1, <2>2, <2>3
<1>2. ASSUME Parse(w) PROVE IInv'
  <2>1. TypeOK' BY <1>2 DEF Parse, TypeOK
  <2>2. PlaceInv'
    <3> SUFFICES ASSUME NEW m \in Mails PROVE (Somewhere(m) /\ Exclusive(m))'
      BY DEF PlaceInv
    <3>1. Somewhere(m) /\ Exclusive(m) BY DEF PlaceInv
    <3>2. Somewhere(m)' BY <1>2, <3>1 DEF Parse, Somewhere, TypeOK
    <3>3. Exclusive(m)' BY <1>2, <3>1 DEF Parse, Exclusive, TypeOK
    <3> QED BY <3>2, <3>3
  <2>3. OrderInv' BY <1>2 DEF Parse, TypeOK, OrderInv, Undisturbed, lctxDone
  <2> QED BY <2>1, <2>2, <2>3
<1>3. ASSUME Send(w) PROVE IInv'
  <2>1. TypeOK' BY <1>3 DEF Send, TypeOK
  <2>2. PlaceInv'
    <3> SUFFICES ASSUME NEW m \in Mails PROVE (Somewhere(m) /\ Exclusive(m))'
      BY DEF PlaceInv
    <3>1. Somewhere(m) /\ Exclusive(m) BY DEF PlaceInv
    <3>2. Somewhere(m)' BY <1>3, <3>1 DEF Send, Somewhere, TypeOK
    <3>3. Exclusive(m)' BY <1>3, <3>1 DEF Send, Exclusive, TypeOK
    <3> QED BY <3>2, <3>3
  <2>3. OrderInv' BY <1>3 DEF Send, TypeOK, OrderInv, Undisturbed, lctxDone
  <2> QED BY <2>1, <2>2, <2>3
<1>4. ASSUME WorkerEnd(w) PROVE IInv'
  <2>1. TypeOK' BY <1>4 DEF WorkerEnd, TypeOK
  <2>2. PlaceInv' BY <1>4, NobodyMoves DEF WorkerEnd
  <2>3. OrderInv' BY <1>4 DEF WorkerEnd, TypeOK, OrderInv, Undisturbed, lctxDone
  <2> QED BY <2>1, <2>2, <2>3
<1> QED BY <1>1, <1>2, <1>3, <1>4

(* The return of ParseMany, the goroutine that consumes, and the signal. *)
LEMMA ConsumeStep ==
  ASSUME IInv, ParseManyReturn \/ Consume \/ ConsumeFails \/ ConsumerEnd \/ Signal
  PROVE  IInv'
<1> USE NoneAssumption DEF IInv, vars, fetchVars, readVars, workVars, consVars
<1>1. ASSUME Consume PROVE IInv'
  <2>1. TypeOK' BY <1>1 DEF Consume, TypeOK
  <2>2. PlaceInv'
    <3> SUFFICES ASSUME NEW m \in Mails PROVE (Somewhere(m) /\ Exclusive(m))'
      BY DEF PlaceInv
    <3>1. Somewhere(m) /\ Exclusive(m) BY DEF PlaceInv
    <3>2. Somewhere(m)' BY <1>1, <3>1 DEF Consume, Somewhere, TypeOK
    <3>3. Exclusive(m)' BY <1>1, <3>1 DEF Consume, Exclusive, TypeOK
    <3> QED BY <3>2, <3>3
  <2>3. OrderInv' BY <1>1 DEF Consume, TypeOK, OrderInv, Undisturbed, lctxDone
  <2> QED BY <2>1, <2>2, <2>3
<1>2. ASSUME ConsumeFails PROVE IInv'
  <2>1. TypeOK' BY <1>2 DEF ConsumeFails, TypeOK
  <2>2. PlaceInv'
    <3> SUFFICES ASSUME NEW m \in Mails PROVE (Somewhere(m) /\ Exclusive(m))'
      BY DEF PlaceInv
    <3>1. Somewhere(m) /\ Exclusive(m) BY DEF PlaceInv
    <3>2. Somewhere(m)' BY <1>2, <3>1 DEF ConsumeFails, Somewhere, TypeOK
    <3>3. Exclusive(m)' BY <1>2, <3>1 DEF ConsumeFails, Exclusive, TypeOK
    <3> QED BY <3>2, <3>3
  <2>3. OrderInv' BY <1>2 DEF ConsumeFails, TypeOK, OrderInv, Undisturbed, lctxDone
  <2> QED BY <2>1, <2>2, <2>3
<1>3. ASSUME ConsumerEnd PROVE IInv'
  <2>1. TypeOK' BY <1>3 DEF ConsumerEnd, TypeOK
  <2>2. PlaceInv' BY <1>3, NobodyMoves DEF ConsumerEnd
  <2>3. OrderInv' BY <1>3 DEF ConsumerEnd, TypeOK, OrderInv, Undisturbed, lctxDone
  <2> QED BY <2>1, <2>2, <2>3
<1>4. ASSUME Signal PROVE IInv'
  <2>1. TypeOK' BY <1>4 DEF Signal, TypeOK
  <2>2. PlaceInv' BY <1>4, NobodyMoves DEF Signal
  <2>3. OrderInv' BY <1>4 DEF Signal, TypeOK, OrderInv, Undisturbed, lctxDone
  <2> QED BY <2>1, <2>2, <2>3
<1>5. ASSUME ParseManyReturn PROVE IInv'
  <2>1. TypeOK' BY <1>5 DEF ParseManyReturn, TypeOK
  <2>2. PlaceInv' BY <1>5, NobodyMoves DEF ParseManyReturn
  <2>3. OrderInv' BY <1>5 DEF ParseManyReturn, TypeOK, OrderInv, Undisturbed, lctxDone
  <2> QED BY <2>1, <2>2, <2>3
<1> QED BY <1>1, <1>2, <1>3, <1>4, <1>5

(* Every step keeps the invariant. *)
LEMMA StepInv == IInv /\ [Next]_vars => IInv'
<1> SUFFICES ASSUME IInv, [Next]_vars PROVE IInv' OBVIOUS
<1>1. CASE \/ Read \/ ReadEnd \/ ReadCancel \/ Search \/ SearchFails \/ Fetch
           \/ FetchEnd \/ FetchFails \/ ImapRead \/ ImapReadEnd
  BY <1>1, ReadStep
<1>2. ASSUME NEW w \in Workers, Receive(w) \/ Parse(w) \/ Send(w) \/ WorkerEnd(w)
      PROVE  IInv'
  BY <1>2, WorkStep
<1>3. CASE ParseManyReturn \/ Consume \/ ConsumeFails \/ ConsumerEnd \/ Signal
  BY <1>3, ConsumeStep
<1>4. CASE UNCHANGED vars
  <2> USE <1>4 DEF vars, fetchVars, readVars, workVars, consVars, IInv
  <2>1. TypeOK' BY DEF TypeOK
  <2>2. PlaceInv' BY NobodyMoves
  <2>3. OrderInv' BY DEF OrderInv, Undisturbed, lctxDone
  <2> QED BY <2>1, <2>2, <2>3
<1> QED BY <1>1, <1>2, <1>3, <1>4 DEF Next

(* What always holds. *)
LEMMA Inductive == Spec => []IInv
BY InitInv, StepInv, PTL DEF Spec
(* A mail in one place is held once. *)
LEMMA HeldOnce ==
  ASSUME NEW m \in Mails, TypeOK, Somewhere(m), Exclusive(m)
  PROVE  Cardinality(Holders(m)) = 1
<1>1. \A h : Cardinality({h}) = 1 BY FS_Singleton
<1>2. CASE m \in todo
  <2>1. Holders(m) = {"todo"} BY <1>2 DEF Exclusive, Holders
  <2> QED BY <1>1, <2>1
<1>3. CASE m = fetched
  <2>1. Holders(m) = {"fetched"} BY <1>3 DEF Exclusive, Holders
  <2> QED BY <1>1, <2>1
<1>4. CASE m = incoming
  <2>1. Holders(m) = {"incoming"} BY <1>4 DEF Exclusive, Holders
  <2> QED BY <1>1, <2>1
<1>5. ASSUME NEW w \in Workers, job[w] = m PROVE Cardinality(Holders(m)) = 1
  <2>1. Holders(m) = {w} BY <1>5 DEF Exclusive, Holders
  <2> QED BY <1>1, <2>1
<1>6. CASE m = feature
  <2>1. Holders(m) = {"feature"} BY <1>6 DEF Exclusive, Holders
  <2> QED BY <1>1, <2>1
<1>7. CASE m \in consumed
  <2>1. Holders(m) = {"consumed"} BY <1>7 DEF Exclusive, Holders
  <2> QED BY <1>1, <2>1
<1>8. CASE m \in dropped
  <2>1. Holders(m) = {"dropped"} BY <1>8 DEF Exclusive, Holders
  <2> QED BY <1>1, <2>1
<1> QED BY <1>2, <1>3, <1>4, <1>5, <1>6, <1>7, <1>8 DEF Somewhere

(* Whatever the interleaving, the error or the signal, a mail is unread, in the
   hands of one goroutine, consumed or dropped, and only one of these
   (actions/mbox.go, maildir.go, imapdownload.go; mailparser.go, ParseMany). *)
THEOREM MailsHaveOneHolder == Spec => []OneHolder
<1>1. IInv => OneHolder BY HeldOnce DEF IInv, PlaceInv, OneHolder
<1> QED BY <1>1, Inductive, PTL

(* A command that has returned, with no error and no signal, has consumed every
   mail but those that cannot be parsed (g.Wait in actions/). *)
THEOREM UndisturbedConsumesAll == Spec => []AllConsumed
<1>1. IInv => AllConsumed
  <2> SUFFICES ASSUME IInv, Returned, ~lctxDone PROVE consumed = Mails \ broken
    BY DEF AllConsumed
  <2>1. TypeOK /\ PlaceInv /\ Undisturbed BY DEF IInv, OrderInv
  <2>2. todo = {} /\ fetched = None /\ incoming = None /\ feature = None
    BY <2>1 DEF Returned, Undisturbed, TypeOK
  <2>3. \A w \in Workers : job[w] = None BY <2>1 DEF IInv, OrderInv, Returned, TypeOK
  <2>4. \A m \in Mails : m \in consumed \/ m \in dropped
    BY <2>1, <2>2, <2>3, NoneAssumption DEF PlaceInv, Somewhere
  <2> QED BY <2>1, <2>4 DEF Undisturbed, TypeOK
<1> QED BY <1>1, Inductive, PTL
=============================================================================
