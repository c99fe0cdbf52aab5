-------------------------- MODULE AnalysisProofs -----------------------------
(***************************************************************************)
(* What the analysis of the parser answers, for every input: that of forms, *)
(* words, headers, names and attachments (MCParser), function by function.  *)
(* The functions go through sequences, sets and files in files; what they   *)
(* compute is proved by induction on a length, a cardinality or a depth,    *)
(* each time of a set of numbers (SetInduction), and the functions that are *)
(* recursive are first shown to exist, level by level.  What is true of a   *)
(* bounded input in a run of MCParser is true of all inputs here.           *)
(***************************************************************************)
EXTENDS MCParser, SequencesExt, SequenceTheorems, FiniteSetTheorems, WellFoundedInduction, TLAPS

-----------------------------------------------------------------------------
(* Numbers and sequences. *)
\* A set of numbers that holds 0, and with a number the next, holds all: a
\* least number that is missing would follow one that is not.
LEMMA SetInduction ==
  ASSUME NEW P \in SUBSET Nat, 0 \in P, \A n \in P : n + 1 \in P
  PROVE  P = Nat
<1> SUFFICES ASSUME Nat \ P # {} PROVE FALSE OBVIOUS
<1> DEFINE R == OpToRel(<, Nat)
<1>0. IsWellFoundedOn(R, Nat) BY NatLessThanWellFounded
<1>1. PICK x \in Nat \ P : \A y \in Nat \ P : ~ (<<y, x>> \in R)
  <2> HIDE DEF R
  <2> QED BY <1>0, WFMin
<1>2. x # 0 /\ x - 1 \in Nat OBVIOUS
<1>3. <<x - 1, x>> \in R BY <1>2 DEF OpToRel
<1>4. x - 1 \in P BY <1>1, <1>2, <1>3
<1>5. x = (x - 1) + 1 BY <1>2
<1> QED BY <1>4, <1>5

\* The function of FlattenSeq exists: it does up to any number.
LEMMA FlattenUpTo ==
  ASSUME NEW seqs, NEW N \in Nat
  PROVE  \E g : g = [i \in 1..N |-> IF i = 1 THEN seqs[i] ELSE g[i - 1] \o seqs[i]]
<1> DEFINE Def(g, i) == IF i = 1 THEN seqs[i] ELSE g[i - 1] \o seqs[i]
           P == {n \in Nat : \E g : g = [i \in 1..n |-> Def(g, i)]}
<1>1. 0 \in P
  <2>1. <<>> = [i \in 1..0 |-> Def(<<>>, i)] OBVIOUS
  <2> HIDE DEF Def
  <2> QED BY <2>1
<1>2. ASSUME NEW n \in P PROVE n + 1 \in P
  <2>1. PICK g : g = [i \in 1..n |-> Def(g, i)] OBVIOUS
  <2> DEFINE h == [i \in 1..n + 1 |-> Def(g, i)]
  <2>2. \A i \in 1..n : h[i] = g[i]
    <3> HIDE DEF Def
    <3> QED BY <2>1
  <2>3. ASSUME NEW i \in 1..n + 1 PROVE Def(h, i) = Def(g, i)
    <3>1. CASE i = 1 BY <3>1
    <3>2. CASE i # 1
      <4>1. i - 1 \in 1..n BY <3>2
      <4>2. h[i - 1] = g[i - 1] BY <2>2, <4>1
      <4> HIDE DEF h
      <4> QED BY <4>2
    <3> QED BY <3>1, <3>2
  <2>4. h = [i \in 1..n + 1 |-> Def(h, i)]
    <3>1. h = [i \in 1..n + 1 |-> Def(g, i)] OBVIOUS
    <3> HIDE DEF h, Def
    <3> QED BY <2>3, <3>1
  <2>5. \E x : x = [i \in 1..n + 1 |-> Def(x, i)]
    <3> HIDE DEF h, Def
    <3> QED BY <2>4, Zenon
  <2>6. n + 1 \in Nat OBVIOUS
  <2> HIDE DEF Def
  <2> QED BY <2>5, <2>6
<1>3. P = Nat
  <2>1. P \in SUBSET Nat OBVIOUS
  <2> HIDE DEF P
  <2> QED BY <1>1, <1>2, <2>1, SetInduction
<1> QED BY <1>3

\* FlattenSeq, one sequence after the other.
LEMMA FlattenDef ==
  ASSUME NEW seqs, NEW N \in Nat \ {0}, Len(seqs) = N
  PROVE  \E f : /\ FlattenSeq(seqs) = f[N] /\ f[1] = seqs[1]
                /\ \A i \in 1..N - 1 : f[i + 1] = f[i] \o seqs[i + 1]
<1> DEFINE Def(g, i) == IF i = 1 THEN seqs[i] ELSE g[i - 1] \o seqs[i]
           f[i \in 1..Len(seqs)] == Def(f, i)
<1>1. f = CHOOSE g : g = [i \in 1..Len(seqs) |-> Def(g, i)] BY DEF f
<1>2. FlattenSeq(seqs) = f[Len(seqs)] BY DEF FlattenSeq
<1>3. \E g : g = [i \in 1..Len(seqs) |-> Def(g, i)] BY FlattenUpTo
<1> HIDE DEF f
<1>4. f = [i \in 1..N |-> Def(f, i)]
  <2> HIDE DEF Def
  <2> QED BY <1>1, <1>3
<1>5. \A i \in 1..N : f[i] = Def(f, i)
  <2> HIDE DEF Def
  <2> QED BY <1>4
<1>6. f[1] = seqs[1] BY <1>5
<1>7. ASSUME NEW i \in 1..N - 1 PROVE f[i + 1] = f[i] \o seqs[i + 1]
  <2>1. i + 1 \in 1..N /\ i + 1 # 1 /\ (i + 1) - 1 = i OBVIOUS
  <2>2. f[i + 1] = f[(i + 1) - 1] \o seqs[i + 1] BY <1>5, <2>1
  <2> QED BY <2>1, <2>2
<1> QED BY <1>2, <1>6, <1>7

\* Nothing flattened is nothing.
LEMMA FlattenEmpty ==
  ASSUME NEW seqs, Len(seqs) = 0
  PROVE  FlattenSeq(seqs) = seqs
BY DEF FlattenSeq

\* One more sequence is put at the end.
LEMMA FlattenAppend ==
  ASSUME NEW S, NEW seqs \in Seq(Seq(S)), NEW e \in Seq(S)
  PROVE  FlattenSeq(Append(seqs, e)) = FlattenSeq(seqs) \o e
<1> DEFINE more == Append(seqs, e)
           N == Len(seqs)
<1>1. /\ N \in Nat /\ Len(more) = N + 1 /\ more[N + 1] = e
      /\ \A i \in 1..N : more[i] = seqs[i]
  OBVIOUS
<1>m. more \in Seq(Seq(S)) OBVIOUS
<1> HIDE DEF more
<1>2. CASE N = 0
  <2>0. Len(more) = 1 BY <1>1, <1>2
  <2>1. FlattenSeq(more) = more[1]
    <3> DEFINE M == 1
    <3> HIDE DEF M
    <3>1. Len(more) = M /\ M \in Nat \ {0} BY <2>0 DEF M
    <3>2. \E f : /\ FlattenSeq(more) = f[M] /\ f[1] = more[1]
                 /\ \A i \in 1..M - 1 : f[i + 1] = f[i] \o more[i + 1]
      BY <3>1, FlattenDef
    <3> QED BY <3>2 DEF M
  <2>2. seqs = <<>> BY <1>2
  <2>3. FlattenSeq(seqs) = <<>> BY <2>2, <1>2, FlattenEmpty
  <2>4. <<>> \o e = e OBVIOUS
  <2> QED BY <1>1, <1>2, <2>1, <2>3, <2>4 DEF more
<1>3. CASE N # 0
  <2>0. N \in Nat \ {0} /\ N + 1 \in Nat \ {0} /\ (N + 1) - 1 = N BY <1>1, <1>3
  <2>1. PICK f : /\ FlattenSeq(seqs) = f[N] /\ f[1] = seqs[1]
                 /\ \A i \in 1..N - 1 : f[i + 1] = f[i] \o seqs[i + 1]
    BY <2>0, FlattenDef
  <2>2. PICK g : /\ FlattenSeq(more) = g[N + 1] /\ g[1] = more[1]
                 /\ \A i \in 1..N : g[i + 1] = g[i] \o more[i + 1]
    <3> HIDE DEF N
    <3>1. \E g : /\ FlattenSeq(more) = g[N + 1] /\ g[1] = more[1]
                 /\ \A i \in 1..(N + 1) - 1 : g[i + 1] = g[i] \o more[i + 1]
      BY <1>1, <2>0, FlattenDef
    <3> QED BY <2>0, <3>1
  <2> DEFINE P == {n \in Nat : n + 1 \in 1..N => f[n + 1] = g[n + 1]}
  <2>3. 0 \in P BY <2>1, <2>2, <1>1, <1>3
  <2>4. ASSUME NEW n \in P PROVE n + 1 \in P
    <3> SUFFICES ASSUME (n + 1) + 1 \in 1..N PROVE f[(n + 1) + 1] = g[(n + 1) + 1] OBVIOUS
    <3>1. n + 1 \in 1..N - 1 /\ n + 1 \in 1..N BY <2>0
    <3>2. f[n + 1] = g[n + 1] BY <3>1
    <3>3. f[(n + 1) + 1] = f[n + 1] \o seqs[(n + 1) + 1] BY <2>1, <3>1
    <3>4. g[(n + 1) + 1] = g[n + 1] \o more[(n + 1) + 1] BY <2>2, <3>1
    <3>5. more[(n + 1) + 1] = seqs[(n + 1) + 1] BY <1>1
    <3> QED BY <3>2, <3>3, <3>4, <3>5
  <2>5. P = Nat
    <3>1. P \in SUBSET Nat OBVIOUS
    <3> HIDE DEF P
    <3> QED BY <2>3, <2>4, <3>1, SetInduction
  <2>6. f[N] = g[N]
    <3>1. N - 1 \in Nat /\ (N - 1) + 1 = N /\ N \in 1..N BY <1>1, <1>3
    <3>2. N - 1 \in P BY <2>5, <3>1
    <3> QED BY <3>1, <3>2
  <2>7. g[N + 1] = g[N] \o e
    <3>1. N \in 1..N BY <2>0
    <3>2. g[N + 1] = g[N] \o more[N + 1] BY <2>2, <3>1
    <3> QED BY <1>1, <3>2
  <2> QED BY <2>1, <2>2, <2>6, <2>7 DEF more
<1> QED BY <1>2, <1>3

\* A sequence is empty, or what is before its last element with that appended.
LEMMA SeqLast ==
  ASSUME NEW S, NEW s \in Seq(S), Len(s) # 0
  PROVE  \E t \in Seq(S), e \in S : s = Append(t, e) /\ Len(s) = Len(t) + 1
<1> DEFINE t == [i \in 1..Len(s) - 1 |-> s[i]]
<1>1. Len(s) \in Nat \ {0} /\ s[Len(s)] \in S OBVIOUS
<1>2. t \in Seq(S) /\ Len(t) = Len(s) - 1 BY <1>1
<1>3. s = Append(t, s[Len(s)]) BY <1>1, <1>2
<1>4. Len(s) = Len(t) + 1 BY <1>1, <1>2
<1> HIDE DEF t
<1> QED BY <1>1, <1>2, <1>3, <1>4

\* What is in two sequences is in the one made of both.
LEMMA ToSetConcat ==
  ASSUME NEW S, NEW s \in Seq(S), NEW t \in Seq(S)
  PROVE  ToSet(s \o t) = ToSet(s) \cup ToSet(t)
<1> DEFINE u == s \o t
<1>1. Len(u) = Len(s) + Len(t) /\ Len(s) \in Nat /\ Len(t) \in Nat OBVIOUS
<1>2. \A i \in 1..Len(s) : u[i] = s[i] OBVIOUS
<1>3. \A i \in 1..Len(t) : u[i + Len(s)] = t[i] OBVIOUS
<1>4. DOMAIN s = 1..Len(s) /\ DOMAIN t = 1..Len(t) /\ DOMAIN u = 1..Len(s) + Len(t) OBVIOUS
<1> HIDE DEF u
<1>5. ASSUME NEW x \in ToSet(s) \cup ToSet(t) PROVE x \in ToSet(u)
  <2>1. CASE x \in ToSet(s) BY <1>1, <1>2, <1>4, <2>1 DEF ToSet
  <2>2. CASE x \in ToSet(t)
    <3>1. PICK i \in 1..Len(t) : x = t[i] BY <1>4, <2>2 DEF ToSet
    <3>2. i + Len(s) \in DOMAIN u BY <1>1, <1>4
    <3> QED BY <1>3, <3>1, <3>2 DEF ToSet
  <2> QED BY <2>1, <2>2
<1>6. ASSUME NEW x \in ToSet(u) PROVE x \in ToSet(s) \cup ToSet(t)
  <2>1. PICK i \in DOMAIN u : x = u[i] BY DEF ToSet
  <2>2. CASE i <= Len(s) BY <1>1, <1>2, <1>4, <2>1, <2>2 DEF ToSet
  <2>3. CASE i > Len(s)
    <3>1. i - Len(s) \in 1..Len(t) /\ (i - Len(s)) + Len(s) = i BY <1>1, <1>4, <2>3
    <3>2. x = t[i - Len(s)] BY <1>3, <2>1, <3>1
    <3> QED BY <1>4, <3>1, <3>2 DEF ToSet
  <2>4. i \in Nat BY <1>1, <1>4
  <2> QED BY <1>1, <2>2, <2>3, <2>4
<1> QED BY <1>5, <1>6 DEF u

\* Sequences over S flattened are a sequence over S.
LEMMA FlattenType ==
  ASSUME NEW S, NEW seqs \in Seq(Seq(S))
  PROVE  FlattenSeq(seqs) \in Seq(S)
<1> DEFINE P == {n \in Nat : \A s \in Seq(Seq(S)) : Len(s) = n => FlattenSeq(s) \in Seq(S)}
<1>1. 0 \in P
  <2>1. ASSUME NEW s \in Seq(Seq(S)), Len(s) = 0 PROVE FlattenSeq(s) \in Seq(S)
    <3>1. s = <<>> /\ <<>> \in Seq(S) BY <2>1
    <3>2. FlattenSeq(s) = s BY <2>1, FlattenEmpty
    <3> QED BY <3>1, <3>2
  <2> QED BY <2>1
<1>2. ASSUME NEW n \in P PROVE n + 1 \in P
  <2>1. ASSUME NEW s \in Seq(Seq(S)), Len(s) = n + 1 PROVE FlattenSeq(s) \in Seq(S)
    <3>0. Len(s) # 0 BY <2>1
    <3>1. PICK t \in Seq(Seq(S)), e \in Seq(S) : s = Append(t, e) /\ Len(s) = Len(t) + 1
      <4> DEFINE T == Seq(S)
      <4> HIDE DEF T
      <4>1. s \in Seq(T) BY <2>1 DEF T
      <4>2. \E t \in Seq(T), e \in T : s = Append(t, e) /\ Len(s) = Len(t) + 1 BY <3>0, <4>1, SeqLast
      <4> QED BY <4>2 DEF T
    <3>2. Len(t) = n BY <2>1, <3>1
    <3>3. FlattenSeq(t) \in Seq(S) BY <3>2
    <3>4. FlattenSeq(s) = FlattenSeq(t) \o e BY <3>1, FlattenAppend
    <3> QED BY <3>3, <3>4
  <2> QED BY <2>1
<1>3. P = Nat
  <2>1. P \in SUBSET Nat OBVIOUS
  <2> HIDE DEF P
  <2> QED BY <1>1, <1>2, <2>1, SetInduction
<1>4. Len(seqs) \in P
  <2>1. Len(seqs) \in Nat OBVIOUS
  <2> HIDE DEF P
  <2> QED BY <1>3, <2>1
<1> QED BY <1>4

\* What is in a flattened sequence is in one of its sequences.
LEMMA FlattenRange ==
  ASSUME NEW S, NEW seqs \in Seq(Seq(S))
  PROVE  ToSet(FlattenSeq(seqs)) = UNION {ToSet(seqs[i]) : i \in DOMAIN seqs}
<1> DEFINE All(s) == UNION {ToSet(s[i]) : i \in DOMAIN s}
           P == {n \in Nat : \A s \in Seq(Seq(S)) : Len(s) = n => ToSet(FlattenSeq(s)) = All(s)}
<1>1. 0 \in P
  <2>1. ASSUME NEW s \in Seq(Seq(S)), Len(s) = 0 PROVE ToSet(FlattenSeq(s)) = All(s)
    <3>1. DOMAIN s = {} BY <2>1
    <3>2. FlattenSeq(s) = s BY <2>1, FlattenEmpty
    <3>3. ToSet(s) = {} BY <3>1 DEF ToSet
    <3>4. All(s) = {} BY <3>1
    <3> QED BY <3>2, <3>3, <3>4
  <2> HIDE DEF All
  <2> QED BY <2>1
<1>2. ASSUME NEW n \in P PROVE n + 1 \in P
  <2>1. ASSUME NEW s \in Seq(Seq(S)), Len(s) = n + 1 PROVE ToSet(FlattenSeq(s)) = All(s)
    <3>0. Len(s) # 0 BY <2>1
    <3>1. PICK t \in Seq(Seq(S)), e \in Seq(S) : s = Append(t, e) /\ Len(s) = Len(t) + 1
      <4> DEFINE T == Seq(S)
      <4> HIDE DEF T
      <4>1. s \in Seq(T) BY <2>1 DEF T
      <4>2. \E t \in Seq(T), e \in T : s = Append(t, e) /\ Len(s) = Len(t) + 1 BY <3>0, <4>1, SeqLast
      <4> QED BY <4>2 DEF T
    <3>2. Len(t) = n BY <2>1, <3>1
    <3>3. ToSet(FlattenSeq(t)) = All(t) BY <3>2
    <3>4. FlattenSeq(s) = FlattenSeq(t) \o e BY <3>1, FlattenAppend
    <3>5. FlattenSeq(t) \in Seq(S) BY FlattenType
    <3>6. ToSet(FlattenSeq(s)) = ToSet(FlattenSeq(t)) \cup ToSet(e)
      <4> DEFINE u == FlattenSeq(t)
      <4> HIDE DEF u
      <4>1. u \in Seq(S) BY <3>5 DEF u
      <4>2. ToSet(u \o e) = ToSet(u) \cup ToSet(e) BY <4>1, ToSetConcat
      <4> QED BY <3>4, <4>2 DEF u
    <3>7. All(s) = All(t) \cup ToSet(e)
      <4>1. \A i \in DOMAIN t : s[i] = t[i] BY <3>1
      <4>2. DOMAIN s = DOMAIN t \cup {n + 1} /\ s[n + 1] = e BY <3>1, <3>2
      <4> QED BY <4>1, <4>2
    <3> HIDE DEF All
    <3> QED BY <3>3, <3>6, <3>7
  <2> HIDE DEF All
  <2> QED BY <2>1
<1>3. P = Nat
  <2>1. P \in SUBSET Nat OBVIOUS
  <2> HIDE DEF P
  <2> QED BY <1>1, <1>2, <2>1, SetInduction
<1>4. Len(seqs) \in P
  <2>1. Len(seqs) \in Nat OBVIOUS
  <2> HIDE DEF P
  <2> QED BY <1>3, <2>1
<1> HIDE DEF All
<1>5. ToSet(FlattenSeq(seqs)) = All(seqs) BY <1>4
<1> QED BY <1>5 DEF All

\* A filter written as a flattening: nothing is lost exactly when all pass.
LEMMA FlattenShort ==
  ASSUME NEW S, NEW seqs \in Seq(Seq(S)), \A i \in DOMAIN seqs : Len(seqs[i]) <= 1
  PROVE  /\ Len(FlattenSeq(seqs)) \in Nat /\ Len(FlattenSeq(seqs)) <= Len(seqs)
         /\ Len(FlattenSeq(seqs)) < Len(seqs) <=> \E i \in DOMAIN seqs : seqs[i] = <<>>
<1> DEFINE Short(s) == \A i \in DOMAIN s : Len(s[i]) <= 1
           Good(s) == /\ Len(FlattenSeq(s)) <= Len(s)
                      /\ Len(FlattenSeq(s)) < Len(s) <=> \E i \in DOMAIN s : s[i] = <<>>
           P == {n \in Nat : \A s \in Seq(Seq(S)) : Len(s) = n /\ Short(s) => Good(s)}
<1>1. 0 \in P
  <2>1. ASSUME NEW s \in Seq(Seq(S)), Len(s) = 0 PROVE Good(s)
    <3>1. DOMAIN s = {} BY <2>1
    <3>2. FlattenSeq(s) = s BY <2>1, FlattenEmpty
    <3> QED BY <2>1, <3>1, <3>2
  <2> HIDE DEF Short, Good
  <2> QED BY <2>1
<1>2. ASSUME NEW n \in P PROVE n + 1 \in P
  <2>1. ASSUME NEW s \in Seq(Seq(S)), Len(s) = n + 1, Short(s) PROVE Good(s)
    <3>0. Len(s) # 0 BY <2>1
    <3>1. PICK t \in Seq(Seq(S)), e \in Seq(S) : s = Append(t, e) /\ Len(s) = Len(t) + 1
      <4> DEFINE T == Seq(S)
      <4> HIDE DEF T
      <4>1. s \in Seq(T) BY <2>1 DEF T
      <4>2. \E t \in Seq(T), e \in T : s = Append(t, e) /\ Len(s) = Len(t) + 1 BY <3>0, <4>1, SeqLast
      <4> QED BY <4>2 DEF T
    <3>2. Len(t) = n BY <2>1, <3>1
    <3>3. /\ \A i \in DOMAIN t : s[i] = t[i]
          /\ DOMAIN s = DOMAIN t \cup {n + 1} /\ s[n + 1] = e
      BY <3>1, <3>2
    <3>4. Short(t) /\ Len(e) <= 1 BY <2>1, <3>3
    <3>5. Good(t)
      <4> HIDE DEF Short, Good
      <4> QED BY <3>2, <3>4
    <3>6. FlattenSeq(s) = FlattenSeq(t) \o e BY <3>1, FlattenAppend
    <3>7. FlattenSeq(t) \in Seq(S) BY FlattenType
    <3>8. Len(FlattenSeq(s)) = Len(FlattenSeq(t)) + Len(e)
      <4> DEFINE u == FlattenSeq(t)
      <4> HIDE DEF u
      <4>1. u \in Seq(S) BY <3>7 DEF u
      <4>2. Len(u \o e) = Len(u) + Len(e) BY <4>1
      <4> QED BY <3>6, <4>2 DEF u
    <3>9. Len(FlattenSeq(t)) \in Nat /\ Len(e) \in Nat /\ (Len(e) = 0 <=> e = <<>>) BY <3>7
    <3>10. (\E i \in DOMAIN s : s[i] = <<>>) <=> (\E i \in DOMAIN t : t[i] = <<>>) \/ e = <<>> BY <3>3
    <3> DEFINE x == Len(FlattenSeq(t))
               y == Len(e)
               A == \E i \in DOMAIN t : t[i] = <<>>
    <3>11. x <= n /\ (x < n <=> A) BY <3>5, <3>2
    <3> HIDE DEF x, y, A
    <3>12. x + y <= n + 1 /\ (x + y < n + 1 <=> A \/ y = 0)
      <4>1. x \in Nat /\ y \in Nat /\ y <= 1 BY <3>4, <3>9 DEF x, y
      <4> QED BY <3>11, <4>1
    <3> QED BY <2>1, <3>8, <3>9, <3>10, <3>12 DEF x, y, A
  <2> HIDE DEF Short, Good
  <2> QED BY <2>1
<1>3. P = Nat
  <2>1. P \in SUBSET Nat OBVIOUS
  <2> HIDE DEF P
  <2> QED BY <1>1, <1>2, <2>1, SetInduction
<1>4. Len(seqs) \in P
  <2>1. Len(seqs) \in Nat OBVIOUS
  <2> HIDE DEF P
  <2> QED BY <1>3, <2>1
<1>5. Short(seqs) OBVIOUS
<1>6. Good(seqs)
  <2> HIDE DEF Short, Good
  <2> QED BY <1>4, <1>5
<1>7. FlattenSeq(seqs) \in Seq(S) BY FlattenType
<1> QED BY <1>6, <1>7

\* A filter: each element of s is kept or not.
LEMMA FilterFacts ==
  ASSUME NEW S, NEW s \in Seq(S), NEW ss, ss = [i \in DOMAIN s |-> ss[i]],
         \A i \in DOMAIN s : ss[i] = <<>> \/ ss[i] = <<s[i]>>
  PROVE  /\ FlattenSeq(ss) \in Seq(S)
         /\ ToSet(FlattenSeq(ss)) = {s[i] : i \in {j \in DOMAIN s : ss[j] # <<>>}}
         /\ Len(FlattenSeq(ss)) < Len(s) <=> \E i \in DOMAIN s : ss[i] = <<>>
<1>1. DOMAIN s = 1..Len(s) /\ Len(s) \in Nat /\ DOMAIN ss = DOMAIN s OBVIOUS
<1>2. ASSUME NEW i \in DOMAIN s PROVE ss[i] \in Seq(S)
  <2>1. <<>> \in Seq(S) /\ <<s[i]>> \in Seq(S) OBVIOUS
  <2> QED BY <2>1
<1>3. ss \in Seq(Seq(S)) /\ Len(ss) = Len(s)
  <2> DEFINE T == Seq(S)
             n == Len(s)
  <2>1. ss \in [1..n -> T] BY <1>1, <1>2
  <2>2. n \in Nat BY <1>1
  <2> HIDE DEF T, n
  <2>3. ss \in Seq(T) /\ Len(ss) = n BY <2>1, <2>2
  <2> QED BY <2>3 DEF T, n
<1>4. FlattenSeq(ss) \in Seq(S) BY <1>3, FlattenType
<1>5. ToSet(FlattenSeq(ss)) = UNION {ToSet(ss[i]) : i \in DOMAIN ss} BY <1>3, FlattenRange
<1>6. \A i \in DOMAIN s : ss[i] # <<>> => ToSet(ss[i]) = {s[i]} BY DEF ToSet
<1>7. ToSet(<<>>) = {} BY DEF ToSet
<1>8. UNION {ToSet(ss[i]) : i \in DOMAIN ss} = {s[i] : i \in {j \in DOMAIN s : ss[j] # <<>>}}
  <2>1. \A i \in DOMAIN s : ToSet(ss[i]) = IF ss[i] # <<>> THEN {s[i]} ELSE {} BY <1>6, <1>7
  <2> QED BY <1>1, <2>1
<1>9. \A i \in DOMAIN ss : Len(ss[i]) <= 1
  <2>1. \A i \in DOMAIN s : Len(<<>>) <= 1 /\ Len(<<s[i]>>) <= 1 OBVIOUS
  <2> QED BY <1>1, <2>1
<1>10. Len(FlattenSeq(ss)) < Len(ss) <=> \E i \in DOMAIN ss : ss[i] = <<>> BY <1>3, <1>9, FlattenShort
<1> QED BY <1>1, <1>3, <1>4, <1>5, <1>8, <1>10
-----------------------------------------------------------------------------
(* Forms (FormMail). *)
\* The operators on sequences that the four modules share are the same.
LEMMA SameFlatten ==
  ASSUME NEW s
  PROVE  /\ Form!FlattenSeq(s) = FlattenSeq(s) /\ Feat!FlattenSeq(s) = FlattenSeq(s)
         /\ Mime!FlattenSeq(s) = FlattenSeq(s) /\ Att!FlattenSeq(s) = FlattenSeq(s)
         /\ Form!ToSet(s) = ToSet(s) /\ Feat!ToSet(s) = ToSet(s)
BY DEF FlattenSeq, Form!FlattenSeq, Feat!FlattenSeq, Mime!FlattenSeq, Att!FlattenSeq, ToSet, Form!ToSet, Feat!ToSet

\* So is the number of elements.
LEMMA SameCardinality ==
  ASSUME NEW S
  PROVE  Feat!Cardinality(S) = Cardinality(S) /\ Mime!Cardinality(S) = Cardinality(S)
BY DEF Cardinality, Feat!Cardinality, Mime!Cardinality, IsFiniteSet, Feat!IsFiniteSet, Mime!IsFiniteSet

\* A form that is posted.
FormType == [multipart : BOOLEAN, from : Seq(Str), to : Seq(Seq(Str)), cc : Seq(Seq(Str)), bcc : Seq(Seq(Str)),
             text : Str, html : Str, files : Seq([name : Str, data : Contents])]

\* A field is an address or none, and reading it again changes nothing.
LEMMA SenderFacts ==
  ASSUME NEW v \in Seq(Str)
  PROVE  /\ Form!Sender(v) \in Seq(Str) /\ Len(Form!Sender(v)) <= 1
         /\ Form!Sender(v) # <<>> => Form!Sender(v) = v
         /\ Form!Sender(v) = <<>> <=> Len(v) # 1
         /\ Form!Sender(Form!Sender(v)) = Form!Sender(v)
<1>1. <<>> \in Seq(Str) /\ Len(<<>>) = 0 /\ Len(v) \in Nat OBVIOUS
<1>2. CASE Len(v) = 1
  <2>1. Form!Sender(v) = v /\ v # <<>> BY <1>1, <1>2 DEF Form!Sender
  <2>2. Len(Form!Sender(v)) = 1 BY <1>2, <2>1
  <2>3. Form!Sender(Form!Sender(v)) = Form!Sender(v) BY <2>1
  <2>4. Form!Sender(v) = <<>> <=> Len(v) # 1 BY <1>2, <2>1
  <2> QED BY <2>1, <2>2, <2>3, <2>4
<1>3. CASE Len(v) # 1
  <2>1. Form!Sender(v) = <<>> BY <1>3 DEF Form!Sender
  <2>2. Form!Sender(<<>>) = <<>> BY DEF Form!Sender
  <2> QED BY <1>1, <1>3, <2>1, <2>2
<1> QED BY <1>2, <1>3

\* The addresses of a field are those of its values that are one address.
LEMMA AddressesFacts ==
  ASSUME NEW values \in Seq(Seq(Str))
  PROVE  /\ Form!Addresses(values) \in Seq(Str)
         /\ ToSet(Form!Addresses(values)) = UNION {ToSet(Form!Sender(values[i])) : i \in DOMAIN values}
<1> DEFINE ss == [i \in DOMAIN values |-> Form!Sender(values[i])]
<1>1. ss \in Seq(Seq(Str)) /\ DOMAIN ss = DOMAIN values
  <2>1. \A i \in DOMAIN values : values[i] \in Seq(Str) OBVIOUS
  <2>2. \A i \in DOMAIN values : Form!Sender(values[i]) \in Seq(Str) BY <2>1, SenderFacts
  <2>3. DOMAIN values = 1..Len(values) /\ Len(values) \in Nat OBVIOUS
  <2> QED BY <2>2, <2>3
<1>2. Form!Addresses(values) = FlattenSeq(ss) BY SameFlatten DEF Form!Addresses
<1>3. ToSet(FlattenSeq(ss)) = UNION {ToSet(ss[i]) : i \in DOMAIN ss}
  <2> HIDE DEF ss
  <2> QED BY <1>1, FlattenRange
<1>4. FlattenSeq(ss) \in Seq(Str)
  <2> HIDE DEF ss
  <2> QED BY <1>1, FlattenType
<1> QED BY <1>1, <1>2, <1>3, <1>4

\* A header that lists several addresses is none; one address is that address.
LEMMA HeaderIsOneAddress ==
  ASSUME NEW v \in Seq(Str)
  PROVE  Form!Addresses(<<v>>) = Form!Sender(v) /\ Form!Addresses(<<>>) = <<>>
<1> DEFINE ss == [i \in DOMAIN <<v>> |-> Form!Sender(<<v>>[i])]
           none == [i \in DOMAIN <<>> |-> Form!Sender(<<>>[i])]
<1>1. ss = Append(<<>>, Form!Sender(v)) OBVIOUS
<1>2. <<>> \in Seq(Seq(Str)) /\ <<>> \o Form!Sender(v) = Form!Sender(v) BY SenderFacts
<1>3. FlattenSeq(<<>>) = <<>> BY FlattenEmpty
<1>4. FlattenSeq(Append(<<>>, Form!Sender(v))) = FlattenSeq(<<>>) \o Form!Sender(v)
  <2> DEFINE e == <<>>
  <2>1. e \in Seq(Seq(Str)) BY <1>2
  <2> HIDE DEF e
  <2>2. FlattenSeq(Append(e, Form!Sender(v))) = FlattenSeq(e) \o Form!Sender(v) BY <2>1, SenderFacts, FlattenAppend
  <2> QED BY <2>2 DEF e
<1>5. none = <<>> OBVIOUS
<1>6. Form!Addresses(<<v>>) = FlattenSeq(ss) BY SameFlatten DEF Form!Addresses
<1>7. Form!Addresses(<<>>) = FlattenSeq(none) BY SameFlatten DEF Form!Addresses
<1> HIDE DEF ss, none
<1> QED BY <1>1, <1>2, <1>3, <1>4, <1>5, <1>6, <1>7

\* A sequence with one element more.
LEMMA ConcatOne ==
  ASSUME NEW S, NEW s \in Seq(S), NEW x \in Seq(S), Len(x) = 1
  PROVE  /\ DOMAIN (s \o x) = 1..(Len(s) + 1) /\ (s \o x)[Len(s) + 1] = x[1]
         /\ \A i \in 1..Len(s) : (s \o x)[i] = s[i]
<1>l. s \o x \in Seq(S) /\ Len(s \o x) = Len(s) + Len(x) BY ConcatProperties, Zenon
<1>m. Len(s) \in Nat OBVIOUS
<1>1. Len(s) \in Nat /\ s \o x \in Seq(S) /\ Len(s \o x) = Len(s) + 1 BY <1>l, <1>m
<1> DEFINE u == s \o x
           n == Len(s)
<1>0. \A i \in 1..n + Len(x) : u[i] = IF i <= n THEN s[i] ELSE x[i - n] BY ConcatProperties
<1> HIDE DEF u, n
<1>n. n \in Nat BY <1>1 DEF n
<1>2. \A i \in 1..n : u[i] = s[i] BY <1>0, <1>n
<1>3. u[n + 1] = x[1] BY <1>0, <1>n
<1>4. DOMAIN (s \o x) = 1..Len(s \o x) BY <1>1
<1> QED BY <1>1, <1>2, <1>3, <1>4 DEF u, n

\* What is kept of a list by leaving out the values that are not one address
\* is those that are, in their order.
LEMMA FlattenOrder ==
  ASSUME NEW S, NEW values \in Seq(Seq(S)), NEW ss \in Seq(Seq(S)), Len(ss) = Len(values),
         \A i \in DOMAIN values : ss[i] = IF Len(values[i]) = 1 THEN values[i] ELSE <<>>
  PROVE  Form!AreThoseOf(FlattenSeq(ss), values)
<1> DEFINE Good(v, s) == /\ Len(s) = Len(v)
                         /\ \A i \in DOMAIN v : s[i] = IF Len(v[i]) = 1 THEN v[i] ELSE <<>>
           P == {n \in Nat : \A v, s \in Seq(Seq(S)) :
                              Len(v) = n /\ Good(v, s) => Form!AreThoseOf(FlattenSeq(s), v)}
<1>1. 0 \in P
  <2>1. ASSUME NEW v \in Seq(Seq(S)), NEW s \in Seq(Seq(S)), Len(v) = 0, Good(v, s)
        PROVE  Form!AreThoseOf(FlattenSeq(s), v)
    <3>1. Len(s) = 0 /\ s = <<>> /\ DOMAIN v = {} BY <2>1
    <3>2. FlattenSeq(s) = <<>> BY <3>1, FlattenEmpty
    <3>3. DOMAIN <<>> = {} OBVIOUS
    <3> DEFINE at == [i \in {} |-> i]
    <3>4. at \in [{} -> {}] OBVIOUS
    <3> QED BY <3>1, <3>2, <3>3, <3>4 DEF Form!AreThoseOf
  <2> HIDE DEF Good
  <2> QED BY <2>1
<1>2. ASSUME NEW n \in P PROVE n + 1 \in P
  <2>1. ASSUME NEW v \in Seq(Seq(S)), NEW s \in Seq(Seq(S)), Len(v) = n + 1, Good(v, s)
        PROVE  Form!AreThoseOf(FlattenSeq(s), v)
    <3>0. Len(v) # 0 /\ Len(s) # 0 /\ Len(s) = n + 1 BY <2>1
    <3>1. PICK t \in Seq(Seq(S)), e \in Seq(S) : s = Append(t, e) /\ Len(s) = Len(t) + 1
      <4> DEFINE T == Seq(S)
      <4> HIDE DEF T
      <4>1. s \in Seq(T) BY <2>1 DEF T
      <4>2. \E t \in Seq(T), e \in T : s = Append(t, e) /\ Len(s) = Len(t) + 1 BY <3>0, <4>1, SeqLast
      <4> QED BY <4>2 DEF T
    <3>2. PICK u \in Seq(Seq(S)), x \in Seq(S) : v = Append(u, x) /\ Len(v) = Len(u) + 1
      <4> DEFINE T == Seq(S)
      <4> HIDE DEF T
      <4>1. v \in Seq(T) BY <2>1 DEF T
      <4>2. \E u \in Seq(T), x \in T : v = Append(u, x) /\ Len(v) = Len(u) + 1 BY <3>0, <4>1, SeqLast
      <4> QED BY <4>2 DEF T
    <3>3. Len(t) = n /\ Len(u) = n /\ n \in Nat BY <2>1, <3>0, <3>1, <3>2
    <3>4. /\ DOMAIN u = 1..n /\ DOMAIN v = 1..(n + 1) /\ n + 1 \in DOMAIN v
          /\ \A i \in 1..n : v[i] = u[i] /\ s[i] = t[i] /\ i \in DOMAIN v
          /\ v[n + 1] = x /\ s[n + 1] = e
      BY <2>1, <3>0, <3>1, <3>2, <3>3
    <3>5. Good(u, t) BY <2>1, <3>3, <3>4
    <3>6. e = IF Len(x) = 1 THEN x ELSE <<>> BY <2>1, <3>4
    <3> DEFINE f == FlattenSeq(t)
               m == Len(f)
    <3>7. Form!AreThoseOf(f, u) BY <3>3, <3>5
    <3>8. FlattenSeq(s) = f \o e BY <3>1, FlattenAppend
    <3>9. f \in Seq(S) /\ m \in Nat /\ DOMAIN f = 1..m BY FlattenType
    <3> HIDE DEF f, Good, P, m
    <3>10. PICK at \in [1..m -> 1..n] :
             /\ {at[i] : i \in 1..m} = {k \in 1..n : Len(u[k]) = 1}
             /\ \A i, j \in 1..m : i < j => at[i] < at[j]
             /\ \A i \in 1..m : f[i] = u[at[i]][1]
      <4>1. \E at \in [DOMAIN f -> DOMAIN u] :
              /\ {at[i] : i \in DOMAIN f} = {k \in DOMAIN u : Len(u[k]) = 1}
              /\ \A i, j \in DOMAIN f : i < j => at[i] < at[j]
              /\ \A i \in DOMAIN f : f[i] = u[at[i]][1]
        BY <3>7, Zenon DEF Form!AreThoseOf
      <4>2. DOMAIN f = 1..m /\ DOMAIN u = 1..n BY <3>4, <3>9
      <4> QED BY <4>1, <4>2, Zenon
    <3>11. CASE Len(x) = 1
      <4> DEFINE g == f \o x
                 h == [i \in 1..(m + 1) |-> IF i = m + 1 THEN n + 1 ELSE at[i]]
      <4>1. /\ DOMAIN g = 1..(m + 1) /\ g[m + 1] = x[1]
            /\ \A i \in 1..m : g[i] = f[i]
        BY <3>2, <3>9, <3>11, ConcatOne DEF m
      <4>2. /\ h \in [1..(m + 1) -> 1..(n + 1)] /\ h[m + 1] = n + 1
            /\ \A i \in 1..m : h[i] = at[i]
        <5>1. m + 1 \in 1..(m + 1) /\ n + 1 \in 1..(n + 1) BY <3>3, <3>9
        <5>2. \A i \in 1..m : i \in 1..(m + 1) /\ i # m + 1 BY <3>9
        <5>3. \A i \in 1..(m + 1) : i = m + 1 \/ i \in 1..m BY <3>9
        <5>4. \A i \in 1..m : at[i] \in 1..n /\ at[i] \in 1..(n + 1) BY <3>3, <3>10
        <5>5. h[m + 1] = n + 1 /\ \A i \in 1..m : h[i] = at[i] BY <5>1, <5>2, Zenon
        <5>6. \A i \in 1..(m + 1) : h[i] \in 1..(n + 1) BY <5>1, <5>3, <5>4, <5>5
        <5> QED BY <5>5, <5>6
      <4> HIDE DEF g, h
      <4>3. {h[i] : i \in 1..(m + 1)} = {k \in 1..(n + 1) : Len(v[k]) = 1}
        <5>1. {h[i] : i \in 1..(m + 1)} = {h[i] : i \in 1..m} \cup {n + 1} BY <3>9, <4>2
        <5>2. {h[i] : i \in 1..m} = {k \in 1..n : Len(u[k]) = 1}
          <6>1. {h[i] : i \in 1..m} = {at[i] : i \in 1..m} BY <4>2
          <6> QED BY <3>10, <6>1
        <5>3. {k \in 1..(n + 1) : Len(v[k]) = 1} = {k \in 1..n : Len(v[k]) = 1} \cup {n + 1} BY <3>3, <3>4, <3>11
        <5>4. {k \in 1..n : Len(v[k]) = 1} = {k \in 1..n : Len(u[k]) = 1} BY <3>4
        <5> QED BY <5>1, <5>2, <5>3, <5>4
      <4>4. ASSUME NEW i \in 1..(m + 1), NEW j \in 1..(m + 1), i < j PROVE h[i] < h[j]
        <5>1. i \in 1..m /\ h[i] = at[i] /\ at[i] \in 1..n BY <3>9, <3>10, <4>2, <4>4
        <5>2. CASE j = m + 1 BY <3>3, <4>2, <5>1, <5>2
        <5>3. CASE j # m + 1
          <6>1. j \in 1..m BY <3>9, <5>3
          <6> QED BY <3>10, <4>2, <4>4, <5>1, <6>1
        <5> QED BY <5>2, <5>3
      <4>5. \A i \in 1..(m + 1) : g[i] = v[h[i]][1]
        <5>1. ASSUME NEW i \in 1..m PROVE g[i] = v[h[i]][1]
          <6>1. at[i] \in 1..n BY <3>10
          <6> QED BY <3>4, <3>10, <4>1, <4>2, <6>1
        <5>2. g[m + 1] = v[h[m + 1]][1] BY <3>4, <4>1, <4>2
        <5>3. \A i \in 1..(m + 1) : i = m + 1 \/ i \in 1..m BY <3>9
        <5> QED BY <5>1, <5>2, <5>3, Zenon
      <4>6. FlattenSeq(s) = g BY <3>6, <3>8, <3>11 DEF g
      <4>7. h \in [DOMAIN g -> DOMAIN v] BY <3>4, <4>1, <4>2
      <4> QED BY <3>4, <4>1, <4>3, <4>4, <4>5, <4>6, <4>7 DEF Form!AreThoseOf
    <3>12. CASE Len(x) # 1
      <4>1. FlattenSeq(s) = f BY <3>6, <3>8, <3>9, <3>12
      <4>2. at \in [1..m -> 1..(n + 1)] BY <3>3, <3>10
      <4>3. {k \in 1..(n + 1) : Len(v[k]) = 1} = {k \in 1..n : Len(u[k]) = 1} BY <3>3, <3>4, <3>12
      <4>4. \A i \in 1..m : f[i] = v[at[i]][1]
        <5>1. \A i \in 1..m : at[i] \in 1..n BY <3>10
        <5> QED BY <3>4, <3>10, <5>1
      <4>5. Form!AreThoseOf(f, v)
        <5>1. DOMAIN f = 1..m /\ DOMAIN v = 1..(n + 1) BY <3>4, <3>9
        <5>2. {at[i] : i \in 1..m} = {k \in 1..(n + 1) : Len(v[k]) = 1} BY <3>10, <4>3
        <5>3. \E pos \in [1..m -> 1..(n + 1)] :
                /\ {pos[i] : i \in 1..m} = {k \in 1..(n + 1) : Len(v[k]) = 1}
                /\ \A i, j \in 1..m : i < j => pos[i] < pos[j]
                /\ \A i \in 1..m : f[i] = v[pos[i]][1]
          BY <3>10, <4>2, <4>4, <5>2, Zenon
        <5> QED BY <5>1, <5>3, Zenon DEF Form!AreThoseOf
      <4> QED BY <4>1, <4>5
    <3> QED BY <3>11, <3>12
  <2> HIDE DEF Good
  <2> QED BY <2>1
<1>3. P = Nat
  <2>1. P \in SUBSET Nat OBVIOUS
  <2> HIDE DEF P
  <2> QED BY <1>1, <1>2, <2>1, SetInduction
<1>4. Len(values) \in P
  <2>1. Len(values) \in Nat OBVIOUS
  <2> HIDE DEF P
  <2> QED BY <1>3, <2>1
<1>5. Good(values, ss) OBVIOUS
<1> HIDE DEF Good
<1> QED BY <1>4, <1>5

\* The addresses of a field are those of its values that are one address.
LEMMA AddressesInOrder ==
  ASSUME NEW values \in Seq(Seq(Str))
  PROVE  Form!AreThoseOf(Form!Addresses(values), values)
<1> DEFINE ss == [i \in DOMAIN values |-> Form!Sender(values[i])]
<1>1. DOMAIN values = 1..Len(values) /\ Len(values) \in Nat OBVIOUS
<1>2. \A i \in DOMAIN values : values[i] \in Seq(Str) OBVIOUS
<1>3. ss \in Seq(Seq(Str)) /\ Len(ss) = Len(values)
  <2> DEFINE T == Seq(Str)
             n == Len(values)
  <2>1. ss \in [1..n -> T] BY <1>1, <1>2, SenderFacts
  <2>2. n \in Nat BY <1>1
  <2> HIDE DEF T, n
  <2>3. ss \in Seq(T) /\ Len(ss) = n BY <2>1, <2>2
  <2> QED BY <2>3 DEF T, n
<1>4. \A i \in DOMAIN values : ss[i] = IF Len(values[i]) = 1 THEN values[i] ELSE <<>> BY DEF Form!Sender
<1>5. Form!Addresses(values) = FlattenSeq(ss) BY SameFlatten DEF Form!Addresses
<1> HIDE DEF ss
<1> QED BY <1>3, <1>4, <1>5, FlattenOrder

\* Each field of a form is where it belongs, and nothing else is.
LEMMA FieldsAreKeptAll ==
  ASSUME NEW r \in FormType
  PROVE  Form!FieldsAreKept(r)
<1> DEFINE o == Form!analyze(r)
<1>1. /\ r.multipart \in BOOLEAN /\ r.from \in Seq(Str) /\ r.to \in Seq(Seq(Str)) /\ r.cc \in Seq(Seq(Str))
  BY DEF FormType
<1>2. o.status = 200 <=> r.multipart BY <1>1 DEF Form!analyze, Form!Refused
<1>3. ASSUME r.multipart
      PROVE  /\ o.mail.from = Form!Sender(r.from) /\ o.env.from = Form!Sender(r.from)
             /\ o.env.to = Form!Addresses(r.to) /\ o.mail.Cc = Form!Addresses(r.cc)
             /\ o.mail.To = IF o.env.to = <<>> THEN <<>> ELSE <<o.env.to>>
             /\ o.mail.text = r.text /\ o.mail.html = r.html
  BY <1>3 DEF Form!analyze, Form!Built
<1>4. Form!AreThoseOf(Form!Sender(r.from), <<r.from>>)
  <2>1. <<r.from>> \in Seq(Seq(Str)) BY <1>1
  <2>2. Form!Addresses(<<r.from>>) = Form!Sender(r.from) BY <1>1, HeaderIsOneAddress
  <2>3. Form!AreThoseOf(Form!Addresses(<<r.from>>), <<r.from>>)
    <3> DEFINE v == <<r.from>>
    <3>1. v \in Seq(Seq(Str)) BY <2>1
    <3> HIDE DEF v
    <3>2. Form!AreThoseOf(Form!Addresses(v), v) BY <3>1, AddressesInOrder
    <3> QED BY <3>2 DEF v
  <2> QED BY <2>2, <2>3
<1>5. Form!AreThoseOf(Form!Addresses(r.to), r.to) /\ Form!AreThoseOf(Form!Addresses(r.cc), r.cc)
  BY <1>1, AddressesInOrder
<1> HIDE DEF o
<1> QED BY <1>2, <1>3, <1>4, <1>5 DEF Form!FieldsAreKept, o

\* A mail built of a form and handed in again gets the envelope it had, except
\* that of several recipients none is left (analyze, FormMail).
LEMMA EnvelopeSurvivesAll ==
  ASSUME NEW r \in FormType
  PROVE  Form!EnvelopeSurvives(r)
<1> DEFINE o == Form!analyze(r)
           p == Form!Repost(o)
           A == Form!Addresses(r.to)
           given == [multipart |-> TRUE, kind |-> "mail", mail |-> o.mail, from |-> <<>>, to |-> <<>>]
<1>1. SUFFICES ASSUME o.status = 200
               PROVE  /\ p.status = 200 /\ p.env.from = o.env.from
                      /\ p.env.to = IF Len(o.env.to) <= 1 THEN o.env.to ELSE <<>>
  BY DEF Form!EnvelopeSurvives
<1>2. /\ o.mail.from = Form!Sender(r.from)
      /\ o.mail.To = IF A = <<>> THEN <<>> ELSE <<A>>
      /\ o.env = [from |-> Form!Sender(r.from), to |-> A]
  BY <1>1 DEF Form!analyze, Form!Refused, Form!Built
<1>3. A \in Seq(Str) BY AddressesFacts DEF FormType
<1>4. /\ r.from \in Seq(Str) /\ <<>> \in Seq(Str) BY DEF FormType
<1>5. Form!Sender(<<>>) = <<>> BY DEF Form!Sender
<1>6. Form!Addresses(<<>>) = <<>> BY <1>4, HeaderIsOneAddress
<1> HIDE DEF A, o
<1>7. p = [status |-> 200, mail |-> o.mail,
           env |-> [from |-> Form!Sender(o.mail.from), to |-> Form!Addresses(o.mail.To)]]
  BY <1>5, <1>6 DEF Form!Repost, Form!analyzeMime
<1>8. Form!Sender(o.mail.from) = o.env.from BY <1>2, <1>4, SenderFacts
<1>9. Form!Addresses(o.mail.To) = IF Len(A) <= 1 THEN A ELSE <<>>
  <2>1. CASE A = <<>> BY <1>2, <1>6, <2>1
  <2>2. CASE A # <<>>
    <3>1. Form!Addresses(o.mail.To) = Form!Sender(A) BY <1>2, <1>3, <2>2, HeaderIsOneAddress
    <3>2. Len(A) \in Nat /\ Len(A) # 0 BY <1>3, <2>2
    <3>3. Len(A) <= 1 <=> Len(A) = 1
      <4> DEFINE n == Len(A)
      <4> HIDE DEF n
      <4>1. n \in Nat /\ n # 0 BY <3>2 DEF n
      <4>2. n <= 1 <=> n = 1 BY <4>1
      <4> QED BY <4>2 DEF n
    <3> QED BY <3>1, <3>3 DEF Form!Sender
  <2> QED BY <2>1, <2>2
<1> QED BY <1>2, <1>7, <1>8, <1>9

\* The sender and the recipients given with a mail go before its headers.
LEMMA GivenEnvelopeWinsAll ==
  ASSUME NEW r \in FormType, NEW from \in Seq(Str), NEW to \in Seq(Seq(Str))
  PROVE  Form!GivenEnvelopeWins(r, from, to)
<1> DEFINE o == Form!analyze(r)
           given == [multipart |-> TRUE, kind |-> "mail", mail |-> o.mail, from |-> from, to |-> to]
           p == Form!analyzeMime(given)
<1>1. SUFFICES ASSUME Form!Addresses(to) # <<>>, Form!Sender(from) # <<>>
               PROVE  p.env = [from |-> from, to |-> Form!Addresses(to)]
  BY DEF Form!GivenEnvelopeWins
<1>2. Form!Sender(from) = from BY <1>1, SenderFacts
<1> HIDE DEF o
<1>3. p = [status |-> 200, mail |-> o.mail, env |-> [from |-> Form!Sender(from), to |-> Form!Addresses(to)]]
  <2>1. given.multipart /\ given.kind = "mail" /\ given.mail = o.mail /\ given.from = from /\ given.to = to
    OBVIOUS
  <2> DEFINE g == given
  <2> HIDE DEF given
  <2> QED BY <1>1, <2>1 DEF Form!analyzeMime
<1> QED BY <1>2, <1>3

\* Who is only in bcc is in no header.
LEMMA BlindStaysBlindAll ==
  ASSUME NEW r \in FormType
  PROVE  Form!BlindStaysBlind(r)
<1> DEFINE o == Form!analyze(r)
           open == UNION {Form!ToSet(v) : v \in Form!ToSet(r.to) \cup Form!ToSet(r.cc)}
           seen == Form!ToSet(o.env.to) \cup Form!ToSet(o.mail.Cc) \cup UNION {Form!ToSet(t) : t \in Form!ToSet(o.mail.To)}
           A == Form!Addresses(r.to)
           C == Form!Addresses(r.cc)
<1>1. SUFFICES ASSUME o.status = 200 PROVE seen \subseteq open
  BY DEF Form!BlindStaysBlind
<1>2. /\ o.mail.Cc = C
      /\ o.mail.To = IF A = <<>> THEN <<>> ELSE <<A>>
      /\ o.env.to = A
  BY <1>1 DEF Form!analyze, Form!Refused, Form!Built
<1>3. ASSUME NEW values \in Seq(Seq(Str))
      PROVE  ToSet(Form!Addresses(values)) \subseteq UNION {ToSet(v) : v \in ToSet(values)}
  <2>1. \A i \in DOMAIN values : ToSet(Form!Sender(values[i])) \subseteq ToSet(values[i])
    BY DEF Form!Sender, ToSet
  <2>2. ToSet(Form!Addresses(values)) = UNION {ToSet(Form!Sender(values[i])) : i \in DOMAIN values} BY AddressesFacts
  <2>3. \A i \in DOMAIN values : values[i] \in ToSet(values) BY DEF ToSet
  <2> QED BY <2>1, <2>2, <2>3
<1>4. ToSet(A) \subseteq open /\ ToSet(C) \subseteq open
  <2>1. r.to \in Seq(Seq(Str)) /\ r.cc \in Seq(Seq(Str)) BY DEF FormType
  <2>2. ToSet(A) \subseteq UNION {ToSet(v) : v \in ToSet(r.to)} BY <1>3, <2>1
  <2>3. ToSet(C) \subseteq UNION {ToSet(v) : v \in ToSet(r.cc)} BY <1>3, <2>1
  <2> QED BY <2>2, <2>3, SameFlatten
<1>5. \A t \in Form!ToSet(o.mail.To) : t = A
  <2>1. \A t \in ToSet(o.mail.To) : t = A BY <1>2 DEF ToSet
  <2> QED BY <2>1, SameFlatten
<1> HIDE DEF o, open, A, C
<1> QED BY <1>2, <1>4, <1>5, SameFlatten

\* Each file of a form is an attachment under its name, with the content of the
\* last one.
LEMMA FilesAreNamedAll ==
  ASSUME NEW r \in FormType
  PROVE  Form!FilesAreNamed(r)
<1> DEFINE o == Form!analyze(r)
           fs == r.files
<1>1. SUFFICES ASSUME o.status = 200
               PROVE  /\ Len(o.mail.atts) = Len(fs)
                      /\ \A i \in DOMAIN fs : o.mail.atts[i].name = fs[i].name
                      /\ \A i \in DOMAIN fs : o.mail.atts[i].data = fs[i].data <=> fs[i].data = Form!Last(fs).data
  BY DEF Form!FilesAreNamed
<1>2. o.mail.atts = [i \in DOMAIN fs |-> [name |-> fs[i].name, data |-> fs[Len(fs)].data]]
  BY <1>1 DEF Form!analyze, Form!Refused, Form!Built
<1>3. fs \in Seq([name : Str, data : Contents]) BY DEF FormType
<1>4. Form!Last(fs) = fs[Len(fs)] BY DEF Form!Last
<1> HIDE DEF o, fs
<1>5. Len(o.mail.atts) = Len(fs) BY <1>2, <1>3
<1> QED BY <1>2, <1>3, <1>4, <1>5
-----------------------------------------------------------------------------
(* Words (Features). *)
\* The element that a fold over a set takes next, and the step of a sum.
Pick(s) == CHOOSE x \in s : TRUE

\* A set that is not empty has one.
LEMMA PickIn ==
  ASSUME NEW s, s # {}
  PROVE  Pick(s) \in s
BY DEF Pick

SumStep(g, s, bag) == IF s = {} THEN 0 ELSE g[s \ {Pick(s)}] + bag[Pick(s)]

\* The elements of D with a label in T.
Labeled(D, lab, T) == {i \in D : lab[i] \in T}

\* Summing what each element of S counts is counting what has a label in S.
LEMMA SumCounts ==
  ASSUME NEW D, IsFiniteSet(D), NEW lab, NEW S, IsFiniteSet(S), NEW bag,
         \A w \in S : bag[w] = Cardinality(Labeled(D, lab, {w}))
  PROVE  Feat!Occurrences(bag, S) = Cardinality(Labeled(D, lab, S))
<1> DEFINE sum == CHOOSE h : h = [s \in SUBSET S |-> SumStep(h, s, bag)]
<1>t. Feat!Occurrences(bag, S) = sum[S] BY DEF Feat!Occurrences, Feat!FoldSet, Feat!MapThenFoldSet, SumStep, Pick
<1>u. sum = CHOOSE h : h = [s \in SUBSET S |-> SumStep(h, s, bag)] OBVIOUS
<1> HIDE DEF sum
<1>0. \E h : h = [s \in SUBSET S |-> SumStep(h, s, bag)]
  <2> USE DEF SumStep
  <2> DEFINE Def(h, s) == SumStep(h, s, bag)
             Small(n) == {s \in SUBSET S : Cardinality(s) <= n}
             P == {n \in Nat : \E g : g = [s \in Small(n) |-> Def(g, s)]}
  <2>f. ASSUME NEW s \in SUBSET S PROVE IsFiniteSet(s) /\ Cardinality(s) \in Nat BY FS_Subset, FS_CardinalityType
  <2>1. 0 \in P
    <3> DEFINE h == [s \in Small(0) |-> 0]
    <3>1. \A s \in Small(0) : s = {}
      <4>1. ASSUME NEW s \in Small(0) PROVE s = {}
        <5>1. Cardinality(s) = 0 BY <2>f
        <5> QED BY <2>f, <5>1, FS_EmptySet
      <4> QED BY <4>1
    <3>2. \A s \in Small(0) : Def(h, s) = 0 BY <3>1
    <3>3. h = [s \in Small(0) |-> Def(h, s)]
      <4> HIDE DEF Def, Small
      <4> QED BY <3>2
    <3>4. \E g : g = [s \in Small(0) |-> Def(g, s)]
      <4> HIDE DEF Def, Small, h
      <4> QED BY <3>3, Zenon
    <3> HIDE DEF Def, Small
    <3> QED BY <3>4
  <2>2. ASSUME NEW n \in P PROVE n + 1 \in P
    <3>1. PICK g : g = [s \in Small(n) |-> Def(g, s)] OBVIOUS
    <3> DEFINE h == [s \in Small(n + 1) |-> Def(g, s)]
    <3>2. \A s \in Small(n) : h[s] = g[s]
      <4>1. \A s \in Small(n) : s \in Small(n + 1)
        <5>1. ASSUME NEW s \in Small(n) PROVE Cardinality(s) <= n + 1
          <6>1. Cardinality(s) \in Nat /\ Cardinality(s) <= n /\ n \in Nat BY <2>f
          <6> QED BY <6>1
        <5> QED BY <5>1
      <4> HIDE DEF Def, Small
      <4> QED BY <3>1, <4>1
    <3>3. ASSUME NEW s \in Small(n + 1) PROVE Def(h, s) = Def(g, s)
      <4>1. CASE s = {} BY <4>1
      <4>2. CASE s # {}
        <5> DEFINE x == Pick(s)
        <5>1. x \in s BY <4>2, PickIn
        <5> HIDE DEF x
        <5>2. s \ {x} \in Small(n)
          <6>1. Cardinality(s \ {x}) = Cardinality(s) - 1 BY <2>f, <5>1, FS_RemoveElement
          <6>2. Cardinality(s) \in Nat /\ Cardinality(s) <= n + 1 /\ n \in Nat BY <2>f
          <6>3. Cardinality(s) - 1 <= n BY <6>2
          <6> QED BY <6>1, <6>3
        <5>3. h[s \ {x}] = g[s \ {x}] BY <3>2, <5>2
        <5>4. Def(h, s) = h[s \ {x}] + bag[x]
          <6> HIDE DEF h
          <6> QED BY <4>2 DEF x
        <5>5. Def(g, s) = g[s \ {x}] + bag[x] BY <4>2 DEF x
        <5> HIDE DEF h, Def
        <5> QED BY <5>3, <5>4, <5>5
      <4> QED BY <4>1, <4>2
    <3>4. h = [s \in Small(n + 1) |-> Def(h, s)]
      <4>1. h = [s \in Small(n + 1) |-> Def(g, s)] OBVIOUS
      <4> HIDE DEF h, Def, Small
      <4> QED BY <3>3, <4>1
    <3>5. \E g2 : g2 = [s \in Small(n + 1) |-> Def(g2, s)]
      <4> HIDE DEF h, Def, Small
      <4> QED BY <3>4, Zenon
    <3>6. n + 1 \in Nat OBVIOUS
    <3> HIDE DEF Def, Small
    <3> QED BY <3>5, <3>6
  <2>3. P = Nat
    <3>1. P \in SUBSET Nat OBVIOUS
    <3> HIDE DEF P
    <3> QED BY <2>1, <2>2, <3>1, SetInduction
  <2>4. Cardinality(S) \in P BY <2>3, FS_CardinalityType
  <2>5. Small(Cardinality(S)) = SUBSET S BY FS_Subset
  <2>6. \E g : g = [s \in Small(Cardinality(S)) |-> Def(g, s)]
    <3> HIDE DEF Small, Def
    <3> QED BY <2>4
  <2> HIDE DEF Small
  <2> QED BY <2>5, <2>6
<1>1. \A s \in SUBSET S : sum[s] = IF s = {} THEN 0 ELSE sum[s \ {Pick(s)}] + bag[Pick(s)]
  <2>1. sum = [s \in SUBSET S |-> SumStep(sum, s, bag)] BY <1>0, <1>u
  <2>2. \A s \in SUBSET S : sum[s] = SumStep(sum, s, bag) BY <2>1
  <2> QED BY <2>2 DEF SumStep
<1> DEFINE With(s) == Labeled(D, lab, s)
           P == {n \in Nat : \A s \in SUBSET S : Cardinality(s) = n => sum[s] = Cardinality(With(s))}
<1> USE DEF Labeled
<1>f. ASSUME NEW s \in SUBSET S PROVE IsFiniteSet(s) /\ Cardinality(s) \in Nat BY FS_Subset, FS_CardinalityType
<1>2. 0 \in P
  <2>1. ASSUME NEW s \in SUBSET S, Cardinality(s) = 0 PROVE sum[s] = Cardinality(With(s))
    <3>1. s = {} BY <1>f, <2>1, FS_EmptySet
    <3>2. With(s) = {} BY <3>1
    <3>3. sum[s] = 0 BY <1>1, <3>1
    <3> QED BY <3>2, <3>3, FS_EmptySet
  <2> HIDE DEF With
  <2> QED BY <2>1
<1>3. ASSUME NEW n \in P PROVE n + 1 \in P
  <2>1. ASSUME NEW s \in SUBSET S, Cardinality(s) = n + 1 PROVE sum[s] = Cardinality(With(s))
    <3> DEFINE x == Pick(s)
    <3>0. n + 1 # 0 OBVIOUS
    <3>1. s # {} BY <2>1, <3>0, FS_EmptySet
    <3>2. x \in s BY <3>1, PickIn
    <3>3. sum[s] = sum[s \ {x}] + bag[x] BY <1>1, <3>1
    <3> HIDE DEF x
    <3>4. Cardinality(s \ {x}) = n BY <1>f, <2>1, <3>2, FS_RemoveElement
    <3>5. sum[s \ {x}] = Cardinality(With(s \ {x}))
      <4>1. s \ {x} \in SUBSET S OBVIOUS
      <4> HIDE DEF With
      <4> QED BY <3>4, <4>1
    <3>6. bag[x] = Cardinality(With({x}))
      <4> HIDE DEF Labeled
      <4> QED BY <3>2
    <3>7. With(s) = With(s \ {x}) \cup With({x}) /\ With(s \ {x}) \cap With({x}) = {} BY <3>2
    <3>8. IsFiniteSet(With(s \ {x})) /\ IsFiniteSet(With({x})) BY FS_Subset
    <3> HIDE DEF With
    <3>9. Cardinality(With(s)) = Cardinality(With(s \ {x})) + Cardinality(With({x})) - Cardinality({})
      <4> DEFINE A == With(s \ {x})
                 B == With({x})
      <4>1. With(s) = A \cup B /\ A \cap B = {} BY <3>7
      <4>2. IsFiniteSet(A) /\ IsFiniteSet(B) BY <3>8
      <4> HIDE DEF A, B
      <4>3. Cardinality(A \cup B) = Cardinality(A) + Cardinality(B) - Cardinality(A \cap B) BY <4>2, FS_Union
      <4> QED BY <4>1, <4>3 DEF A, B
    <3>10. Cardinality(With(s \ {x})) \in Nat /\ Cardinality(With({x})) \in Nat /\ Cardinality({}) = 0
      BY <3>8, FS_CardinalityType, FS_EmptySet
    <3> QED BY <3>3, <3>5, <3>6, <3>9, <3>10
  <2>2. n + 1 \in Nat OBVIOUS
  <2> HIDE DEF With
  <2> QED BY <2>1, <2>2
<1>4. P = Nat
  <2>1. P \in SUBSET Nat OBVIOUS
  <2> HIDE DEF P
  <2> QED BY <1>2, <1>3, <2>1, SetInduction
<1>5. Cardinality(S) \in P BY <1>4, FS_CardinalityType
<1> QED BY <1>5, <1>t

\* The order of the words by which one stands for its stem.
Shorter(v, w) == Size[v] < Size[w] \/ (Size[v] = Size[w] /\ Less[v][w])

\* It is total and transitive (WordsAssumption).
LEMMA ShorterOrders ==
  /\ \A v, w \in Words : v # w => Shorter(v, w) \/ Shorter(w, v)
  /\ \A u, v, w \in Words : Shorter(u, v) /\ Shorter(v, w) => Shorter(u, w)
<1>1. \A w \in Words : Size[w] \in Nat BY WordsAssumption
<1>2. \A v, w \in Words : v # w => Less[v][w] \/ Less[w][v] BY WordsAssumption
<1>3. \A u, v, w \in Words : Less[u][v] /\ Less[v][w] => Less[u][w] BY WordsAssumption
<1> QED BY <1>1, <1>2, <1>3 DEF Shorter

\* Of finitely many words one is shorter, or as short and before, all the others.
LEMMA ShortestExists ==
  ASSUME NEW ws \in SUBSET Words, IsFiniteSet(ws), ws # {}
  PROVE  \E w \in ws : \A v \in ws \ {w} : Shorter(w, v)
<1> DEFINE Least(T) == \E w \in T : \A v \in T \ {w} : Shorter(w, v)
           P == {n \in Nat : \A T \in SUBSET Words : IsFiniteSet(T) /\ Cardinality(T) = n + 1 => Least(T)}
<1>1. 0 \in P
  <2>1. ASSUME NEW T \in SUBSET Words, IsFiniteSet(T), Cardinality(T) = 1 PROVE Least(T)
    <3>1. PICK x : T = {x} BY <2>1, FS_Singleton
    <3> QED BY <3>1
  <2>2. 0 + 1 = 1 OBVIOUS
  <2> HIDE DEF Least
  <2> QED BY <2>1, <2>2
<1>2. ASSUME NEW n \in P PROVE n + 1 \in P
  <2>1. ASSUME NEW T \in SUBSET Words, IsFiniteSet(T), Cardinality(T) = (n + 1) + 1 PROVE Least(T)
    <3>0. n \in Nat OBVIOUS
    <3>1. T # {} BY <2>1, <3>0, FS_EmptySet
    <3>2. PICK x \in T : TRUE BY <3>1
    <3> DEFINE U == T \ {x}
    <3>3. IsFiniteSet(U) /\ Cardinality(U) = n + 1 BY <2>1, <3>0, <3>2, FS_RemoveElement
    <3>4. Least(U)
      <4>1. U \in SUBSET Words OBVIOUS
      <4> HIDE DEF Least, U
      <4> QED BY <3>3, <4>1
    <3>5. PICK m \in U : \A v \in U \ {m} : Shorter(m, v) BY <3>4
    <3>6. CASE Shorter(m, x) BY <3>5, <3>6
    <3>7. CASE ~Shorter(m, x)
      <4>1. m # x /\ m \in Words /\ x \in Words OBVIOUS
      <4>2. Shorter(x, m) BY <3>7, <4>1, ShorterOrders
      <4>3. ASSUME NEW v \in U \ {m} PROVE Shorter(x, v)
        <5>1. v \in Words /\ Shorter(m, v) BY <3>5
        <5> QED BY <4>1, <4>2, <5>1, ShorterOrders
      <4>4. \A v \in T \ {x} : Shorter(x, v) BY <4>2, <4>3
      <4> QED BY <4>4
    <3> QED BY <3>6, <3>7
  <2>2. n + 1 \in Nat OBVIOUS
  <2> HIDE DEF Least
  <2> QED BY <2>1, <2>2
<1>3. P = Nat
  <2>1. P \in SUBSET Nat OBVIOUS
  <2> HIDE DEF P
  <2> QED BY <1>1, <1>2, <2>1, SetInduction
<1>4. Cardinality(ws) \in Nat /\ Cardinality(ws) # 0 BY FS_CardinalityType, FS_EmptySet
<1>5. Cardinality(ws) - 1 \in P /\ (Cardinality(ws) - 1) + 1 = Cardinality(ws)
  <2>1. Cardinality(ws) - 1 \in Nat /\ (Cardinality(ws) - 1) + 1 = Cardinality(ws) BY <1>4
  <2> HIDE DEF P
  <2> QED BY <1>3, <2>1
<1>6. Least(ws)
  <2> HIDE DEF Least
  <2> QED BY <1>5
<1> QED BY <1>6

\* The word that stands for others is one of them, and none is shorter.
LEMMA ShortestWord ==
  ASSUME NEW ws \in SUBSET Words, IsFiniteSet(ws), ws # {}
  PROVE  /\ Feat!shortestWord(ws) \in ws
         /\ \A v \in ws : Size[Feat!shortestWord(ws)] <= Size[v]
<1> DEFINE x == Feat!shortestWord(ws)
<1>1. x \in ws /\ \A v \in ws \ {x} : Size[x] < Size[v] \/ (Size[x] = Size[v] /\ Less[x][v])
  BY ShortestExists DEF Shorter, Feat!shortestWord
<1>2. \A w \in Words : Size[w] \in Nat BY WordsAssumption
<1> HIDE DEF x
<1> QED BY <1>1, <1>2 DEF x

\* Every word that is no stop word is counted once, under the shortest word
\* of its stem (StemmedBag).
LEMMA WordsAreCountedAll ==
  ASSUME NEW words \in Seq(Words)
  PROVE  Feat!WordsAreCounted(words, Feat!StemmedBag(words))
<1> DEFINE D == DOMAIN words
           W == ToSet(words) \ StopWords
           bag == Feat!BagOfWords(words)
           s == Feat!Stems(bag)
           said == {i \in D : words[i] \notin StopWords}
           counts == Feat!StemmedBag(words)
           Class(w) == {v \in W : Stem[v] = Stem[w]}
<1>1. IsFiniteSet(D) /\ \A i \in D : words[i] \in Words
  <2>1. D = 1..Len(words) /\ Len(words) \in Nat OBVIOUS
  <2> QED BY <2>1, FS_Interval
<1>2. IsFiniteSet(said) BY <1>1, FS_Subset
<1>3. W = {words[i] : i \in said} /\ W \subseteq Words /\ \A i \in said : words[i] \in W BY <1>1 DEF ToSet
<1>4. IsFiniteSet(W)
  <2> DEFINE f == [i \in said |-> words[i]]
  <2>1. f \in Surjection(said, W) BY <1>3 DEF Surjection
  <2> QED BY <1>2, <2>1, FS_Surjection
<1>t. Feat!ToSet(words) = ToSet(words) BY SameFlatten
<1>5. bag = [w \in W |-> Cardinality({i \in D : words[i] = w})]
  <2> DEFINE Places(w) == {i \in DOMAIN words : words[i] = w}
  <2>1. bag = [w \in Feat!ToSet(words) \ StopWords |-> Feat!Cardinality(Places(w))] BY DEF Feat!BagOfWords
  <2> HIDE DEF Places, bag
  <2>2. \A w : Feat!Cardinality(Places(w)) = Cardinality(Places(w)) BY SameCardinality
  <2>3. bag = [w \in W |-> Cardinality(Places(w))] BY <1>t, <2>1, <2>2
  <2> QED BY <2>3 DEF Places
<1>6. \A w \in W : bag[w] = Cardinality(Labeled(said, words, {w}))
  <2>1. \A w \in W : {i \in D : words[i] = w} = Labeled(said, words, {w}) BY DEF Labeled
  <2> HIDE DEF W, D, said, bag
  <2> QED BY <1>5, <2>1
<1>7. DOMAIN bag = W BY <1>5
<1>8. s = [w \in W |-> Feat!shortestWord(Class(w))] BY <1>7 DEF Feat!Stems
<1>9. counts = [t \in {s[w] : w \in W} |-> Feat!Occurrences(bag, {w \in W : s[w] = t})] BY <1>7 DEF Feat!StemmedBag
<1> HIDE DEF D, W, bag, s, said, counts
<1>10. ASSUME NEW w \in W
       PROVE  s[w] \in W /\ Stem[s[w]] = Stem[w] /\ \A v \in Class(w) : Size[s[w]] <= Size[v]
  <2>1. Class(w) \in SUBSET Words /\ Class(w) # {} /\ Class(w) \subseteq W BY <1>3
  <2>2. IsFiniteSet(Class(w)) BY <1>4, <2>1, FS_Subset
  <2> DEFINE x == Feat!shortestWord(Class(w))
  <2>3. x \in Class(w) /\ \A v \in Class(w) : Size[x] <= Size[v]
    <3> DEFINE C == Class(w)
    <3> HIDE DEF C
    <3>1. C \in SUBSET Words /\ C # {} /\ IsFiniteSet(C) BY <2>1, <2>2 DEF C
    <3>2. Feat!shortestWord(C) \in C /\ \A v \in C : Size[Feat!shortestWord(C)] <= Size[v] BY <3>1, ShortestWord
    <3> QED BY <3>2 DEF C
  <2>4. s[w] = x BY <1>8
  <2> HIDE DEF x
  <2> QED BY <2>3, <2>4
<1>11. ASSUME NEW w \in W, NEW v \in W, Stem[v] = Stem[w] PROVE s[v] = s[w]
  <2>1. Class(v) = Class(w) BY <1>11
  <2>2. s[v] = Feat!shortestWord(Class(v)) /\ s[w] = Feat!shortestWord(Class(w)) BY <1>8
  <2> HIDE DEF Class
  <2> QED BY <2>1, <2>2
<1> DEFINE T == {s[w] : w \in W}
<1>12. T \subseteq W /\ IsFiniteSet(T)
  <2>1. T \subseteq W BY <1>10
  <2> QED BY <1>4, <2>1, FS_Subset
<1>13. ASSUME NEW t \in T PROVE counts[t] = Cardinality({i \in said : s[words[i]] = t})
  <2> DEFINE Of == {w \in W : s[w] = t}
  <2>1. IsFiniteSet(Of) BY <1>4, FS_Subset
  <2>2. \A w \in Of : bag[w] = Cardinality(Labeled(said, words, {w})) BY <1>6
  <2>3. counts[t] = Feat!Occurrences(bag, Of) BY <1>9
  <2>4. Labeled(said, words, Of) = {i \in said : s[words[i]] = t}
    <3>1. \A i \in said : words[i] \in W BY <1>3
    <3> QED BY <3>1 DEF Labeled
  <2> HIDE DEF Of
  <2>5. Feat!Occurrences(bag, Of) = Cardinality(Labeled(said, words, Of)) BY <1>2, <2>1, <2>2, SumCounts
  <2> QED BY <2>3, <2>4, <2>5
<1>14. Feat!Occurrences(counts, T) = Cardinality(said)
  <2> DEFINE lab == [i \in said |-> s[words[i]]]
  <2>1. \A t \in T : counts[t] = Cardinality(Labeled(said, lab, {t}))
    <3>1. \A t \in T : Labeled(said, lab, {t}) = {i \in said : s[words[i]] = t} BY DEF Labeled
    <3> HIDE DEF lab, T
    <3> QED BY <1>13, <3>1
  <2>2. Labeled(said, lab, T) = said
    <3>1. \A i \in said : words[i] \in W BY <1>3
    <3>2. \A i \in said : lab[i] \in T BY <3>1
    <3> HIDE DEF lab, T
    <3> QED BY <3>2 DEF Labeled
  <2> HIDE DEF lab, T
  <2>3. Feat!Occurrences(counts, T) = Cardinality(Labeled(said, lab, T)) BY <1>2, <1>12, <2>1, SumCounts
  <2> QED BY <2>2, <2>3
<1>15. DOMAIN counts = T BY <1>9
<1>16. ASSUME NEW t \in T
       PROVE  /\ counts[t] = Cardinality({i \in said : Stem[words[i]] = Stem[t]})
              /\ \A i \in said : Stem[words[i]] = Stem[t] => Size[t] <= Size[words[i]]
  <2>1. PICK w \in W : t = s[w] OBVIOUS
  <2>2. Stem[t] = Stem[w] /\ t \in W BY <1>10, <2>1
  <2>3. ASSUME NEW i \in said PROVE s[words[i]] = t <=> Stem[words[i]] = Stem[t]
    <3>1. words[i] \in W BY <1>3
    <3>2. s[words[i]] = t => Stem[words[i]] = Stem[t] BY <1>10, <3>1
    <3>3. Stem[words[i]] = Stem[t] => s[words[i]] = t BY <1>11, <2>1, <2>2, <3>1
    <3> QED BY <3>2, <3>3
  <2>4. {i \in said : s[words[i]] = t} = {i \in said : Stem[words[i]] = Stem[t]} BY <2>3
  <2>5. \A i \in said : Stem[words[i]] = Stem[t] => Size[t] <= Size[words[i]]
    <3>1. ASSUME NEW i \in said, Stem[words[i]] = Stem[t] PROVE Size[t] <= Size[words[i]]
      <4>1. words[i] \in Class(w) BY <1>3, <2>2, <3>1
      <4> HIDE DEF Class
      <4> QED BY <1>10, <2>1, <4>1
    <3> QED BY <3>1
  <2> QED BY <1>13, <2>4, <2>5
<1>17. Feat!Occurrences(counts, DOMAIN counts) = Cardinality(said) BY <1>14, <1>15
<1>18. said = {i \in DOMAIN words : words[i] \notin StopWords} BY DEF said, D
<1> DEFINE Said(z) == /\ Feat!Occurrences(counts, DOMAIN counts) = Cardinality(z)
                      /\ \A w \in DOMAIN counts :
                           /\ counts[w] = Cardinality({i \in z : Stem[words[i]] = Stem[w]})
                           /\ \A i \in z : Stem[words[i]] = Stem[w] => Size[w] <= Size[words[i]]
<1>19. Said(said)
  <2> HIDE DEF T
  <2> QED BY <1>15, <1>16, <1>17
<1>20. Said({i \in DOMAIN words : words[i] \notin StopWords}) BY <1>18, <1>19
<1>21. \A S : Feat!Cardinality(S) = Cardinality(S) BY SameCardinality
<1> QED BY <1>20, <1>21 DEF Feat!WordsAreCounted, counts
-----------------------------------------------------------------------------
(* Links, headers, signatures and hops (Features). *)
\* A value of a header.
Value == [v : Str, dec : BOOLEAN, ok : BOOLEAN]

\* f says which URLs there are after each text URL.
TextSteps(f, urls, texts, N) ==
  f[0] = urls /\ \A i \in 0..N - 1 : f[i + 1] = IF texts[i + 1].ok THEN <<texts[i + 1].v>> ELSE f[i]

\* The function of TextURLs exists: it does up to any number.
LEMMA TextURLsAre ==
  ASSUME NEW urls, NEW texts, NEW N \in Nat, Len(texts) = N
  PROVE  \E f : Feat!TextURLs(urls, texts) = f[N] /\ TextSteps(f, urls, texts, N)
<1> DEFINE Def(g, i) == IF i = 0 THEN urls ELSE IF texts[i].ok THEN <<texts[i].v>> ELSE g[i - 1]
           P == {n \in Nat : \E g : g = [i \in 0..n |-> Def(g, i)]}
<1>1. 0 \in P
  <2> DEFINE h == [i \in 0..0 |-> urls]
  <2>1. h = [i \in 0..0 |-> Def(h, i)] OBVIOUS
  <2> HIDE DEF Def, h
  <2> QED BY <2>1
<1>2. ASSUME NEW n \in P PROVE n + 1 \in P
  <2>1. PICK g : g = [i \in 0..n |-> Def(g, i)] OBVIOUS
  <2> DEFINE h == [i \in 0..n + 1 |-> Def(g, i)]
  <2>2. \A i \in 0..n : h[i] = g[i]
    <3> HIDE DEF Def
    <3> QED BY <2>1
  <2>3. ASSUME NEW i \in 0..n + 1 PROVE Def(h, i) = Def(g, i)
    <3>1. CASE i = 0 BY <3>1
    <3>2. CASE i # 0
      <4>1. i - 1 \in 0..n BY <3>2
      <4>2. h[i - 1] = g[i - 1] BY <2>2, <4>1
      <4> HIDE DEF h
      <4> QED BY <4>2
    <3> QED BY <3>1, <3>2
  <2>4. h = [i \in 0..n + 1 |-> Def(h, i)]
    <3>1. h = [i \in 0..n + 1 |-> Def(g, i)] OBVIOUS
    <3> HIDE DEF h, Def
    <3> QED BY <2>3, <3>1
  <2>5. \E x : x = [i \in 0..n + 1 |-> Def(x, i)]
    <3> HIDE DEF h, Def
    <3> QED BY <2>4, Zenon
  <2>6. n + 1 \in Nat OBVIOUS
  <2> HIDE DEF Def
  <2> QED BY <2>5, <2>6
<1>3. P = Nat
  <2>1. P \in SUBSET Nat OBVIOUS
  <2> HIDE DEF P
  <2> QED BY <1>1, <1>2, <2>1, SetInduction
<1> DEFINE f[i \in 0..Len(texts)] == Def(f, i)
<1>4. f = CHOOSE g : g = [i \in 0..Len(texts) |-> Def(g, i)] BY DEF f
<1>5. Feat!TextURLs(urls, texts) = f[Len(texts)] BY DEF Feat!TextURLs
<1> HIDE DEF f
<1>6. \A i \in 0..N : f[i] = Def(f, i)
  <2>1. \E g : g = [i \in 0..N |-> Def(g, i)] BY <1>3
  <2> HIDE DEF Def
  <2>2. f = [i \in 0..N |-> Def(f, i)] BY <1>4, <2>1
  <2> QED BY <2>2
<1>7. f[0] = urls
  <2>1. 0 \in 0..N OBVIOUS
  <2>2. f[0] = Def(f, 0) BY <1>6, <2>1
  <2> QED BY <2>2
<1>8. ASSUME NEW i \in 0..N - 1 PROVE f[i + 1] = IF texts[i + 1].ok THEN <<texts[i + 1].v>> ELSE f[i]
  <2>1. i + 1 \in 0..N /\ i + 1 # 0 /\ (i + 1) - 1 = i OBVIOUS
  <2>2. f[i + 1] = IF texts[i + 1].ok THEN <<texts[i + 1].v>> ELSE f[(i + 1) - 1] BY <1>6, <2>1
  <2> QED BY <2>1, <2>2
<1> QED BY <1>5, <1>7, <1>8 DEF TextSteps

\* Of the URLs of the text the last that is one is left, and then no link.
LEMMA LinksAccountedAll ==
  ASSUME NEW m, m.links \in Seq(Str), m.texts \in Seq([v : Str, ok : BOOLEAN])
  PROVE  Feat!LinksAccounted(m, Feat!URLs(m))
<1> DEFINE ts == m.texts
           N == Len(ts)
           good == {i \in DOMAIN ts : ts[i].ok}
           urls == Feat!TextURLs(m.links, ts)
<1>1. N \in Nat /\ DOMAIN ts = 1..N OBVIOUS
<1>2. PICK f : /\ urls = f[N] /\ f[0] = m.links
               /\ \A i \in 0..N - 1 : f[i + 1] = IF ts[i + 1].ok THEN <<ts[i + 1].v>> ELSE f[i]
  <2> DEFINE links == m.links
  <2>1. Len(ts) = N /\ N \in Nat BY <1>1
  <2> HIDE DEF N, ts, links
  <2>2. \E f : Feat!TextURLs(links, ts) = f[N] /\ TextSteps(f, links, ts, N) BY <2>1, TextURLsAre
  <2> QED BY <2>2 DEF links, TextSteps
<1> DEFINE Upto(n) == \/ f[n] = m.links /\ \A i \in 1..n : ~ts[i].ok
                      \/ \E k \in 1..n : ts[k].ok /\ f[n] = <<ts[k].v>> /\ \A i \in k + 1..n : ~ts[i].ok
           P == {n \in Nat : n <= N => Upto(n)}
<1>3. 0 \in P BY <1>2
<1>4. ASSUME NEW n \in P PROVE n + 1 \in P
  <2>0. n \in Nat /\ n + 1 \in Nat OBVIOUS
  <2>1. ASSUME n + 1 <= N PROVE Upto(n + 1)
    <3>1. n <= N /\ n \in 0..N - 1 BY <1>1, <2>0, <2>1
    <3>2. Upto(n) BY <3>1
    <3>3. f[n + 1] = IF ts[n + 1].ok THEN <<ts[n + 1].v>> ELSE f[n] BY <1>2, <3>1
    <3>4. CASE ts[n + 1].ok
      <4>1. n + 1 \in 1..n + 1 /\ (n + 1) + 1..n + 1 = {} BY <2>0
      <4> QED BY <3>3, <3>4, <4>1
    <3>5. CASE ~ts[n + 1].ok
      <4>1. f[n + 1] = f[n] BY <3>3, <3>5
      <4>2. CASE f[n] = m.links /\ \A i \in 1..n : ~ts[i].ok
        <5>1. \A i \in 1..n + 1 : i = n + 1 \/ i \in 1..n BY <2>0
        <5> QED BY <3>5, <4>1, <4>2, <5>1
      <4>3. CASE \E k \in 1..n : ts[k].ok /\ f[n] = <<ts[k].v>> /\ \A i \in k + 1..n : ~ts[i].ok
        <5>1. PICK k \in 1..n : ts[k].ok /\ f[n] = <<ts[k].v>> /\ \A i \in k + 1..n : ~ts[i].ok BY <4>3
        <5>2. k \in 1..n + 1 /\ \A i \in k + 1..n + 1 : i = n + 1 \/ i \in k + 1..n BY <2>0
        <5> QED BY <3>5, <4>1, <5>1, <5>2
      <4> QED BY <3>2, <4>2, <4>3
    <3> QED BY <3>4, <3>5
  <2> HIDE DEF Upto
  <2> QED BY <2>0, <2>1
<1>5. P = Nat
  <2>1. P \in SUBSET Nat OBVIOUS
  <2> HIDE DEF P
  <2> QED BY <1>3, <1>4, <2>1, SetInduction
<1>6. Upto(N)
  <2>1. N \in P BY <1>1, <1>5
  <2>2. N <= N BY <1>1
  <2> HIDE DEF Upto, N
  <2> QED BY <2>1, <2>2
<1>7. Feat!URLs(m) = ToSet(urls) BY SameFlatten DEF Feat!URLs
<1>8. CASE good = {}
  <2>1. \A k \in 1..N : ~ts[k].ok BY <1>1, <1>8
  <2>2. f[N] = m.links BY <1>6, <2>1
  <2> QED BY <1>2, <1>7, <1>8, <2>2, SameFlatten DEF Feat!LinksAccounted
<1>9. CASE good # {}
  <2>1. PICK j \in 1..N : ts[j].ok BY <1>1, <1>9
  <2>2. PICK k \in 1..N : ts[k].ok /\ f[N] = <<ts[k].v>> /\ \A i \in k + 1..N : ~ts[i].ok BY <1>6, <2>1
  <2>3. k \in good /\ \A i \in good : k >= i
    <3>1. ASSUME NEW i \in good PROVE k >= i
      <4>1. i \in 1..N /\ i \notin k + 1..N BY <1>1, <2>2
      <4> QED BY <1>1, <4>1
    <3> QED BY <1>1, <2>2, <3>1
  <2>4. \A i \in good : i \in Nat BY <1>1
  <2>5. \A x \in good : (\A y \in good : x >= y) => x = k BY <2>3, <2>4
  <2>6. Feat!Max(good) = k BY <2>3, <2>5 DEF Feat!Max
  <2>7. ToSet(urls) = {ts[k].v} BY <1>2, <2>2 DEF ToSet
  <2> HIDE DEF urls
  <2> QED BY <1>7, <1>9, <2>6, <2>7 DEF Feat!LinksAccounted
<1> QED BY <1>8, <1>9

\* What is said of the headers is in them, and what is not said is known.
LEMMA HeadersAccountedAll ==
  ASSUME NEW m, \A f \in DOMAIN m.headers : m.headers[f] \in Seq(Value)
  PROVE  Feat!HeadersAccounted(m, Feat!Features(m))
<1> DEFINE h == Feat!Decoded(m)
           o == Feat!FromHeaders(h)
<1>1. ASSUME NEW f \in DOMAIN h PROVE h[f] \in Seq(Value)
  <2> DEFINE hs == m.headers[f]
             ss == [i \in DOMAIN hs |-> IF hs[i].dec THEN <<hs[i]>> ELSE <<>>]
  <2>1. f \in DOMAIN m.headers /\ h[f] = FlattenSeq(ss) BY SameFlatten DEF Feat!Decoded
  <2>2. hs \in Seq(Value) BY <2>1
  <2>3. ss \in Seq(Seq(Value))
    <3>1. DOMAIN hs = 1..Len(hs) /\ Len(hs) \in Nat /\ \A i \in DOMAIN hs : hs[i] \in Value BY <2>2
    <3>2. \A i \in DOMAIN hs : (IF hs[i].dec THEN <<hs[i]>> ELSE <<>>) \in Seq(Value) BY <3>1
    <3> HIDE DEF hs
    <3> QED BY <3>1, <3>2
  <2> HIDE DEF ss
  <2> QED BY <2>1, <2>3, FlattenType
<1>2. Feat!Features(m).of = o BY DEF Feat!Features
<1> HIDE DEF h
<1> DEFINE has(f) == f \in DOMAIN h /\ h[f] # <<>>
           gone == {f \in Feat!Parsed : has(f) /\ (f = "to" => h[f][1].ok)}
<1>3. SUFFICES ASSUME NEW f \in DOMAIN h, NEW i \in DOMAIN h[f]
               PROVE  \/ f \in DOMAIN o.headers /\ h[f][i] \in ToSet(o.headers[f])
                      \/ f \in Feat!Parsed /\ h[f][i] \in o[f]
                      \/ f \in Feat!Parsed \ {"received"} /\ (i > 1 \/ (f = "date" /\ ~h[f][i].ok))
  BY <1>2, SameFlatten DEF Feat!HeadersAccounted, h
<1>4. o.headers = [g \in DOMAIN h \ gone |-> h[g]] BY DEF Feat!FromHeaders
<1>5. CASE f \notin gone BY <1>4, <1>5 DEF ToSet
<1>6. CASE f \in gone
  <2>1. f \in {"date", "from", "to", "subject", "received"} BY <1>6 DEF Feat!Parsed
  <2>2. h[f] # <<>> /\ (f = "to" => h[f][1].ok) BY <1>6
  <2>3. i \in Nat /\ i >= 1 /\ h[f][i] \in ToSet(h[f])
    <3>1. DOMAIN h[f] = 1..Len(h[f]) /\ Len(h[f]) \in Nat BY <1>1
    <3> QED BY <3>1 DEF ToSet
  <2>4. CASE f = "received"
    <3>1. o.received = ToSet(h["received"]) BY <2>2, <2>4, SameFlatten DEF Feat!FromHeaders
    <3> QED BY <2>1, <2>3, <2>4, <3>1 DEF Feat!Parsed
  <2>5. CASE i > 1 /\ f # "received" BY <2>1, <2>5 DEF Feat!Parsed
  <2>6. CASE i = 1 /\ f = "date"
    <3>1. o.date = {x \in {h["date"][1]} : x.ok} BY <2>2, <2>6 DEF Feat!FromHeaders
    <3> QED BY <2>6, <3>1 DEF Feat!Parsed
  <2>7. CASE i = 1 /\ f = "from"
    <3>1. o.from = {h["from"][1]} BY <2>2, <2>7 DEF Feat!FromHeaders
    <3> QED BY <2>7, <3>1 DEF Feat!Parsed
  <2>8. CASE i = 1 /\ f = "to"
    <3>1. o.to = {x \in {h["to"][1]} : x.ok} BY <2>2, <2>8 DEF Feat!FromHeaders
    <3> QED BY <2>2, <2>8, <3>1 DEF Feat!Parsed
  <2>9. CASE i = 1 /\ f = "subject"
    <3>1. o.subject = {h["subject"][1]} BY <2>2, <2>9 DEF Feat!FromHeaders
    <3> QED BY <2>9, <3>1 DEF Feat!Parsed
  <2> QED BY <2>1, <2>3, <2>4, <2>5, <2>6, <2>7, <2>8, <2>9
<1> QED BY <1>5, <1>6

\* One bad signature hides the good ones, and none is said good that is not.
LEMMA SignaturesAccountedAll ==
  ASSUME NEW m
  PROVE  Feat!SignaturesAccounted(m, Feat!DKIM(m))
BY DEF Feat!SignaturesAccounted, Feat!DKIM

\* A Received header kills the process only with GeoIP on and of a public
\* address; the address in the name goes before the bracketed one.
LEMMA ReceivedIsReadAll ==
  ASSUME NEW r, NEW geoip \in BOOLEAN
  PROVE  Feat!ReceivedIsRead(r, geoip, Feat!ParseReceivedHeader(r, geoip))
BY DEF Feat!ReceivedIsRead, Feat!ParseReceivedHeader
-----------------------------------------------------------------------------
(* Names (Features). *)
\* Addresses, and names with addresses in them.
AddressType == [v : Str, domain : Str]
NameType    == [addrs : Seq(AddressType), letters : Nat, marks : Nat]

\* The addresses in a name that have a domain.
Valid(addrs) == FlattenSeq([i \in DOMAIN addrs |-> IF addrs[i].domain # "" THEN <<addrs[i]>> ELSE <<>>])

\* They are addresses of the name.
LEMMA ValidFacts ==
  ASSUME NEW addrs \in Seq(AddressType)
  PROVE  /\ Valid(addrs) \in Seq(AddressType)
         /\ \A x \in ToSet(Valid(addrs)) : x.domain # "" /\ \E i \in DOMAIN addrs : addrs[i] = x
<1> DEFINE ss == [i \in DOMAIN addrs |-> IF addrs[i].domain # "" THEN <<addrs[i]>> ELSE <<>>]
<1>1. Valid(addrs) = FlattenSeq(ss) BY DEF Valid
<1>2. ss = [i \in DOMAIN addrs |-> ss[i]] OBVIOUS
<1>3. \A i \in DOMAIN addrs : ss[i] = <<>> \/ ss[i] = <<addrs[i]>> OBVIOUS
<1>4. \A i \in DOMAIN addrs : ss[i] # <<>> => addrs[i].domain # "" OBVIOUS
<1> HIDE DEF ss
<1>5. FlattenSeq(ss) \in Seq(AddressType) BY <1>2, <1>3, FilterFacts
<1>6. ToSet(FlattenSeq(ss)) = {addrs[i] : i \in {j \in DOMAIN addrs : ss[j] # <<>>}} BY <1>2, <1>3, FilterFacts
<1>7. ASSUME NEW x \in ToSet(Valid(addrs)) PROVE x.domain # "" /\ \E i \in DOMAIN addrs : addrs[i] = x
  <2>1. PICK i \in DOMAIN addrs : ss[i] # <<>> /\ x = addrs[i] BY <1>1, <1>6
  <2> QED BY <1>4, <2>1
<1> QED BY <1>1, <1>5, <1>7

\* What is said of a name, by the addresses that are left in it.
Said(valid, addr) ==
  IF Len(valid) = 0 THEN <<FALSE, FALSE, FALSE, FALSE>>
  ELSE IF Len(valid) > 1 THEN <<TRUE, TRUE, FALSE, FALSE>>
  ELSE <<TRUE, FALSE, valid[1].v # addr.v, valid[1].domain # addr.domain>>

\* nameContainsAddress, by those addresses.
LEMMA NameIsRead ==
  ASSUME NEW name \in NameType, NEW addr
  PROVE  Feat!nameContainsAddress(name, addr) =
           IF addr.domain = "" \/ name.addrs = <<>> \/ name.letters + name.marks > 5 - name.marks
           THEN <<FALSE, FALSE, FALSE, FALSE>> ELSE Said(Valid(name.addrs), addr)
<1> DEFINE x == Valid(name.addrs)
<1>1. x = Feat!FlattenSeq([i \in DOMAIN name.addrs |->
            IF name.addrs[i].domain # "" THEN <<name.addrs[i]>> ELSE <<>>])
  BY SameFlatten DEF Valid
<1>2. Len(x) \in Nat
  <2>1. name.addrs \in Seq(AddressType) BY DEF NameType
  <2>2. x \in Seq(AddressType) BY <2>1, ValidFacts
  <2> HIDE DEF x
  <2> QED BY <2>2
<1> HIDE DEF x
<1>3. ~(Len(x) = 0 /\ Len(x) > 1) BY <1>2
<1> QED BY <1>1, <1>3 DEF Feat!nameContainsAddress, Said, x

\* A name that holds another address than that of the mail is seen; it needs
\* that an address has one domain (NamesAssumption).
LEMMA SpoofingIsSeenAll ==
  ASSUME NEW name \in NameType, NEW addr \in AddressType,
         \A i \in DOMAIN name.addrs : name.addrs[i].v = addr.v => name.addrs[i].domain = addr.domain
  PROVE  Feat!SpoofingIsSeen(name, addr)
<1> DEFINE r == Feat!nameContainsAddress(name, addr)
           bare == [name EXCEPT !.letters = 0, !.marks = 0]
           one == [bare EXCEPT !.marks = 2]
           x == Valid(name.addrs)
           no == <<FALSE, FALSE, FALSE, FALSE>>
           none == addr.domain = "" \/ name.addrs = <<>>
           long == name.letters + name.marks > 5 - name.marks
<1>1. r = IF none \/ long THEN no ELSE Said(x, addr) BY NameIsRead
<1>2. /\ bare \in NameType /\ bare.addrs = name.addrs /\ bare.letters = 0 /\ bare.marks = 0
      /\ one \in NameType /\ one.addrs = name.addrs /\ one.letters = 0 /\ one.marks = 2
  BY DEF NameType
<1>3. Feat!nameContainsAddress(bare, addr) = IF none THEN no ELSE Said(x, addr)
  <2> HIDE DEF bare, one
  <2>1. ~(bare.letters + bare.marks > 5 - bare.marks) BY <1>2
  <2> QED BY <1>2, <2>1, NameIsRead
<1>4. Feat!nameContainsAddress(one, addr) = IF none THEN no ELSE Said(x, addr)
  <2> HIDE DEF bare, one
  <2>1. ~(one.letters + one.marks > 5 - one.marks) BY <1>2
  <2> QED BY <1>2, <2>1, NameIsRead
<1>5. name.addrs \in Seq(AddressType) BY DEF NameType
<1>x. x \in Seq(AddressType) BY <1>5, ValidFacts
<1>l. Len(x) \in Nat /\ DOMAIN x = 1..Len(x)
  <2> HIDE DEF x
  <2> QED BY <1>x
<1>6. \A y \in ToSet(x) : y.domain # "" /\ \E i \in DOMAIN name.addrs : name.addrs[i] = y
  BY <1>5, ValidFacts
<1> HIDE DEF r, bare, one, x, none, long
<1>e. /\ (r[4] => r[1] /\ r[3] /\ \E i \in DOMAIN name.addrs : name.addrs[i].domain \notin {"", addr.domain})
      /\ (r[1] /\ ~r[2] /\ ~r[3] => \E i \in DOMAIN name.addrs : name.addrs[i].v = addr.v)
      /\ (r[1] => Feat!nameContainsAddress(bare, addr) = r)
      => Feat!SpoofingIsSeen(name, addr)
  BY <1>3, <1>4 DEF Feat!SpoofingIsSeen, r, bare, one
<1>7. CASE none \/ long
  <2>1. r = no BY <1>1, <1>7
  <2>2. ~r[1] /\ ~r[4] BY <2>1
  <2> QED BY <1>e, <2>2
<1>8. CASE ~(none \/ long)
  <2>1. r = Said(x, addr) BY <1>1, <1>8
  <2>2. Feat!nameContainsAddress(bare, addr) = r BY <1>3, <1>8, <2>1
  <2>3. Len(x) \in Nat BY <1>l
  <2>4. CASE Len(x) = 0
    <3>1. r = no BY <2>1, <2>4 DEF Said
    <3>2. ~r[1] /\ ~r[4] BY <3>1
    <3> QED BY <1>e, <3>2
  <2>5. CASE Len(x) > 1
    <3>0. Len(x) # 0 BY <2>3, <2>5
    <3>1. r = <<TRUE, TRUE, FALSE, FALSE>> BY <2>1, <2>5, <3>0 DEF Said
    <3>2. r[2] /\ ~r[4] BY <3>1
    <3> QED BY <1>e, <2>2, <3>2
  <2>6. CASE Len(x) = 1
    <3>1. r = <<TRUE, FALSE, x[1].v # addr.v, x[1].domain # addr.domain>> BY <2>1, <2>6 DEF Said
    <3>2. r[1] /\ (r[3] <=> x[1].v # addr.v) /\ (r[4] <=> x[1].domain # addr.domain) BY <3>1
    <3>3. x[1] \in ToSet(x) BY <1>l, <2>6 DEF ToSet
    <3>4. PICK i \in DOMAIN name.addrs : name.addrs[i] = x[1] BY <1>6, <3>3
    <3>5. x[1].domain # "" BY <1>6, <3>3
    <3>6. r[4] => r[3] BY <3>2, <3>4
    <3> QED BY <1>e, <2>2, <3>2, <3>4, <3>5, <3>6
  <2>7. Len(x) = 0 \/ Len(x) > 1 \/ Len(x) = 1
    <3> DEFINE n == Len(x)
    <3> HIDE DEF n
    <3>1. n \in Nat BY <2>3 DEF n
    <3>2. n = 0 \/ n > 1 \/ n = 1 BY <3>1
    <3> QED BY <3>2 DEF n
  <2> QED BY <2>4, <2>5, <2>6, <2>7
<1> QED BY <1>7, <1>8
-----------------------------------------------------------------------------
(* Files in files (Attachments). *)
\* The files with others in them that are in inner.
FilesOf(inner) ==
  [type : Att!Types, ok : BOOLEAN, sub : Seq(inner)] \cup [type : Att!Compressed, ok : BOOLEAN, sub : [1..1 -> inner]]

\* What a file of depth n can hold.
InnerFiles(n) == IF n = 0 THEN {} ELSE Att!FilesTo[n - 1]

\* FilesTo, level by level: the recursive function exists.
LEMMA FilesToIs ==
  \A n \in 0..Depth : Att!FilesTo[n] = FilesOf(InnerFiles(n))
<1> DEFINE Def(g, i) == FilesOf(IF i = 0 THEN {} ELSE g[i - 1])
           P == {n \in Nat : \E g : g = [i \in 0..n |-> Def(g, i)]}
<1>1. 0 \in P
  <2> DEFINE h == [i \in 0..0 |-> FilesOf({})]
  <2>1. h = [i \in 0..0 |-> Def(h, i)] OBVIOUS
  <2> HIDE DEF Def, h
  <2> QED BY <2>1
<1>2. ASSUME NEW n \in P PROVE n + 1 \in P
  <2>1. PICK g : g = [i \in 0..n |-> Def(g, i)] OBVIOUS
  <2> DEFINE h == [i \in 0..n + 1 |-> Def(g, i)]
  <2>2. \A i \in 0..n : h[i] = g[i]
    <3> HIDE DEF Def
    <3> QED BY <2>1
  <2>3. ASSUME NEW i \in 0..n + 1 PROVE Def(h, i) = Def(g, i)
    <3>1. CASE i = 0 BY <3>1
    <3>2. CASE i # 0
      <4>1. i - 1 \in 0..n BY <3>2
      <4>2. h[i - 1] = g[i - 1] BY <2>2, <4>1
      <4> HIDE DEF h
      <4> QED BY <4>2
    <3> QED BY <3>1, <3>2
  <2>4. h = [i \in 0..n + 1 |-> Def(h, i)]
    <3>1. h = [i \in 0..n + 1 |-> Def(g, i)] OBVIOUS
    <3> HIDE DEF h, Def
    <3> QED BY <2>3, <3>1
  <2>5. \E x : x = [i \in 0..n + 1 |-> Def(x, i)]
    <3> HIDE DEF h, Def
    <3> QED BY <2>4, Zenon
  <2>6. n + 1 \in Nat OBVIOUS
  <2> HIDE DEF Def
  <2> QED BY <2>5, <2>6
<1>3. P = Nat
  <2>1. P \in SUBSET Nat OBVIOUS
  <2> HIDE DEF P
  <2> QED BY <1>1, <1>2, <2>1, SetInduction
<1>4. \E g : g = [i \in 0..Depth |-> Def(g, i)] BY <1>3, DepthAssumption
<1> DEFINE f == Att!FilesTo
<1>5. f = CHOOSE g : g = [i \in 0..Depth |-> Def(g, i)] BY DEF Att!FilesTo, FilesOf
<1> HIDE DEF f
<1>6. \A i \in 0..Depth : f[i] = Def(f, i)
  <2> HIDE DEF Def
  <2>1. f = [i \in 0..Depth |-> Def(f, i)] BY <1>4, <1>5
  <2> QED BY <2>1
<1> QED BY <1>6 DEF f, InnerFiles

\* What a file holds lies less deep than it.
LEMMA FileFacts ==
  ASSUME NEW n \in 0..Depth, NEW f \in Att!FilesTo[n]
  PROVE  /\ f.type \in Att!Types \cup Att!Compressed /\ f.ok \in BOOLEAN
         /\ f.sub \in Seq(InnerFiles(n))
         /\ f.type \in Att!Compressed => DOMAIN f.sub = {1} /\ f.sub[1] \in InnerFiles(n)
<1> DEFINE inner == InnerFiles(n)
<1>1. f \in FilesOf(inner) BY FilesToIs
<1>2. Att!Types \cap Att!Compressed = {}
  BY DEF Att!Types, Att!Compressed, Att!Packed, Att!Documents, Att!Images
<1> HIDE DEF inner
<1>3. CASE f \in [type : Att!Types, ok : BOOLEAN, sub : Seq(inner)] BY <1>2, <1>3 DEF inner
<1>4. CASE f \in [type : Att!Compressed, ok : BOOLEAN, sub : [1..1 -> inner]]
  <2>1. f.type \in Att!Compressed /\ f.ok \in BOOLEAN /\ f.sub \in [1..1 -> inner] BY <1>4
  <2>2. f.sub \in Seq(inner)
    <3> DEFINE one == 1
               s == f.sub
    <3>1. s \in [1..one -> inner] /\ one \in Nat BY <2>1
    <3> HIDE DEF one, s
    <3>2. s \in Seq(inner) BY <3>1
    <3> QED BY <3>2 DEF s
  <2>3. DOMAIN f.sub = {1} /\ f.sub[1] \in inner BY <2>1
  <2> QED BY <2>1, <2>2, <2>3 DEF inner
<1> QED BY <1>1, <1>3, <1>4 DEF FilesOf

\* A file that lies less deep is one that lies deeper.
LEMMA FilesGrow ==
  \A n \in 0..Depth : InnerFiles(n) \subseteq Att!FilesTo[n]
<1> DEFINE P == {n \in Nat : n <= Depth => InnerFiles(n) \subseteq Att!FilesTo[n]}
<1>1. 0 \in P BY DEF InnerFiles
<1>2. ASSUME NEW n \in P PROVE n + 1 \in P
  <2>0. n \in Nat /\ n + 1 \in Nat /\ Depth \in Nat BY DepthAssumption
  <2>1. ASSUME n + 1 <= Depth PROVE InnerFiles(n + 1) \subseteq Att!FilesTo[n + 1]
    <3>1. n \in 0..Depth /\ n + 1 \in 0..Depth /\ n + 1 # 0 /\ (n + 1) - 1 = n BY <2>0, <2>1
    <3>2. InnerFiles(n) \subseteq Att!FilesTo[n] BY <2>0, <2>1
    <3>3. InnerFiles(n + 1) = Att!FilesTo[n] BY <3>1 DEF InnerFiles
    <3>4. Att!FilesTo[n] = FilesOf(InnerFiles(n)) /\ Att!FilesTo[n + 1] = FilesOf(Att!FilesTo[n])
      BY <3>1, <3>3, FilesToIs
    <3> DEFINE A == InnerFiles(n)
               B == Att!FilesTo[n]
    <3> HIDE DEF A, B
    <3>5. A \subseteq B BY <3>2 DEF A, B
    <3>6. FilesOf(A) \subseteq FilesOf(B)
      <4>1. Seq(A) \subseteq Seq(B) BY <3>5
      <4>2. [1..1 -> A] \subseteq [1..1 -> B] BY <3>5
      <4> DEFINE SA == Seq(A)
                 SB == Seq(B)
                 FA == [1..1 -> A]
                 FB == [1..1 -> B]
      <4> HIDE DEF SA, SB, FA, FB
      <4>3. [type : Att!Types, ok : BOOLEAN, sub : SA] \subseteq [type : Att!Types, ok : BOOLEAN, sub : SB]
        BY <4>1 DEF SA, SB
      <4>4. [type : Att!Compressed, ok : BOOLEAN, sub : FA] \subseteq [type : Att!Compressed, ok : BOOLEAN, sub : FB]
        BY <4>2 DEF FA, FB
      <4> QED BY <4>3, <4>4 DEF FilesOf, SA, SB, FA, FB
    <3> QED BY <3>3, <3>4, <3>6 DEF A, B
  <2> QED BY <2>0, <2>1
<1>3. P = Nat
  <2>1. P \in SUBSET Nat OBVIOUS
  <2> HIDE DEF P
  <2> QED BY <1>1, <1>2, <2>1, SetInduction
<1> QED BY <1>3
-----------------------------------------------------------------------------
(* The recursive functions on files, level by level. *)
\* What is left of a file when one compression is taken off lies no deeper.
LEMMA ReplacedIn ==
  ASSUME NEW n \in 0..Depth, NEW f \in Att!FilesTo[n]
  PROVE  Att!replaceCompressed(f) \in Att!FilesTo[n]
<1>1. CASE f.type \in Att!Compressed /\ f.ok
  <2>1. f.sub[1] \in InnerFiles(n) BY <1>1, FileFacts
  <2>2. f.sub[1] \in Att!FilesTo[n] BY <2>1, FilesGrow
  <2> QED BY <1>1, <2>2 DEF Att!replaceCompressed
<1>2. CASE ~(f.type \in Att!Compressed /\ f.ok) BY <1>2 DEF Att!replaceCompressed
<1> QED BY <1>1, <1>2

\* The files that can be read, among some.
LEMMA ReadableFacts ==
  ASSUME NEW S, NEW s \in Seq(S), \A x \in S : x.ok \in BOOLEAN
  PROVE  /\ Att!Readable(s) \in Seq(S)
         /\ ToSet(Att!Readable(s)) = {s[i] : i \in {j \in DOMAIN s : s[j].ok}}
         /\ Len(Att!Readable(s)) < Len(s) <=> \E i \in DOMAIN s : ~s[i].ok
<1> DEFINE ss == [i \in DOMAIN s |-> IF s[i].ok THEN <<s[i]>> ELSE <<>>]
<1>1. Att!Readable(s) = FlattenSeq(ss) BY SameFlatten DEF Att!Readable
<1>2. \A i \in DOMAIN s : ss[i] = IF s[i].ok THEN <<s[i]>> ELSE <<>> OBVIOUS
<1>3. ss = [i \in DOMAIN s |-> ss[i]] OBVIOUS
<1>4. \A i \in DOMAIN s : /\ (ss[i] # <<>>) = s[i].ok
                          /\ ss[i] = <<>> \/ ss[i] = <<s[i]>>
  <2>1. \A i \in DOMAIN s : s[i].ok \in BOOLEAN OBVIOUS
  <2>2. \A i \in DOMAIN s : <<s[i]>> # <<>> OBVIOUS
  <2> HIDE DEF ss
  <2> QED BY <1>2, <2>1, <2>2
<1> HIDE DEF ss
<1>5. /\ FlattenSeq(ss) \in Seq(S)
      /\ ToSet(FlattenSeq(ss)) = {s[i] : i \in {j \in DOMAIN s : ss[j] # <<>>}}
      /\ Len(FlattenSeq(ss)) < Len(s) <=> \E i \in DOMAIN s : ss[i] = <<>>
  BY <1>3, <1>4, FilterFacts
<1>6. {j \in DOMAIN s : ss[j] # <<>>} = {j \in DOMAIN s : s[j].ok} BY <1>4
<1>7. (\E i \in DOMAIN s : ss[i] = <<>>) <=> (\E i \in DOMAIN s : ~s[i].ok) BY <1>4
<1> QED BY <1>1, <1>5, <1>6, <1>7

\* AnalyzeArchive, given itself for the archives in the archive.
ArchiveOf(g, f) ==
  LET files   == Att!Readable(f.sub)
      entries == [i \in DOMAIN files |-> Att!analyzeEntry(g, files[i])]
  IN IF ~f.ok \/ (f.type # "zip" /\ Len(files) < Len(f.sub)) THEN Att!Failed
     ELSE [err |-> FALSE, type |-> f.type, files |-> entries,
           exe |-> \E i \in DOMAIN entries : entries[i].exe]

\* It asks only of the files in the archive.
LEMMA ArchiveSame ==
  ASSUME NEW n \in 0..Depth, NEW f \in Att!FilesTo[n], NEW g, NEW h,
         \A x \in InnerFiles(n) : g[x] = h[x]
  PROVE  ArchiveOf(g, f) = ArchiveOf(h, f)
<1> DEFINE files == Att!Readable(f.sub)
<1>1. files \in Seq(InnerFiles(n))
  <2>1. f.sub \in Seq(InnerFiles(n)) BY FileFacts
  <2>2. \A x \in InnerFiles(n) : x.ok \in BOOLEAN
    <3>1. ASSUME NEW x \in InnerFiles(n) PROVE x.ok \in BOOLEAN
      <4>1. x \in Att!FilesTo[n] BY FilesGrow
      <4> QED BY <4>1, FileFacts
    <3> QED BY <3>1
  <2> QED BY <2>1, <2>2, ReadableFacts
<1> HIDE DEF files
<1>2. ASSUME NEW i \in DOMAIN files PROVE Att!analyzeEntry(g, files[i]) = Att!analyzeEntry(h, files[i])
  <2>1. files[i] \in InnerFiles(n) BY <1>1
  <2>2. n # 0 /\ n - 1 \in 0..Depth /\ InnerFiles(n) = Att!FilesTo[n - 1] BY <2>1, DepthAssumption DEF InnerFiles
  <2>3. Att!replaceCompressed(files[i]) \in InnerFiles(n) BY <2>1, <2>2, ReplacedIn
  <2> QED BY <2>3 DEF Att!analyzeEntry
<1>3. [i \in DOMAIN files |-> Att!analyzeEntry(g, files[i])] = [i \in DOMAIN files |-> Att!analyzeEntry(h, files[i])]
  BY <1>2
<1> QED BY <1>3, Zenon DEF ArchiveOf, files

\* AnalyzeArchive is that function of itself, which exists level by level.
LEMMA ArchiveIs ==
  \A f \in Att!Files : Att!AnalyzeArchive[f] = ArchiveOf(Att!AnalyzeArchive, f)
<1> DEFINE P == {n \in Nat : n <= Depth => \E g : g = [f \in Att!FilesTo[n] |-> ArchiveOf(g, f)]}
<1>0. Depth \in Nat BY DepthAssumption
<1>1. 0 \in P
  <2> DEFINE g == 0
             h == [f \in Att!FilesTo[0] |-> ArchiveOf(g, f)]
  <2>1. \A f \in Att!FilesTo[0] : ArchiveOf(g, f) = ArchiveOf(h, f)
    <3>1. 0 \in 0..Depth /\ InnerFiles(0) = {} BY <1>0 DEF InnerFiles
    <3> HIDE DEF g, h
    <3> QED BY <3>1, ArchiveSame
  <2>2. h = [f \in Att!FilesTo[0] |-> ArchiveOf(h, f)]
    <3>1. h = [f \in Att!FilesTo[0] |-> ArchiveOf(g, f)] OBVIOUS
    <3> HIDE DEF g, h
    <3> QED BY <2>1, <3>1
  <2> HIDE DEF h
  <2> QED BY <2>2
<1>2. ASSUME NEW n \in P PROVE n + 1 \in P
  <2>0. n \in Nat /\ n + 1 \in Nat OBVIOUS
  <2>1. ASSUME n + 1 <= Depth PROVE \E g : g = [f \in Att!FilesTo[n + 1] |-> ArchiveOf(g, f)]
    <3>1. n \in 0..Depth /\ n + 1 \in 0..Depth /\ n <= Depth /\ n + 1 # 0 /\ (n + 1) - 1 = n BY <1>0, <2>0, <2>1
    <3>2. PICK g : g = [f \in Att!FilesTo[n] |-> ArchiveOf(g, f)] BY <3>1
    <3>3. InnerFiles(n + 1) = Att!FilesTo[n] BY <3>1 DEF InnerFiles
    <3>4. Att!FilesTo[n] \subseteq Att!FilesTo[n + 1] BY <3>1, <3>3, FilesGrow
    <3> DEFINE h == [f \in Att!FilesTo[n + 1] |-> ArchiveOf(g, f)]
    <3>5. \A f \in Att!FilesTo[n] : h[f] = g[f]
      <4>1. \A f \in Att!FilesTo[n] : g[f] = ArchiveOf(g, f) BY <3>2
      <4> QED BY <3>4, <4>1
    <3>6. \A f \in Att!FilesTo[n + 1] : ArchiveOf(g, f) = ArchiveOf(h, f)
      <4> HIDE DEF h
      <4>1. \A x \in InnerFiles(n + 1) : g[x] = h[x] BY <3>3, <3>5
      <4> QED BY <3>1, <4>1, ArchiveSame
    <3>7. h = [f \in Att!FilesTo[n + 1] |-> ArchiveOf(h, f)]
      <4>1. h = [f \in Att!FilesTo[n + 1] |-> ArchiveOf(g, f)] OBVIOUS
      <4> HIDE DEF h
      <4> QED BY <3>6, <4>1
    <3> HIDE DEF h
    <3> QED BY <3>7
  <2> QED BY <2>0, <2>1
<1>3. P = Nat
  <2>1. P \in SUBSET Nat OBVIOUS
  <2> HIDE DEF P
  <2> QED BY <1>1, <1>2, <2>1, SetInduction
<1>4. \E g : g = [f \in Att!Files |-> ArchiveOf(g, f)] BY <1>0, <1>3 DEF Att!Files
<1> DEFINE A == Att!AnalyzeArchive
<1>5. A = CHOOSE g : g = [f \in Att!Files |-> ArchiveOf(g, f)] BY DEF Att!AnalyzeArchive, ArchiveOf
<1> HIDE DEF A
<1>6. A = [f \in Att!Files |-> ArchiveOf(A, f)] BY <1>4, <1>5
<1>7. \A f \in Att!Files : A[f] = ArchiveOf(A, f)
  <2> DEFINE B(f) == ArchiveOf(A, f)
  <2> HIDE DEF B
  <2>1. A = [f \in Att!Files |-> B(f)] BY <1>6 DEF B
  <2>2. \A f \in Att!Files : A[f] = B(f) BY <2>1
  <2> QED BY <2>2 DEF B
<1> QED BY <1>7 DEF A

\* AnalyseAttachment, given itself for what a file is the compressed form of.
AnalysisOf(h, g, tool) ==
  LET inner == IF g.type \in Att!Compressed /\ g.ok THEN h[g.sub[1]] ELSE Att!Failed
      arch  == IF g.type \in Att!Packed THEN Att!AnalyzeArchive[g] ELSE Att!Failed
      panic == (g.type = "exe" \/ (g.type = "doc" /\ g.ok)) /\ ~tool
  IN [err |-> FALSE, type |-> g.type, meta |-> Att!Metadata(g, tool), archive |-> arch,
      sub |-> inner, exe |-> g.type = "exe" \/ (inner # Att!Failed /\ inner.exe),
      panic |-> panic \/ (inner # Att!Failed /\ inner.panic)]

\* It asks only of the file in the file.
LEMMA AnalysisSame ==
  ASSUME NEW n \in 0..Depth, NEW f \in Att!FilesTo[n], NEW tool, NEW g, NEW h,
         \A x \in InnerFiles(n) : g[x] = h[x]
  PROVE  AnalysisOf(g, f, tool) = AnalysisOf(h, f, tool)
<1>1. CASE f.type \in Att!Compressed /\ f.ok
  <2>1. f.sub[1] \in InnerFiles(n) BY <1>1, FileFacts
  <2>2. g[f.sub[1]] = h[f.sub[1]] BY <2>1
  <2> QED BY <1>1, <2>2, Zenon DEF AnalysisOf
<1>2. CASE ~(f.type \in Att!Compressed /\ f.ok) BY <1>2, Zenon DEF AnalysisOf
<1> QED BY <1>1, <1>2

\* AnalyseAttachment is that function of itself, at every depth.
LEMMA AnalysisIs ==
  ASSUME NEW tool
  PROVE  \A f \in Att!Files :
           /\ f.type \in Att!Compressed /\ f.ok => f.sub[1] \in Att!Files
           /\ \E h : /\ Att!AnalyseAttachment(f, tool) = AnalysisOf(h, f, tool)
                     /\ \A x \in Att!Files : h[x] = Att!AnalyseAttachment(x, tool)
<1> DEFINE P == {n \in Nat : n <= Depth => \E g : g = [f \in Att!FilesTo[n] |-> AnalysisOf(g, f, tool)]}
<1>0. Depth \in Nat BY DepthAssumption
<1>1. 0 \in P
  <2> DEFINE g == 0
             h == [f \in Att!FilesTo[0] |-> AnalysisOf(g, f, tool)]
  <2>1. \A f \in Att!FilesTo[0] : AnalysisOf(g, f, tool) = AnalysisOf(h, f, tool)
    <3>1. 0 \in 0..Depth /\ InnerFiles(0) = {} BY <1>0 DEF InnerFiles
    <3> HIDE DEF g, h
    <3> QED BY <3>1, AnalysisSame
  <2>2. h = [f \in Att!FilesTo[0] |-> AnalysisOf(h, f, tool)]
    <3>1. h = [f \in Att!FilesTo[0] |-> AnalysisOf(g, f, tool)] OBVIOUS
    <3> HIDE DEF g, h
    <3> QED BY <2>1, <3>1
  <2> HIDE DEF h
  <2> QED BY <2>2
<1>2. ASSUME NEW n \in P PROVE n + 1 \in P
  <2>0. n \in Nat /\ n + 1 \in Nat OBVIOUS
  <2>1. ASSUME n + 1 <= Depth PROVE \E g : g = [f \in Att!FilesTo[n + 1] |-> AnalysisOf(g, f, tool)]
    <3>1. n \in 0..Depth /\ n + 1 \in 0..Depth /\ n <= Depth /\ n + 1 # 0 /\ (n + 1) - 1 = n BY <1>0, <2>0, <2>1
    <3>2. PICK g : g = [f \in Att!FilesTo[n] |-> AnalysisOf(g, f, tool)] BY <3>1
    <3>3. InnerFiles(n + 1) = Att!FilesTo[n] BY <3>1 DEF InnerFiles
    <3>4. Att!FilesTo[n] \subseteq Att!FilesTo[n + 1] BY <3>1, <3>3, FilesGrow
    <3> DEFINE h == [f \in Att!FilesTo[n + 1] |-> AnalysisOf(g, f, tool)]
    <3>5. \A f \in Att!FilesTo[n] : h[f] = g[f]
      <4>1. \A f \in Att!FilesTo[n] : g[f] = AnalysisOf(g, f, tool) BY <3>2
      <4> QED BY <3>4, <4>1
    <3>6. \A f \in Att!FilesTo[n + 1] : AnalysisOf(g, f, tool) = AnalysisOf(h, f, tool)
      <4> HIDE DEF h
      <4>1. \A x \in InnerFiles(n + 1) : g[x] = h[x] BY <3>3, <3>5
      <4> QED BY <3>1, <4>1, AnalysisSame
    <3>7. h = [f \in Att!FilesTo[n + 1] |-> AnalysisOf(h, f, tool)]
      <4>1. h = [f \in Att!FilesTo[n + 1] |-> AnalysisOf(g, f, tool)] OBVIOUS
      <4> HIDE DEF h
      <4> QED BY <3>6, <4>1
    <3> HIDE DEF h
    <3> QED BY <3>7
  <2> QED BY <2>0, <2>1
<1>3. P = Nat
  <2>1. P \in SUBSET Nat OBVIOUS
  <2> HIDE DEF P
  <2> QED BY <1>1, <1>2, <2>1, SetInduction
<1>4. \E g : g = [f \in Att!Files |-> AnalysisOf(g, f, tool)] BY <1>0, <1>3 DEF Att!Files
<1> DEFINE A == CHOOSE g : g = [f \in Att!Files |-> AnalysisOf(g, f, tool)]
<1>5. \A f : Att!AnalyseAttachment(f, tool) = A[f] BY DEF Att!AnalyseAttachment, AnalysisOf
<1>6. A = [f \in Att!Files |-> AnalysisOf(A, f, tool)] BY <1>4
<1> HIDE DEF A
<1>7. \A f \in Att!Files : A[f] = AnalysisOf(A, f, tool)
  <2> DEFINE B(f) == AnalysisOf(A, f, tool)
  <2> HIDE DEF B
  <2>1. A = [f \in Att!Files |-> B(f)] BY <1>6 DEF B
  <2>2. \A f \in Att!Files : A[f] = B(f) BY <2>1
  <2> QED BY <2>2 DEF B
<1>8. ASSUME NEW f \in Att!Files, f.type \in Att!Compressed, f.ok PROVE f.sub[1] \in Att!Files
  <2>1. Depth \in 0..Depth /\ f \in Att!FilesTo[Depth] BY <1>0 DEF Att!Files
  <2>2. f.sub[1] \in InnerFiles(Depth) BY <1>8, <2>1, FileFacts
  <2> QED BY <2>1, <2>2, FilesGrow DEF Att!Files
<1>9. ASSUME NEW f \in Att!Files
      PROVE  /\ Att!AnalyseAttachment(f, tool) = AnalysisOf(A, f, tool)
             /\ \A x \in Att!Files : A[x] = Att!AnalyseAttachment(x, tool)
  BY <1>5, <1>7
<1> QED BY <1>8, <1>9

\* Chains, given itself for the files in the file.
ChainsOf(g, f) == {<<f>>} \cup UNION {{<<f>> \o d : d \in g[f.sub[i]]} : i \in DOMAIN f.sub}

\* It asks only of the files in the file.
LEMMA ChainsSame ==
  ASSUME NEW n \in 0..Depth, NEW f \in Att!FilesTo[n], NEW g, NEW h,
         \A x \in InnerFiles(n) : g[x] = h[x]
  PROVE  ChainsOf(g, f) = ChainsOf(h, f)
<1>1. f.sub \in Seq(InnerFiles(n)) BY FileFacts
<1>2. \A i \in DOMAIN f.sub : g[f.sub[i]] = h[f.sub[i]] BY <1>1
<1> DEFINE F(i) == {<<f>> \o d : d \in g[f.sub[i]]}
           H(i) == {<<f>> \o d : d \in h[f.sub[i]]}
<1>3. \A i \in DOMAIN f.sub : F(i) = H(i) BY <1>2
<1>4. ChainsOf(g, f) = {<<f>>} \cup UNION {F(i) : i \in DOMAIN f.sub} BY DEF ChainsOf
<1>5. ChainsOf(h, f) = {<<f>>} \cup UNION {H(i) : i \in DOMAIN f.sub} BY DEF ChainsOf
<1> HIDE DEF F, H
<1>6. {F(i) : i \in DOMAIN f.sub} = {H(i) : i \in DOMAIN f.sub} BY <1>3
<1> QED BY <1>4, <1>5, <1>6

\* Chains is that function of itself.
LEMMA ChainsAre ==
  \A f \in Att!Files : Att!Chains[f] = ChainsOf(Att!Chains, f)
<1> DEFINE P == {n \in Nat : n <= Depth => \E g : g = [f \in Att!FilesTo[n] |-> ChainsOf(g, f)]}
<1>0. Depth \in Nat BY DepthAssumption
<1>1. 0 \in P
  <2> DEFINE g == 0
             h == [f \in Att!FilesTo[0] |-> ChainsOf(g, f)]
  <2>1. \A f \in Att!FilesTo[0] : ChainsOf(g, f) = ChainsOf(h, f)
    <3>1. 0 \in 0..Depth /\ InnerFiles(0) = {} BY <1>0 DEF InnerFiles
    <3> HIDE DEF g, h
    <3> QED BY <3>1, ChainsSame
  <2>2. h = [f \in Att!FilesTo[0] |-> ChainsOf(h, f)]
    <3>1. h = [f \in Att!FilesTo[0] |-> ChainsOf(g, f)] OBVIOUS
    <3> HIDE DEF g, h
    <3> QED BY <2>1, <3>1
  <2> HIDE DEF h
  <2> QED BY <2>2
<1>2. ASSUME NEW n \in P PROVE n + 1 \in P
  <2>0. n \in Nat /\ n + 1 \in Nat OBVIOUS
  <2>1. ASSUME n + 1 <= Depth PROVE \E g : g = [f \in Att!FilesTo[n + 1] |-> ChainsOf(g, f)]
    <3>1. n \in 0..Depth /\ n + 1 \in 0..Depth /\ n <= Depth /\ n + 1 # 0 /\ (n + 1) - 1 = n BY <1>0, <2>0, <2>1
    <3>2. PICK g : g = [f \in Att!FilesTo[n] |-> ChainsOf(g, f)] BY <3>1
    <3>3. InnerFiles(n + 1) = Att!FilesTo[n] BY <3>1 DEF InnerFiles
    <3>4. Att!FilesTo[n] \subseteq Att!FilesTo[n + 1] BY <3>1, <3>3, FilesGrow
    <3> DEFINE h == [f \in Att!FilesTo[n + 1] |-> ChainsOf(g, f)]
    <3>5. \A f \in Att!FilesTo[n] : h[f] = g[f]
      <4>1. \A f \in Att!FilesTo[n] : g[f] = ChainsOf(g, f) BY <3>2
      <4> QED BY <3>4, <4>1
    <3>6. \A f \in Att!FilesTo[n + 1] : ChainsOf(g, f) = ChainsOf(h, f)
      <4> HIDE DEF h
      <4>1. \A x \in InnerFiles(n + 1) : g[x] = h[x] BY <3>3, <3>5
      <4> QED BY <3>1, <4>1, ChainsSame
    <3>7. h = [f \in Att!FilesTo[n + 1] |-> ChainsOf(h, f)]
      <4>1. h = [f \in Att!FilesTo[n + 1] |-> ChainsOf(g, f)] OBVIOUS
      <4> HIDE DEF h
      <4> QED BY <3>6, <4>1
    <3> HIDE DEF h
    <3> QED BY <3>7
  <2> QED BY <2>0, <2>1
<1>3. P = Nat
  <2>1. P \in SUBSET Nat OBVIOUS
  <2> HIDE DEF P
  <2> QED BY <1>1, <1>2, <2>1, SetInduction
<1>4. \E g : g = [f \in Att!Files |-> ChainsOf(g, f)] BY <1>0, <1>3 DEF Att!Files
<1> DEFINE A == Att!Chains
<1>5. A = CHOOSE g : g = [f \in Att!Files |-> ChainsOf(g, f)] BY DEF Att!Chains, ChainsOf
<1> HIDE DEF A
<1>6. A = [f \in Att!Files |-> ChainsOf(A, f)] BY <1>4, <1>5
<1>7. \A f \in Att!Files : A[f] = ChainsOf(A, f)
  <2> DEFINE B(f) == ChainsOf(A, f)
  <2> HIDE DEF B
  <2>1. A = [f \in Att!Files |-> B(f)] BY <1>6 DEF B
  <2>2. \A f \in Att!Files : A[f] = B(f) BY <2>1
  <2> QED BY <2>2 DEF B
<1> QED BY <1>7 DEF A
-----------------------------------------------------------------------------
(* What a file holds. *)
\* The files of each depth are files.
LEMMA FilesIn ==
  \A n \in 0..Depth : Att!FilesTo[n] \subseteq Att!Files
<1> DEFINE P == {k \in Nat : k <= Depth => Att!FilesTo[Depth - k] \subseteq Att!Files}
<1>0. Depth \in Nat BY DepthAssumption
<1>1. 0 \in P
  <2>1. Depth - 0 = Depth BY <1>0
  <2> QED BY <2>1 DEF Att!Files
<1>2. ASSUME NEW k \in P PROVE k + 1 \in P
  <2>0. k \in Nat /\ k + 1 \in Nat OBVIOUS
  <2>1. ASSUME k + 1 <= Depth PROVE Att!FilesTo[Depth - (k + 1)] \subseteq Att!Files
    <3>1. k <= Depth /\ Depth - k \in 0..Depth /\ Depth - k # 0 /\ (Depth - k) - 1 = Depth - (k + 1)
      BY <1>0, <2>0, <2>1
    <3>2. Att!FilesTo[Depth - k] \subseteq Att!Files BY <3>1
    <3>3. Att!FilesTo[Depth - (k + 1)] \subseteq Att!FilesTo[Depth - k] BY <3>1, FilesGrow DEF InnerFiles
    <3> QED BY <3>2, <3>3
  <2> QED BY <2>0, <2>1
<1>3. P = Nat
  <2>1. P \in SUBSET Nat OBVIOUS
  <2> HIDE DEF P
  <2> QED BY <1>1, <1>2, <2>1, SetInduction
<1>4. ASSUME NEW n \in 0..Depth PROVE Att!FilesTo[n] \subseteq Att!Files
  <2>1. Depth - n \in Nat /\ Depth - n <= Depth /\ Depth - (Depth - n) = n BY <1>0
  <2>2. Depth - n \in P BY <1>3, <2>1
  <2> QED BY <2>1, <2>2
<1> QED BY <1>4

\* What a file is, whatever its depth.
LEMMA FileShape ==
  ASSUME NEW f \in Att!Files
  PROVE  /\ f.type \in Att!Types \cup Att!Compressed /\ f.ok \in BOOLEAN
         /\ f.sub \in Seq(Att!Files)
         /\ f.type \in Att!Compressed => DOMAIN f.sub = {1}
<1>1. Depth \in 0..Depth /\ f \in Att!FilesTo[Depth] BY DepthAssumption DEF Att!Files
<1>2. f.sub \in Seq(InnerFiles(Depth)) BY <1>1, FileFacts
<1>3. InnerFiles(Depth) \subseteq Att!Files BY <1>1, FilesGrow, FilesIn
<1>4. Seq(InnerFiles(Depth)) \subseteq Seq(Att!Files) BY <1>3
<1> QED BY <1>1, <1>2, <1>4, FileFacts

\* What holds of a file when it holds of what is in it holds of all files.
LEMMA FileInduction ==
  ASSUME NEW G, \A f \in Att!Files : (\A i \in DOMAIN f.sub : f.sub[i] \in G) => f \in G
  PROVE  Att!Files \subseteq G
<1> DEFINE P == {n \in Nat : n <= Depth => Att!FilesTo[n] \subseteq G}
<1>0. Depth \in Nat BY DepthAssumption
<1>1. ASSUME NEW n \in 0..Depth, InnerFiles(n) \subseteq G PROVE Att!FilesTo[n] \subseteq G
  <2>1. ASSUME NEW f \in Att!FilesTo[n] PROVE f \in G
    <3>1. f.sub \in Seq(InnerFiles(n)) BY FileFacts
    <3>2. \A i \in DOMAIN f.sub : f.sub[i] \in G BY <1>1, <3>1
    <3>3. f \in Att!Files BY FilesIn
    <3> QED BY <3>2, <3>3
  <2> QED BY <2>1
<1>2. 0 \in P
  <2>1. 0 \in 0..Depth /\ InnerFiles(0) \subseteq G BY <1>0 DEF InnerFiles
  <2> QED BY <1>1, <2>1
<1>3. ASSUME NEW n \in P PROVE n + 1 \in P
  <2>0. n \in Nat /\ n + 1 \in Nat OBVIOUS
  <2>1. ASSUME n + 1 <= Depth PROVE Att!FilesTo[n + 1] \subseteq G
    <3>1. n + 1 \in 0..Depth /\ n <= Depth /\ n + 1 # 0 /\ (n + 1) - 1 = n BY <1>0, <2>0, <2>1
    <3>2. InnerFiles(n + 1) \subseteq G BY <3>1 DEF InnerFiles
    <3> QED BY <1>1, <3>1, <3>2
  <2> QED BY <2>0, <2>1
<1>4. P = Nat
  <2>1. P \in SUBSET Nat OBVIOUS
  <2> HIDE DEF P
  <2> QED BY <1>2, <1>3, <2>1, SetInduction
<1> QED BY <1>0, <1>4 DEF Att!Files

\* A chain is the file, or the file and then a chain of a file in it.
LEMMA ChainCases ==
  ASSUME NEW f \in Att!Files, NEW x
  PROVE  x \in Att!Chains[f] <=> x = <<f>> \/ \E i \in DOMAIN f.sub : \E d \in Att!Chains[f.sub[i]] : x = <<f>> \o d
BY ChainsAre DEF ChainsOf

\* A sequence with one element put before it.
LEMMA ConsFacts ==
  ASSUME NEW S, NEW e \in S, NEW d \in Seq(S)
  PROVE  /\ <<e>> \o d \in Seq(S) /\ Len(<<e>> \o d) = Len(d) + 1
         /\ (<<e>> \o d)[1] = e /\ \A i \in 1..Len(d) : (<<e>> \o d)[i + 1] = d[i]
OBVIOUS

\* A chain starts with the file and goes on in files.
LEMMA ChainFacts ==
  ASSUME NEW f \in Att!Files, NEW x \in Att!Chains[f]
  PROVE  x \in Seq(Att!Files) /\ Len(x) \in Nat \ {0} /\ x[1] = f
<1> DEFINE Good(g, y) == y \in Seq(Att!Files) /\ Len(y) \in Nat \ {0} /\ y[1] = g
           G == {g \in Att!Files : \A y \in Att!Chains[g] : Good(g, y)}
<1>1. ASSUME NEW g \in Att!Files, \A i \in DOMAIN g.sub : g.sub[i] \in G PROVE g \in G
  <2>1. ASSUME NEW y \in Att!Chains[g] PROVE Good(g, y)
    <3>1. CASE y = <<g>> BY <3>1
    <3>2. ASSUME NEW i \in DOMAIN g.sub, NEW d \in Att!Chains[g.sub[i]], y = <<g>> \o d PROVE Good(g, y)
      <4>1. Good(g.sub[i], d) BY <1>1, <3>2
      <4>2. d \in Seq(Att!Files) /\ Len(d) \in Nat BY <4>1
      <4>3. y \in Seq(Att!Files) /\ Len(y) = Len(d) + 1 /\ y[1] = g BY <3>2, <4>2, ConsFacts
      <4>4. Len(d) + 1 \in Nat \ {0} BY <4>2
      <4> QED BY <4>3, <4>4
    <3> HIDE DEF Good
    <3>3. y = <<g>> \/ \E i \in DOMAIN g.sub : \E d \in Att!Chains[g.sub[i]] : y = <<g>> \o d
      BY <1>1, <2>1, ChainCases
    <3> QED BY <3>1, <3>2, <3>3
  <2> QED BY <2>1
<1>2. Att!Files \subseteq G
  <2> HIDE DEF G
  <2> QED BY <1>1, FileInduction
<1> QED BY <1>2

\* A program under archives, each at most compressed once, all of which open;
\* the first may be a compressed one.
Under(x) ==
  LET n == Len(x) IN
    /\ x[n].type = "exe" /\ x[n].ok
    /\ \A i \in 1..n - 1 :
         /\ Att!Opens(x[i])
         /\ \/ x[i].type \in Att!Packed
            \/ /\ x[i].type \in Att!Compressed /\ i + 1 < n /\ x[i + 1].type \in Att!Packed
               /\ i > 1 => x[i - 1].type \in Att!Packed

\* A file in which a program can be seen from the outside.
Holds(f) == \E x \in Att!Chains[f] : Under(x)

\* No type is of two sorts.
LEMMA TypeSorts ==
  /\ Att!Packed \cap Att!Compressed = {} /\ "exe" \notin Att!Packed /\ "exe" \notin Att!Compressed
  /\ "doc" \notin Att!Compressed /\ Att!Packed = {"zip", "tar", "rar"}
BY DEF Att!Packed, Att!Compressed

\* A program is under itself.
LEMMA UnderOne ==
  ASSUME NEW f
  PROVE  Under(<<f>>) <=> f.type = "exe" /\ f.ok
BY DEF Under

\* A program under a file in f is under f when f opens and takes it along.
LEMMA UnderStep ==
  ASSUME NEW f \in Att!Files, NEW g \in Att!Files, NEW d \in Att!Chains[g]
  PROVE  Under(<<f>> \o d) <=>
           /\ Att!Opens(f) /\ Under(d)
           /\ f.type \in Att!Packed \/ (f.type \in Att!Compressed /\ g.type \in Att!Packed)
<1> DEFINE y == <<f>> \o d
           n == Len(d)
<1>1. d \in Seq(Att!Files) /\ n \in Nat \ {0} /\ d[1] = g BY ChainFacts
<1>2. Len(y) = n + 1 /\ y[1] = f /\ \A i \in 1..n : y[i + 1] = d[i] BY <1>1, ConsFacts
<1>3. y[n + 1] = d[n] /\ y[2] = g
  <2>1. n \in 1..n /\ 1 \in 1..n /\ 1 + 1 = 2 BY <1>1
  <2> QED BY <1>1, <1>2, <2>1
<1> HIDE DEF y, n
<1>4. ASSUME Under(y) PROVE /\ Att!Opens(f) /\ Under(d)
                            /\ f.type \in Att!Packed \/ (f.type \in Att!Compressed /\ g.type \in Att!Packed)
  <2>0. 1 \in 1..(n + 1) - 1 /\ (n + 1) - 1 = n BY <1>1
  <2>1. \A i \in 1..n :
         /\ Att!Opens(y[i])
         /\ \/ y[i].type \in Att!Packed
            \/ /\ y[i].type \in Att!Compressed /\ i + 1 < n + 1 /\ y[i + 1].type \in Att!Packed
               /\ i > 1 => y[i - 1].type \in Att!Packed
    BY <1>2, <1>4, <2>0 DEF Under
  <2>2. d[n].type = "exe" /\ d[n].ok BY <1>2, <1>3, <1>4 DEF Under
  <2>3. ASSUME NEW i \in 1..n - 1
        PROVE  /\ Att!Opens(d[i])
               /\ \/ d[i].type \in Att!Packed
                  \/ /\ d[i].type \in Att!Compressed /\ i + 1 < n /\ d[i + 1].type \in Att!Packed
                     /\ i > 1 => d[i - 1].type \in Att!Packed
    <3>1. i \in 1..n /\ i + 1 \in 1..n /\ i + 1 > 1 /\ (i + 1) - 1 = i BY <1>1
    <3>2. y[i + 1] = d[i] /\ y[(i + 1) + 1] = d[i + 1] BY <1>2, <3>1
    <3>3. i > 1 => i - 1 \in 1..n /\ (i - 1) + 1 = i BY <1>1, <3>1
    <3>4. i > 1 => y[i] = d[i - 1] BY <1>2, <3>3
    <3>5. (i + 1) + 1 < n + 1 => i + 1 < n BY <1>1
    <3> QED BY <2>1, <3>1, <3>2, <3>4, <3>5
  <2>4. Under(d) BY <2>2, <2>3 DEF Under, n
  <2>5. 1 \in 1..n /\ 1 + 1 = 2 BY <1>1
  <2> QED BY <2>1, <2>4, <2>5, <1>2, <1>3
<1>5. ASSUME Att!Opens(f), Under(d), f.type \in Att!Packed \/ (f.type \in Att!Compressed /\ g.type \in Att!Packed)
      PROVE  Under(y)
  <2>1. y[n + 1].type = "exe" /\ y[n + 1].ok BY <1>3, <1>5 DEF Under, n
  <2>2. ASSUME NEW i \in 1..n
        PROVE  /\ Att!Opens(y[i])
               /\ \/ y[i].type \in Att!Packed
                  \/ /\ y[i].type \in Att!Compressed /\ i + 1 < n + 1 /\ y[i + 1].type \in Att!Packed
                     /\ i > 1 => y[i - 1].type \in Att!Packed
    <3>1. CASE i = 1
      <4>1. g.type \in Att!Packed => 1 + 1 < n + 1
        <5>1. n = 1 => g.type = "exe" BY <1>1, <1>5 DEF Under, n
        <5> QED BY <1>1, <5>1, TypeSorts
      <4>2. y[i] = f /\ y[i + 1] = g BY <1>2, <1>3, <3>1
      <4> QED BY <1>5, <3>1, <4>1, <4>2
    <3>2. CASE i # 1
      <4> DEFINE j == i - 1
      <4>1. j \in 1..n - 1 /\ j \in 1..n /\ i = j + 1 /\ j + 1 \in 1..n /\ i - 1 = j BY <1>1, <3>2
      <4> HIDE DEF j
      <4>2. y[i] = d[j] /\ y[i + 1] = d[j + 1] BY <1>2, <4>1
      <4>3. /\ Att!Opens(d[j])
            /\ \/ d[j].type \in Att!Packed
               \/ /\ d[j].type \in Att!Compressed /\ j + 1 < n /\ d[j + 1].type \in Att!Packed
                  /\ j > 1 => d[j - 1].type \in Att!Packed
        BY <1>5, <4>1 DEF Under, n
      <4>4. d[j].type \in Att!Compressed => y[j].type \in Att!Packed
        <5>1. CASE j = 1
          <6>1. d[j] = g /\ y[j] = f BY <1>1, <1>2, <5>1
          <6> QED BY <1>5, <6>1, TypeSorts
        <5>2. CASE j # 1
          <6>1. j > 1 /\ j - 1 \in 1..n /\ (j - 1) + 1 = j BY <4>1, <5>2, <1>1
          <6>2. y[j] = d[j - 1] BY <1>2, <6>1
          <6> QED BY <4>3, <6>1, <6>2, TypeSorts
        <5> QED BY <5>1, <5>2
      <4>5. j + 1 < n => i + 1 < n + 1 BY <1>1, <4>1
      <4> QED BY <4>1, <4>2, <4>3, <4>4, <4>5
    <3> QED BY <3>1, <3>2
  <2>3. (n + 1) - 1 = n BY <1>1
  <2> QED BY <1>2, <2>1, <2>2, <2>3 DEF Under
<1> QED BY <1>4, <1>5 DEF y

\* Holds, by the files in the file.
LEMMA HoldsIs ==
  ASSUME NEW f \in Att!Files
  PROVE  Holds(f) <=> \/ f.type = "exe" /\ f.ok
                      \/ f.type \in Att!Packed /\ Att!Opens(f) /\ \E i \in DOMAIN f.sub : Holds(f.sub[i])
                      \/ f.type \in Att!Compressed /\ f.ok /\ f.sub[1].type \in Att!Packed /\ Holds(f.sub[1])
<1>1. f.sub \in Seq(Att!Files) /\ (f.type \in Att!Compressed => DOMAIN f.sub = {1}) BY FileShape
<1>2. \A i \in DOMAIN f.sub : f.sub[i] \in Att!Files BY <1>1
<1>3. Holds(f) <=> Under(<<f>>) \/ \E i \in DOMAIN f.sub : \E d \in Att!Chains[f.sub[i]] : Under(<<f>> \o d)
  BY ChainCases DEF Holds
<1>4. Holds(f) <=>
        \/ f.type = "exe" /\ f.ok
        \/ \E i \in DOMAIN f.sub : \E d \in Att!Chains[f.sub[i]] :
             /\ Att!Opens(f) /\ Under(d)
             /\ f.type \in Att!Packed \/ (f.type \in Att!Compressed /\ f.sub[i].type \in Att!Packed)
  BY <1>2, <1>3, UnderOne, UnderStep
<1>5. Holds(f) <=>
        \/ f.type = "exe" /\ f.ok
        \/ \E i \in DOMAIN f.sub :
             /\ Att!Opens(f) /\ Holds(f.sub[i])
             /\ f.type \in Att!Packed \/ (f.type \in Att!Compressed /\ f.sub[i].type \in Att!Packed)
  BY <1>4 DEF Holds
<1>6. f.type \in Att!Compressed => (Att!Opens(f) <=> f.ok)
  BY DEF Att!Opens, Att!Compressed
<1>7. f.type \in Att!Compressed => ~(f.type \in Att!Packed) BY TypeSorts
<1> QED BY <1>1, <1>5, <1>6, <1>7
-----------------------------------------------------------------------------
(* What an archive says. *)
\* What the analysis of an archive says, and that of an entry of one.
ReadsExe(f) == Att!AnalyzeArchive[f] # Att!Failed /\ Att!AnalyzeArchive[f].exe
EntryExe(x) == Att!analyzeEntry(Att!AnalyzeArchive, x).exe

\* An entry says so when it is a program or an archive that does.
LEMMA EntryIs ==
  ASSUME NEW x \in Att!Files, x.ok
  PROVE  EntryExe(x) <=> \/ x.type = "exe"
                         \/ x.type \in Att!Packed /\ ReadsExe(x)
                         \/ x.type \in Att!Compressed /\ x.sub[1].type \in Att!Packed /\ ReadsExe(x.sub[1])
<1> DEFINE g == Att!replaceCompressed(x)
           A == Att!AnalyzeArchive
<1>1. EntryExe(x) <=> x.type = "exe" \/ (g.type \in Att!Packed /\ A[g] # Att!Failed /\ A[g].exe)
  <2> DEFINE u == IF g.type \in Att!Packed THEN A[g] ELSE Att!Failed
  <2>1. EntryExe(x) <=> x.type = "exe" \/ (u # Att!Failed /\ u.exe)
    BY DEF EntryExe, Att!analyzeEntry
  <2> HIDE DEF g, A
  <2>2. CASE g.type \in Att!Packed BY <2>1, <2>2
  <2>3. CASE ~(g.type \in Att!Packed) BY <2>1, <2>3
  <2> QED BY <2>2, <2>3
<1>2. CASE x.type \in Att!Compressed
  <2>1. g = x.sub[1] BY <1>2 DEF Att!replaceCompressed
  <2>2. ~(x.type \in Att!Packed) BY <1>2, TypeSorts
  <2> HIDE DEF g
  <2> QED BY <1>1, <1>2, <2>1, <2>2 DEF ReadsExe
<1>3. CASE ~(x.type \in Att!Compressed)
  <2>1. g = x BY <1>3 DEF Att!replaceCompressed
  <2> HIDE DEF g
  <2> QED BY <1>1, <1>3, <2>1 DEF ReadsExe
<1> QED BY <1>2, <1>3

\* An archive says so when it opens and an entry that can be read does.
LEMMA ArchiveReads ==
  ASSUME NEW f \in Att!Files, f.type \in Att!Packed
  PROVE  ReadsExe(f) <=> Att!Opens(f) /\ \E i \in DOMAIN f.sub : f.sub[i].ok /\ EntryExe(f.sub[i])
<1> DEFINE A == Att!AnalyzeArchive
           files == Att!Readable(f.sub)
           E(x) == EntryExe(x)
<1>0. f.sub \in Seq(Att!Files) /\ f.ok \in BOOLEAN BY FileShape
<1>1. \A x \in Att!Files : x.ok \in BOOLEAN BY FileShape
<1>2. /\ files \in Seq(Att!Files)
      /\ ToSet(files) = {f.sub[i] : i \in {j \in DOMAIN f.sub : f.sub[j].ok}}
      /\ Len(files) < Len(f.sub) <=> \E i \in DOMAIN f.sub : ~f.sub[i].ok
  BY <1>0, <1>1, ReadableFacts
<1>3. Att!Opens(f) <=> f.ok /\ (f.type = "zip" \/ ~(Len(files) < Len(f.sub)))
  <2>1. Att!Opens(f) <=> f.ok /\ (f.type \in {"tar", "rar"} => \A i \in DOMAIN f.sub : f.sub[i].ok) BY DEF Att!Opens
  <2>2. f.type \in {"tar", "rar"} <=> f.type # "zip" BY TypeSorts
  <2> QED BY <1>2, <2>1, <2>2
<1>4. (\E i \in DOMAIN files : E(files[i])) <=> \E i \in DOMAIN f.sub : f.sub[i].ok /\ E(f.sub[i])
  <2> HIDE DEF E
  <2>1. (\E i \in DOMAIN files : E(files[i])) <=> \E x \in ToSet(files) : E(x) BY DEF ToSet
  <2>2. (\E x \in ToSet(files) : E(x)) <=> \E i \in DOMAIN f.sub : f.sub[i].ok /\ E(f.sub[i]) BY <1>2
  <2> QED BY <2>1, <2>2
<1>5. A[f] = ArchiveOf(A, f) BY ArchiveIs
<1> DEFINE entries == [i \in DOMAIN files |-> Att!analyzeEntry(A, files[i])]
           Broken == ~f.ok \/ (f.type # "zip" /\ Len(files) < Len(f.sub))
           Report == [err |-> FALSE, type |-> f.type, files |-> entries,
                      exe |-> \E i \in DOMAIN entries : entries[i].exe]
<1>6. A[f] = IF Broken THEN Att!Failed ELSE Report BY <1>5 DEF ArchiveOf
<1>7. Report # Att!Failed
  <2> DEFINE es == entries
             ex == \E i \in DOMAIN entries : entries[i].exe
  <2> HIDE DEF es, ex
  <2>1. [err |-> FALSE, type |-> f.type, files |-> es, exe |-> ex].err # [err |-> TRUE].err OBVIOUS
  <2> QED BY <2>1, Zenon DEF Att!Failed, es, ex
<1>8. Report.exe <=> \E i \in DOMAIN files : E(files[i])
  <2> DEFINE ex == \E i \in DOMAIN entries : entries[i].exe
             es == entries
  <2>1. ex <=> \E i \in DOMAIN files : E(files[i]) BY DEF EntryExe
  <2> HIDE DEF es, ex
  <2>2. [err |-> FALSE, type |-> f.type, files |-> es, exe |-> ex].exe <=> ex OBVIOUS
  <2> QED BY <2>1, <2>2 DEF es, ex
<1>9. ReadsExe(f) <=> A[f] # Att!Failed /\ A[f].exe BY DEF ReadsExe
<1> HIDE DEF Report, A, E, files
<1>10. ReadsExe(f) <=> ~Broken /\ Report.exe
  <2> HIDE DEF Broken
  <2> QED BY <1>6, <1>7, <1>9
<1>11. ~Broken <=> Att!Opens(f) BY <1>0, <1>3
<1>12. ReadsExe(f) <=> Att!Opens(f) /\ \E i \in DOMAIN f.sub : f.sub[i].ok /\ E(f.sub[i])
  BY <1>4, <1>8, <1>10, <1>11
<1> QED BY <1>12 DEF E

\* An archive says so exactly when it holds a program (by induction on files).
LEMMA ArchiveSees ==
  \A f \in Att!Files : f.type \in Att!Packed => (ReadsExe(f) <=> Holds(f))
<1> DEFINE Sees(f) == f.type \in Att!Packed => (ReadsExe(f) <=> Holds(f))
           G == {f \in Att!Files : Sees(f) /\ \A i \in DOMAIN f.sub : Sees(f.sub[i])}
<1>1. ASSUME NEW f \in Att!Files, \A i \in DOMAIN f.sub : f.sub[i] \in G PROVE f \in G
  <2>0. f.sub \in Seq(Att!Files) BY FileShape
  <2>1. \A i \in DOMAIN f.sub : Sees(f.sub[i]) BY <1>1
  <2>2. ASSUME f.type \in Att!Packed PROVE ReadsExe(f) <=> Holds(f)
    <3>1. ASSUME NEW i \in DOMAIN f.sub
          PROVE  f.sub[i].ok /\ EntryExe(f.sub[i]) <=> Holds(f.sub[i])
      <4> DEFINE x == f.sub[i]
      <4>1. x \in Att!Files BY <2>0, <3>1
      <4>2. Sees(x) BY <2>1, <3>1
      <4>3. x.type \in Att!Compressed => 1 \in DOMAIN x.sub BY <4>1, FileShape
      <4>4. x \in G BY <1>1, <3>1
      <4>5. x.type \in Att!Compressed => Sees(x.sub[1]) BY <4>3, <4>4
      <4>6. x.ok => (EntryExe(x) <=> \/ x.type = "exe"
                                     \/ x.type \in Att!Packed /\ ReadsExe(x)
                                     \/ x.type \in Att!Compressed /\ x.sub[1].type \in Att!Packed /\ ReadsExe(x.sub[1]))
        BY <4>1, EntryIs
      <4>7. Holds(x) <=> \/ x.type = "exe" /\ x.ok
                         \/ x.type \in Att!Packed /\ Att!Opens(x) /\ \E j \in DOMAIN x.sub : Holds(x.sub[j])
                         \/ x.type \in Att!Compressed /\ x.ok /\ x.sub[1].type \in Att!Packed /\ Holds(x.sub[1])
        BY <4>1, HoldsIs
      <4>8. Att!Opens(x) => x.ok BY DEF Att!Opens
      <4>9. x.type \in Att!Packed => x.type # "exe" /\ ~(x.type \in Att!Compressed) BY TypeSorts
      <4> HIDE DEF x, G
      <4>10. Holds(x) => x.ok BY <4>7, <4>8
      <4>11. x.ok => (EntryExe(x) <=> \/ x.type = "exe"
                                      \/ x.type \in Att!Packed /\ Holds(x)
                                      \/ x.type \in Att!Compressed /\ x.sub[1].type \in Att!Packed /\ Holds(x.sub[1]))
        BY <4>2, <4>5, <4>6
      <4>12. x.ok => (EntryExe(x) <=> Holds(x)) BY <4>7, <4>9, <4>11
      <4> QED BY <4>10, <4>12 DEF x
    <3>2. ReadsExe(f) <=> Att!Opens(f) /\ \E i \in DOMAIN f.sub : f.sub[i].ok /\ EntryExe(f.sub[i])
      BY <1>1, <2>2, ArchiveReads
    <3>3. Holds(f) <=> Att!Opens(f) /\ \E i \in DOMAIN f.sub : Holds(f.sub[i])
      BY <1>1, <2>2, HoldsIs, TypeSorts
    <3> QED BY <3>1, <3>2, <3>3
  <2> HIDE DEF Sees
  <2>3. Sees(f) BY <2>2 DEF Sees
  <2> QED BY <1>1, <2>1, <2>3
<1>2. Att!Files \subseteq G
  <2> HIDE DEF G
  <2> QED BY <1>1, FileInduction
<1> QED BY <1>2

\* A file is handled as itself.
LEMMA HandledOne ==
  ASSUME NEW f, NEW T
  PROVE  Att!Handled(<<f>>, T) <=> f.type \in T
BY DEF Att!Handled

\* What is in a compressed file is handled once the file is opened.
LEMMA HandledStep ==
  ASSUME NEW f \in Att!Files, NEW g \in Att!Files, NEW d \in Att!Chains[g], NEW T
  PROVE  /\ Att!Handled(<<f>> \o d, T) <=> f.type \in Att!Compressed /\ f.ok /\ Att!Handled(d, T)
         /\ (<<f>> \o d)[Len(<<f>> \o d)] = d[Len(d)]
<1> DEFINE y == <<f>> \o d
           n == Len(d)
           Open(x) == x.type \in Att!Compressed /\ x.ok
<1>1. d \in Seq(Att!Files) /\ n \in Nat \ {0} BY ChainFacts
<1>2. Len(y) = n + 1 /\ y[1] = f /\ \A i \in 1..n : y[i + 1] = d[i] BY <1>1, ConsFacts
<1>3. y[n + 1] = d[n]
  <2>1. n \in 1..n BY <1>1
  <2> QED BY <1>2, <2>1
<1> HIDE DEF y, n, Open
<1>4. (n + 1) - 1 = n BY <1>1
<1>5. (\A i \in 1..n : Open(y[i])) <=> Open(f) /\ \A i \in 1..n - 1 : Open(d[i])
  <2>1. ASSUME \A i \in 1..n : Open(y[i]) PROVE Open(f) /\ \A i \in 1..n - 1 : Open(d[i])
    <3>1. 1 \in 1..n /\ \A i \in 1..n - 1 : i \in 1..n /\ i + 1 \in 1..n BY <1>1
    <3> QED BY <1>2, <2>1, <3>1
  <2>2. ASSUME Open(f), \A i \in 1..n - 1 : Open(d[i]), NEW i \in 1..n PROVE Open(y[i])
    <3>1. CASE i = 1 BY <1>2, <2>2, <3>1
    <3>2. CASE i # 1
      <4>1. i - 1 \in 1..n - 1 /\ i - 1 \in 1..n /\ (i - 1) + 1 = i BY <1>1, <3>2
      <4> QED BY <1>2, <2>2, <4>1
    <3> QED BY <3>1, <3>2
  <2> QED BY <2>1, <2>2
<1>6. Att!Handled(y, T) <=> y[n + 1].type \in T /\ \A i \in 1..n : Open(y[i])
  BY <1>2, <1>4 DEF Att!Handled, Open
<1>7. Att!Handled(d, T) <=> d[n].type \in T /\ \A i \in 1..n - 1 : Open(d[i])
  BY DEF Att!Handled, Open, n
<1>8. Att!Handled(y, T) <=> Open(f) /\ Att!Handled(d, T) BY <1>3, <1>5, <1>6, <1>7
<1>9. y[Len(y)] = d[n] BY <1>2, <1>3
<1> QED BY <1>8, <1>9 DEF y, n, Open

\* A file is handled as one of T at the end of a chain, broken or not.
Handles(f, T)   == \E x \in Att!Chains[f] : Att!Handled(x, T)
HandlesOk(f, T) == \E x \in Att!Chains[f] : Att!Handled(x, T) /\ x[Len(x)].ok

\* Handles, by the file in the file.
LEMMA HandlesIs ==
  ASSUME NEW f \in Att!Files, NEW T, T \cap Att!Compressed = {}
  PROVE  /\ Handles(f, T) <=> IF f.type \in Att!Compressed THEN f.ok /\ Handles(f.sub[1], T) ELSE f.type \in T
         /\ HandlesOk(f, T) <=> IF f.type \in Att!Compressed THEN f.ok /\ HandlesOk(f.sub[1], T)
                                ELSE f.type \in T /\ f.ok
<1>1. f.sub \in Seq(Att!Files) /\ (f.type \in Att!Compressed => DOMAIN f.sub = {1}) BY FileShape
<1>2. \A i \in DOMAIN f.sub : f.sub[i] \in Att!Files BY <1>1
<1>a. \A x : x \in Att!Chains[f] <=> x = <<f>> \/ \E i \in DOMAIN f.sub : \E d \in Att!Chains[f.sub[i]] : x = <<f>> \o d
  BY ChainCases
<1>3. <<f>>[Len(<<f>>)] = f OBVIOUS
<1>4. Handles(f, T) <=>
        \/ Att!Handled(<<f>>, T)
        \/ \E i \in DOMAIN f.sub : \E d \in Att!Chains[f.sub[i]] : Att!Handled(<<f>> \o d, T)
  <2> DEFINE M(x) == Att!Handled(x, T)
  <2> HIDE DEF M
  <2>1. (\E x \in Att!Chains[f] : M(x)) <=> M(<<f>>) \/ \E i \in DOMAIN f.sub : \E d \in Att!Chains[f.sub[i]] : M(<<f>> \o d)
    BY <1>a
  <2> QED BY <2>1 DEF M, Handles
<1>5. Handles(f, T) <=>
        \/ f.type \in T
        \/ f.type \in Att!Compressed /\ f.ok /\ \E i \in DOMAIN f.sub : Handles(f.sub[i], T)
  BY <1>2, <1>4, HandledOne, HandledStep DEF Handles
<1>6. HandlesOk(f, T) <=>
        \/ Att!Handled(<<f>>, T) /\ f.ok
        \/ \E i \in DOMAIN f.sub : \E d \in Att!Chains[f.sub[i]] :
             Att!Handled(<<f>> \o d, T) /\ (<<f>> \o d)[Len(<<f>> \o d)].ok
  <2> DEFINE M(x) == Att!Handled(x, T) /\ x[Len(x)].ok
  <2>2. M(<<f>>) <=> Att!Handled(<<f>>, T) /\ f.ok BY <1>3
  <2> HIDE DEF M
  <2>1. (\E x \in Att!Chains[f] : M(x)) <=> M(<<f>>) \/ \E i \in DOMAIN f.sub : \E d \in Att!Chains[f.sub[i]] : M(<<f>> \o d)
    BY <1>a
  <2>3. HandlesOk(f, T) <=> \E x \in Att!Chains[f] : M(x) BY DEF M, HandlesOk
  <2>4. \A i \in DOMAIN f.sub : \A d \in Att!Chains[f.sub[i]] :
          M(<<f>> \o d) <=> Att!Handled(<<f>> \o d, T) /\ (<<f>> \o d)[Len(<<f>> \o d)].ok
    BY DEF M
  <2> QED BY <2>1, <2>2, <2>3, <2>4
<1>7. HandlesOk(f, T) <=>
        \/ f.type \in T /\ f.ok
        \/ f.type \in Att!Compressed /\ f.ok /\ \E i \in DOMAIN f.sub : HandlesOk(f.sub[i], T)
  BY <1>2, <1>6, HandledOne, HandledStep DEF HandlesOk
<1> QED BY <1>1, <1>5, <1>7
-----------------------------------------------------------------------------
(* What a file shows. *)
\* What Visible asks of a chain after k compressed files.
Inner(x, k) ==
  \A i \in k + 1..Len(x) - 1 :
     \/ x[i].type \in Att!Packed
     \/ i > k + 1 /\ x[i].type \in Att!Compressed /\ x[i - 1].type \in Att!Packed
          /\ i + 1 < Len(x) /\ x[i + 1].type \in Att!Packed

\* Visible, with what it asks after the compressed files.
LEMMA VisibleIs ==
  ASSUME NEW x
  PROVE  Att!Visible(x) <=>
           /\ x[Len(x)].type = "exe" /\ x[Len(x)].ok /\ \A i \in 1..Len(x) - 1 : Att!Opens(x[i])
           /\ \E k \in 0..Len(x) - 1 : (\A i \in 1..k : x[i].type \in Att!Compressed) /\ Inner(x, k)
BY DEF Att!Visible, Inner

\* When the first file is not compressed, to be visible is to be under it.
LEMMA VisibleHere ==
  ASSUME NEW f \in Att!Files, NEW x \in Att!Chains[f], f.type \notin Att!Compressed
  PROVE  Att!Visible(x) <=> Under(x)
<1> DEFINE n == Len(x)
<1>1. n \in Nat \ {0} /\ x[1] = f BY ChainFacts
<1>2. (\E k \in 0..n - 1 : (\A i \in 1..k : x[i].type \in Att!Compressed) /\ Inner(x, k)) <=> Inner(x, 0)
  <2>1. ASSUME NEW k \in 0..n - 1, \A i \in 1..k : x[i].type \in Att!Compressed PROVE k = 0
    <3>1. k # 0 => 1 \in 1..k BY <1>1
    <3> QED BY <1>1, <2>1, <3>1
  <2>2. 0 \in 0..n - 1 /\ 1..0 = {} BY <1>1
  <2> QED BY <2>1, <2>2
<1> DEFINE U == \A i \in 1..n - 1 :
                  \/ x[i].type \in Att!Packed
                  \/ /\ x[i].type \in Att!Compressed /\ i + 1 < n /\ x[i + 1].type \in Att!Packed
                     /\ i > 1 => x[i - 1].type \in Att!Packed
<1>3. Inner(x, 0) <=> U
  <2>1. Inner(x, 0) <=> \A i \in 1..n - 1 :
          \/ x[i].type \in Att!Packed
          \/ i > 1 /\ x[i].type \in Att!Compressed /\ x[i - 1].type \in Att!Packed
               /\ i + 1 < n /\ x[i + 1].type \in Att!Packed
    BY DEF Inner
  <2>2. \A i \in 1..n - 1 : i = 1 => x[i].type \notin Att!Compressed BY <1>1
  <2>3. \A i \in 1..n - 1 : i > 1 \/ i = 1 BY <1>1
  <2> HIDE DEF n
  <2> QED BY <2>1, <2>2, <2>3
<1>4. Att!Visible(x) <=> /\ x[n].type = "exe" /\ x[n].ok /\ \A i \in 1..n - 1 : Att!Opens(x[i])
                         /\ U
  BY <1>2, <1>3, VisibleIs
<1>5. Under(x) <=> /\ x[n].type = "exe" /\ x[n].ok /\ \A i \in 1..n - 1 : Att!Opens(x[i])
                   /\ U
  BY DEF Under
<1> QED BY <1>4, <1>5

\* A compressed file that opens shows what it holds.
LEMMA VisibleStep ==
  ASSUME NEW f \in Att!Files, NEW g \in Att!Files, NEW d \in Att!Chains[g], f.type \in Att!Compressed
  PROVE  Att!Visible(<<f>> \o d) <=> f.ok /\ Att!Visible(d)
<1> DEFINE y == <<f>> \o d
           n == Len(d)
           Gz(x) == x.type \in Att!Compressed
<1>1. d \in Seq(Att!Files) /\ n \in Nat \ {0} BY ChainFacts
<1>2. Len(y) = n + 1 /\ y[1] = f /\ \A i \in 1..n : y[i + 1] = d[i] BY <1>1, ConsFacts
<1>3. y[n + 1] = d[n]
  <2>1. n \in 1..n BY <1>1
  <2> QED BY <1>2, <2>1
<1>4. (n + 1) - 1 = n BY <1>1
<1>5. Gz(f) /\ ~(f.type \in Att!Packed) BY TypeSorts
<1>6. Att!Opens(f) <=> f.ok BY <1>5, TypeSorts DEF Att!Opens
<1> HIDE DEF y, n, Gz
<1>7. (\A i \in 1..n : Att!Opens(y[i])) <=> f.ok /\ \A i \in 1..n - 1 : Att!Opens(d[i])
  <2>1. ASSUME \A i \in 1..n : Att!Opens(y[i]) PROVE f.ok /\ \A i \in 1..n - 1 : Att!Opens(d[i])
    <3>1. 1 \in 1..n /\ \A i \in 1..n - 1 : i \in 1..n /\ i + 1 \in 1..n BY <1>1
    <3> QED BY <1>2, <1>6, <2>1, <3>1
  <2>2. ASSUME f.ok, \A i \in 1..n - 1 : Att!Opens(d[i]), NEW i \in 1..n PROVE Att!Opens(y[i])
    <3>1. CASE i = 1 BY <1>2, <1>6, <2>2, <3>1
    <3>2. CASE i # 1
      <4>1. i - 1 \in 1..n - 1 /\ i - 1 \in 1..n /\ (i - 1) + 1 = i BY <1>1, <3>2
      <4> QED BY <1>2, <2>2, <4>1
    <3> QED BY <3>1, <3>2
  <2> QED BY <2>1, <2>2
\* k compressed files in d are k + 1 in y.
<1>8. ASSUME NEW k \in 0..n - 1
      PROVE  /\ (\A i \in 1..k : Gz(d[i])) <=> \A i \in 1..k + 1 : Gz(y[i])
             /\ Inner(d, k) <=> Inner(y, k + 1)
  <2>0. k \in Nat /\ k + 1 \in 1..n /\ k <= n - 1 BY <1>1
  <2>1. ASSUME \A i \in 1..k : Gz(d[i]), NEW i \in 1..k + 1 PROVE Gz(y[i])
    <3>1. CASE i = 1 BY <1>2, <1>5, <3>1
    <3>2. CASE i # 1
      <4>1. i - 1 \in 1..k /\ i - 1 \in 1..n /\ (i - 1) + 1 = i BY <1>1, <2>0, <3>2
      <4> QED BY <1>2, <2>1, <4>1
    <3> QED BY <3>1, <3>2
  <2>2. ASSUME \A i \in 1..k + 1 : Gz(y[i]), NEW i \in 1..k PROVE Gz(d[i])
    <3>1. i \in 1..n /\ i + 1 \in 1..k + 1 BY <1>1, <2>0
    <3> QED BY <1>2, <2>2, <3>1
  <2>3. Inner(d, k) <=> \A i \in k + 1..n - 1 :
          \/ d[i].type \in Att!Packed
          \/ i > k + 1 /\ Gz(d[i]) /\ d[i - 1].type \in Att!Packed /\ i + 1 < n /\ d[i + 1].type \in Att!Packed
    BY DEF Inner, Gz, n
  <2>4. Inner(y, k + 1) <=> \A i \in (k + 1) + 1..n :
          \/ y[i].type \in Att!Packed
          \/ i > (k + 1) + 1 /\ Gz(y[i]) /\ y[i - 1].type \in Att!Packed /\ i + 1 < n + 1 /\ y[i + 1].type \in Att!Packed
    BY <1>2, <1>4 DEF Inner, Gz
  <2>5. ASSUME Inner(d, k), NEW i \in (k + 1) + 1..n
        PROVE  \/ y[i].type \in Att!Packed
               \/ i > (k + 1) + 1 /\ Gz(y[i]) /\ y[i - 1].type \in Att!Packed /\ i + 1 < n + 1 /\ y[i + 1].type \in Att!Packed
    <3> DEFINE j == i - 1
    <3>1. j \in k + 1..n - 1 /\ j \in 1..n /\ j + 1 \in 1..n /\ j + 1 = i BY <1>1, <2>0
    <3> HIDE DEF j
    <3>2. \/ d[j].type \in Att!Packed
          \/ j > k + 1 /\ Gz(d[j]) /\ d[j - 1].type \in Att!Packed /\ j + 1 < n /\ d[j + 1].type \in Att!Packed
      BY <2>3, <2>5, <3>1
    <3>3. y[i] = d[j] /\ y[i + 1] = d[j + 1] BY <1>2, <3>1
    <3>4. j > k + 1 => j - 1 \in 1..n /\ (j - 1) + 1 = j /\ i - 1 = j /\ i > (k + 1) + 1 BY <1>1, <2>0, <3>1
    <3>5. j > k + 1 => y[i - 1] = d[j - 1] BY <1>2, <3>4
    <3>6. j + 1 < n => i + 1 < n + 1 BY <1>1, <3>1
    <3> QED BY <3>2, <3>3, <3>4, <3>5, <3>6
  <2>6. ASSUME Inner(y, k + 1), NEW j \in k + 1..n - 1
        PROVE  \/ d[j].type \in Att!Packed
               \/ j > k + 1 /\ Gz(d[j]) /\ d[j - 1].type \in Att!Packed /\ j + 1 < n /\ d[j + 1].type \in Att!Packed
    <3> DEFINE i == j + 1
    <3>1. i \in (k + 1) + 1..n /\ j \in 1..n /\ i \in 1..n /\ i = j + 1 /\ i - 1 = j BY <1>1, <2>0
    <3> HIDE DEF i
    <3>2. \/ y[i].type \in Att!Packed
          \/ i > (k + 1) + 1 /\ Gz(y[i]) /\ y[i - 1].type \in Att!Packed /\ i + 1 < n + 1 /\ y[i + 1].type \in Att!Packed
      BY <2>4, <2>6, <3>1
    <3>3. y[i] = d[j] /\ y[i + 1] = d[j + 1] BY <1>2, <3>1
    <3>4. i > (k + 1) + 1 => j > k + 1 /\ j - 1 \in 1..n /\ (j - 1) + 1 = j BY <1>1, <2>0, <3>1
    <3>5. i > (k + 1) + 1 => y[i - 1] = d[j - 1] BY <1>2, <3>1, <3>4
    <3>6. i + 1 < n + 1 => j + 1 < n BY <1>1, <3>1
    <3> QED BY <3>1, <3>2, <3>3, <3>4, <3>5, <3>6
  <2> QED BY <2>1, <2>2, <2>3, <2>4, <2>5, <2>6
<1>9. (\E k \in 0..n : (\A i \in 1..k : Gz(y[i])) /\ Inner(y, k))
        <=> (\E k \in 0..n - 1 : (\A i \in 1..k : Gz(d[i])) /\ Inner(d, k))
  <2>1. ASSUME NEW k \in 0..n, \A i \in 1..k : Gz(y[i]), Inner(y, k)
        PROVE  \E m \in 0..n - 1 : (\A i \in 1..m : Gz(d[i])) /\ Inner(d, m)
    <3>1. k # 0
      <4>1. ASSUME k = 0 PROVE FALSE
        <5>1. 1 \in k + 1..Len(y) - 1 /\ ~(1 > k + 1) BY <1>1, <1>2, <4>1
        <5>2. y[1].type \in Att!Packed BY <2>1, <5>1 DEF Inner
        <5> QED BY <1>2, <1>5, <5>2
      <4> QED BY <4>1
    <3>2. k - 1 \in 0..n - 1 /\ (k - 1) + 1 = k BY <1>1, <3>1
    <3> QED BY <1>8, <2>1, <3>2
  <2>2. ASSUME NEW k \in 0..n - 1, \A i \in 1..k : Gz(d[i]), Inner(d, k)
        PROVE  \E m \in 0..n : (\A i \in 1..m : Gz(y[i])) /\ Inner(y, m)
    <3>1. k + 1 \in 0..n BY <1>1
    <3> QED BY <1>8, <2>2, <3>1
  <2> QED BY <2>1, <2>2
<1>10. Att!Visible(y) <=>
         /\ d[n].type = "exe" /\ d[n].ok /\ \A i \in 1..n : Att!Opens(y[i])
         /\ \E k \in 0..n : (\A i \in 1..k : Gz(y[i])) /\ Inner(y, k)
  BY <1>2, <1>3, <1>4, VisibleIs DEF Gz
<1>11. Att!Visible(d) <=>
         /\ d[n].type = "exe" /\ d[n].ok /\ \A i \in 1..n - 1 : Att!Opens(d[i])
         /\ \E k \in 0..n - 1 : (\A i \in 1..k : Gz(d[i])) /\ Inner(d, k)
  BY VisibleIs DEF Gz, n
<1> QED BY <1>7, <1>9, <1>10, <1>11 DEF y

\* A file that shows a program.
Sees(f) == \E x \in Att!Chains[f] : Att!Visible(x)

\* Sees, by the file in the file.
LEMMA SeesIs ==
  ASSUME NEW f \in Att!Files
  PROVE  Sees(f) <=> IF f.type \in Att!Compressed THEN f.ok /\ Sees(f.sub[1]) ELSE Holds(f)
<1>1. CASE f.type \in Att!Compressed
  <2>1. f.sub \in Seq(Att!Files) /\ DOMAIN f.sub = {1} BY <1>1, FileShape
  <2>2. f.sub[1] \in Att!Files BY <2>1
  <2>3. ~Att!Visible(<<f>>)
    <3>1. <<f>>[Len(<<f>>)] = f /\ f.type # "exe" BY <1>1, TypeSorts
    <3> QED BY <3>1, VisibleIs
  <2>4. \A x : x \in Att!Chains[f] <=> x = <<f>> \/ \E d \in Att!Chains[f.sub[1]] : x = <<f>> \o d
    BY <2>1, ChainCases
  <2>5. Sees(f) <=> \E d \in Att!Chains[f.sub[1]] : Att!Visible(<<f>> \o d)
    BY <2>3, <2>4 DEF Sees
  <2>6. \A d \in Att!Chains[f.sub[1]] : Att!Visible(<<f>> \o d) <=> f.ok /\ Att!Visible(d)
    BY <1>1, <2>2, VisibleStep
  <2> QED BY <1>1, <2>5, <2>6 DEF Sees
<1>2. CASE f.type \notin Att!Compressed
  <2>1. \A x \in Att!Chains[f] : Att!Visible(x) <=> Under(x) BY <1>2, VisibleHere
  <2> QED BY <1>2, <2>1 DEF Sees, Holds
<1> QED BY <1>1, <1>2
-----------------------------------------------------------------------------
(* What the answer says. *)
\* The layers of an analysis, as Flagged has them.
LayersOf(x) ==
  CHOOSE h : h = [n \in 0..Depth |-> IF n = 0 THEN x ELSE IF h[n - 1] = Att!Failed THEN Att!Failed ELSE h[n - 1].sub]

\* A layer that reports a program.
Shown(l) == l # Att!Failed /\ (l.exe \/ (l.archive # Att!Failed /\ l.archive.exe))

\* The layers of an analysis, one by one, and Flagged by them.
LEMMA LayersAre ==
  ASSUME NEW x
  PROVE  /\ LayersOf(x)[0] = x
         /\ \A n \in 0..Depth - 1 :
              LayersOf(x)[n + 1] = IF LayersOf(x)[n] = Att!Failed THEN Att!Failed ELSE LayersOf(x)[n].sub
         /\ Att!Flagged(x) <=> \E n \in 0..Depth : Shown(LayersOf(x)[n])
<1> DEFINE Def(g, i) == IF i = 0 THEN x ELSE IF g[i - 1] = Att!Failed THEN Att!Failed ELSE g[i - 1].sub
           P == {n \in Nat : \E g : g = [i \in 0..n |-> Def(g, i)]}
<1>0. Depth \in Nat BY DepthAssumption
<1>1. 0 \in P
  <2> DEFINE h == [i \in 0..0 |-> x]
  <2>1. h = [i \in 0..0 |-> Def(h, i)] OBVIOUS
  <2> HIDE DEF Def, h
  <2> QED BY <2>1
<1>2. ASSUME NEW n \in P PROVE n + 1 \in P
  <2>1. PICK g : g = [i \in 0..n |-> Def(g, i)] OBVIOUS
  <2> DEFINE h == [i \in 0..n + 1 |-> Def(g, i)]
  <2>2. \A i \in 0..n : h[i] = g[i]
    <3> HIDE DEF Def
    <3> QED BY <2>1
  <2>3. ASSUME NEW i \in 0..n + 1 PROVE Def(h, i) = Def(g, i)
    <3>1. CASE i = 0 BY <3>1
    <3>2. CASE i # 0
      <4>1. i - 1 \in 0..n BY <3>2
      <4>2. h[i - 1] = g[i - 1] BY <2>2, <4>1
      <4> HIDE DEF h
      <4> QED BY <4>2
    <3> QED BY <3>1, <3>2
  <2>4. h = [i \in 0..n + 1 |-> Def(h, i)]
    <3>1. h = [i \in 0..n + 1 |-> Def(g, i)] OBVIOUS
    <3> HIDE DEF h, Def
    <3> QED BY <2>3, <3>1
  <2>5. \E y : y = [i \in 0..n + 1 |-> Def(y, i)]
    <3> HIDE DEF h, Def
    <3> QED BY <2>4, Zenon
  <2>6. n + 1 \in Nat OBVIOUS
  <2> HIDE DEF Def
  <2> QED BY <2>5, <2>6
<1>3. P = Nat
  <2>1. P \in SUBSET Nat OBVIOUS
  <2> HIDE DEF P
  <2> QED BY <1>1, <1>2, <2>1, SetInduction
<1>4. \E g : g = [i \in 0..Depth |-> Def(g, i)] BY <1>0, <1>3
<1> DEFINE f == LayersOf(x)
<1>5. f = CHOOSE g : g = [i \in 0..Depth |-> Def(g, i)] BY DEF LayersOf
<1>6. Att!Flagged(x) <=> \E n \in 0..Depth : Shown(f[n]) BY DEF Att!Flagged, Shown, LayersOf
<1> HIDE DEF f
<1>7. \A i \in 0..Depth : f[i] = Def(f, i)
  <2> HIDE DEF Def
  <2>1. f = [i \in 0..Depth |-> Def(f, i)] BY <1>4, <1>5
  <2> QED BY <2>1
<1>8. f[0] = x BY <1>0, <1>7
<1>9. ASSUME NEW n \in 0..Depth - 1 PROVE f[n + 1] = IF f[n] = Att!Failed THEN Att!Failed ELSE f[n].sub
  <2>1. n + 1 \in 0..Depth /\ n + 1 # 0 /\ (n + 1) - 1 = n BY <1>0
  <2>2. f[n + 1] = Def(f, n + 1) BY <1>7, <2>1
  <2> QED BY <2>1, <2>2
<1> QED BY <1>6, <1>8, <1>9 DEF f

\* What failed has no layers.
LEMMA LayersOfFailed ==
  \A n \in 0..Depth : LayersOf(Att!Failed)[n] = Att!Failed
<1> DEFINE L == LayersOf(Att!Failed)
           P == {n \in Nat : n <= Depth => L[n] = Att!Failed}
<1>0. Depth \in Nat BY DepthAssumption
<1>1. L[0] = Att!Failed /\ \A n \in 0..Depth - 1 : L[n] = Att!Failed => L[n + 1] = Att!Failed BY LayersAre
<1> HIDE DEF L
<1>2. 0 \in P BY <1>1
<1>3. ASSUME NEW n \in P PROVE n + 1 \in P
  <2>1. n + 1 \in Nat /\ (n + 1 <= Depth => n \in 0..Depth - 1 /\ n <= Depth) BY <1>0
  <2> QED BY <1>1, <2>1
<1>4. P = Nat
  <2>1. P \in SUBSET Nat OBVIOUS
  <2> HIDE DEF P
  <2> QED BY <1>2, <1>3, <2>1, SetInduction
<1> QED BY <1>4 DEF L

\* The layers below the first are those of what lies below.
LEMMA LayersShift ==
  ASSUME NEW x, x # Att!Failed
  PROVE  \A n \in 0..Depth - 1 : LayersOf(x)[n + 1] = LayersOf(x.sub)[n]
<1> DEFINE L == LayersOf(x)
           M == LayersOf(x.sub)
           P == {n \in Nat : n <= Depth - 1 => L[n + 1] = M[n]}
<1>0. Depth \in Nat \ {0} BY DepthAssumption
<1>1. L[0] = x /\ \A n \in 0..Depth - 1 : L[n + 1] = IF L[n] = Att!Failed THEN Att!Failed ELSE L[n].sub BY LayersAre
<1>2. M[0] = x.sub /\ \A n \in 0..Depth - 1 : M[n + 1] = IF M[n] = Att!Failed THEN Att!Failed ELSE M[n].sub BY LayersAre
<1> HIDE DEF L, M
<1>3. 0 \in P
  <2>1. 0 \in 0..Depth - 1 /\ 0 + 1 = 1 BY <1>0
  <2>2. L[0 + 1] = x.sub BY <1>1, <2>1
  <2> QED BY <1>2, <2>2
<1>4. ASSUME NEW n \in P PROVE n + 1 \in P
  <2>1. n + 1 \in Nat BY <1>0
  <2>2. ASSUME n + 1 <= Depth - 1 PROVE L[(n + 1) + 1] = M[n + 1]
    <3>1. n \in 0..Depth - 1 /\ n + 1 \in 0..Depth - 1 BY <1>0, <2>2
    <3>2. L[n + 1] = M[n] BY <3>1
    <3> QED BY <1>1, <1>2, <3>1, <3>2
  <2> QED BY <2>1, <2>2
<1>5. P = Nat
  <2>1. P \in SUBSET Nat OBVIOUS
  <2> HIDE DEF P
  <2> QED BY <1>3, <1>4, <2>1, SetInduction
<1> QED BY <1>5 DEF L, M

\* What the analysis of a file says, by that of the file in it.
LEMMA AnalysisFields ==
  ASSUME NEW f \in Att!Files, NEW tool
  PROVE  LET A(x) == Att!AnalyseAttachment(x, tool)
             open == f.type \in Att!Compressed /\ f.ok
         IN /\ A(f) # Att!Failed
            /\ A(f).archive = IF f.type \in Att!Packed THEN Att!AnalyzeArchive[f] ELSE Att!Failed
            /\ A(f).sub = IF open THEN A(f.sub[1]) ELSE Att!Failed
            /\ A(f).exe <=> f.type = "exe" \/ (open /\ A(f.sub[1]).exe)
            /\ A(f).panic <=> \/ (f.type = "exe" \/ (f.type = "doc" /\ f.ok)) /\ ~tool
                              \/ open /\ A(f.sub[1]).panic
<1> DEFINE A(x) == Att!AnalyseAttachment(x, tool)
           open == f.type \in Att!Compressed /\ f.ok
<1>1. ASSUME NEW g \in Att!Files PROVE A(g) # Att!Failed
  <2>1. PICK h : A(g) = AnalysisOf(h, g, tool) BY AnalysisIs
  <2>2. AnalysisOf(h, g, tool).err = FALSE BY DEF AnalysisOf
  <2>3. Att!Failed.err = TRUE BY DEF Att!Failed
  <2> QED BY <2>1, <2>2, <2>3
<1>2. open => f.sub[1] \in Att!Files BY AnalysisIs
<1>3. PICK h : A(f) = AnalysisOf(h, f, tool) /\ \A x \in Att!Files : h[x] = A(x) BY AnalysisIs
<1>4. open => h[f.sub[1]] = A(f.sub[1]) /\ A(f.sub[1]) # Att!Failed BY <1>1, <1>2, <1>3
<1> DEFINE inner == IF open THEN h[f.sub[1]] ELSE Att!Failed
           panic == (f.type = "exe" \/ (f.type = "doc" /\ f.ok)) /\ ~tool
           R == AnalysisOf(h, f, tool)
<1>5. /\ R.archive = IF f.type \in Att!Packed THEN Att!AnalyzeArchive[f] ELSE Att!Failed
      /\ R.sub = inner
      /\ R.exe <=> f.type = "exe" \/ (inner # Att!Failed /\ inner.exe)
      /\ R.panic <=> panic \/ (inner # Att!Failed /\ inner.panic)
  BY DEF AnalysisOf
<1>6. A(f) = R BY <1>3
<1>7. A(f) # Att!Failed BY <1>1
<1> HIDE DEF A, R
<1>8. CASE open
  <2>1. inner = A(f.sub[1]) /\ inner # Att!Failed BY <1>4, <1>8
  <2> HIDE DEF inner
  <2> QED BY <1>5, <1>6, <1>7, <1>8, <2>1 DEF A
<1>9. CASE ~open
  <2>1. inner = Att!Failed BY <1>9
  <2> HIDE DEF inner, open
  <2>2. /\ A(f).sub = Att!Failed /\ (A(f).exe <=> f.type = "exe") /\ (A(f).panic <=> panic)
        /\ A(f).archive = IF f.type \in Att!Packed THEN Att!AnalyzeArchive[f] ELSE Att!Failed
    BY <1>5, <1>6, <2>1
  <2> QED BY <1>7, <1>9, <2>2 DEF A, open
<1> QED BY <1>8, <1>9

\* What an attachment shows: a program that can be seen, or it is one.
Reports(f) == Sees(f) \/ Handles(f, {"exe"})

\* Reports, by the file in the file.
LEMMA ReportsIs ==
  ASSUME NEW f \in Att!Files
  PROVE  Reports(f) <=> IF f.type \in Att!Compressed THEN f.ok /\ Reports(f.sub[1])
                        ELSE f.type = "exe" \/ (f.type \in Att!Packed /\ ReadsExe(f))
<1>1. {"exe"} \cap Att!Compressed = {} BY TypeSorts
<1>2. Handles(f, {"exe"}) <=> IF f.type \in Att!Compressed THEN f.ok /\ Handles(f.sub[1], {"exe"}) ELSE f.type = "exe"
  BY <1>1, HandlesIs
<1>3. Sees(f) <=> IF f.type \in Att!Compressed THEN f.ok /\ Sees(f.sub[1]) ELSE Holds(f) BY SeesIs
<1>4. CASE f.type \in Att!Compressed BY <1>2, <1>3, <1>4 DEF Reports
<1>5. CASE f.type \notin Att!Compressed
  <2>1. Holds(f) <=> \/ f.type = "exe" /\ f.ok
                     \/ f.type \in Att!Packed /\ Att!Opens(f) /\ \E i \in DOMAIN f.sub : Holds(f.sub[i])
    BY <1>5, HoldsIs
  <2>2. f.type \in Att!Packed => (ReadsExe(f) <=> Holds(f)) BY ArchiveSees
  <2> QED BY <1>2, <1>3, <1>5, <2>1, <2>2, TypeSorts DEF Reports
<1> QED BY <1>4, <1>5

\* Some layer reports a program exactly when the file shows one.
LEMMA LayersReport ==
  ASSUME NEW tool
  PROVE  \A m \in 0..Depth : \A f \in Att!FilesTo[m] : \A N \in m..Depth :
           (\E n \in 0..N : Shown(LayersOf(Att!AnalyseAttachment(f, tool))[n])) <=> Reports(f)
<1> DEFINE A(x) == Att!AnalyseAttachment(x, tool)
           Claim(f, N) == (\E n \in 0..N : Shown(LayersOf(A(f))[n])) <=> Reports(f)
           P == {m \in Nat : m <= Depth => \A f \in Att!FilesTo[m] : \A N \in m..Depth : Claim(f, N)}
<1>0. Depth \in Nat BY DepthAssumption
<1>1. ASSUME NEW m \in 0..Depth, NEW f \in Att!FilesTo[m], NEW N \in m..Depth,
             \A g \in InnerFiles(m) : Claim(g, N - 1)
      PROVE  Claim(f, N)
  <2> DEFINE open == f.type \in Att!Compressed /\ f.ok
             L == LayersOf(A(f))
  <2>0. f \in Att!Files /\ N \in Nat BY <1>0, <1>1, FilesIn
  <2>1. /\ A(f) # Att!Failed
        /\ A(f).archive = IF f.type \in Att!Packed THEN Att!AnalyzeArchive[f] ELSE Att!Failed
        /\ A(f).sub = IF open THEN A(f.sub[1]) ELSE Att!Failed
        /\ A(f).exe <=> f.type = "exe" \/ (open /\ A(f.sub[1]).exe)
    BY <2>0, AnalysisFields
  <2>2. L[0] = A(f) BY LayersAre
  <2>3. \A n \in 0..Depth - 1 : L[n + 1] = LayersOf(A(f).sub)[n] BY <2>1, LayersShift
  <2>4. Reports(f) <=> IF f.type \in Att!Compressed THEN f.ok /\ Reports(f.sub[1])
                       ELSE f.type = "exe" \/ (f.type \in Att!Packed /\ ReadsExe(f))
    BY <2>0, ReportsIs
  <2>5. Claim(f, N) <=> ((\E n \in 0..N : Shown(L[n])) <=> Reports(f)) OBVIOUS
  <2>6. ~Shown(Att!Failed) BY DEF Shown
  <2>7. CASE open
    <3> DEFINE g == f.sub[1]
               M == LayersOf(A(g))
    <3>1. g \in InnerFiles(m) BY <2>7, FileFacts
    <3>2. m # 0 /\ N # 0 /\ N - 1 \in 0..Depth BY <1>0, <3>1 DEF InnerFiles
    <3>3. Claim(g, N - 1) BY <1>1, <3>1
    <3>4. (\E n \in 0..N - 1 : Shown(M[n])) <=> Reports(g) BY <3>3
    <3>5. M[0] = A(g) BY LayersAre
    <3>6. A(g) # Att!Failed
      <4>1. m - 1 \in 0..Depth /\ InnerFiles(m) = Att!FilesTo[m - 1] BY <1>0, <3>2 DEF InnerFiles
      <4>2. g \in Att!Files
        <5> HIDE DEF g
        <5> QED BY <3>1, <4>1, FilesIn
      <4> QED BY <4>2, AnalysisFields
    <3>7. ~(f.type \in Att!Packed) /\ f.type # "exe" BY <2>7, TypeSorts
    <3> HIDE DEF A, g
    <3>8. /\ A(f) # Att!Failed /\ A(f).archive = Att!Failed /\ A(f).sub = A(g) /\ (A(f).exe <=> A(g).exe)
      BY <2>1, <2>7, <3>7 DEF g
    <3>9. \A n \in 0..N - 1 : L[n + 1] = M[n]
      <4> HIDE DEF L, M
      <4>1. \A n \in 0..N - 1 : n \in 0..Depth - 1 BY <1>0, <2>0
      <4> QED BY <2>3, <3>8, <4>1 DEF M
    <3>10. Shown(L[0]) => Shown(M[0]) BY <2>2, <3>5, <3>6, <3>8 DEF Shown
    <3> HIDE DEF L, M
    <3>11. (\E n \in 0..N : Shown(L[n])) <=> (\E n \in 0..N - 1 : Shown(M[n]))
      <4>1. ASSUME NEW n \in 0..N, Shown(L[n]) PROVE \E k \in 0..N - 1 : Shown(M[k])
        <5>1. CASE n = 0
          <6>1. 0 \in 0..N - 1 BY <2>0, <3>2
          <6> QED BY <3>10, <4>1, <5>1, <6>1
        <5>2. CASE n # 0
          <6>1. n - 1 \in 0..N - 1 /\ (n - 1) + 1 = n BY <2>0, <5>2
          <6>2. Shown(M[n - 1]) BY <3>9, <4>1, <6>1
          <6> QED BY <6>1, <6>2
        <5> QED BY <5>1, <5>2
      <4>2. ASSUME NEW n \in 0..N - 1, Shown(M[n]) PROVE \E k \in 0..N : Shown(L[k])
        <5>1. n + 1 \in 0..N BY <2>0
        <5> QED BY <3>9, <4>2, <5>1
      <4> QED BY <4>1, <4>2
    <3> QED BY <2>4, <2>5, <2>7, <3>4, <3>11 DEF g
  <2>8. CASE ~open
    <3> HIDE DEF A
    <3>1. /\ A(f) # Att!Failed /\ A(f).sub = Att!Failed /\ (A(f).exe <=> f.type = "exe")
          /\ A(f).archive = IF f.type \in Att!Packed THEN Att!AnalyzeArchive[f] ELSE Att!Failed
      BY <2>1, <2>8
    <3>2. \A n \in 0..Depth - 1 : L[n + 1] = Att!Failed
      <4> HIDE DEF L
      <4>1. \A n \in 0..Depth - 1 : n \in 0..Depth BY <1>0
      <4> QED BY <2>3, <3>1, <4>1, LayersOfFailed
    <3> HIDE DEF L
    <3>3. (\E n \in 0..N : Shown(L[n])) <=> Shown(A(f))
      <4>1. ASSUME NEW n \in 0..N, n # 0 PROVE ~Shown(L[n])
        <5>1. n - 1 \in 0..Depth - 1 /\ (n - 1) + 1 = n BY <1>0, <2>0, <4>1
        <5> QED BY <2>6, <3>2, <5>1
      <4>2. 0 \in 0..N BY <2>0
      <4> QED BY <2>2, <4>1, <4>2
    <3>4. Shown(A(f)) <=> f.type = "exe" \/ (f.type \in Att!Packed /\ ReadsExe(f))
      <4> DEFINE ar == A(f).archive
      <4>1. Shown(A(f)) <=> f.type = "exe" \/ (ar # Att!Failed /\ ar.exe) BY <3>1 DEF Shown
      <4>2. ar = IF f.type \in Att!Packed THEN Att!AnalyzeArchive[f] ELSE Att!Failed BY <3>1
      <4> HIDE DEF ar
      <4>3. CASE f.type \in Att!Packed BY <4>1, <4>2, <4>3 DEF ReadsExe
      <4>4. CASE ~(f.type \in Att!Packed) BY <4>1, <4>2, <4>4
      <4> QED BY <4>3, <4>4
    <3>5. Reports(f) <=> f.type = "exe" \/ (f.type \in Att!Packed /\ ReadsExe(f))
      <4>1. CASE f.type \in Att!Compressed
        <5>1. ~f.ok /\ ~(f.type \in Att!Packed) /\ f.type # "exe" BY <2>8, <4>1, TypeSorts
        <5> QED BY <2>4, <4>1, <5>1
      <4>2. CASE f.type \notin Att!Compressed BY <2>4, <4>2
      <4> QED BY <4>1, <4>2
    <3> QED BY <2>5, <3>3, <3>4, <3>5
  <2> QED BY <2>7, <2>8
<1> HIDE DEF Claim
<1>2. 0 \in P
  <2>1. 0 \in 0..Depth /\ InnerFiles(0) = {} BY <1>0 DEF InnerFiles
  <2> QED BY <1>1, <2>1
<1>3. ASSUME NEW m \in P PROVE m + 1 \in P
  <2>0. m \in Nat /\ m + 1 \in Nat OBVIOUS
  <2>1. ASSUME m + 1 <= Depth, NEW f \in Att!FilesTo[m + 1], NEW N \in m + 1..Depth PROVE Claim(f, N)
    <3>1. m + 1 \in 0..Depth /\ m <= Depth /\ m + 1 # 0 /\ (m + 1) - 1 = m /\ N - 1 \in m..Depth
      BY <1>0, <2>0, <2>1
    <3>2. \A g \in InnerFiles(m + 1) : Claim(g, N - 1) BY <3>1 DEF InnerFiles
    <3> QED BY <1>1, <2>1, <3>1, <3>2
  <2> QED BY <2>0, <2>1
<1>4. P = Nat
  <2>1. P \in SUBSET Nat OBVIOUS
  <2> HIDE DEF P
  <2> QED BY <1>2, <1>3, <2>1, SetInduction
<1>5. \A m \in 0..Depth : \A f \in Att!FilesTo[m] : \A N \in m..Depth : Claim(f, N) BY <1>0, <1>4
<1> QED BY <1>5 DEF Claim

\* The answer reports a program exactly when the file shows one.
LEMMA FlaggedReports ==
  ASSUME NEW tool, NEW f \in Att!Files
  PROVE  Att!Flagged(Att!AnalyseAttachment(f, tool)) <=> Reports(f)
<1>1. Depth \in 0..Depth /\ Depth \in Depth..Depth /\ f \in Att!FilesTo[Depth] BY DepthAssumption DEF Att!Files
<1>2. (\E n \in 0..Depth : Shown(LayersOf(Att!AnalyseAttachment(f, tool))[n])) <=> Reports(f)
  BY <1>1, LayersReport
<1> QED BY <1>2, LayersAre

\* A program is reported exactly when nothing broken and no compression
\* inside an archive hides it (AnalyseAttachment).
LEMMA ExecutablesAreSeenAll ==
  ASSUME NEW tool, NEW f \in Att!Files
  PROVE  Att!ExecutablesAreSeen(f, Att!AnalyseAttachment(f, tool))
BY FlaggedReports DEF Att!ExecutablesAreSeen, Reports, Sees, Handles

\* Without exiftool a program or a document kills the process, alone or
\* compressed, and nothing else does.
LEMMA PanicsWithoutToolAll ==
  ASSUME NEW tool \in BOOLEAN
  PROVE  \A f \in Att!Files : Att!PanicsWithoutTool(f, tool, Att!AnalyseAttachment(f, tool))
<1> DEFINE A(x) == Att!AnalyseAttachment(x, tool)
           Dies(x) == Handles(x, {"exe"}) \/ HandlesOk(x, {"doc"})
           Claim(x) == A(x).panic <=> ~tool /\ Dies(x)
           G == {x \in Att!Files : Claim(x)}
<1>1. ASSUME NEW f \in Att!Files, \A i \in DOMAIN f.sub : f.sub[i] \in G PROVE f \in G
  <2> DEFINE open == f.type \in Att!Compressed /\ f.ok
  <2>1. A(f).panic <=> \/ (f.type = "exe" \/ (f.type = "doc" /\ f.ok)) /\ ~tool
                       \/ open /\ A(f.sub[1]).panic
    BY AnalysisFields
  <2>2. {"exe"} \cap Att!Compressed = {} /\ {"doc"} \cap Att!Compressed = {} BY TypeSorts
  <2>3. Handles(f, {"exe"}) <=> IF f.type \in Att!Compressed THEN f.ok /\ Handles(f.sub[1], {"exe"}) ELSE f.type = "exe"
    BY <2>2, HandlesIs
  <2>4. HandlesOk(f, {"doc"}) <=> IF f.type \in Att!Compressed THEN f.ok /\ HandlesOk(f.sub[1], {"doc"})
                                  ELSE f.type = "doc" /\ f.ok
    BY <2>2, HandlesIs
  <2>5. f.type \in Att!Compressed => 1 \in DOMAIN f.sub BY FileShape
  <2>6. f.type \in Att!Compressed => Claim(f.sub[1]) BY <1>1, <2>5
  <2> HIDE DEF A
  <2>7. CASE f.type \in Att!Compressed
    <3>1. f.type # "exe" /\ f.type # "doc" BY <2>7, TypeSorts
    <3>2. A(f).panic <=> f.ok /\ A(f.sub[1]).panic BY <2>1, <2>7, <3>1
    <3> QED BY <1>1, <2>3, <2>4, <2>6, <2>7, <3>2
  <2>8. CASE f.type \notin Att!Compressed BY <1>1, <2>1, <2>3, <2>4, <2>8
  <2> QED BY <2>7, <2>8
<1>2. Att!Files \subseteq G
  <2> HIDE DEF G
  <2> QED BY <1>1, FileInduction
<1>3. ASSUME NEW f \in Att!Files PROVE Att!PanicsWithoutTool(f, tool, A(f))
  <2>1. A(f).panic <=> ~tool /\ Dies(f) BY <1>2
  <2>2. Dies(f) <=> \E x \in Att!Chains[f] : Att!Handled(x, {"exe"}) \/ (Att!Handled(x, {"doc"}) /\ x[Len(x)].ok)
    BY DEF Handles, HandlesOk
  <2> HIDE DEF A, Dies
  <2> QED BY <2>1, <2>2 DEF Att!PanicsWithoutTool
<1> QED BY <1>3

\* A file more in an archive hides no program that was reported.
LEMMA MoreIsSeenAll ==
  ASSUME NEW tool, NEW f \in Att!Files, NEW extra \in Att!FilesTo[Depth - 1]
  PROVE  Att!MoreIsSeen(f, extra, tool)
<1> DEFINE more == [f EXCEPT !.sub = Append(@, extra)]
<1> SUFFICES ASSUME f.type \in Att!Packed, extra.ok, Att!Flagged(Att!AnalyseAttachment(f, tool))
             PROVE  Att!Flagged(Att!AnalyseAttachment(more, tool))
  BY DEF Att!MoreIsSeen
<1>0. Depth \in Nat \ {0} /\ Depth \in 0..Depth /\ InnerFiles(Depth) = Att!FilesTo[Depth - 1]
  BY DepthAssumption DEF InnerFiles
<1>1. ~(f.type \in Att!Compressed) /\ f.type # "exe" BY TypeSorts
<1>2. /\ f \in [type : Att!Types, ok : BOOLEAN, sub : Seq(InnerFiles(Depth))]
      /\ Att!Files = FilesOf(InnerFiles(Depth))
  <2>1. Att!Files = FilesOf(InnerFiles(Depth)) BY <1>0, FilesToIs DEF Att!Files
  <2>2. f \notin [type : Att!Compressed, ok : BOOLEAN, sub : [1..1 -> InnerFiles(Depth)]] BY <1>1
  <2> QED BY <2>1, <2>2 DEF FilesOf
<1> DEFINE inner == InnerFiles(Depth)
           subs == f.sub
           T == Seq(inner)
<1>3. /\ subs \in Seq(inner) /\ extra \in inner BY <1>0, <1>2
<1>4. Append(subs, extra) \in Seq(inner)
  <2> HIDE DEF inner, subs
  <2> QED BY <1>3
<1>5. more = [type |-> f.type, ok |-> f.ok, sub |-> Append(subs, extra)]
  <2>1. f \in [type : Att!Types, ok : BOOLEAN, sub : T] BY <1>2
  <2> HIDE DEF T
  <2>2. f = [type |-> f.type, ok |-> f.ok, sub |-> f.sub] BY <2>1
  <2> QED BY <2>2
<1>6. /\ more.type = f.type /\ more.ok = f.ok /\ more.sub = Append(subs, extra)
  <2> DEFINE s == Append(subs, extra)
  <2>1. more = [type |-> f.type, ok |-> f.ok, sub |-> s] BY <1>5
  <2> HIDE DEF s, more
  <2> QED BY <2>1 DEF s
<1>7. more \in Att!Files
  <2>1. f.type \in Att!Types /\ f.ok \in BOOLEAN BY <1>2
  <2>2. more \in [type : Att!Types, ok : BOOLEAN, sub : T]
    <3> DEFINE s == Append(subs, extra)
    <3>1. s \in T /\ more = [type |-> f.type, ok |-> f.ok, sub |-> s] BY <1>4, <1>5
    <3> HIDE DEF s, T, more
    <3> QED BY <2>1, <3>1
  <2> QED BY <1>2, <2>2 DEF FilesOf
<1> HIDE DEF more
<1>8. Att!Opens(f) /\ \E i \in DOMAIN f.sub : f.sub[i].ok /\ EntryExe(f.sub[i])
  BY <1>1, ArchiveReads, FlaggedReports, ReportsIs
<1>9. /\ DOMAIN Append(subs, extra) = DOMAIN subs \cup {Len(subs) + 1}
      /\ Append(subs, extra)[Len(subs) + 1] = extra
      /\ \A i \in DOMAIN subs : Append(subs, extra)[i] = subs[i]
  <2> HIDE DEF inner, subs
  <2> QED BY <1>3
<1>10. Att!Opens(more)
  <2>1. f.ok /\ (f.type \in {"tar", "rar"} => \A i \in DOMAIN subs : subs[i].ok) BY <1>8 DEF Att!Opens
  <2>2. f.type \in {"tar", "rar"} => \A i \in DOMAIN Append(subs, extra) : Append(subs, extra)[i].ok BY <1>9, <2>1
  <2> QED BY <1>6, <2>1, <2>2 DEF Att!Opens
<1>11. \E i \in DOMAIN more.sub : more.sub[i].ok /\ EntryExe(more.sub[i]) BY <1>6, <1>8, <1>9
<1>12. ReadsExe(more) BY <1>6, <1>7, <1>10, <1>11, ArchiveReads
<1>13. Reports(more) BY <1>1, <1>6, <1>7, <1>12, ReportsIs
<1> QED BY <1>7, <1>13, FlaggedReports
=============================================================================
