---------------------------- MODULE EnvTextProofs ----------------------------
(***************************************************************************)
(* For any keys, styles and bounds: what the commands make of the texts of *)
(* .env and .env.up, and what is read back from them.                      *)
(*                                                                         *)
(* Everything is said of a constant w, the lines that the user has written *)
(* (Text, Fits, FitFile), so that a lemma about a conversion knows nothing *)
(* of states; what the user adds to w only makes it say less (Growing).    *)
(* The invariant is Sound: .env and the text in .env.up are such texts,    *)
(* and the latter agrees with the entries beside it.                       *)
(***************************************************************************)
EXTENDS EnvText, SequenceTheorems, WellFoundedInduction, TLAPS

-----------------------------------------------------------------------------
(* Numbers *)

LEMMA Least ==
  ASSUME NEW S, S \subseteq Nat, S # {}
  PROVE  \E x \in S : \A y \in S : x <= y
<1> DEFINE R == OpToRel(<, Nat)
<1>1. IsWellFoundedOn(R, Nat)
  BY NatLessThanWellFounded
<1> HIDE DEF R
<1>2. PICK x \in S : \A y \in S : <<y, x>> \notin R
  BY <1>1, WFMin
<1>3. ASSUME NEW y \in S PROVE x <= y
  <2>1. <<y, x>> \notin R
    BY <1>2
  <2>2. ~(y < x)
    BY <2>1 DEF R, OpToRel
  <2> QED BY <2>2
<1> QED BY <1>3

LEMMA MinOf ==
  ASSUME NEW n \in Nat, NEW S, S \subseteq 1 .. n, S # {}
  PROVE  Min(S) \in S /\ \A x \in S : Min(S) <= x
<1>1. \E x \in S : \A y \in S : x <= y
  <2>1. S \subseteq Nat
    OBVIOUS
  <2> QED BY <2>1, Least
<1> QED BY <1>1 DEF Min

LEMMA MaxOf ==
  ASSUME NEW n \in Nat, NEW S, S \subseteq 1 .. n, S # {}
  PROVE  Max(S) \in S /\ \A x \in S : x <= Max(S)
<1> DEFINE T == {i \in Nat : n - i \in S}
<1>1. T # {}
  <2>1. PICK x \in S : TRUE
    OBVIOUS
  <2>2. n - (n - x) = x /\ n - x \in Nat
    OBVIOUS
  <2> QED BY <2>1, <2>2
<1>2. PICK i \in T : \A j \in T : i <= j
  BY <1>1, Least
<1>3. n - i \in S /\ \A x \in S : n - i >= x
  <2>1. ASSUME NEW x \in S PROVE n - i >= x
    <3>1. n - x \in T
      <4>1. n - (n - x) = x /\ n - x \in Nat
        OBVIOUS
      <4> QED BY <4>1
    <3> QED BY <3>1, <1>2
  <2> QED BY <2>1, <1>2
<1> QED BY <1>3 DEF Max

\* Induction, for a set of numbers.
LEMMA Upwards ==
  ASSUME NEW n \in Nat, NEW T, 1 \in T, \A m \in 1 .. n - 1 : m \in T => m + 1 \in T
  PROVE  1 .. n \subseteq T
<1> DEFINE U == (1 .. n) \ T
<1>1. SUFFICES ASSUME U # {} PROVE FALSE
  OBVIOUS
<1>2. PICK x \in U : \A y \in U : x <= y
  <2>1. U \subseteq Nat
    OBVIOUS
  <2> HIDE DEF U
  <2> QED BY <1>1, <2>1, Least
<1>3. x # 1 /\ x - 1 \in 1 .. n - 1
  BY <1>2
<1>4. x - 1 \in T
  BY <1>2, <1>3
<1> QED BY <1>2, <1>3, <1>4

-----------------------------------------------------------------------------
(* Sequences made of sequences *)

LEMMA ConcatAt ==
  ASSUME NEW S, NEW s \in Seq(S), NEW t \in Seq(S)
  PROVE  /\ Len(s) \in Nat /\ Len(t) \in Nat
         /\ s \o t \in Seq(S) /\ Len(s \o t) = Len(s) + Len(t)
         /\ \A i \in 1 .. Len(s) : (s \o t)[i] = s[i]
         /\ \A i \in 1 .. Len(t) : (s \o t)[Len(s) + i] = t[i]
BY ConcatProperties

\* off says how much of the flat sequence F the first i of ss make.
Offsets(ss, F, off) ==
  /\ off \in [0 .. Len(ss) -> Nat] /\ off[0] = 0 /\ Len(F) = off[Len(ss)]
  /\ \A i \in 1 .. Len(ss) : off[i] = off[i - 1] + Len(ss[i])
  /\ \A i, j \in 0 .. Len(ss) : i <= j => off[i] <= off[j]
  /\ \A i \in 1 .. Len(ss) : \A j \in 1 .. Len(ss[i]) : F[off[i - 1] + j] = ss[i][j]
  /\ \A p \in 1 .. Len(F) : \E i \in 1 .. Len(ss) : \E j \in 1 .. Len(ss[i]) : p = off[i - 1] + j

LEMMA OffsetsAppend ==
  ASSUME NEW S, NEW ss \in Seq(Seq(S)), NEW s \in Seq(S), NEW F \in Seq(S), NEW off,
         Offsets(ss, F, off)
  PROVE  \E o : Offsets(Append(ss, s), F \o s, o)
<1> DEFINE n == Len(ss)
           o == [i \in 0 .. n + 1 |-> IF i = n + 1 THEN off[n] + Len(s) ELSE off[i]]
           tt == Append(ss, s)
           G == F \o s
<1>1. /\ n \in Nat /\ Len(tt) = n + 1
      /\ \A i \in 1 .. n + 1 : tt[i] = IF i = n + 1 THEN s ELSE ss[i]
  BY AppendProperties
<1>2. /\ off \in [0 .. n -> Nat] /\ off[0] = 0 /\ Len(F) = off[n]
      /\ \A i \in 1 .. n : off[i] = off[i - 1] + Len(ss[i])
      /\ \A i, j \in 0 .. n : i <= j => off[i] <= off[j]
  BY DEF Offsets
<1>3. \A i \in 1 .. n : \A j \in 1 .. Len(ss[i]) : F[off[i - 1] + j] = ss[i][j]
  BY DEF Offsets
<1>4. \A p \in 1 .. Len(F) : \E i \in 1 .. n : \E j \in 1 .. Len(ss[i]) : p = off[i - 1] + j
  BY DEF Offsets
<1>5. /\ Len(s) \in Nat /\ Len(F) \in Nat /\ Len(G) = Len(F) + Len(s)
      /\ \A p \in 1 .. Len(F) : G[p] = F[p]
      /\ \A j \in 1 .. Len(s) : G[Len(F) + j] = s[j]
  BY ConcatAt
<1>6. \A i \in 1 .. n : Len(ss[i]) \in Nat
  OBVIOUS
<1>7. o \in [0 .. n + 1 -> Nat] /\ o[0] = 0 /\ Len(G) = o[n + 1]
  BY <1>1, <1>2, <1>5
<1>8. \A i \in 0 .. n : o[i] = off[i]
  BY <1>1
<1>81. o[n + 1] = off[n] + Len(s)
  BY <1>1
<1> HIDE DEF o, tt, G, n
<1>9. \A i \in 1 .. n + 1 : o[i] = o[i - 1] + Len(tt[i])
  <2> TAKE i \in 1 .. n + 1
  <2>1. CASE i = n + 1
    BY <2>1, <1>1, <1>8, <1>81
  <2>2. CASE i \in 1 .. n
    <3>1. i \in 0 .. n /\ i - 1 \in 0 .. n /\ tt[i] = ss[i]
      BY <2>2, <1>1
    <3> QED BY <2>2, <3>1, <1>2, <1>8
  <2> QED BY <1>1, <2>1, <2>2
<1>10. \A i, j \in 0 .. n + 1 : i <= j => o[i] <= o[j]
  <2> SUFFICES ASSUME NEW i \in 0 .. n + 1, NEW j \in 0 .. n + 1, i <= j PROVE o[i] <= o[j]
    OBVIOUS
  <2>1. CASE j \in 0 .. n
    <3>1. i \in 0 .. n
      BY <2>1, <1>1
    <3> QED BY <2>1, <3>1, <1>2, <1>8
  <2>2. CASE j = n + 1 /\ i \in 0 .. n
    BY <2>2, <1>1, <1>2, <1>5, <1>8, <1>81
  <2>3. CASE j = n + 1 /\ i = n + 1
    BY <2>3, <1>7, <1>1
  <2> QED BY <1>1, <2>1, <2>2, <2>3
<1>11. \A i \in 1 .. n + 1 : \A j \in 1 .. Len(tt[i]) : G[o[i - 1] + j] = tt[i][j]
  <2> SUFFICES ASSUME NEW i \in 1 .. n + 1, NEW j \in 1 .. Len(tt[i])
               PROVE  G[o[i - 1] + j] = tt[i][j]
    OBVIOUS
  <2>1. CASE i = n + 1
    BY <2>1, <1>1, <1>2, <1>5, <1>8
  <2>2. CASE i \in 1 .. n
    <3>1. tt[i] = ss[i] /\ o[i - 1] = off[i - 1] /\ i - 1 \in 0 .. n /\ i \in 0 .. n
      BY <2>2, <1>1, <1>8
    <3>2. off[i - 1] \in Nat /\ off[i] \in Nat /\ off[i] <= Len(F)
      BY <2>2, <3>1, <1>2, <1>1
    <3>3. j \in 1 .. Len(ss[i]) /\ Len(ss[i]) \in Nat /\ off[i] = off[i - 1] + Len(ss[i])
      BY <2>2, <3>1, <1>2, <1>6
    <3>4. off[i - 1] + j \in 1 .. Len(F)
      BY <3>2, <3>3, <1>5
    <3> QED BY <2>2, <3>1, <3>3, <3>4, <1>3, <1>5
  <2> QED BY <1>1, <2>1, <2>2
<1>12. \A p \in 1 .. Len(G) : \E i \in 1 .. n + 1 : \E j \in 1 .. Len(tt[i]) : p = o[i - 1] + j
  <2> TAKE p \in 1 .. Len(G)
  <2>1. CASE p \in 1 .. Len(F)
    <3>1. PICK i \in 1 .. n : \E j \in 1 .. Len(ss[i]) : p = off[i - 1] + j
      BY <2>1, <1>4
    <3>2. i \in 1 .. n + 1 /\ tt[i] = ss[i] /\ o[i - 1] = off[i - 1]
      BY <1>1, <1>8
    <3> QED BY <3>1, <3>2
  <2>2. CASE p \in Len(F) + 1 .. Len(G)
    <3>1. p - Len(F) \in 1 .. Len(s) /\ p = o[n] + (p - Len(F)) /\ tt[n + 1] = s
      BY <2>2, <1>1, <1>2, <1>5, <1>8
    <3>2. n + 1 \in 1 .. n + 1 /\ (n + 1) - 1 = n
      BY <1>1
    <3> QED BY <3>1, <3>2
  <2> QED BY <2>1, <2>2, <1>5
<1>13. Offsets(tt, G, o)
  BY <1>1, <1>7, <1>9, <1>10, <1>11, <1>12 DEF Offsets
<1> QED BY <1>13 DEF tt, G


Flattens(f, ss, m) ==
  f = [i \in 1 .. m |-> IF i = 1 THEN ss[i] ELSE f[i - 1] \o ss[i]]

LEMMA FlattensAt ==
  ASSUME NEW f, NEW ss, NEW m \in Nat, Flattens(f, ss, m)
  PROVE  \A i \in 1 .. m : f[i] = IF i = 1 THEN ss[i] ELSE f[i - 1] \o ss[i]
BY DEF Flattens

LEMMA FlattenExists ==
  ASSUME NEW ss, NEW n \in Nat
  PROVE  \E f : Flattens(f, ss, n)
<1> DEFINE T == {m \in 1 .. n : \E f : Flattens(f, ss, m)}
<1>1. CASE n = 0
  <2> DEFINE e == [i \in 1 .. n |-> ss[i]]
  <2>1. Flattens(e, ss, n)
    BY <1>1 DEF Flattens
  <2> QED BY <2>1
<1>2. CASE n \in Nat \ {0}
  <2>1. 1 \in T
    <3> DEFINE e == [i \in 1 .. 1 |-> ss[i]]
    <3>1. Flattens(e, ss, 1)
      BY DEF Flattens
    <3> QED BY <1>2, <3>1
  <2>2. ASSUME NEW m \in 1 .. n - 1, m \in T PROVE m + 1 \in T
    <3>1. PICK f : Flattens(f, ss, m)
      BY <2>2
    <3>2. \A i \in 1 .. m : f[i] = IF i = 1 THEN ss[i] ELSE f[i - 1] \o ss[i]
      BY <3>1, FlattensAt
    <3> DEFINE g == [i \in 1 .. m + 1 |-> IF i = m + 1 THEN f[m] \o ss[m + 1] ELSE f[i]]
    <3>0. m \in Nat /\ m + 1 \in 1 .. m + 1 /\ \A i \in 1 .. m : i \in 1 .. m + 1 /\ i # m + 1
      OBVIOUS
    <3>3. /\ \A i \in 1 .. m : g[i] = f[i]
          /\ g[m + 1] = f[m] \o ss[m + 1]
      BY <3>0
    <3>31. g = [i \in 1 .. m + 1 |-> g[i]]
      OBVIOUS
    <3> HIDE DEF g
    <3>4. \A i \in 1 .. m + 1 : g[i] = IF i = 1 THEN ss[i] ELSE g[i - 1] \o ss[i]
      <4> TAKE i \in 1 .. m + 1
      <4>1. CASE i \in 1 .. m
        <5>1. i # 1 => i - 1 \in 1 .. m
          BY <4>1
        <5> QED BY <3>2, <3>3, <4>1, <5>1
      <4>2. CASE i = m + 1
        <5>1. m \in 1 .. m /\ i # 1 /\ i - 1 = m
          BY <4>2
        <5> QED BY <3>3, <4>2, <5>1
      <4> QED BY <4>1, <4>2
    <3>5. Flattens(g, ss, m + 1)
      BY <3>0, <3>31, <3>4 DEF Flattens
    <3> QED BY <1>2, <3>5
  <2>3. n \in T
    <3> HIDE DEF T
    <3>1. 1 .. n \subseteq T
      BY <1>2, <2>1, <2>2, Upwards
    <3> QED BY <1>2, <3>1
  <2> QED BY <2>3
<1> QED BY <1>1, <1>2

LEMMA FlattenIs ==
  ASSUME NEW S, NEW ss \in Seq(Seq(S)), Len(ss) # 0
  PROVE  \E f : Flattens(f, ss, Len(ss)) /\ FlattenSeq(ss) = f[Len(ss)]
<1>1. Len(ss) \in Nat
  OBVIOUS
<1> DEFINE F == CHOOSE f : Flattens(f, ss, Len(ss))
<1>2. Flattens(F, ss, Len(ss))
  BY <1>1, FlattenExists
<1>3. FlattenSeq(ss) = F[Len(ss)]
  BY DEF FlattenSeq, Flattens
<1> HIDE DEF F
<1> QED BY <1>2, <1>3

LEMMA OffsetsOne ==
  ASSUME NEW S, NEW s \in Seq(S)
  PROVE  \E off : Offsets(<<s>>, s, off)
<1> DEFINE off == [i \in 0 .. 1 |-> IF i = 1 THEN Len(s) ELSE 0]
<1>1. Len(<<s>>) = 1 /\ <<s>>[1] = s /\ Len(s) \in Nat
  OBVIOUS
<1>2. off[0] = 0 /\ off[1] = Len(s) /\ off \in [0 .. 1 -> Nat]
  BY <1>1
<1> HIDE DEF off
<1>3. \A i \in 1 .. 1 : off[i] = off[i - 1] + Len(<<s>>[i])
  BY <1>1, <1>2
<1>4. \A i, j \in 0 .. 1 : i <= j => off[i] <= off[j]
  BY <1>1, <1>2
<1>5. \A i \in 1 .. 1 : \A j \in 1 .. Len(<<s>>[i]) : s[off[i - 1] + j] = <<s>>[i][j]
  BY <1>1, <1>2
<1>6. \A p \in 1 .. Len(s) : \E i \in 1 .. 1 : \E j \in 1 .. Len(<<s>>[i]) : p = off[i - 1] + j
  BY <1>1, <1>2
<1>7. Offsets(<<s>>, s, off)
  BY <1>1, <1>2, <1>3, <1>4, <1>5, <1>6 DEF Offsets
<1> QED BY <1>7

LEMMA SubSeqFirst ==
  ASSUME NEW S, NEW ss \in Seq(S), Len(ss) # 0
  PROVE  SubSeq(ss, 1, 1) = <<ss[1]>>
<1> DEFINE s == SubSeq(ss, 1, 1)
           t == <<ss[1]>>
<1>1. s \in Seq(S) /\ t \in Seq(S)
  OBVIOUS
<1>2. Len(s) = 1 /\ s[1] = ss[1] /\ Len(t) = 1 /\ t[1] = ss[1]
  OBVIOUS
<1> HIDE DEF s, t
<1>3. s = t
  BY <1>1, <1>2, SeqEqual
<1> QED BY <1>3 DEF s, t

LEMMA Flatten ==
  ASSUME NEW S, NEW ss \in Seq(Seq(S))
  PROVE  FlattenSeq(ss) \in Seq(S) /\ \E off : Offsets(ss, FlattenSeq(ss), off)
<1>1. CASE Len(ss) = 0
  <2> DEFINE off == [i \in 0 .. 0 |-> 0]
  <2>1. ss = <<>>
    BY <1>1
  <2>2. FlattenSeq(ss) = ss
    BY <1>1 DEF FlattenSeq
  <2>3. Offsets(<<>>, <<>>, off)
    BY DEF Offsets
  <2> QED BY <2>1, <2>2, <2>3
<1>2. CASE Len(ss) # 0
  <2> DEFINE n == Len(ss)
  <2>0. n \in Nat \ {0}
    BY <1>2
  <2>1. PICK F : Flattens(F, ss, n) /\ FlattenSeq(ss) = F[n]
    BY <1>2, FlattenIs
  <2>2. \A i \in 1 .. n : F[i] = IF i = 1 THEN ss[i] ELSE F[i - 1] \o ss[i]
    BY <2>0, <2>1, FlattensAt
  <2> DEFINE Good(m) == F[m] \in Seq(S) /\ \E off : Offsets(SubSeq(ss, 1, m), F[m], off)
             T == {m \in 1 .. n : Good(m)}
  <2>3. Good(1)
    <3>1. F[1] = ss[1] /\ ss[1] \in Seq(S)
      BY <2>0, <2>2
    <3>2. SubSeq(ss, 1, 1) = <<ss[1]>>
      BY <2>0, <3>1, SubSeqFirst
    <3>3. \E off : Offsets(<<ss[1]>>, ss[1], off)
      BY <3>1, OffsetsOne
    <3> QED BY <3>1, <3>2, <3>3
  <2>4. ASSUME NEW m \in 1 .. n - 1, Good(m) PROVE Good(m + 1)
    <3>1. F[m + 1] = F[m] \o ss[m + 1]
      <4>1. m + 1 \in 1 .. n /\ m + 1 # 1 /\ (m + 1) - 1 = m
        BY <2>0
      <4> QED BY <2>2, <4>1
    <3>2. SubSeq(ss, 1, m + 1) = Append(SubSeq(ss, 1, m), ss[m + 1])
      BY <2>0
    <3>3. SubSeq(ss, 1, m) \in Seq(Seq(S)) /\ ss[m + 1] \in Seq(S)
      BY <2>0
    <3>4. F[m] \in Seq(S)
      BY <2>4
    <3>5. PICK off : Offsets(SubSeq(ss, 1, m), F[m], off)
      BY <2>4
    <3>6. \E o : Offsets(Append(SubSeq(ss, 1, m), ss[m + 1]), F[m] \o ss[m + 1], o)
      BY <3>3, <3>4, <3>5, OffsetsAppend
    <3>7. F[m + 1] \in Seq(S)
      BY <3>1, <3>3, <3>4
    <3> QED BY <3>1, <3>2, <3>6, <3>7
  <2>5. Good(n)
    <3> HIDE DEF Good
    <3>1. 1 \in T /\ \A m \in 1 .. n - 1 : m \in T => m + 1 \in T
      BY <2>0, <2>3, <2>4
    <3> HIDE DEF T
    <3>2. 1 .. n \subseteq T
      BY <2>0, <3>1, Upwards
    <3> QED BY <2>0, <3>2 DEF T
  <2>6. SubSeq(ss, 1, n) = ss
    OBVIOUS
  <2> QED BY <2>1, <2>5, <2>6
<1> QED BY <1>1, <1>2

LEMMA OffsetsUnique ==
  ASSUME NEW S, NEW ss \in Seq(Seq(S)), NEW F, NEW off, Offsets(ss, F, off),
         NEW h \in 1 .. Len(ss), NEW i \in 1 .. Len(ss),
         NEW g \in 1 .. Len(ss[h]), NEW j \in 1 .. Len(ss[i]), off[h - 1] + g = off[i - 1] + j
  PROVE  h = i /\ g = j
<1>1. Len(ss) \in Nat /\ Len(ss[h]) \in Nat /\ Len(ss[i]) \in Nat
  OBVIOUS
<1>2. h \in 0 .. Len(ss) /\ i \in 0 .. Len(ss) /\ h - 1 \in 0 .. Len(ss) /\ i - 1 \in 0 .. Len(ss)
  BY <1>1
<1>3. /\ off[h - 1] \in Nat /\ off[i - 1] \in Nat /\ off[h] \in Nat /\ off[i] \in Nat
      /\ off[h] = off[h - 1] + Len(ss[h]) /\ off[i] = off[i - 1] + Len(ss[i])
  BY <1>2 DEF Offsets
<1>4. CASE h = i
  BY <1>3, <1>4
<1>5. CASE h < i
  <2>1. off[h] <= off[i - 1]
    BY <1>1, <1>2, <1>5 DEF Offsets
  <2>2. PICK a \in Nat, b \in Nat, c \in Nat, m \in Nat :
          a = off[h - 1] /\ b = off[i - 1] /\ c = off[h] /\ m = Len(ss[h])
    BY <1>1, <1>3
  <2>3. c <= b /\ c = a + m /\ a + g = b + j /\ g <= m /\ g \in Nat /\ j \in Nat /\ 1 <= j
    BY <2>1, <2>2, <1>1, <1>3
  <2> QED BY <2>3
<1>6. CASE i < h
  <2>1. off[i] <= off[h - 1]
    BY <1>1, <1>2, <1>6 DEF Offsets
  <2>2. PICK a \in Nat, b \in Nat, c \in Nat, m \in Nat :
          a = off[h - 1] /\ b = off[i - 1] /\ c = off[i] /\ m = Len(ss[i])
    BY <1>1, <1>3
  <2>3. c <= a /\ c = b + m /\ a + g = b + j /\ j <= m /\ j \in Nat /\ g \in Nat /\ 1 <= g
    BY <2>1, <2>2, <1>1, <1>3
  <2> QED BY <2>3
<1> QED BY <1>2, <1>4, <1>5, <1>6

\* Line p of T is line nth[p] of the paragraph of the key of[p].
Places(paragraph, T, of, nth) ==
  /\ of \in [1 .. Len(T) -> Key \cap DOMAIN paragraph]
  /\ nth \in [1 .. Len(T) -> Nat]
  /\ \A p \in 1 .. Len(T) :
       /\ nth[p] \in 1 .. Len(paragraph[of[p]]) /\ T[p] = paragraph[of[p]][nth[p]]
       /\ nth[p] > 1 => p > 1 /\ of[p - 1] = of[p] /\ nth[p - 1] = nth[p] - 1
  /\ \A p, q \in 1 .. Len(T) : of[p] = of[q] /\ nth[p] = nth[q] => p = q
  /\ \A k \in Key \cap DOMAIN paragraph : \A j \in 1 .. Len(paragraph[k]) :
       \E p \in 1 .. Len(T) : of[p] = k /\ nth[p] = j

LEMMA KeyAt ==
  /\ Len(KeyOrder) \in Nat
  /\ \A i \in 1 .. Len(KeyOrder) : KeyOrder[i] \in Key
  /\ \A k \in Key : \E i \in 1 .. Len(KeyOrder) : k = KeyOrder[i]
  /\ \A i, j \in 1 .. Len(KeyOrder) : KeyOrder[i] = KeyOrder[j] => i = j
<1>1. DOMAIN KeyOrder = 1 .. Len(KeyOrder) /\ Len(KeyOrder) \in Nat
  BY TextAssumption, LenProperties
<1>2. /\ \A i \in 1 .. Len(KeyOrder) : KeyOrder[i] \in Key
      /\ \A k \in Key : \E i \in 1 .. Len(KeyOrder) : k = KeyOrder[i]
  BY <1>1 DEF Key, Range
<1>3. \A i, j \in 1 .. Len(KeyOrder) : KeyOrder[i] = KeyOrder[j] => i = j
  BY <1>1, TextAssumption DEF IsInjective
<1> QED BY <1>1, <1>2, <1>3

LEMMA InOrderPlaces ==
  ASSUME NEW S, NEW paragraph, \A k \in Key \cap DOMAIN paragraph : paragraph[k] \in Seq(S)
  PROVE  /\ InOrder(paragraph) \in Seq(S)
         /\ \E of, nth : Places(paragraph, InOrder(paragraph), of, nth)
<1> DEFINE n == Len(KeyOrder)
           ss == [i \in 1 .. n |-> IF KeyOrder[i] \in DOMAIN paragraph
                                   THEN paragraph[KeyOrder[i]] ELSE <<>>]
           T == InOrder(paragraph)
<1>1. /\ \A i \in 1 .. n : KeyOrder[i] \in DOMAIN paragraph => ss[i] = paragraph[KeyOrder[i]]
      /\ \A i \in 1 .. n : KeyOrder[i] \notin DOMAIN paragraph => ss[i] = <<>>
  OBVIOUS
<1>2. ss \in Seq(Seq(S)) /\ Len(ss) = n
  <2>1. \A i \in 1 .. n : ss[i] \in Seq(S)
    BY <1>1, KeyAt
  <2> QED BY <2>1, KeyAt
<1>3. T = FlattenSeq(ss)
  BY DEF InOrder
<1> HIDE DEF ss, T
<1>4. T \in Seq(S)
  BY <1>2, <1>3, Flatten
<1>5. PICK off : Offsets(ss, T, off)
  BY <1>2, <1>3, Flatten
<1>6. /\ off \in [0 .. n -> Nat]
      /\ \A i \in 1 .. n : \A j \in 1 .. Len(ss[i]) : T[off[i - 1] + j] = ss[i][j]
      /\ \A p \in 1 .. Len(T) : \E i \in 1 .. n : \E j \in 1 .. Len(ss[i]) : p = off[i - 1] + j
  BY <1>2, <1>5 DEF Offsets
<1> DEFINE at == [p \in 1 .. Len(T) |->
                    CHOOSE i \in 1 .. n : \E j \in 1 .. Len(ss[i]) : p = off[i - 1] + j]
           of == [p \in 1 .. Len(T) |-> KeyOrder[at[p]]]
           nth == [p \in 1 .. Len(T) |-> p - off[at[p] - 1]]
<1>7. \A p \in 1 .. Len(T) : at[p] \in 1 .. n /\ p - off[at[p] - 1] \in 1 .. Len(ss[at[p]])
  <2> TAKE p \in 1 .. Len(T)
  <2>1. at[p] \in 1 .. n /\ \E j \in 1 .. Len(ss[at[p]]) : p = off[at[p] - 1] + j
    BY <1>6
  <2> HIDE DEF at
  <2>2. off[at[p] - 1] \in Nat
    BY <1>6, <2>1, KeyAt
  <2>3. Len(ss[at[p]]) \in Nat
    BY <1>2, <2>1
  <2> QED BY <2>1, <2>2, <2>3
<1> HIDE DEF at
<1>8. \A p \in 1 .. Len(T) :
        /\ of[p] \in Key \cap DOMAIN paragraph
        /\ ss[at[p]] = paragraph[of[p]]
  <2> SUFFICES ASSUME NEW p \in 1 .. Len(T)
               PROVE  of[p] \in Key \cap DOMAIN paragraph /\ ss[at[p]] = paragraph[of[p]]
    OBVIOUS
  <2>1. ss[at[p]] # <<>>
    BY <1>7
  <2> QED BY <2>1, <1>1, <1>7, KeyAt
<1>9. \A p \in 1 .. Len(T) :
        /\ off[at[p] - 1] \in Nat /\ nth[p] \in Nat
        /\ p = off[at[p] - 1] + nth[p]
        /\ nth[p] \in 1 .. Len(ss[at[p]])
  <2> TAKE p \in 1 .. Len(T)
  <2>1. at[p] - 1 \in 0 .. n
    BY <1>7, KeyAt
  <2> QED BY <2>1, <1>6, <1>7
<1>10. of \in [1 .. Len(T) -> Key \cap DOMAIN paragraph] /\ nth \in [1 .. Len(T) -> Nat]
  BY <1>8, <1>9
<1>11. \A p, q \in 1 .. Len(T) : of[p] = of[q] => at[p] = at[q]
  BY <1>7, KeyAt
<1> HIDE DEF of, nth
<1>12. \A p \in 1 .. Len(T) : T[p] = paragraph[of[p]][nth[p]]
  <2> TAKE p \in 1 .. Len(T)
  <2>1. T[off[at[p] - 1] + nth[p]] = ss[at[p]][nth[p]]
    BY <1>6, <1>7, <1>9
  <2> QED BY <2>1, <1>8, <1>9
<1>13. ASSUME NEW p \in 1 .. Len(T), nth[p] > 1
       PROVE  p > 1 /\ of[p - 1] = of[p] /\ nth[p - 1] = nth[p] - 1
  <2>1. p - 1 \in 1 .. Len(T) /\ nth[p] - 1 \in 1 .. Len(ss[at[p]])
    BY <1>4, <1>9, <1>13
  <2>2. PICK h \in 1 .. n, i \in 1 .. n : h = at[p - 1] /\ i = at[p]
    BY <2>1, <1>7
  <2>3. PICK g \in Nat, j \in Nat : g = nth[p - 1] /\ j = nth[p]
    BY <2>1, <1>9
  <2>4. PICK a \in Nat, b \in Nat : a = off[h - 1] /\ b = off[i - 1]
    BY <2>1, <2>2, <1>9
  <2>5. /\ p - 1 = a + g /\ p = b + j /\ p \in Nat
        /\ g \in 1 .. Len(ss[h]) /\ j - 1 \in 1 .. Len(ss[i])
    BY <2>1, <2>2, <2>3, <2>4, <1>4, <1>9
  <2>6. PICK m \in 1 .. Len(ss[i]) : m = j - 1
    BY <2>5
  <2>7. a + g = b + m
    BY <2>5, <2>6
  <2>8. off[h - 1] + g = off[i - 1] + m
    BY <2>4, <2>7
  <2>9. h \in 1 .. Len(ss) /\ i \in 1 .. Len(ss) /\ g \in 1 .. Len(ss[h])
    BY <2>5, <1>2
  <2>10. h = i /\ g = m
    BY <2>8, <2>9, <1>2, <1>5, OffsetsUnique
  <2>11. of[p - 1] = of[p]
    BY <2>1, <2>2, <2>10 DEF of
  <2>12. nth[p - 1] = nth[p] - 1
    BY <2>3, <2>6, <2>10
  <2> QED BY <2>1, <2>11, <2>12, <1>4
<1>14. \A p, q \in 1 .. Len(T) : of[p] = of[q] /\ nth[p] = nth[q] => p = q
  BY <1>9, <1>11
<1>15. ASSUME NEW k \in Key \cap DOMAIN paragraph, NEW j \in 1 .. Len(paragraph[k])
       PROVE  \E p \in 1 .. Len(T) : of[p] = k /\ nth[p] = j
  <2>1. PICK i \in 1 .. n : KeyOrder[i] = k
    BY KeyAt
  <2>2. ss[i] = paragraph[k] /\ j \in 1 .. Len(ss[i]) /\ Len(ss[i]) \in Nat
    BY <2>1, <1>1, <1>2
  <2>3. n \in Nat /\ i - 1 \in 0 .. n /\ i \in 0 .. n /\ n \in 0 .. n
    BY KeyAt
  <2>4. PICK a \in Nat, b \in Nat : a = off[i - 1] /\ b = off[i]
    BY <2>3, <1>6
  <2>5. b = a + Len(ss[i]) /\ b <= Len(T)
    BY <2>3, <2>4, <1>2, <1>5 DEF Offsets
  <2>6. PICK p \in 1 .. Len(T) : p = a + j
    BY <2>2, <2>5, <1>4
  <2>7. PICK h \in 1 .. n : h = at[p] /\ nth[p] \in 1 .. Len(ss[h])
    BY <2>6, <1>7, <1>9
  <2>71. PICK g \in 1 .. Len(ss[h]) : g = nth[p]
    BY <2>7
  <2>8. off[h - 1] + g = off[i - 1] + j
    BY <2>4, <2>6, <2>7, <2>71, <1>9
  <2>9. h = i /\ g = j
    BY <2>2, <2>71, <2>8, <1>2, <1>5, OffsetsUnique
  <2> QED BY <2>1, <2>6, <2>7, <2>71, <2>9 DEF of
<1>16. Places(paragraph, T, of, nth)
  BY <1>8, <1>9, <1>10, <1>12, <1>13, <1>14, <1>15 DEF Places
<1> QED BY <1>4, <1>16 DEF T

\* L are the lines of t at the places I, line p of L the one at from[p].
Picked(t, I, L, from) ==
  /\ from \in [1 .. Len(L) -> I]
  /\ \A p \in 1 .. Len(L) : L[p] = t[from[p]]
  /\ \A p, q \in 1 .. Len(L) : from[p] = from[q] => p = q
  /\ \A i \in I : \E p \in 1 .. Len(L) : from[p] = i

LEMMA LinesAtPlaces ==
  ASSUME NEW S, NEW t \in Seq(S), NEW I, I \subseteq 1 .. Len(t)
  PROVE  /\ LinesAt(t, I) \in Seq(S)
         /\ \E from : Picked(t, I, LinesAt(t, I), from)
<1> DEFINE n == Len(t)
           ss == [i \in 1 .. n |-> IF i \in I THEN <<t[i]>> ELSE <<>>]
           L == LinesAt(t, I)
<1>1. \A i \in 1 .. n : ss[i] = IF i \in I THEN <<t[i]>> ELSE <<>>
  OBVIOUS
<1>2. ss \in Seq(Seq(S)) /\ Len(ss) = n
  OBVIOUS
<1>3. L = FlattenSeq(ss)
  BY LenProperties DEF LinesAt
<1> HIDE DEF ss, L
<1>4. L \in Seq(S)
  BY <1>2, <1>3, Flatten
<1>5. PICK off : Offsets(ss, L, off)
  BY <1>2, <1>3, Flatten
<1>6. /\ off \in [0 .. n -> Nat] /\ Len(L) = off[n]
      /\ \A i \in 1 .. n : off[i] = off[i - 1] + Len(ss[i])
      /\ \A i, j \in 0 .. n : i <= j => off[i] <= off[j]
      /\ \A i \in 1 .. n : \A j \in 1 .. Len(ss[i]) : L[off[i - 1] + j] = ss[i][j]
      /\ \A p \in 1 .. Len(L) : \E i \in 1 .. n : \E j \in 1 .. Len(ss[i]) : p = off[i - 1] + j
  BY <1>2, <1>5 DEF Offsets
<1>7. \A i \in 1 .. n :
        /\ i \in I => Len(ss[i]) = 1 /\ ss[i][1] = t[i]
        /\ i \notin I => Len(ss[i]) = 0
  <2> TAKE i \in 1 .. n
  <2>1. CASE i \in I
    <3>1. ss[i] = <<t[i]>>
      BY <1>1, <2>1
    <3> QED BY <3>1, <2>1
  <2>2. CASE i \notin I
    <3>1. ss[i] = <<>>
      BY <1>1, <2>2
    <3> QED BY <3>1, <2>2
  <2> QED BY <2>1, <2>2
<1>8. \A p \in 1 .. Len(L) : \E i \in I : p = off[i - 1] + 1
  <2> TAKE p \in 1 .. Len(L)
  <2>1. PICK i \in 1 .. n : \E j \in 1 .. Len(ss[i]) : p = off[i - 1] + j
    BY <1>6
  <2>2. i \in I /\ Len(ss[i]) = 1
    BY <2>1, <1>7
  <2> QED BY <2>1, <2>2
<1> DEFINE from == [p \in 1 .. Len(L) |-> CHOOSE i \in I : p = off[i - 1] + 1]
<1>9. \A p \in 1 .. Len(L) : from[p] \in I /\ p = off[from[p] - 1] + 1
  BY <1>8
<1>10. from \in [1 .. Len(L) -> I]
  BY <1>9
<1> HIDE DEF from
<1>11. \A p \in 1 .. Len(L) : L[p] = t[from[p]]
  <2> TAKE p \in 1 .. Len(L)
  <2>1. PICK i \in I : i = from[p] /\ p = off[i - 1] + 1
    BY <1>9
  <2>2. i \in 1 .. n /\ Len(ss[i]) = 1 /\ ss[i][1] = t[i] /\ 1 \in 1 .. Len(ss[i])
    BY <2>1, <1>7
  <2>3. L[off[i - 1] + 1] = ss[i][1]
    BY <2>2, <1>6
  <2> QED BY <2>1, <2>2, <2>3
<1>12. \A p, q \in 1 .. Len(L) : from[p] = from[q] => p = q
  BY <1>9
<1>13. ASSUME NEW i \in I PROVE \E p \in 1 .. Len(L) : from[p] = i
  <2> DEFINE p == off[i - 1] + 1
  <2>1. i \in 1 .. n /\ n \in Nat /\ i - 1 \in 0 .. n /\ i \in 0 .. n /\ n \in 0 .. n
    OBVIOUS
  <2>2. Len(ss[i]) = 1 /\ off[i] = off[i - 1] + 1 /\ off[i - 1] \in Nat
    BY <2>1, <1>6, <1>7
  <2>3. off[i] <= Len(L) /\ off[n] = Len(L)
    BY <2>1, <1>6
  <2>4. p \in 1 .. Len(L)
    BY <2>2, <2>3, <1>4
  <2>5. PICK h \in I : h = from[p] /\ p = off[h - 1] + 1
    BY <2>4, <1>9
  <2>6. h \in 1 .. n /\ 1 \in 1 .. Len(ss[h]) /\ 1 \in 1 .. Len(ss[i])
    BY <2>1, <2>2, <1>7
  <2>7. h = i
    BY <2>1, <2>5, <2>6, <1>2, <1>5, OffsetsUnique
  <2> QED BY <2>4, <2>5, <2>7
<1>14. Picked(t, I, L, from)
  BY <1>10, <1>11, <1>12, <1>13 DEF Picked
<1> QED BY <1>4, <1>14 DEF L

-----------------------------------------------------------------------------
(* What every text has in common, given the lines w that the user has written *)

MeantBy(w, k) ==
  {ReadLine(<<l, l>>, 2) : l \in {x \in w : x.form \in OneLine /\ x.key = k}}
  \cup {l.val : l \in {x \in w : x.form = "open" /\ x.key = k}}

Several(w, k) == \E v \in MeantBy(w, k) : HasLineBreak(Expand(v))
Hashed(w, k) == \E v \in MeantBy(w, k) : v.kind = "hash"

\* The values that conversions make of what the user has written for k.
Kinds(w, k) ==
  IF Several(w, k)
  THEN {"word", "spaced", "quote", "hash", "escape", "lines",
        "cut", "expanded", "head", "splice"}
  ELSE {"word", "spaced", "quote"} \cup (IF Hashed(w, k) THEN {"hash", "cut"} ELSE {})

Fits(w, k) == [kind : Kinds(w, k), of : Key]

Assigning(l) == l.form \notin {"note", "rest"}

FitLine(w, l) ==
  /\ l \in Lines
  /\ l.form = "rest" => l.key = NoKey
  /\ Assigning(l) => l.key \in Key /\ l.val \in Fits(w, l.key)
  /\ l.form = "open" => Several(w, l.key)
  /\ l.form = "colon" => l \in w

\* Of two lines that assign a key the first is the one with a colon.
OneEach(t) ==
  \A i, j \in 1 .. Len(t) :
    (i < j /\ Assigning(t[i]) /\ Assigning(t[j]) /\ t[i].key = t[j].key)
      => t[i].form = "colon" /\ HasEquals(t[j])

\* The rest of a value stands behind a line of a key whose value had one.
RestBehind(w, t) ==
  \A i \in 1 .. Len(t) :
    t[i].form = "rest" => i > 1 /\ HasEquals(t[i - 1]) /\ Several(w, t[i - 1].key)

Text(w, t) ==
  /\ t \in Seq(Lines)
  /\ \A i \in 1 .. Len(t) : FitLine(w, t[i])
  /\ OneEach(t) /\ RestBehind(w, t)

Apart(w) == \A j, k \in Key : Several(w, j) /\ Several(w, k) => j = k

Partial(V) == UNION {[K -> V] : K \in SUBSET Key}

Files ==
  [entries : Partial(Values), raw : Seq(Lines) \cup {NoText},
   clear : SUBSET (Values \cup {NoValue}), rows : Partial(1 .. MaxVersion),
   slice : (SUBSET Key) \cup {NoSlice}]

FitEntries(w, e) == e \in Partial(Values) /\ \A k \in DOMAIN e : e[k] \in Fits(w, k)

FitFile(w, u) ==
  /\ u \in Files
  /\ FitEntries(w, u.entries)
  /\ u.raw # NoText => Text(w, u.raw)
  /\ DOMAIN u.entries \subseteq DOMAIN u.rows
  /\ u.slice # NoSlice => u.slice \subseteq DOMAIN u.rows

TextInvariant ==
  /\ written \subseteq Lines
  /\ env # NoFile => Text(written, env)
  /\ up # NoFile => FitFile(written, up)

-----------------------------------------------------------------------------
(* Reading a text *)

\* What dotenv makes of a line with all of a value on it.
Said(l) == ReadLine(<<l, l>>, 2)

LEMMA SaidIs ==
  ASSUME NEW t, NEW i, t[i].form \in OneLine
  PROVE  /\ ReadLine(t, i) = Said(t[i])
         /\ Said(t[i]) = IF t[i].form \in {"bare", "colon"} THEN Cut(t[i].val)
                         ELSE IF t[i].form = "single" THEN t[i].val ELSE Expand(t[i].val)
<1>1. <<t[i], t[i]>>[2] = t[i]
  OBVIOUS
<1> QED BY <1>1 DEF ReadLine, Said, OneLine

LEMMA LineForm ==
  ASSUME NEW w, NEW l, FitLine(w, l), Assigning(l)
  PROVE  /\ l.form \in OneLine \cup {"open"} /\ l.key \in Key /\ l.val \in Fits(w, l.key)
         /\ l.form = "open" => Several(w, l.key)
         /\ HasEquals(l) <=> l.form # "colon"
BY DEF FitLine, Assigning, Lines, OneLine, HasEquals

LEMMA ReadingFits ==
  ASSUME NEW w, NEW t, Text(w, t), NEW i \in 1 .. Len(t), Assigning(t[i])
  PROVE  ReadLine(t, i) \in Fits(w, t[i].key)
<1> DEFINE l == t[i]
<1>1. FitLine(w, l)
  BY DEF Text
<1>2. /\ l.form \in OneLine \cup {"open"} /\ l.val \in Fits(w, l.key)
      /\ l.form = "open" => Several(w, l.key)
  BY <1>1, LineForm
<1>3. l.val.kind \in Kinds(w, l.key) /\ l.val.of \in Key
  BY <1>2 DEF Fits
<1>4. CASE l.form = "open"
  BY <1>2, <1>3, <1>4 DEF ReadLine, Fits, Kinds, Value
<1>5. CASE l.form \in OneLine
  <2>1. Cut(l.val) \in Fits(w, l.key)
    BY <1>2, <1>3 DEF Cut, Fits, Kinds, Value
  <2>2. Expand(l.val) \in Fits(w, l.key)
    BY <1>2, <1>3 DEF Expand, Fits, Kinds, Value
  <2>3. ReadLine(t, i) \in {Cut(l.val), Expand(l.val), l.val}
    BY <1>5, SaidIs
  <2> QED BY <1>2, <2>1, <2>2, <2>3
<1> QED BY <1>2, <1>4, <1>5

\* Line i of t assigns k and none does behind it.
LastOne(t, k, i) ==
  /\ i \in 1 .. Len(t) /\ Assigning(t[i]) /\ t[i].key = k
  /\ \A j \in 1 .. Len(t) : Assigning(t[j]) /\ t[j].key = k => j <= i

LEMMA AssignsAre ==
  ASSUME NEW w, NEW t, Text(w, t), NEW k \in Key
  PROVE  /\ \A i \in Assigns(t, k) : i \in 1 .. Len(t) /\ Assigning(t[i]) /\ t[i].key = k
         /\ Assigns(t, k) # {} =>
              /\ Max(Assigns(t, k)) \in Assigns(t, k)
              /\ \A i \in Assigns(t, k) : i <= Max(Assigns(t, k))
<1>1. Len(t) \in Nat /\ Assigns(t, k) \subseteq 1 .. Len(t)
  BY DEF Text, Assigns
<1>2. ASSUME NEW i \in Assigns(t, k)
      PROVE  i \in 1 .. Len(t) /\ Assigning(t[i]) /\ t[i].key = k
  <2>1. i \in 1 .. Len(t) /\ t[i].form # "note" /\ t[i].key = k
    BY DEF Assigns
  <2>2. t[i].form # "rest"
    BY <2>1, TextAssumption DEF Text, FitLine
  <2> QED BY <2>1, <2>2 DEF Assigning
<1> QED BY <1>1, <1>2, MaxOf

LEMMA ParseFits ==
  ASSUME NEW w, NEW t, Text(w, t)
  PROVE  FitEntries(w, parseEnvFile(t))
<1> DEFINE e == parseEnvFile(t)
<1>1. DOMAIN e \subseteq Key /\ e = [k \in DOMAIN e |-> ReadLine(t, Max(Assigns(t, k)))]
  BY DEF parseEnvFile
<1>2. \A k \in DOMAIN e : Assigns(t, k) # {}
  BY DEF parseEnvFile
<1> HIDE DEF e
<1>3. \A k \in DOMAIN e : e[k] \in Fits(w, k)
  <2> TAKE k \in DOMAIN e
  <2>1. PICK i \in 1 .. Len(t) : i = Max(Assigns(t, k)) /\ Assigning(t[i]) /\ t[i].key = k
    BY <1>1, <1>2, AssignsAre
  <2>2. e[k] = ReadLine(t, i)
    BY <1>1, <2>1
  <2> QED BY <2>1, <2>2, ReadingFits
<1>4. \A k \in Key : Fits(w, k) \subseteq Values
  BY DEF Fits, Values, Kinds
<1>5. e \in [DOMAIN e -> Values]
  BY <1>1, <1>3, <1>4
<1>6. e \in Partial(Values)
  BY <1>1, <1>5 DEF Partial
<1> QED BY <1>3, <1>6 DEF FitEntries, e

LEMMA ClosingIs ==
  ASSUME NEW w, NEW t, Text(w, t), NEW i \in 1 .. Len(t), Closing(t, i) # 0
  PROVE  Closing(t, i) \in (i + 1) .. Len(t) /\ t[Closing(t, i)].form = "rest"
<1> DEFINE quotes == {j \in (i + 1) .. Len(t) : QuoteIn(t[j])}
<1>1. quotes # {} /\ Closing(t, i) = Min(quotes) /\ t[Min(quotes)].form = "rest"
  BY DEF Closing
<1>2. Len(t) \in Nat /\ quotes \subseteq 1 .. Len(t)
  BY DEF Text
<1>3. Min(quotes) \in quotes
  BY <1>1, <1>2, MinOf
<1> QED BY <1>1, <1>3

\* A line that assigns a key is not taken for a part of the value above it.
LEMMA NotSwallowed ==
  ASSUME NEW w, NEW t, Text(w, t), Apart(w), NEW i \in 1 .. Len(t), Assigning(t[i])
  PROVE  ~Swallowed(t, i)
<1> SUFFICES ASSUME NEW j \in 1 .. (i - 1), t[j].form = "open", i <= Closing(t, j) PROVE FALSE
  BY DEF Swallowed
<1>1. Len(t) \in Nat /\ j \in 1 .. Len(t)
  BY DEF Text
<1>2. PICK c \in (j + 1) .. Len(t) : c = Closing(t, j) /\ t[c].form = "rest"
  BY <1>1, ClosingIs
<1>3. c - 1 \in 1 .. Len(t) /\ c \in 1 .. Len(t)
  BY <1>1, <1>2
<1>4. HasEquals(t[c - 1]) /\ Several(w, t[c - 1].key)
  BY <1>2, <1>3 DEF Text, RestBehind
<1>5. Assigning(t[j]) /\ Assigning(t[c - 1])
  BY <1>4 DEF Assigning, HasEquals
<1>6. Several(w, t[j].key) /\ t[j].key \in Key /\ t[c - 1].key \in Key
  BY <1>1, <1>3, <1>5 DEF Text, FitLine
<1>7. t[j].key = t[c - 1].key
  BY <1>4, <1>6 DEF Apart
<1>8. j = c - 1
  BY <1>1, <1>2, <1>3, <1>5, <1>7 DEF Text, OneEach
<1>9. i = c
  BY <1>1, <1>2, <1>8
<1> QED BY <1>2, <1>9 DEF Assigning

LEMMA ParseIs ==
  ASSUME NEW w, NEW t, Text(w, t), Apart(w), NEW k \in Key, ~Several(w, k)
  PROVE  /\ k \in DOMAIN parseEnvFile(t) => \E i : LastOne(t, k, i)
         /\ \A i : LastOne(t, k, i) =>
                     k \in DOMAIN parseEnvFile(t) /\ parseEnvFile(t)[k] = Said(t[i])
<1>1. Assigns(t, k) = {i \in 1 .. Len(t) : Assigning(t[i]) /\ t[i].key = k}
  <2>1. \A i \in Assigns(t, k) : i \in 1 .. Len(t) /\ Assigning(t[i]) /\ t[i].key = k
    BY AssignsAre
  <2>2. \A i \in 1 .. Len(t) : Assigning(t[i]) /\ t[i].key = k => i \in Assigns(t, k)
    BY NotSwallowed DEF Assigns, Assigning
  <2> QED BY <2>1, <2>2
<1>2. k \in DOMAIN parseEnvFile(t) <=> Assigns(t, k) # {}
  BY DEF parseEnvFile
<1>3. Assigns(t, k) # {} => parseEnvFile(t)[k] = ReadLine(t, Max(Assigns(t, k)))
  BY DEF parseEnvFile
<1>4. Assigns(t, k) # {} => LastOne(t, k, Max(Assigns(t, k)))
  <2>1. Assigns(t, k) # {} =>
          /\ Max(Assigns(t, k)) \in Assigns(t, k)
          /\ \A i \in Assigns(t, k) : i <= Max(Assigns(t, k))
    BY AssignsAre
  <2> QED BY <1>1, <2>1 DEF LastOne
<1>5. ASSUME NEW i, LastOne(t, k, i)
      PROVE  k \in DOMAIN parseEnvFile(t) /\ parseEnvFile(t)[k] = Said(t[i])
  <2>1. i \in Assigns(t, k) /\ \A j \in Assigns(t, k) : j <= i
    BY <1>1, <1>5 DEF LastOne
  <2>2. PICK m : m = Max(Assigns(t, k)) /\ LastOne(t, k, m)
    BY <1>4, <2>1
  <2>3. i <= m /\ m <= i /\ i \in Nat /\ m \in Nat
    BY <1>5, <2>2 DEF LastOne, Text
  <2>4. i = m
    BY <2>3
  <2>5. t[i].form \in OneLine
    BY <1>5, LineForm DEF LastOne, Text
  <2> QED BY <1>2, <1>3, <2>1, <2>2, <2>4, <2>5, SaidIs
<1> QED BY <1>2, <1>4, <1>5

LEMMA EqualsLast ==
  ASSUME NEW w, NEW t, Text(w, t), NEW i \in 1 .. Len(t), HasEquals(t[i])
  PROVE  LastOne(t, t[i].key, i)
<1>1. Assigning(t[i])
  BY DEF Assigning, HasEquals
<1>2. ASSUME NEW j \in 1 .. Len(t), Assigning(t[j]), t[j].key = t[i].key PROVE j <= i
  <2>1. ~(i < j)
    BY <1>1, <1>2 DEF Text, OneEach, HasEquals
  <2> QED BY <2>1 DEF Text
<1> QED BY <1>1, <1>2 DEF LastOne

-----------------------------------------------------------------------------
(* The lines kept for a recipient *)

KeptAt(t, keys) == {i \in DOMAIN t : HasEquals(t[i]) /\ t[i].key \in keys}

LEMMA FilterIs ==
  ASSUME NEW t \in Seq(Lines), NEW keys
  PROVE  \E L, from :
           /\ L \in Seq(Lines)
           /\ Picked(t, KeptAt(t, keys), L, from)
           /\ filterRawForKeys(t, keys) = IF L = <<>> THEN NoText ELSE L
           /\ KeptAt(t, keys) \subseteq 1 .. Len(t)
<1> DEFINE L == LinesAt(t, KeptAt(t, keys))
<1>1. KeptAt(t, keys) \subseteq 1 .. Len(t)
  BY LenProperties DEF KeptAt
<1>2. L \in Seq(Lines)
  BY <1>1, LinesAtPlaces
<1>3. PICK from : Picked(t, KeptAt(t, keys), L, from)
  BY <1>1, LinesAtPlaces
<1>4. filterRawForKeys(t, keys) = IF L = <<>> THEN NoText ELSE L
  BY DEF filterRawForKeys, KeptAt
<1> HIDE DEF L
<1> QED BY <1>1, <1>2, <1>3, <1>4

\* What is kept of a text is one.
LEMMA FilterText ==
  ASSUME NEW w, NEW t, Text(w, t), NEW keys, filterRawForKeys(t, keys) # NoText
  PROVE  Text(w, filterRawForKeys(t, keys))
<1>1. t \in Seq(Lines)
  BY DEF Text
<1>2. PICK L, from :
        /\ L \in Seq(Lines)
        /\ Picked(t, KeptAt(t, keys), L, from) /\ KeptAt(t, keys) \subseteq 1 .. Len(t)
        /\ filterRawForKeys(t, keys) = L
  BY <1>1, FilterIs
<1>3. \A p \in 1 .. Len(L) : /\ from[p] \in 1 .. Len(t) /\ L[p] = t[from[p]] /\ HasEquals(L[p])
  BY <1>2 DEF Picked, KeptAt
<1>4. \A p \in 1 .. Len(L) : FitLine(w, L[p])
  BY <1>3 DEF Text
<1>5. OneEach(L)
  <2> SUFFICES ASSUME NEW i \in 1 .. Len(L), NEW j \in 1 .. Len(L), i < j, L[i].key = L[j].key
               PROVE  FALSE
    BY DEF OneEach
  <2>1. from[i] # from[j]
    BY <1>2 DEF Picked
  <2>2. LastOne(t, L[i].key, from[i]) /\ LastOne(t, L[j].key, from[j])
    BY <1>3, EqualsLast
  <2>3. PICK a, b : a = from[i] /\ b = from[j]
    OBVIOUS
  <2>4. a \in 1 .. Len(t) /\ b \in 1 .. Len(t) /\ a # b
    BY <1>3, <2>1, <2>3
  <2>5. a <= b /\ b <= a
    BY <2>2, <2>3, <2>4 DEF LastOne
  <2> QED BY <2>4, <2>5, <1>1
<1>6. RestBehind(w, L)
  BY <1>3 DEF RestBehind, HasEquals
<1> QED BY <1>2, <1>4, <1>5, <1>6 DEF Text

\* A key with no value over several lines is read from what is kept as from the text.
LEMMA FilterReads ==
  ASSUME NEW w, NEW t, Text(w, t), Apart(w), NEW keys, filterRawForKeys(t, keys) # NoText,
         NEW k \in DOMAIN parseEnvFile(filterRawForKeys(t, keys)), ~Several(w, k)
  PROVE  /\ k \in keys /\ k \in DOMAIN parseEnvFile(t)
         /\ parseEnvFile(filterRawForKeys(t, keys))[k] = parseEnvFile(t)[k]
<1>1. t \in Seq(Lines)
  BY DEF Text
<1>2. PICK L, from :
        /\ L \in Seq(Lines)
        /\ Picked(t, KeptAt(t, keys), L, from) /\ KeptAt(t, keys) \subseteq 1 .. Len(t)
        /\ filterRawForKeys(t, keys) = L
  BY <1>1, FilterIs
<1>3. Text(w, L) /\ k \in DOMAIN parseEnvFile(L)
  BY <1>2, FilterText
<1>4. k \in Key
  BY <1>3 DEF parseEnvFile
<1>5. PICK p : LastOne(L, k, p)
  BY <1>3, <1>4, ParseIs
<1>6. /\ from[p] \in 1 .. Len(t) /\ L[p] = t[from[p]] /\ HasEquals(t[from[p]])
      /\ t[from[p]].key = k /\ k \in keys
  BY <1>2, <1>5 DEF LastOne, Picked, KeptAt
<1>7. LastOne(t, k, from[p])
  BY <1>6, EqualsLast
<1>8. k \in DOMAIN parseEnvFile(t) /\ parseEnvFile(t)[k] = Said(t[from[p]])
  BY <1>4, <1>7, ParseIs
<1>9. parseEnvFile(L)[k] = Said(L[p])
  BY <1>3, <1>4, <1>5, ParseIs
<1> QED BY <1>2, <1>6, <1>8, <1>9

\* A key that is kept is read from what is kept, if its line has an equals sign.
LEMMA FilterKeeps ==
  ASSUME NEW w, NEW t, Text(w, t), Apart(w), NEW keys, NEW k \in keys, ~Several(w, k),
         NEW i, LastOne(t, k, i), HasEquals(t[i])
  PROVE  /\ filterRawForKeys(t, keys) # NoText
         /\ k \in DOMAIN parseEnvFile(filterRawForKeys(t, keys))
         /\ parseEnvFile(filterRawForKeys(t, keys))[k] = parseEnvFile(t)[k]
<1>1. t \in Seq(Lines)
  BY DEF Text
<1>2. PICK L, from :
        /\ L \in Seq(Lines)
        /\ Picked(t, KeptAt(t, keys), L, from)
        /\ filterRawForKeys(t, keys) = IF L = <<>> THEN NoText ELSE L
  BY <1>1, FilterIs
<1>3. i \in KeptAt(t, keys)
  BY <1>1, LenProperties DEF LastOne, KeptAt
<1>4. PICK p \in 1 .. Len(L) : from[p] = i /\ L[p] = t[i]
  BY <1>2, <1>3 DEF Picked
<1>5. L # <<>>
  BY <1>4
<1>6. filterRawForKeys(t, keys) = L /\ L # NoText
  BY <1>2, <1>5, TextAssumption
<1>7. Text(w, L)
  BY <1>6, FilterText
<1>8. t[i].key = k /\ k \in Key
  BY <1>3, LineForm DEF LastOne, Text
<1>9. LastOne(L, k, p)
  BY <1>4, <1>7, <1>8, EqualsLast
<1>10. k \in DOMAIN parseEnvFile(L)
  BY <1>7, <1>8, <1>9, ParseIs
<1> QED BY <1>6, <1>10, FilterReads

-----------------------------------------------------------------------------
(* Texts made of paragraphs *)

\* The first line assigns k, a second may be the rest of its value.
FitParagraph(w, k, s) ==
  /\ s \in Seq(Lines)
  /\ \A j \in 1 .. Len(s) :
       /\ FitLine(w, s[j])
       /\ Assigning(s[j]) => j = 1 /\ s[j].key = k
       /\ s[j].form = "rest" => j = 2 /\ s[1].form = "open"

LEMMA InOrderText ==
  ASSUME NEW w, NEW par, \A k \in Key \cap DOMAIN par : FitParagraph(w, k, par[k])
  PROVE  Text(w, InOrder(par))
<1> DEFINE T == InOrder(par)
<1>1. T \in Seq(Lines)
  BY InOrderPlaces DEF FitParagraph
<1>2. PICK of, nth : Places(par, T, of, nth)
  BY InOrderPlaces DEF FitParagraph
<1> HIDE DEF T
<1>3. \A p \in 1 .. Len(T) :
        /\ FitParagraph(w, of[p], par[of[p]])
        /\ nth[p] \in 1 .. Len(par[of[p]]) /\ T[p] = par[of[p]][nth[p]]
        /\ nth[p] > 1 => p > 1 /\ of[p - 1] = of[p] /\ nth[p - 1] = nth[p] - 1
  BY <1>2 DEF Places
<1>4. \A p \in 1 .. Len(T) :
        /\ FitLine(w, T[p])
        /\ Assigning(T[p]) => nth[p] = 1 /\ of[p] = T[p].key
        /\ T[p].form = "rest" => nth[p] = 2 /\ par[of[p]][1].form = "open"
  BY <1>3 DEF FitParagraph
<1>5. OneEach(T)
  <2> SUFFICES ASSUME NEW i \in 1 .. Len(T), NEW j \in 1 .. Len(T),
                      i < j, Assigning(T[i]), Assigning(T[j]), T[i].key = T[j].key
               PROVE  FALSE
    BY DEF OneEach
  <2>1. of[i] = of[j] /\ nth[i] = nth[j]
    BY <1>4
  <2>2. i = j
    BY <2>1, <1>2 DEF Places
  <2> QED BY <2>2, <1>1
<1>6. RestBehind(w, T)
  <2> SUFFICES ASSUME NEW i \in 1 .. Len(T), T[i].form = "rest"
               PROVE  i > 1 /\ HasEquals(T[i - 1]) /\ Several(w, T[i - 1].key)
    BY DEF RestBehind
  <2>1. nth[i] = 2 /\ par[of[i]][1].form = "open"
    BY <1>4
  <2>2. i > 1 /\ of[i - 1] = of[i] /\ nth[i - 1] = 1
    BY <2>1, <1>3
  <2>3. i - 1 \in 1 .. Len(T)
    BY <2>2, <1>1
  <2>4. T[i - 1] = par[of[i]][1]
    BY <2>2, <2>3, <1>3
  <2>5. FitLine(w, T[i - 1]) /\ T[i - 1].form = "open"
    BY <2>1, <2>3, <2>4, <1>4
  <2> QED BY <2>2, <2>5 DEF FitLine, HasEquals
<1>7. Text(w, T)
  BY <1>1, <1>4, <1>5, <1>6 DEF Text
<1> QED BY <1>7 DEF T

LEMMA InOrderReads ==
  ASSUME NEW w, NEW par, \A k \in Key \cap DOMAIN par : FitParagraph(w, k, par[k]),
         Apart(w), NEW k \in DOMAIN parseEnvFile(InOrder(par)), ~Several(w, k)
  PROVE  k \in DOMAIN par /\ parseEnvFile(InOrder(par))[k] = Said(par[k][1])
<1> DEFINE T == InOrder(par)
<1>1. Text(w, T)
  BY InOrderText
<1>2. PICK of, nth : Places(par, T, of, nth)
  BY InOrderPlaces DEF FitParagraph
<1>3. k \in Key
  BY DEF parseEnvFile
<1> HIDE DEF T
<1>4. PICK p : LastOne(T, k, p) /\ parseEnvFile(T)[k] = Said(T[p])
  BY <1>1, <1>3, ParseIs DEF T
<1>5. /\ of[p] \in Key \cap DOMAIN par /\ nth[p] \in 1 .. Len(par[of[p]])
      /\ T[p] = par[of[p]][nth[p]] /\ Assigning(T[p]) /\ T[p].key = k
  BY <1>2, <1>4 DEF Places, LastOne
<1>6. nth[p] = 1 /\ of[p] = k
  BY <1>5 DEF FitParagraph
<1> QED BY <1>4, <1>5, <1>6 DEF T

LEMMA PlainFits ==
  ASSUME NEW w, NEW k \in Key, NEW v \in Fits(w, k)
  PROVE  /\ v \in Values
         /\ HasLineBreak(v) => Several(w, k)
         /\ ~Several(w, k) /\ ~Hashed(w, k) => v.kind \in {"word", "spaced", "quote"}
BY DEF Fits, Values, Kinds, HasLineBreak

LEMMA SpreadFits ==
  ASSUME NEW w, NEW k \in Key, NEW v \in Fits(w, k), Several(w, k)
  PROVE  FitParagraph(w, k, Spread(k, v))
<1> DEFINE open == Line("open", k, v)
           rest == Line("rest", NoKey, v)
           s == Spread(k, v)
<1>1. v \in Values
  BY PlainFits
<1>2. FitLine(w, open) /\ open.form = "open" /\ open.key = k
  BY <1>1 DEF FitLine, Line, Lines, Assigning
<1>3. FitLine(w, rest) /\ rest.form = "rest"
  BY <1>1 DEF FitLine, Line, Lines, Assigning
<1>4. s = <<open, rest>>
  BY DEF Spread
<1>5. open \in Lines /\ rest \in Lines
  BY <1>2, <1>3 DEF FitLine
<1> HIDE DEF open, rest, s
<1>6. s \in Seq(Lines) /\ Len(s) = 2 /\ s[1] = open /\ s[2] = rest
  BY <1>4, <1>5
<1>7. \A j \in 1 .. Len(s) : j = 1 \/ j = 2
  BY <1>6
<1>8. FitParagraph(w, k, s)
  BY <1>2, <1>3, <1>6, <1>7 DEF FitParagraph, Assigning
<1> QED BY <1>8 DEF s

LEMMA OneLineFits ==
  ASSUME NEW w, NEW k \in Key, NEW v \in Fits(w, k), NEW form \in OneLine,
         form = "colon" => Line(form, k, v) \in w
  PROVE  FitParagraph(w, k, <<Line(form, k, v)>>)
<1> DEFINE l == Line(form, k, v)
           s == <<l>>
<1>1. v \in Values
  BY PlainFits
<1>2. FitLine(w, l) /\ l.form = form /\ l.key = k
  BY <1>1 DEF FitLine, Line, Lines, Assigning, OneLine
<1>3. l \in Lines /\ form # "rest"
  BY <1>2 DEF FitLine, OneLine
<1> HIDE DEF l
<1>4. s \in Seq(Lines) /\ Len(s) = 1 /\ s[1] = l
  BY <1>3
<1> HIDE DEF s
<1>5. FitParagraph(w, k, s)
  BY <1>2, <1>3, <1>4 DEF FitParagraph, Assigning
<1> QED BY <1>5 DEF s, l

LEMMA FormatFits ==
  ASSUME NEW w, NEW k \in Key, NEW v \in Fits(w, k)
  PROVE  /\ FitParagraph(w, k, formatEnv(k, v))
         /\ ~Several(w, k) /\ ~Hashed(w, k) => Said(formatEnv(k, v)[1]) = v
<1>1. CASE HasLineBreak(v)
  <2>1. formatEnv(k, v) = Spread(k, v) /\ Several(w, k)
    BY <1>1, PlainFits DEF formatEnv
  <2> QED BY <2>1, SpreadFits
<1>2. CASE ~HasLineBreak(v)
  <2> DEFINE form == IF HasQuote(v) \/ v.kind = "spaced" THEN "quoted" ELSE "bare"
  <2>1. form \in OneLine /\ form # "colon" /\ form \in {"quoted", "bare"}
    BY DEF OneLine
  <2>2. formatEnv(k, v) = <<Line(form, k, v)>>
    BY <1>2 DEF formatEnv
  <2>3. FitParagraph(w, k, <<Line(form, k, v)>>)
    BY <2>1, OneLineFits
  <2> HIDE DEF form
  <2>4. ASSUME ~Several(w, k), ~Hashed(w, k) PROVE Said(formatEnv(k, v)[1]) = v
    <3>1. v.kind \in {"word", "spaced", "quote"}
      BY <2>4, PlainFits
    <3> DEFINE t == <<Line(form, k, v)>>
    <3>2. t[1].form = form /\ t[1].val = v
      BY DEF Line
    <3>3. Said(t[1]) \in {Cut(v), Expand(v)}
      BY <2>1, <3>2, SaidIs
    <3>4. Cut(v) = v /\ Expand(v) = v
      BY <3>1 DEF Cut, Expand
    <3> QED BY <2>2, <3>3, <3>4
  <2> QED BY <2>2, <2>3, <2>4
<1> QED BY <1>1, <1>2

LEMMA RebuiltText ==
  ASSUME NEW w, NEW e, FitEntries(w, e)
  PROVE  /\ Text(w, Rebuilt(e))
         /\ Apart(w) =>
              \A k \in DOMAIN parseEnvFile(Rebuilt(e)) :
                ~Several(w, k) /\ ~Hashed(w, k) =>
                  k \in DOMAIN e /\ parseEnvFile(Rebuilt(e))[k] = e[k]
<1> DEFINE par == [k \in DOMAIN e |-> formatEnv(k, e[k])]
<1>1. Rebuilt(e) = InOrder(par) /\ DOMAIN par = DOMAIN e
  BY DEF Rebuilt
<1>2. \A k \in Key \cap DOMAIN e : par[k] = formatEnv(k, e[k]) /\ e[k] \in Fits(w, k)
  BY DEF FitEntries
<1> HIDE DEF par
<1>3. \A k \in Key \cap DOMAIN par : FitParagraph(w, k, par[k])
  BY <1>1, <1>2, FormatFits
<1>4. Text(w, InOrder(par))
  BY <1>3, InOrderText
<1>5. ASSUME Apart(w), NEW k \in DOMAIN parseEnvFile(InOrder(par)),
             ~Several(w, k), ~Hashed(w, k)
      PROVE  k \in DOMAIN e /\ parseEnvFile(InOrder(par))[k] = e[k]
  <2>1. k \in DOMAIN par /\ parseEnvFile(InOrder(par))[k] = Said(par[k][1])
    BY <1>3, <1>5, InOrderReads
  <2>2. k \in Key
    BY DEF parseEnvFile
  <2> QED BY <1>1, <1>2, <1>5, <2>1, <2>2, FormatFits
<1> QED BY <1>1, <1>4, <1>5

LEMMA PageText ==
  ASSUME NEW w, NEW e, FitEntries(w, e)
  PROVE  Text(w, Page(e))
<1> DEFINE par == [k \in DOMAIN e |-> IF HasLineBreak(e[k]) THEN Spread(k, e[k])
                                      ELSE <<Line("quoted", k, e[k])>>]
<1>1. Page(e) = InOrder(par)
  BY DEF Page
<1>2. ASSUME NEW k \in Key \cap DOMAIN par PROVE FitParagraph(w, k, par[k])
  <2>1. e[k] \in Fits(w, k) /\ "quoted" \in OneLine
    BY DEF FitEntries, OneLine
  <2> QED BY <2>1, PlainFits, SpreadFits, OneLineFits
<1> HIDE DEF par
<1>3. Text(w, InOrder(par))
  BY <1>2, InOrderText
<1> QED BY <1>1, <1>3

LEMMA ErrorPageText ==
  ASSUME NEW w
  PROVE  Text(w, ErrorPage)
<1> DEFINE l == Line("note", NoKey, NoValue)
           s == <<l>>
<1>1. FitLine(w, l) /\ l.form = "note"
  BY DEF FitLine, Line, Lines, Assigning
<1>2. l \in Lines
  BY <1>1 DEF FitLine
<1> HIDE DEF l
<1>3. s \in Seq(Lines) /\ Len(s) = 1 /\ s[1] = l
  BY <1>2
<1>4. ErrorPage = s
  BY DEF ErrorPage, l
<1> HIDE DEF s
<1>5. Text(w, s)
  BY <1>1, <1>3 DEF Text, OneEach, RestBehind, Assigning
<1> QED BY <1>4, <1>5

LEMMA NotedFits ==
  ASSUME NEW w, NEW k \in Key, NEW s, FitParagraph(w, k, s),
         NEW v \in Values, NEW t \in {<<>>, <<Line("note", k, v)>>}
  PROVE  FitParagraph(w, k, s \o t)
<1>1. s \in Seq(Lines)
  BY DEF FitParagraph
<1>2. CASE t = <<>>
  BY <1>1, <1>2
<1>3. CASE t = <<Line("note", k, v)>>
  <2> DEFINE l == Line("note", k, v)
             r == s \o <<l>>
  <2>1. FitLine(w, l) /\ l.form = "note" /\ l \in Lines
    BY DEF FitLine, Line, Lines, Assigning
  <2> HIDE DEF l
  <2>2. /\ r \in Seq(Lines) /\ Len(r) = Len(s) + 1 /\ Len(s) \in Nat
        /\ \A j \in 1 .. Len(s) : r[j] = s[j]
        /\ r[Len(s) + 1] = l
    BY <1>1, <2>1
  <2> HIDE DEF r
  <2>3. ASSUME NEW j \in 1 .. Len(r)
        PROVE  /\ FitLine(w, r[j])
               /\ Assigning(r[j]) => j = 1 /\ r[j].key = k
               /\ r[j].form = "rest" => j = 2 /\ r[1].form = "open"
    <3>1. CASE j \in 1 .. Len(s)
      <4>1. r[j] = s[j] /\ r[1] = s[1]
        BY <2>2, <3>1
      <4> QED BY <3>1, <4>1 DEF FitParagraph
    <3>2. CASE j = Len(s) + 1
      BY <2>1, <2>2, <3>2 DEF Assigning
    <3> QED BY <2>2, <3>1, <3>2
  <2>4. FitParagraph(w, k, r)
    BY <2>2, <2>3 DEF FitParagraph
  <2> QED BY <1>3, <2>4 DEF r, l
<1> QED BY <1>2, <1>3

LEMMA MergedContentText ==
  ASSUME NEW w, NEW envText, NEW upText, Text(w, envText), Text(w, upText),
         NEW prefer \in {"env", "envUp"}
  PROVE  Text(w, mergeEnvContent(envText, upText, prefer))
<1> DEFINE e == parseEnvFile(envText)
           u == parseEnvFile(upText)
           first == IF prefer = "env" THEN e ELSE u
           second == IF prefer = "env" THEN u ELSE e
           both == DOMAIN e \cap DOMAIN u
           Note(k) == IF k \in both /\ e[k] # u[k] THEN <<Line("note", k, second[k])>> ELSE <<>>
           par == [k \in DOMAIN e \cup DOMAIN u |->
                     formatEnv(k, IF k \in DOMAIN first THEN first[k] ELSE second[k]) \o Note(k)]
<1>1. mergeEnvContent(envText, upText, prefer) = InOrder(par)
  BY DEF mergeEnvContent
<1>2. FitEntries(w, e) /\ FitEntries(w, u)
  BY ParseFits
<1> HIDE DEF e, u
<1>3. ASSUME NEW k \in Key \cap DOMAIN par PROVE FitParagraph(w, k, par[k])
  <2> DEFINE v == IF k \in DOMAIN first THEN first[k] ELSE second[k]
  <2>1. v \in Fits(w, k)
    BY <1>2 DEF FitEntries
  <2>2. FitParagraph(w, k, formatEnv(k, v))
    BY <2>1, FormatFits
  <2>3. k \in both => second[k] \in Values
    BY <1>2, PlainFits DEF FitEntries
  <2>4. \E x \in Values : Note(k) \in {<<>>, <<Line("note", k, x)>>}
    BY <2>1, <2>3, PlainFits
  <2>5. par[k] = formatEnv(k, v) \o Note(k)
    OBVIOUS
  <2> HIDE DEF par, v, Note
  <2> QED BY <2>2, <2>4, <2>5, NotedFits
<1> HIDE DEF par
<1>4. Text(w, InOrder(par))
  BY <1>3, InOrderText
<1> QED BY <1>1, <1>4

-----------------------------------------------------------------------------
(* Texts that come from outside *)

LEMMA ParagraphLines ==
  ASSUME NEW k \in Key, NEW style \in AllStyles
  PROVE  /\ Paragraph(k, style) \in Seq(Lines) /\ Len(Paragraph(k, style)) \in {1, 2}
         /\ style = "lines" => Paragraph(k, style) = Spread(k, Value("lines", k))
         /\ style # "lines" =>
              \E form \in OneLine, kind \in {"word", "spaced", "quote", "hash", "escape"} :
                /\ Paragraph(k, style) = <<Line(form, k, Value(kind, k))>>
                /\ kind = "hash" => form = "quoted"
                /\ kind = "escape" => form \in {"bare", "quoted"}
<1>1. CASE style = "lines"
  <2>1. Paragraph(k, style) = Spread(k, Value("lines", k))
    BY <1>1 DEF Paragraph
  <2>2. /\ Line("open", k, Value("lines", k)) \in Lines
        /\ Line("rest", NoKey, Value("lines", k)) \in Lines
    BY DEF Line, Lines, Value, Values
  <2>3. Spread(k, Value("lines", k)) \in Seq(Lines) /\ Len(Spread(k, Value("lines", k))) = 2
    BY <2>2 DEF Spread
  <2> QED BY <1>1, <2>1, <2>3
<1>2. CASE style # "lines"
  <2>1. PICK form \in OneLine, kind \in {"word", "spaced", "quote", "hash", "escape"} :
          /\ Paragraph(k, style) = <<Line(form, k, Value(kind, k))>>
          /\ kind = "hash" => form = "quoted"
          /\ kind = "escape" => form \in {"bare", "quoted"}
    <3>1. CASE style \in {"word", "escape"}
      BY <3>1 DEF Paragraph, OneLine
    <3>2. CASE style = "colon"
      BY <3>2 DEF Paragraph, OneLine
    <3>3. CASE style = "quote"
      BY <3>3 DEF Paragraph, OneLine
    <3>4. CASE style \in {"spaced", "hash"}
      BY <3>4 DEF Paragraph, OneLine
    <3>5. CASE style = "newline"
      BY <3>5 DEF Paragraph, OneLine
    <3> QED BY <1>2, <3>1, <3>2, <3>3, <3>4, <3>5 DEF AllStyles
  <2>2. Line(form, k, Value(kind, k)) \in Lines
    BY DEF Line, Lines, Value, Values, OneLine
  <2>3. <<Line(form, k, Value(kind, k))>> \in Seq(Lines) /\ Len(<<Line(form, k, Value(kind, k))>>) = 1
    BY <2>2
  <2> QED BY <1>2, <2>1, <2>3
<1> QED BY <1>1, <1>2

\* A paragraph that the user has written.
LEMMA ParagraphFits ==
  ASSUME NEW w, NEW k \in Key, NEW style \in AllStyles, Paragraph(k, style)[1] \in w
  PROVE  FitParagraph(w, k, Paragraph(k, style))
<1>1. CASE style = "lines"
  <2> DEFINE v == Value("lines", k)
             l == Line("open", k, v)
  <2>1. Paragraph(k, style) = Spread(k, v) /\ Spread(k, v)[1] = l
    BY <1>1, ParagraphLines DEF Spread
  <2>2. l \in w /\ l.form = "open" /\ l.key = k /\ l.val = v
    BY <2>1 DEF Line
  <2>3. v \in MeantBy(w, k)
    BY <2>2 DEF MeantBy
  <2>4. Several(w, k)
    BY <2>3 DEF Several, HasLineBreak, Expand, Value
  <2>5. v \in Fits(w, k)
    BY <2>4 DEF Fits, Kinds, Value
  <2> QED BY <2>1, <2>4, <2>5, SpreadFits
<1>2. CASE style # "lines"
  <2>1. PICK form \in OneLine, kind \in {"word", "spaced", "quote", "hash", "escape"} :
          /\ Paragraph(k, style) = <<Line(form, k, Value(kind, k))>>
          /\ kind = "hash" => form = "quoted"
          /\ kind = "escape" => form \in {"bare", "quoted"}
    BY <1>2, ParagraphLines
  <2> DEFINE v == Value(kind, k)
             l == Line(form, k, v)
             t == <<l>>
  <2>2. t[1] = l /\ l \in w /\ l.form = form /\ l.key = k /\ l.val = v
    BY <2>1 DEF Line
  <2>3. Said(l) \in MeantBy(w, k)
    BY <2>2 DEF MeantBy, Said
  <2>4. Said(l) = IF form \in {"bare", "colon"} THEN Cut(v)
                  ELSE IF form = "single" THEN v ELSE Expand(v)
    BY <2>2, SaidIs
  <2>5. kind = "hash" => Hashed(w, k)
    BY <2>1, <2>3, <2>4 DEF Hashed, Expand, Value
  <2>6. kind = "escape" => Several(w, k)
    BY <2>1, <2>3, <2>4 DEF Several, Expand, Cut, Value, HasLineBreak
  <2>7. v \in Fits(w, k)
    BY <2>5, <2>6 DEF Fits, Kinds, Value
  <2> QED BY <2>1, <2>2, <2>7, OneLineFits
<1> QED BY <1>1, <1>2

LEMMA UserTextFits ==
  ASSUME NEW w, NEW t \in UserText, ToSet(t) \subseteq w
  PROVE  Text(w, t)
<1>1. PICK style \in UNION {[keys -> AllStyles] : keys \in SUBSET Key} :
        t = InOrder([k \in DOMAIN style |-> Paragraph(k, style[k])])
  BY DEF UserText
<1> DEFINE par == [k \in DOMAIN style |-> Paragraph(k, style[k])]
<1>2. t = InOrder(par)
  BY <1>1
<1>3. \A k \in Key \cap DOMAIN par : style[k] \in AllStyles /\ par[k] = Paragraph(k, style[k])
  OBVIOUS
<1> HIDE DEF par
<1>4. \A k \in Key \cap DOMAIN par : par[k] \in Seq(Lines) /\ Len(par[k]) \in {1, 2}
  BY <1>3, ParagraphLines
<1>5. t \in Seq(Lines)
  BY <1>2, <1>4, InOrderPlaces
<1>6. PICK of, nth : Places(par, t, of, nth)
  BY <1>2, <1>4, InOrderPlaces
<1>7. ASSUME NEW k \in Key \cap DOMAIN par PROVE FitParagraph(w, k, par[k])
  <2>0. Len(par[k]) = 1 \/ Len(par[k]) = 2
    BY <1>4
  <2>1. 1 \in 1 .. Len(par[k])
    BY <2>0
  <2>2. PICK p \in 1 .. Len(t) : of[p] = k /\ nth[p] = 1
    BY <1>6, <2>1 DEF Places
  <2>3. t[p] = par[k][1]
    BY <1>6, <2>2 DEF Places
  <2>4. t[p] \in w
    BY <1>5, <2>2, LenProperties DEF ToSet
  <2> QED BY <1>3, <2>3, <2>4, ParagraphFits
<1> QED BY <1>2, <1>7, InOrderText

\* The more the user has written, the more fits.
LEMMA Growing ==
  ASSUME NEW w, NEW v, w \subseteq v
  PROVE  /\ \A k : Several(w, k) => Several(v, k)
         /\ \A k : Hashed(w, k) => Hashed(v, k)
         /\ \A k : Fits(w, k) \subseteq Fits(v, k)
         /\ Apart(v) => Apart(w)
         /\ \A t : Text(w, t) => Text(v, t)
         /\ \A e : FitEntries(w, e) => FitEntries(v, e)
         /\ \A u : FitFile(w, u) => FitFile(v, u)
<1>1. \A k : MeantBy(w, k) \subseteq MeantBy(v, k)
  BY DEF MeantBy
<1>2. \A k : Several(w, k) => Several(v, k)
  BY <1>1 DEF Several
<1>3. \A k : Hashed(w, k) => Hashed(v, k)
  BY <1>1 DEF Hashed
<1>4. \A k : Kinds(w, k) \subseteq Kinds(v, k)
  BY <1>2, <1>3 DEF Kinds
<1>5. \A k : Fits(w, k) \subseteq Fits(v, k)
  BY <1>4 DEF Fits
<1>6. Apart(v) => Apart(w)
  BY <1>2 DEF Apart
<1>7. \A l : FitLine(w, l) => FitLine(v, l)
  BY <1>2, <1>5 DEF FitLine
<1>8. \A t : Text(w, t) => Text(v, t)
  BY <1>2, <1>7 DEF Text, RestBehind
<1>9. \A e : FitEntries(w, e) => FitEntries(v, e)
  BY <1>5 DEF FitEntries
<1>10. \A u : FitFile(w, u) => FitFile(v, u)
  BY <1>8, <1>9 DEF FitFile
<1> QED BY <1>2, <1>3, <1>5, <1>6, <1>8, <1>9, <1>10

-----------------------------------------------------------------------------
(* A received share merged into .env *)

EqualsAt(t, k) == {i \in DOMAIN t : HasEquals(t[i]) /\ t[i].key = k}

\* A line of t with an equals sign that assigns k.
EqualsLine(t, k, l) == \E i \in 1 .. Len(t) : l = t[i] /\ HasEquals(l) /\ l.key = k

\* M has the lines of t, some replaced by lines of s for the same key, and behind
\* them lines of s for keys that no such line of t assigns, one for each.
MergeOf(t, s, M) ==
  /\ M \in Seq(Lines) /\ Len(t) <= Len(M)
  /\ \A i \in 1 .. Len(t) :
       M[i] = t[i] \/ (HasEquals(t[i]) /\ EqualsLine(s, t[i].key, M[i]))
  /\ \A i \in (Len(t) + 1) .. Len(M) :
       /\ EqualsLine(s, M[i].key, M[i])
       /\ \A j \in 1 .. Len(t) : ~(HasEquals(t[j]) /\ t[j].key = M[i].key)
       /\ \A j \in (Len(t) + 1) .. Len(M) : M[j].key = M[i].key => j = i

LEMMA EqualsAtIs ==
  ASSUME NEW t \in Seq(Lines), NEW k, EqualsAt(t, k) # {}
  PROVE  /\ EqualsLine(t, k, t[Max(EqualsAt(t, k))])
         /\ EqualsLine(t, k, t[Min(EqualsAt(t, k))])
         /\ Min(EqualsAt(t, k)) \in 1 .. Len(t) /\ Max(EqualsAt(t, k)) \in 1 .. Len(t)
<1>1. Len(t) \in Nat /\ DOMAIN t = 1 .. Len(t)
  BY LenProperties
<1>2. EqualsAt(t, k) \subseteq 1 .. Len(t)
  BY <1>1 DEF EqualsAt
<1>3. Max(EqualsAt(t, k)) \in EqualsAt(t, k) /\ Min(EqualsAt(t, k)) \in EqualsAt(t, k)
  BY <1>1, <1>2, MinOf, MaxOf
<1> QED BY <1>2, <1>3 DEF EqualsAt, EqualsLine

LEMMA MergeEnvIs ==
  ASSUME NEW t \in Seq(Lines), NEW s \in Seq(Lines)
  PROVE  MergeOf(t, s, mergeEnv(t, s))
<1> DEFINE names == {k \in Key : EqualsAt(s, k) # {}}
           LastOf(k) == s[Max(EqualsAt(s, k))]
           replaced == [i \in DOMAIN t |->
                          IF HasEquals(t[i]) /\ t[i].key \in names THEN LastOf(t[i].key) ELSE t[i]]
           new == {k \in names : EqualsAt(t, k) = {}}
           I == {Min(EqualsAt(s, k)) : k \in new}
           fresh == LinesAt(s, I)
           added == [i \in DOMAIN fresh |-> LastOf(fresh[i].key)]
           M == mergeEnv(t, s)
<1>1. M = replaced \o added
  BY DEF mergeEnv, EqualsAt
<1>2. /\ Len(t) \in Nat /\ DOMAIN t = 1 .. Len(t) /\ \A i \in 1 .. Len(t) : t[i] \in Lines
      /\ Len(s) \in Nat /\ DOMAIN s = 1 .. Len(s) /\ \A i \in 1 .. Len(s) : s[i] \in Lines
  BY LenProperties
<1>3. \A k \in names : EqualsLine(s, k, LastOf(k)) /\ LastOf(k) \in Lines
  BY <1>2, EqualsAtIs
<1> HIDE DEF LastOf
<1>4. \A i \in 1 .. Len(t) :
        /\ replaced[i] \in Lines
        /\ replaced[i] = t[i] \/ (HasEquals(t[i]) /\ EqualsLine(s, t[i].key, replaced[i]))
  <2> TAKE i \in 1 .. Len(t)
  <2>1. CASE HasEquals(t[i]) /\ t[i].key \in names
    <3>1. replaced[i] = LastOf(t[i].key)
      BY <1>2, <2>1
    <3> QED BY <2>1, <3>1, <1>3
  <2>2. CASE ~(HasEquals(t[i]) /\ t[i].key \in names)
    <3>1. replaced[i] = t[i]
      BY <1>2, <2>2
    <3> QED BY <3>1, <1>2
  <2> QED BY <2>1, <2>2
<1>5. replaced \in Seq(Lines) /\ Len(replaced) = Len(t)
  BY <1>2, <1>4
<1>6. \A k \in new : Min(EqualsAt(s, k)) \in 1 .. Len(s) /\ s[Min(EqualsAt(s, k))].key = k
  BY EqualsAtIs DEF EqualsLine
<1>7. I \subseteq 1 .. Len(s)
  BY <1>6
<1>8. fresh \in Seq(Lines) /\ \E from : Picked(s, I, fresh, from)
  BY <1>7, LinesAtPlaces
<1>9. PICK from : Picked(s, I, fresh, from)
  BY <1>8
<1> HIDE DEF fresh
<1>10. DOMAIN fresh = 1 .. Len(fresh) /\ Len(fresh) \in Nat
  BY <1>8, LenProperties
<1>11. \A q \in 1 .. Len(fresh) : fresh[q].key \in new /\ from[q] = Min(EqualsAt(s, fresh[q].key))
  <2> TAKE q \in 1 .. Len(fresh)
  <2>1. from[q] \in I /\ fresh[q] = s[from[q]]
    BY <1>9 DEF Picked
  <2>2. PICK k \in new : from[q] = Min(EqualsAt(s, k))
    BY <2>1
  <2> QED BY <2>1, <2>2, <1>6
<1>12. \A q, r \in 1 .. Len(fresh) : fresh[q].key = fresh[r].key => q = r
  BY <1>9, <1>11 DEF Picked
<1>13. \A q \in 1 .. Len(fresh) :
         /\ added[q] \in Lines /\ EqualsLine(s, added[q].key, added[q])
         /\ added[q].key = fresh[q].key
         /\ \A j \in 1 .. Len(t) : ~(HasEquals(t[j]) /\ t[j].key = added[q].key)
  <2> TAKE q \in 1 .. Len(fresh)
  <2>1. PICK k \in new : k = fresh[q].key
    BY <1>11
  <2>2. added[q] = LastOf(k)
    BY <2>1, <1>10
  <2>3. EqualsLine(s, k, LastOf(k)) /\ LastOf(k) \in Lines /\ LastOf(k).key = k
    BY <2>1, <1>3 DEF EqualsLine
  <2>4. \A j \in 1 .. Len(t) : ~(HasEquals(t[j]) /\ t[j].key = k)
    BY <2>1, <1>2 DEF EqualsAt
  <2> QED BY <2>1, <2>2, <2>3, <2>4
<1>14. added \in Seq(Lines) /\ Len(added) = Len(fresh)
  BY <1>10, <1>13
<1> HIDE DEF replaced, added, M
<1>15. /\ M \in Seq(Lines) /\ Len(M) = Len(t) + Len(added)
       /\ \A i \in 1 .. Len(t) : M[i] = replaced[i]
       /\ \A q \in 1 .. Len(added) : M[Len(t) + q] = added[q]
  <2>1. PICK x \in Seq(Lines), y \in Seq(Lines) : x = replaced /\ y = added
    BY <1>5, <1>14
  <2>2. /\ x \o y \in Seq(Lines) /\ Len(x \o y) = Len(x) + Len(y)
        /\ \A i \in 1 .. Len(x) : (x \o y)[i] = x[i]
        /\ \A i \in 1 .. Len(y) : (x \o y)[Len(x) + i] = y[i]
    BY ConcatAt
  <2>3. M = x \o y /\ Len(x) = Len(t)
    BY <2>1, <1>1, <1>5
  <2> QED BY <2>1, <2>2, <2>3
<1>16. ASSUME NEW i \in (Len(t) + 1) .. Len(M)
       PROVE  /\ i - Len(t) \in 1 .. Len(fresh) /\ M[i] = added[i - Len(t)]
  <2>0. i \in Nat /\ Len(t) + 1 <= i /\ i <= Len(t) + Len(fresh)
    BY <1>2, <1>14, <1>15, <1>10
  <2>1. PICK q \in 1 .. Len(added) : q = i - Len(t)
    <3>1. PICK m \in Nat, n \in Nat : m = Len(t) /\ n = Len(fresh)
      BY <1>2, <1>10
    <3>2. i - m \in 1 .. n
      BY <2>0, <3>1
    <3> QED BY <3>1, <3>2, <1>14
  <2>2. i = Len(t) + q
    BY <2>1, <1>2, <1>10, <1>14
  <2> QED BY <2>1, <2>2, <1>14, <1>15
<1>17. ASSUME NEW i \in (Len(t) + 1) .. Len(M), NEW j \in (Len(t) + 1) .. Len(M),
              M[j].key = M[i].key
       PROVE  j = i
  <2>1. PICK q \in 1 .. Len(fresh), r \in 1 .. Len(fresh) :
          q = i - Len(t) /\ r = j - Len(t) /\ M[i] = added[q] /\ M[j] = added[r]
    BY <1>16
  <2>2. q = r
    BY <2>1, <1>12, <1>13, <1>17
  <2> QED BY <2>1, <2>2, <1>2
<1>18. \A i \in (Len(t) + 1) .. Len(M) :
         /\ EqualsLine(s, M[i].key, M[i])
         /\ \A j \in 1 .. Len(t) : ~(HasEquals(t[j]) /\ t[j].key = M[i].key)
  BY <1>13, <1>16
<1>19. Len(t) <= Len(M)
  BY <1>2, <1>10, <1>14, <1>15
<1>20. MergeOf(t, s, M)
  BY <1>4, <1>15, <1>17, <1>18, <1>19 DEF MergeOf
<1> QED BY <1>20 DEF M

LEMMA MergeEnvText ==
  ASSUME NEW w, NEW t, NEW s, Text(w, t), Text(w, s)
  PROVE  Text(w, mergeEnv(t, s))
<1> DEFINE n == Len(t)
<1>1. PICK M : M = mergeEnv(t, s) /\ MergeOf(t, s, M)
  BY MergeEnvIs DEF Text
<1>2. M \in Seq(Lines) /\ n \in Nat /\ Len(M) \in Nat /\ n <= Len(M)
  BY <1>1 DEF MergeOf, Text
<1>3. \A k, l : EqualsLine(s, k, l) => FitLine(w, l) /\ HasEquals(l) /\ Assigning(l) /\ l.key = k
  BY DEF EqualsLine, Text, Assigning, HasEquals
<1>4. \A i \in 1 .. n :
        M[i] = t[i] \/ (HasEquals(t[i]) /\ HasEquals(M[i]) /\ M[i].key = t[i].key /\ FitLine(w, M[i]))
  BY <1>1, <1>3 DEF MergeOf
<1>5. \A i \in (n + 1) .. Len(M) :
        /\ FitLine(w, M[i]) /\ HasEquals(M[i])
        /\ \A j \in 1 .. n : ~(HasEquals(t[j]) /\ t[j].key = M[i].key)
        /\ \A j \in (n + 1) .. Len(M) : M[j].key = M[i].key => j = i
  BY <1>1, <1>3 DEF MergeOf
<1>6. \A i \in 1 .. Len(M) : i \in 1 .. n \/ i \in (n + 1) .. Len(M)
  BY <1>2
<1>7. \A i \in 1 .. Len(M) : FitLine(w, M[i])
  BY <1>4, <1>5, <1>6 DEF Text
<1>8. OneEach(M)
  <2> SUFFICES ASSUME NEW i \in 1 .. Len(M), NEW j \in 1 .. Len(M),
                      i < j, Assigning(M[i]), Assigning(M[j]), M[i].key = M[j].key
               PROVE  M[i].form = "colon" /\ HasEquals(M[j])
    BY DEF OneEach
  <2>1. CASE j \in 1 .. n
    <3>1. i \in 1 .. n
      BY <1>2, <2>1
    <3>2. /\ Assigning(t[i]) /\ Assigning(t[j]) /\ t[i].key = t[j].key
      BY <1>4, <2>1, <3>1 DEF Assigning, HasEquals
    <3>3. t[i].form = "colon" /\ HasEquals(t[j])
      BY <2>1, <3>1, <3>2 DEF Text, OneEach
    <3> QED BY <1>4, <2>1, <3>1, <3>3 DEF HasEquals
  <2>2. CASE i \in 1 .. n /\ j \in (n + 1) .. Len(M)
    <3>1. ~HasEquals(t[i])
      BY <1>4, <1>5, <2>2
    <3>2. M[i] = t[i] /\ HasEquals(M[j])
      BY <1>4, <1>5, <2>2, <3>1
    <3> QED BY <3>1, <3>2 DEF HasEquals, Assigning
  <2>3. CASE i \in (n + 1) .. Len(M) /\ j \in (n + 1) .. Len(M)
    <3>1. i = j
      BY <1>5, <2>3
    <3> QED BY <3>1, <1>2
  <2> QED BY <1>6, <2>1, <2>2, <2>3
<1>9. RestBehind(w, M)
  <2> SUFFICES ASSUME NEW i \in 1 .. Len(M), M[i].form = "rest"
               PROVE  i > 1 /\ HasEquals(M[i - 1]) /\ Several(w, M[i - 1].key)
    BY DEF RestBehind
  <2>1. ~HasEquals(M[i])
    BY DEF HasEquals
  <2>2. i \in 1 .. n /\ M[i] = t[i]
    BY <2>1, <1>4, <1>5, <1>6
  <2>3. i > 1 /\ HasEquals(t[i - 1]) /\ Several(w, t[i - 1].key)
    BY <2>2 DEF Text, RestBehind
  <2>4. i - 1 \in 1 .. n
    BY <1>2, <2>2, <2>3
  <2> QED BY <1>4, <2>3, <2>4
<1> QED BY <1>1, <1>2, <1>7, <1>8, <1>9 DEF Text

LEMMA MergeEnvReads ==
  ASSUME NEW w, NEW t, NEW s, Text(w, t), Text(w, s), Apart(w),
         NEW k \in DOMAIN parseEnvFile(mergeEnv(t, s)), ~Several(w, k)
  PROVE  \/ k \in DOMAIN parseEnvFile(t) /\ parseEnvFile(mergeEnv(t, s))[k] = parseEnvFile(t)[k]
         \/ \E i \in 1 .. Len(s) : /\ Assigning(s[i]) /\ s[i].key = k
                                   /\ parseEnvFile(mergeEnv(t, s))[k] = Said(s[i])
<1> DEFINE n == Len(t)
<1>1. PICK M : M = mergeEnv(t, s) /\ MergeOf(t, s, M)
  BY MergeEnvIs DEF Text
<1>2. Text(w, M) /\ n \in Nat /\ Len(M) \in Nat /\ n <= Len(M)
  BY <1>1, MergeEnvText DEF Text, MergeOf
<1>3. k \in Key /\ k \in DOMAIN parseEnvFile(M)
  BY <1>1 DEF parseEnvFile
<1>4. PICK p : LastOne(M, k, p) /\ parseEnvFile(M)[k] = Said(M[p])
  BY <1>2, <1>3, ParseIs
<1>5. p \in 1 .. Len(M) /\ Assigning(M[p]) /\ M[p].key = k
  BY <1>4 DEF LastOne
<1>6. CASE EqualsLine(s, k, M[p])
  BY <1>1, <1>4, <1>6 DEF EqualsLine, Assigning, HasEquals
<1>7. CASE ~EqualsLine(s, k, M[p])
  <2>1. p \in 1 .. n
    BY <1>1, <1>2, <1>5, <1>7 DEF MergeOf
  <2>2. M[p] = t[p]
    <3>1. \A l : EqualsLine(s, t[p].key, l) => l.key = t[p].key
      BY DEF EqualsLine
    <3> QED BY <1>1, <1>5, <1>7, <2>1, <3>1 DEF MergeOf
  <2>3. ASSUME NEW j \in 1 .. n, Assigning(t[j]), t[j].key = k PROVE j <= p
    <3>1. Assigning(M[j]) /\ M[j].key = k /\ j \in 1 .. Len(M)
      BY <1>1, <1>2, <2>3 DEF MergeOf, EqualsLine, Assigning, HasEquals
    <3> QED BY <1>4, <3>1 DEF LastOne
  <2>4. LastOne(t, k, p)
    BY <1>5, <2>1, <2>2, <2>3 DEF LastOne
  <2> QED BY <1>1, <1>3, <1>4, <2>2, <2>4, ParseIs
<1> QED BY <1>6, <1>7

-----------------------------------------------------------------------------
(* What is written to .env.up *)

\* The text of file u.
OpenedOf(u) == IF u.raw # NoText THEN u.raw ELSE Rebuilt(u.entries)

\* A key of the text has the value of the entries, unless it is fragile.
Agrees(w, u) ==
  \A k \in DOMAIN parseEnvFile(OpenedOf(u)) :
    Apart(w) /\ ~Several(w, k) /\ ~Hashed(w, k)
      => k \in DOMAIN u.entries /\ parseEnvFile(OpenedOf(u))[k] = u.entries[k]

LEMMA FragileIs ==
  /\ \A k : SeveralLines(k) <=> Several(written, k)
  /\ Torn <=> ~Apart(written)
  /\ \A k : Fragile(k) <=> (Several(written, k) \/ ~Apart(written) \/ Hashed(written, k))
<1>1. \A k : Meant(k) = MeantBy(written, k)
  BY DEF Meant, MeantBy
<1>2. \A k : SeveralLines(k) <=> Several(written, k)
  BY <1>1 DEF SeveralLines, Several
<1>3. Torn <=> ~Apart(written)
  BY <1>2 DEF Torn, Apart
<1>4. \A k : Fragile(k) <=> (Several(written, k) \/ ~Apart(written) \/ Hashed(written, k))
  BY <1>1, <1>2, <1>3 DEF Fragile, Hashed
<1> QED BY <1>2, <1>3, <1>4

LEMMA RunReadsIs == RunReadsAsUnlocked <=> (up # NoFile => Agrees(written, up))
BY FragileIs DEF RunReadsAsUnlocked, Agrees, OpenedOf, Opened

LEMMA TextIsSome ==
  ASSUME NEW w, NEW t, Text(w, t)
  PROVE  t # NoText
BY TextAssumption DEF Text

LEMMA OpenedText ==
  ASSUME NEW w, NEW u, FitFile(w, u)
  PROVE  Text(w, OpenedOf(u))
BY RebuiltText DEF FitFile, OpenedOf

LEMMA RebuiltAgrees ==
  ASSUME NEW w, NEW u, FitEntries(w, u.entries), u.raw = NoText
  PROVE  Agrees(w, u)
BY RebuiltText DEF Agrees, OpenedOf

LEMMA CreateFits ==
  ASSUME NEW w, NEW e, FitEntries(w, e), NEW t, t = NoText \/ Text(w, t)
  PROVE  FitFile(w, create(e, t))
<1> DEFINE u == create(e, t)
           rows == [k \in DOMAIN e |-> 1]
           clear == extractStructureComments(t)
<1>1. u = [entries |-> e, raw |-> t, clear |-> clear, rows |-> rows, slice |-> NoSlice]
  BY DEF create
<1>2. e \in Partial(Values)
  BY DEF FitEntries
<1>3. rows \in Partial(1 .. MaxVersion)
  <2>1. DOMAIN e \in SUBSET Key /\ 1 \in 1 .. MaxVersion
    BY <1>2, TextAssumption DEF Partial
  <2> QED BY <2>1 DEF Partial
<1>4. clear \in SUBSET (Values \cup {NoValue})
  <2>1. CASE t = NoText
    BY <2>1 DEF extractStructureComments
  <2>2. CASE Text(w, t)
    <3>1. ToSet(t) \subseteq Lines
      BY <2>2, LenProperties DEF Text, ToSet
    <3>2. \A l \in Lines : l.val \in Values \cup {NoValue}
      BY DEF Lines
    <3> QED BY <3>1, <3>2 DEF extractStructureComments
  <2> QED BY <2>1, <2>2
<1>5. t \in Seq(Lines) \cup {NoText}
  BY DEF Text
<1> HIDE DEF u, rows, clear
<1>6. u \in Files /\ u.entries = e /\ u.raw = t /\ u.rows = rows /\ u.slice = NoSlice
  BY <1>1, <1>2, <1>3, <1>4, <1>5 DEF Files
<1>7. DOMAIN e \subseteq DOMAIN rows
  BY DEF rows
<1>8. FitFile(w, u)
  BY <1>6, <1>7 DEF FitFile
<1> QED BY <1>8 DEF u

LEMMA RestrictFits ==
  ASSUME NEW w, NEW e, FitEntries(w, e), NEW S, S \subseteq DOMAIN e
  PROVE  FitEntries(w, Restrict(e, S)) /\ DOMAIN Restrict(e, S) = S
<1>1. PICK K \in SUBSET Key : e \in [K -> Values]
  BY DEF FitEntries, Partial
<1>2. DOMAIN e = K /\ S \in SUBSET Key
  BY <1>1
<1>3. Restrict(e, S) = [k \in S |-> e[k]]
  BY DEF Restrict
<1>4. Restrict(e, S) \in [S -> Values] /\ \A k \in S : Restrict(e, S)[k] \in Fits(w, k)
  BY <1>1, <1>2, <1>3 DEF FitEntries
<1> QED BY <1>2, <1>4 DEF FitEntries, Partial

LEMMA MergedFits ==
  ASSUME NEW e, FitEntries(written, e), NEW f, FitEntries(written, f)
  PROVE  /\ FitEntries(written, mergePolicyAware(e, f))
         /\ DOMAIN f \subseteq DOMAIN mergePolicyAware(e, f)
         /\ \A k \in DOMAIN f : mergePolicyAware(e, f)[k] = f[k]
         /\ up.slice # NoSlice => mergePolicyAware(e, f) = f
         /\ up.slice = NoSlice => \A k \in DOMAIN mergePolicyAware(e, f) \ DOMAIN f :
                                    k \in DOMAIN e /\ mergePolicyAware(e, f)[k] = e[k]
<1> DEFINE g == [k \in DOMAIN e \cup DOMAIN f |-> IF k \in DOMAIN f THEN f[k] ELSE e[k]]
<1>1. mergePolicyAware(e, f) = IF up.slice # NoSlice THEN f ELSE g
  BY DEF mergePolicyAware
<1>2. DOMAIN e \cup DOMAIN f \in SUBSET Key
  BY DEF FitEntries, Partial
<1>3. \A k \in Key : Fits(written, k) \subseteq Values
  BY PlainFits
<1>4. \A k \in DOMAIN e \cup DOMAIN f : g[k] = IF k \in DOMAIN f THEN f[k] ELSE e[k]
  OBVIOUS
<1>5. \A k \in DOMAIN e \cup DOMAIN f : g[k] \in Fits(written, k)
  BY <1>4 DEF FitEntries
<1>6. g \in [DOMAIN e \cup DOMAIN f -> Values]
  BY <1>2, <1>3, <1>5
<1>7. FitEntries(written, g)
  BY <1>2, <1>5, <1>6 DEF FitEntries, Partial
<1>8. DOMAIN g = DOMAIN e \cup DOMAIN f
  OBVIOUS
<1> HIDE DEF g
<1> QED BY <1>1, <1>4, <1>7, <1>8

LEMMA BumpFits ==
  ASSUME NEW rows \in Partial(1 .. MaxVersion), NEW merged, DOMAIN merged \subseteq Key,
         NEW touched, NEW bumped, bumped = bumpKeysMetadata(rows, merged, touched)
  PROVE  /\ DOMAIN bumped = DOMAIN rows \cup DOMAIN merged
         /\ (\A k \in DOMAIN bumped : bumped[k] <= MaxVersion)
              => bumped \in Partial(1 .. MaxVersion)
<1> DEFINE D == DOMAIN rows \cup DOMAIN merged
<1>1. PICK K \in SUBSET Key : rows \in [K -> 1 .. MaxVersion]
  BY DEF Partial
<1>2. D \in SUBSET Key /\ MaxVersion \in Nat
  BY <1>1, TextAssumption
<1>3. bumped = [k \in D |-> IF k \notin DOMAIN rows THEN 1
                            ELSE IF k \in DOMAIN merged \cap touched THEN rows[k] + 1
                            ELSE rows[k]]
  BY DEF bumpKeysMetadata
<1>4. \A k \in D : bumped[k] \in Nat /\ 1 <= bumped[k]
  BY <1>1, <1>2, <1>3
<1>5. ASSUME \A k \in DOMAIN bumped : bumped[k] <= MaxVersion
      PROVE  bumped \in [D -> 1 .. MaxVersion]
  <2>1. DOMAIN bumped = D
    BY <1>3
  <2> HIDE DEF D
  <2>2. \A k \in D : bumped[k] \in Nat /\ 1 <= bumped[k] /\ bumped[k] <= MaxVersion
    BY <2>1, <1>4, <1>5
  <2>3. \A k \in D : bumped[k] \in 1 .. MaxVersion
    BY <2>2, <1>2
  <2>4. bumped = [k \in D |-> bumped[k]]
    BY <1>3 DEF D
  <2> QED BY <2>3, <2>4
<1> QED BY <1>2, <1>3, <1>5 DEF Partial

LEMMA RowsRestricted ==
  ASSUME NEW rows \in Partial(1 .. MaxVersion), NEW S, S \subseteq DOMAIN rows
  PROVE  /\ Restrict(rows, S) \in Partial(1 .. MaxVersion) /\ DOMAIN Restrict(rows, S) = S
         /\ \A k \in S : Restrict(rows, S)[k] = rows[k]
<1>1. PICK K \in SUBSET Key : rows \in [K -> 1 .. MaxVersion]
  BY DEF Partial
<1>2. Restrict(rows, S) = [k \in S |-> rows[k]]
  BY DEF Restrict
<1>3. S \in SUBSET Key /\ Restrict(rows, S) \in [S -> 1 .. MaxVersion]
  BY <1>1, <1>2
<1> QED BY <1>2, <1>3 DEF Partial

\* What mergeReencrypt makes of .env.up out of a text.
LEMMA MergeFits ==
  ASSUME NEW t, Text(written, t), FitFile(written, up), Merge(t)
  PROVE  FitFile(written, up') /\ Agrees(written, up')
<1> DEFINE new == parseEnvFile(t)
           merged == mergePolicyAware(up.entries, new)
           rows == bumpKeysMetadata(up.rows, merged, Touched(new))
           kept == Restrict(rows, Allowed(DOMAIN rows))
           raw == filterRawForKeys(t, Allowed(DOMAIN merged))
<1>1. /\ DOMAIN new \subseteq Allowed(Key) /\ Allowed({}) \subseteq DOMAIN rows
      /\ \A k \in DOMAIN rows : rows[k] <= MaxVersion
      /\ up' = [up EXCEPT !.entries = merged, !.raw = raw, !.rows = kept]
  BY DEF Merge, MergedText
<1>2. FitEntries(written, new) /\ FitEntries(written, up.entries) /\ up \in Files
  BY ParseFits DEF FitFile
<1>3. /\ FitEntries(written, merged) /\ DOMAIN new \subseteq DOMAIN merged
      /\ \A k \in DOMAIN new : merged[k] = new[k]
      /\ up.slice # NoSlice => merged = new
  BY <1>2, MergedFits
<1>4. merged \in Partial(Values) /\ DOMAIN merged \subseteq Key
  BY <1>3 DEF FitEntries, Partial
<1>5. up.rows \in Partial(1 .. MaxVersion)
  BY <1>2 DEF Files
<1>6. rows \in Partial(1 .. MaxVersion) /\ DOMAIN rows = DOMAIN up.rows \cup DOMAIN merged
  <2>1. PICK R : R = up.rows
    OBVIOUS
  <2>2. PICK T : T = Touched(new)
    OBVIOUS
  <2>3. PICK M : M = merged
    OBVIOUS
  <2>4. PICK B : B = bumpKeysMetadata(R, M, T)
    OBVIOUS
  <2>5. B = rows
    BY <2>1, <2>2, <2>3, <2>4
  <2>6. DOMAIN M \subseteq Key /\ R \in Partial(1 .. MaxVersion)
    BY <2>1, <2>3, <1>4, <1>5
  <2>7. /\ DOMAIN B = DOMAIN R \cup DOMAIN M
        /\ (\A k \in DOMAIN B : B[k] <= MaxVersion) => B \in Partial(1 .. MaxVersion)
    BY <2>4, <2>6, BumpFits
  <2> QED BY <2>1, <2>3, <2>5, <2>7, <1>1
<1>7. Allowed(DOMAIN rows) \subseteq DOMAIN rows
  BY <1>1 DEF Allowed
<1>8. kept \in Partial(1 .. MaxVersion) /\ DOMAIN kept = Allowed(DOMAIN rows)
  BY <1>6, <1>7, RowsRestricted
<1>9. DOMAIN merged \subseteq DOMAIN kept /\ (up.slice # NoSlice => up.slice \subseteq DOMAIN kept)
  BY <1>1, <1>3, <1>6, <1>8 DEF Allowed
<1>10. raw # NoText => Text(written, raw)
  BY FilterText
<1>11. raw \in Seq(Lines) \cup {NoText}
  BY <1>10 DEF Text
<1> HIDE DEF merged, rows, kept, raw
<1>12. /\ up'.entries = merged /\ up'.raw = raw /\ up'.rows = kept /\ up'.slice = up.slice
       /\ up' \in Files
  BY <1>1, <1>2, <1>4, <1>8, <1>11 DEF Files
<1>13. FitFile(written, up')
  BY <1>3, <1>9, <1>10, <1>12 DEF FitFile
<1>14. Agrees(written, up')
  <2>1. CASE raw = NoText
    BY <2>1, <1>3, <1>12, RebuiltAgrees
  <2>2. CASE raw # NoText
    <3>1. OpenedOf(up') = raw
      BY <2>2, <1>12 DEF OpenedOf
    <3>2. ASSUME NEW k \in DOMAIN parseEnvFile(raw), Apart(written), ~Several(written, k)
          PROVE  k \in DOMAIN merged /\ parseEnvFile(raw)[k] = merged[k]
      <4>1. k \in DOMAIN new /\ parseEnvFile(raw)[k] = new[k]
        BY <2>2, <3>2, FilterReads DEF raw
      <4> QED BY <4>1, <1>3
    <3> QED BY <3>1, <3>2, <1>12 DEF Agrees
  <2> QED BY <2>1, <2>2
<1> QED BY <1>13, <1>14

LEMMA CreateAgrees ==
  ASSUME NEW w, NEW t, Text(w, t)
  PROVE  FitFile(w, create(parseEnvFile(t), t)) /\ Agrees(w, create(parseEnvFile(t), t))
<1> DEFINE u == create(parseEnvFile(t), t)
<1>1. FitFile(w, u)
  BY ParseFits, CreateFits
<1>2. u.entries = parseEnvFile(t) /\ u.raw = t
  BY DEF create
<1>3. OpenedOf(u) = t
  BY <1>2, TextIsSome DEF OpenedOf
<1> HIDE DEF u
<1>4. Agrees(w, u)
  BY <1>2, <1>3 DEF Agrees
<1> QED BY <1>1, <1>4 DEF u

\* A file that is encrypted again, without a policy.
LEMMA RecreatedFits ==
  ASSUME NEW w, NEW u, FitFile(w, u), Agrees(w, u)
  PROVE  FitFile(w, create(u.entries, u.raw)) /\ Agrees(w, create(u.entries, u.raw))
<1> DEFINE v == create(u.entries, u.raw)
<1>1. FitFile(w, v)
  BY CreateFits DEF FitFile
<1>2. v.entries = u.entries /\ v.raw = u.raw
  BY DEF create
<1> HIDE DEF v
<1>3. OpenedOf(v) = OpenedOf(u)
  BY <1>2 DEF OpenedOf
<1>4. Agrees(w, v)
  BY <1>2, <1>3 DEF Agrees
<1> QED BY <1>1, <1>4 DEF v

\* A file that is encrypted again for the keys S.
LEMMA RestrictedFits ==
  ASSUME NEW w, NEW u, FitFile(w, u), Agrees(w, u), NEW S, S = u.slice, u.slice # NoSlice,
         DOMAIN u.rows \subseteq DOMAIN u.entries, NEW v,
         v = [u EXCEPT !.entries = Restrict(u.entries, S),
                       !.raw = IF u.raw = NoText THEN NoText ELSE filterRawForKeys(u.raw, S),
                       !.rows = Restrict(u.rows, S)]
  PROVE  FitFile(w, v) /\ Agrees(w, v)
<1> DEFINE entries == Restrict(u.entries, S)
           raw == IF u.raw = NoText THEN NoText ELSE filterRawForKeys(u.raw, S)
           rows == Restrict(u.rows, S)
<1>1. S \subseteq DOMAIN u.rows /\ S \subseteq DOMAIN u.entries /\ u \in Files
  BY DEF FitFile
<1>2. FitEntries(w, entries) /\ DOMAIN entries = S
  BY <1>1, RestrictFits DEF FitFile
<1>3. u.rows \in Partial(1 .. MaxVersion)
  BY <1>1 DEF Files
<1>4. rows \in Partial(1 .. MaxVersion) /\ DOMAIN rows = S
  BY <1>1, <1>3, RowsRestricted
<1>5. raw # NoText => Text(w, raw)
  BY FilterText DEF FitFile
<1>6. raw \in Seq(Lines) \cup {NoText} /\ entries \in Partial(Values)
  BY <1>2, <1>5 DEF Text, FitEntries
<1>7. \A k \in S : entries[k] = u.entries[k]
  BY DEF Restrict
<1>8. v = [u EXCEPT !.entries = entries, !.raw = raw, !.rows = rows]
  OBVIOUS
<1>9. raw # NoText => u.raw # NoText /\ raw = filterRawForKeys(u.raw, S)
  OBVIOUS
<1> HIDE DEF entries, raw, rows
<1>10. /\ v.entries = entries /\ v.raw = raw /\ v.rows = rows /\ v.slice = u.slice
       /\ v \in Files
  BY <1>1, <1>4, <1>6, <1>8 DEF Files
<1>11. FitFile(w, v)
  BY <1>2, <1>4, <1>5, <1>10 DEF FitFile
<1>12. Agrees(w, v)
  <2>1. CASE raw = NoText
    BY <2>1, <1>2, <1>10, RebuiltAgrees
  <2>2. CASE raw # NoText
    <3>1. OpenedOf(v) = raw /\ OpenedOf(u) = u.raw /\ Text(w, u.raw)
      BY <2>2, <1>9, <1>10 DEF OpenedOf, FitFile
    <3>2. ASSUME NEW k \in DOMAIN parseEnvFile(raw), Apart(w), ~Several(w, k), ~Hashed(w, k)
          PROVE  k \in DOMAIN entries /\ parseEnvFile(raw)[k] = entries[k]
      <4>1. /\ k \in S /\ k \in DOMAIN parseEnvFile(u.raw)
            /\ parseEnvFile(raw)[k] = parseEnvFile(u.raw)[k]
        BY <2>2, <3>1, <3>2, <1>9, FilterReads
      <4>2. parseEnvFile(u.raw)[k] = u.entries[k]
        BY <4>1, <3>1, <3>2 DEF Agrees
      <4> QED BY <4>1, <4>2, <1>2, <1>7
    <3> QED BY <3>1, <3>2, <1>10 DEF Agrees
  <2> QED BY <2>1, <2>2
<1> QED BY <1>11, <1>12

-----------------------------------------------------------------------------
(* The inductive invariant *)

\* Both files consist of what conversions can make of the lines that the user has
\* written, and the text in .env.up says what its entries say.
Sound ==
  /\ TextInvariant
  /\ up # NoFile => Agrees(written, up)

LEMMA SoundInit == Init => Sound
<1> SUFFICES ASSUME Init PROVE Sound
  OBVIOUS
<1>1. Text(written, env)
  BY UserTextFits DEF Init
<1>2. written \subseteq Lines
  <2>1. env \in Seq(Lines) /\ written = ToSet(env)
    BY <1>1 DEF Text, Init
  <2> QED BY <2>1, LenProperties DEF ToSet
<1> QED BY <1>1, <1>2 DEF Sound, TextInvariant, Init

\* What the user writes: the old texts still stand, with the new lines.
LEMMA WrittenMore ==
  ASSUME Sound, NEW t \in UserText, written' = written \cup ToSet(t), UNCHANGED up
  PROVE  /\ written' \subseteq Lines /\ Text(written', t)
         /\ env # NoFile => Text(written', env)
         /\ up # NoFile => FitFile(written', up') /\ Agrees(written', up')
<1>1. PICK w : w = written
  OBVIOUS
<1>2. PICK v : v = written'
  OBVIOUS
<1>3. w \subseteq v /\ ToSet(t) \subseteq v /\ v = w \cup ToSet(t)
  BY <1>1, <1>2
<1>4. Text(v, t)
  BY <1>3, UserTextFits
<1>5. v \subseteq Lines
  <2>1. t \in Seq(Lines) /\ w \subseteq Lines
    BY <1>1, <1>4 DEF Text, Sound, TextInvariant
  <2> QED BY <2>1, <1>3, LenProperties DEF ToSet
<1>6. env # NoFile => Text(v, env)
  BY <1>1, <1>3, Growing DEF Sound, TextInvariant
<1>7. up # NoFile => FitFile(w, up) /\ Agrees(w, up)
  BY <1>1 DEF Sound, TextInvariant
<1>8. up # NoFile => FitFile(v, up)
  BY <1>3, <1>7, Growing
<1>9. up # NoFile => Agrees(v, up)
  BY <1>3, <1>7, Growing DEF Agrees
<1> QED BY <1>2, <1>4, <1>5, <1>6, <1>8, <1>9

LEMMA SoundEdit == Sound /\ Edit => Sound'
<1> SUFFICES ASSUME Sound, NEW t \in UserText, env' = t, Types(t), UNCHANGED up
             PROVE  Sound'
  BY DEF Edit
<1> QED BY WrittenMore DEF Sound, TextInvariant, Types

LEMMA EmptyText ==
  ASSUME NEW w
  PROVE  Text(w, <<>>)
BY DEF Text, OneEach, RestBehind

LEMMA SoundReceiveShare == Sound /\ ReceiveShare => Sound'
<1> DEFINE old == IF env = NoFile THEN <<>> ELSE env
<1> SUFFICES ASSUME Sound, NEW t \in UserText, env' = t \/ env' = mergeEnv(old, t),
                    Types(t), UNCHANGED up
             PROVE  Sound'
  BY DEF ReceiveShare
<1>1. /\ written' \subseteq Lines /\ Text(written', t)
      /\ env # NoFile => Text(written', env)
      /\ up # NoFile => FitFile(written', up') /\ Agrees(written', up')
  BY WrittenMore DEF Types
<1>2. Text(written', env')
  <2>1. PICK v : v = written'
    OBVIOUS
  <2>2. PICK o : o = old
    OBVIOUS
  <2>3. Text(v, t) /\ Text(v, o)
    BY <2>1, <2>2, <1>1, EmptyText
  <2>4. Text(v, mergeEnv(o, t))
    BY <2>3, MergeEnvText
  <2> QED BY <2>1, <2>2, <2>3, <2>4
<1> QED BY <1>1, <1>2 DEF Sound, TextInvariant

LEMMA SoundImport == Sound /\ Import => Sound'
<1> SUFFICES ASSUME Sound, Import PROVE Sound'
  OBVIOUS
<1>1. Text(written, env) /\ UNCHANGED <<env, written>>
  BY DEF Sound, TextInvariant, Import
<1>2. FitFile(written, up') /\ Agrees(written, up')
  <2>1. CASE up = NoFile
    BY <2>1, <1>1, CreateAgrees DEF Import
  <2>2. CASE up # NoFile
    BY <2>2, <1>1, MergeFits DEF Import, Sound, TextInvariant
  <2> QED BY <2>1, <2>2
<1> QED BY <1>1, <1>2 DEF Sound, TextInvariant

\* What an unlock writes alone.
LEMMA OpenedIs ==
  ASSUME Sound, up # NoFile
  PROVE  Text(written, Opened)
<1>1. Opened = OpenedOf(up)
  BY DEF Opened, OpenedOf
<1> QED BY <1>1, OpenedText DEF Sound, TextInvariant

LEMMA SoundCliUnlock == Sound /\ CliUnlock => Sound'
<1> SUFFICES ASSUME Sound, CliUnlock PROVE Sound'
  OBVIOUS
<1>1. Text(written, env') /\ UNCHANGED <<up, written>>
  BY OpenedIs DEF CliUnlock
<1> QED BY <1>1 DEF Sound, TextInvariant

LEMMA SoundExtUnlock == Sound /\ ExtUnlock => Sound'
<1> SUFFICES ASSUME Sound, ExtUnlock PROVE Sound'
  OBVIOUS
<1>1. up # NoFile /\ written' = written /\ Text(written, Opened)
  BY OpenedIs DEF ExtUnlock
<1>2. CASE env = NoFile
  <2>1. Text(written, env') /\ UNCHANGED up
    BY <1>1, <1>2 DEF ExtUnlock
  <2> QED BY <1>1, <2>1 DEF Sound, TextInvariant
<1>3. CASE env # NoFile
  <2>1. PICK prefer \in {"env", "envUp"} :
          /\ env' = mergeEnvContent(env, Opened, prefer)
          /\ up' = create(parseEnvFile(env'), env')
    BY <1>3 DEF ExtUnlock
  <2>2. Text(written, env)
    BY <1>3 DEF Sound, TextInvariant
  <2>3. Text(written, env')
    BY <2>1, <2>2, <1>1, MergedContentText
  <2>4. FitFile(written, up') /\ Agrees(written, up')
    BY <2>1, <2>3, CreateAgrees
  <2> QED BY <2>3, <2>4, <1>1 DEF Sound, TextInvariant
<1> QED BY <1>2, <1>3

LEMMA SoundLock == Sound /\ Lock => Sound'
BY DEF Sound, TextInvariant, Lock

LEMMA SoundSafeEditSave == Sound /\ SafeEditSave => Sound'
<1> SUFFICES ASSUME Sound, SafeEditSave PROVE Sound'
  OBVIOUS
<1>1. up # NoFile /\ UNCHANGED <<env, written>> /\ Text(written, Opened)
  BY OpenedIs DEF SafeEditSave
<1>2. FitFile(written, up) /\ (env # NoFile => Text(written, env))
  BY <1>1 DEF Sound, TextInvariant
<1>3. FitFile(written, up') /\ Agrees(written, up')
  <2>1. CASE Merge(Opened)
    BY <2>1, <1>1, <1>2, MergeFits
  <2>2. CASE env # NoFile /\ \E prefer \in {"env", "envUp"} :
                               Merge(mergeEnvContent(env, Opened, prefer))
    <3>1. PICK prefer \in {"env", "envUp"} : Merge(mergeEnvContent(env, Opened, prefer))
      BY <2>2
    <3>2. Text(written, mergeEnvContent(env, Opened, prefer))
      BY <2>2, <1>1, <1>2, MergedContentText
    <3> QED BY <3>1, <3>2, <1>2, MergeFits
  <2> QED BY <2>1, <2>2 DEF SafeEditSave
<1> QED BY <1>1, <1>2, <1>3 DEF Sound, TextInvariant

LEMMA SoundPageSave == Sound /\ PageSave => Sound'
<1> SUFFICES ASSUME Sound, PageSave PROVE Sound'
  OBVIOUS
<1>1. up # NoFile /\ UNCHANGED <<env, written>>
  BY DEF PageSave
<1>2. FitFile(written, up) /\ FitEntries(written, up.entries)
  BY <1>1 DEF Sound, TextInvariant, FitFile
<1>3. Text(written, Page(up.entries)) /\ Text(written, ErrorPage)
  BY <1>2, PageText, ErrorPageText
<1>4. FitFile(written, up') /\ Agrees(written, up')
  <2>1. CASE Merge(Page(up.entries))
    BY <2>1, <1>2, <1>3, MergeFits
  <2>2. CASE Merge(ErrorPage)
    BY <2>2, <1>2, <1>3, MergeFits
  <2> QED BY <2>1, <2>2 DEF PageSave
<1> QED BY <1>1, <1>4 DEF Sound, TextInvariant

LEMMA SoundReencrypt == Sound /\ Reencrypt => Sound'
<1> SUFFICES ASSUME Sound, Reencrypt PROVE Sound'
  OBVIOUS
<1>1. UNCHANGED <<env, written>> /\ FitFile(written, up) /\ Agrees(written, up)
  BY DEF Sound, TextInvariant, Reencrypt
<1>2. FitFile(written, up') /\ Agrees(written, up')
  <2>1. CASE up.slice = NoSlice
    BY <2>1, <1>1, RecreatedFits DEF Reencrypt
  <2>2. CASE up.slice # NoSlice
    <3>1. /\ DOMAIN up.rows \subseteq DOMAIN up.entries
          /\ up' = [up EXCEPT
                      !.entries = Restrict(up.entries, up.slice),
                      !.raw = IF up.raw = NoText THEN NoText
                              ELSE filterRawForKeys(up.raw, up.slice),
                      !.rows = Restrict(up.rows, up.slice)]
      BY <2>2 DEF Reencrypt
    <3> QED BY <3>1, <2>2, <1>1, RestrictedFits
  <2> QED BY <2>1, <2>2
<1> QED BY <1>1, <1>2 DEF Sound, TextInvariant

LEMMA SoundAddPolicy == Sound /\ AddPolicy => Sound'
<1> SUFFICES ASSUME Sound, AddPolicy PROVE Sound'
  OBVIOUS
<1>1. UNCHANGED <<env, written>> /\ FitFile(written, up) /\ Agrees(written, up)
  BY DEF Sound, TextInvariant, AddPolicy
<1>2. PICK s \in SUBSET DOMAIN up.rows : up' = [up EXCEPT !.slice = s]
  BY DEF AddPolicy
<1>3. up \in Files /\ s \subseteq Key
  BY <1>1, <1>2 DEF FitFile, Files, Partial
<1>4. /\ up' \in Files /\ up'.entries = up.entries /\ up'.raw = up.raw
      /\ up'.rows = up.rows /\ up'.slice = s
  BY <1>2, <1>3 DEF Files
<1>5. FitFile(written, up')
  BY <1>1, <1>2, <1>4 DEF FitFile
<1>6. OpenedOf(up') = OpenedOf(up)
  BY <1>4 DEF OpenedOf
<1>7. Agrees(written, up')
  BY <1>1, <1>4, <1>6 DEF Agrees
<1> QED BY <1>1, <1>5, <1>7 DEF Sound, TextInvariant

LEMMA SoundStep == Sound /\ [Next]_vars => Sound'
<1> SUFFICES ASSUME Sound, [Next]_vars PROVE Sound'
  OBVIOUS
<1>1. CASE UNCHANGED vars
  BY <1>1 DEF vars, Sound, TextInvariant
<1>2. CASE Next
  BY <1>2, SoundEdit, SoundReceiveShare, SoundImport, SoundCliUnlock, SoundExtUnlock,
     SoundLock, SoundSafeEditSave, SoundPageSave, SoundReencrypt, SoundAddPolicy DEF Next
<1> QED BY <1>1, <1>2

\* No command writes a text or entries that the conversions cannot have made of the
\* user's lines, and none lets the text of .env.up part from its entries.
THEOREM SoundAlways == Spec => []Sound
<1>1. Init => Sound
  BY SoundInit
<1>2. Sound /\ [Next]_vars => Sound'
  BY SoundStep
<1> QED BY <1>1, <1>2, PTL DEF Spec

-----------------------------------------------------------------------------
(* The properties *)

\* Every line and every entry has a value of the model, versions stay in their bound,
\* the block names the keys its header names and so does a policy (TypeOK).
THEOREM TypeCorrect == Spec => []TypeOK
<1>1. Sound => TypeOK
  <2> SUFFICES ASSUME Sound PROVE TypeOK
    OBVIOUS
  <2>1. ASSUME env # NoFile, NEW l \in ToSet(env)
        PROVE  l.val \in Values \cup {NoValue}
    <3>1. env \in Seq(Lines)
      BY <2>1 DEF Sound, TextInvariant, Text
    <3>2. l \in Lines
      BY <2>1, <3>1, LenProperties DEF ToSet
    <3> QED BY <3>2 DEF Lines
  <2>2. ASSUME up # NoFile
        PROVE  /\ up.entries \in Partial(Values) /\ up.rows \in Partial(1 .. MaxVersion)
               /\ DOMAIN up.entries \subseteq DOMAIN up.rows
               /\ up.slice # NoSlice => up.slice \subseteq DOMAIN up.rows
    BY <2>2 DEF Sound, TextInvariant, FitFile, Files
  <2>3. \A V : \A f \in Partial(V) : Range(f) \subseteq V
    BY DEF Range, Partial
  <2> QED BY <2>1, <2>2, <2>3 DEF TypeOK
<1> QED BY <1>1, SoundAlways, PTL

\* up run and unlock agree on every key that is not fragile (RunReadsAsUnlocked).
THEOREM RunReadsHolds == Spec => []RunReadsAsUnlocked
<1>1. Sound => RunReadsAsUnlocked
  BY RunReadsIs DEF Sound
<1> QED BY <1>1, SoundAlways, PTL

\* A merge raises the version of each key that it gives another value.
LEMMA MergeRaises ==
  ASSUME NEW t, Text(written, t), FitFile(written, up), Merge(t),
         NEW k \in DOMAIN up.entries \cap DOMAIN up'.entries, up.entries[k] # up'.entries[k]
  PROVE  up'.rows[k] > up.rows[k]
<1> DEFINE new == parseEnvFile(t)
           merged == mergePolicyAware(up.entries, new)
           rows == bumpKeysMetadata(up.rows, merged, Touched(new))
           kept == Restrict(rows, Allowed(DOMAIN rows))
<1>1. /\ DOMAIN new \subseteq Allowed(Key) /\ Allowed({}) \subseteq DOMAIN rows
      /\ \A j \in DOMAIN rows : rows[j] <= MaxVersion
      /\ up'.entries = merged /\ up'.rows = kept
  BY DEF Merge, FitFile, Files
<1>2. FitEntries(written, new) /\ FitEntries(written, up.entries) /\ up \in Files
  BY ParseFits DEF FitFile
<1>3. /\ FitEntries(written, merged)
      /\ \A j \in DOMAIN new : merged[j] = new[j]
      /\ up.slice # NoSlice => merged = new
      /\ up.slice = NoSlice => \A j \in DOMAIN merged \ DOMAIN new : merged[j] = up.entries[j]
  BY <1>2, MergedFits
<1>4. k \in DOMAIN new /\ k \in Touched(new) /\ k \in DOMAIN merged /\ k \in DOMAIN up.rows
  <2> HIDE DEF merged, kept, rows
  <2>1. k \in DOMAIN new
    BY <1>1, <1>3
  <2> QED BY <2>1, <1>1, <1>3 DEF Touched, FitFile
<1>5. DOMAIN merged \subseteq Key /\ up.rows \in Partial(1 .. MaxVersion)
  BY <1>2, <1>3 DEF FitEntries, Partial, Files
<1>6. PICK R, M, T, B : /\ R = up.rows /\ M = merged /\ T = Touched(new)
                        /\ B = bumpKeysMetadata(R, M, T)
  OBVIOUS
<1>7. R \in Partial(1 .. MaxVersion) /\ DOMAIN M \subseteq Key /\ B = bumpKeysMetadata(R, M, T)
  BY <1>5, <1>6
<1>8. /\ DOMAIN B = DOMAIN R \cup DOMAIN M
      /\ (\A j \in DOMAIN B : B[j] <= MaxVersion) => B \in Partial(1 .. MaxVersion)
  BY <1>7, BumpFits
<1>9. B = rows /\ B \in Partial(1 .. MaxVersion)
  BY <1>1, <1>6, <1>8
<1>10. B[k] = R[k] + 1 /\ R[k] \in Nat
  <2>1. k \in DOMAIN R \cap DOMAIN M \cap T
    BY <1>4, <1>6
  <2>2. R[k] \in 1 .. MaxVersion
    BY <2>1, <1>5, <1>6 DEF Partial
  <2> QED BY <2>1, <2>2, <1>7, TextAssumption DEF bumpKeysMetadata
<1>11. Allowed(DOMAIN rows) \subseteq DOMAIN rows /\ k \in Allowed(DOMAIN rows)
  BY <1>1, <1>4, <1>6, <1>8, <1>9 DEF Allowed
<1>12. kept[k] = B[k]
  BY <1>9, <1>11, RowsRestricted
<1> QED BY <1>1, <1>6, <1>10, <1>12

\* Whatever changes the value of a key raises its version, but for the extension's
\* unlock, which begins them anew (VersionTellsChange).
THEOREM VersionsTellChange == Spec => VersionTellsChange
<1> DEFINE Told == (up # NoFile /\ up' # NoFile) =>
              \/ \A k \in DOMAIN up.entries \cap DOMAIN up'.entries :
                   up.entries[k] # up'.entries[k] => up'.rows[k] > up.rows[k]
              \/ ExtUnlock
<1>1. ASSUME Sound, [Next]_vars PROVE [Told]_vars
  <2> SUFFICES ASSUME Next, up # NoFile, up' # NoFile, ~ExtUnlock,
                      NEW k \in DOMAIN up.entries \cap DOMAIN up'.entries,
                      up.entries[k] # up'.entries[k]
               PROVE  up'.rows[k] > up.rows[k]
    BY <1>1
  <2>1. FitFile(written, up) /\ (env # NoFile => Text(written, env)) /\ Text(written, Opened)
    BY <1>1, OpenedIs DEF Sound, TextInvariant
  <2>2. CASE Import
    BY <2>1, <2>2, MergeRaises DEF Import
  <2>3. CASE SafeEditSave
    <3>1. CASE Merge(Opened)
      BY <2>1, <3>1, MergeRaises
    <3>2. ASSUME env # NoFile, NEW prefer \in {"env", "envUp"},
                 Merge(mergeEnvContent(env, Opened, prefer))
          PROVE  up'.rows[k] > up.rows[k]
      BY <2>1, <3>2, MergedContentText, MergeRaises
    <3> QED BY <2>3, <3>1, <3>2 DEF SafeEditSave
  <2>4. CASE PageSave
    <3>1. Text(written, Page(up.entries)) /\ Text(written, ErrorPage)
      BY <2>1, PageText, ErrorPageText DEF FitFile
    <3>2. CASE Merge(Page(up.entries))
      BY <2>1, <3>1, <3>2, MergeRaises
    <3>3. CASE Merge(ErrorPage)
      BY <2>1, <3>1, <3>3, MergeRaises
    <3> QED BY <2>4, <3>2, <3>3 DEF PageSave
  <2>5. CASE Reencrypt
    <3>1. CASE up.slice = NoSlice
      BY <2>5, <3>1 DEF Reencrypt, create
    <3>2. CASE up.slice # NoSlice
      <4>1. up'.entries = Restrict(up.entries, up.slice)
        BY <2>1, <2>5, <3>2 DEF Reencrypt, FitFile, Files
      <4> QED BY <4>1 DEF Restrict
    <3> QED BY <3>1, <3>2
  <2>6. CASE AddPolicy
    BY <2>1, <2>6 DEF AddPolicy, FitFile, Files
  <2>7. CASE Edit \/ ReceiveShare \/ CliUnlock \/ Lock
    BY <2>7 DEF Edit, ReceiveShare, CliUnlock, Lock
  <2> QED BY <2>2, <2>3, <2>4, <2>5, <2>6, <2>7 DEF Next
<1> HIDE DEF Told
<1>2. Spec => [][Told]_vars
  BY <1>1, SoundAlways, PTL DEF Spec
<1> QED BY <1>2 DEF Told, VersionTellsChange

\* What was imported is what an unlock writes (ImportReadsBack).
THEOREM ImportsReadBack == Spec => ImportReadsBack
<1> DEFINE Back == Import => \A k \in DOMAIN parseEnvFile(env) :
                 \/ Fragile(k)
                 \/ \E l \in written : l.form = "colon" /\ l.key = k
                 \/ /\ k \in DOMAIN parseEnvFile(Opened')
                    /\ parseEnvFile(Opened')[k] = parseEnvFile(env)[k]
<1>1. ASSUME Sound, [Next]_vars PROVE [Back]_vars
  <2> SUFFICES ASSUME Import, NEW k \in DOMAIN parseEnvFile(env),
                      Apart(written), ~Several(written, k), ~Hashed(written, k),
                      \A l \in written : ~(l.form = "colon" /\ l.key = k)
               PROVE  /\ k \in DOMAIN parseEnvFile(Opened')
                      /\ parseEnvFile(Opened')[k] = parseEnvFile(env)[k]
    BY FragileIs
  <2>1. Text(written, env) /\ Opened' = OpenedOf(up')
    BY <1>1 DEF Sound, TextInvariant, Import, Opened, OpenedOf
  <2>2. CASE up = NoFile
    <3>1. up' = create(parseEnvFile(env), env)
      BY <2>2 DEF Import
    <3>2. OpenedOf(up') = env
      BY <3>1, <2>1, TextIsSome DEF create, OpenedOf
    <3> QED BY <2>1, <3>2
  <2>3. CASE up # NoFile
    <3> DEFINE merged == mergePolicyAware(up.entries, parseEnvFile(env))
               keys == Allowed(DOMAIN merged)
    <3>1. Merge(env) /\ FitFile(written, up) /\ FitEntries(written, parseEnvFile(env))
      BY <1>1, <2>1, <2>3, ParseFits DEF Import, Sound, TextInvariant
    <3>2. DOMAIN parseEnvFile(env) \subseteq DOMAIN merged
      BY <3>1, MergedFits DEF FitFile
    <3>3. up'.raw = filterRawForKeys(env, keys) /\ k \in keys
      BY <3>1, <3>2 DEF Merge, MergedText, FitFile, Files, Allowed
    <3>4. k \in Key
      BY <3>1 DEF FitEntries, Partial
    <3>5. PICK i : LastOne(env, k, i)
      BY <2>1, <3>4, ParseIs
    <3>6. HasEquals(env[i])
      <4>1. i \in 1 .. Len(env) /\ Assigning(env[i]) /\ env[i].key = k
        BY <3>5 DEF LastOne
      <4>2. FitLine(written, env[i])
        BY <2>1, <4>1 DEF Text
      <4>3. env[i].form # "colon"
        BY <4>1, <4>2 DEF FitLine
      <4> QED BY <4>1, <4>2, <4>3, LineForm
    <3>7. PICK F : F = filterRawForKeys(env, keys)
      OBVIOUS
    <3>8. F # NoText /\ k \in DOMAIN parseEnvFile(F) /\ parseEnvFile(F)[k] = parseEnvFile(env)[k]
      BY <2>1, <3>3, <3>5, <3>6, <3>7, FilterKeeps
    <3>9. OpenedOf(up') = F
      BY <3>3, <3>7, <3>8 DEF OpenedOf
    <3> QED BY <2>1, <3>8, <3>9
  <2> QED BY <2>2, <2>3
<1> HIDE DEF Back
<1>2. Spec => [][Back]_vars
  BY <1>1, SoundAlways, PTL DEF Spec
<1> QED BY <1>2 DEF Back, ImportReadsBack

\* What is read for k in entries, in an .env and in an .env.up.
At(e, k) == IF k \in DOMAIN e THEN {e[k]} ELSE {}
EnvReads(t, k) == IF t # NoFile THEN At(parseEnvFile(t), k) ELSE {}
UpReads(u, k) ==
  IF u # NoFile THEN At(u.entries, k) \cup At(parseEnvFile(OpenedOf(u)), k) ELSE {}

\* A line of the user's own says what they have meant.
LEMMA UserSays ==
  ASSUME NEW w, NEW t, Text(w, t), ToSet(t) \subseteq w, NEW k, ~Several(w, k),
         NEW i \in 1 .. Len(t), Assigning(t[i]), t[i].key = k
  PROVE  Said(t[i]) \in MeantBy(w, k)
<1>1. t[i] \in w
  BY LenProperties DEF Text, ToSet
<1>2. t[i].form \in OneLine
  BY LineForm DEF Text
<1> QED BY <1>1, <1>2 DEF MeantBy, Said

LEMMA UserReads ==
  ASSUME NEW w, NEW t, Text(w, t), ToSet(t) \subseteq w, Apart(w),
         NEW k \in Key, ~Several(w, k)
  PROVE  At(parseEnvFile(t), k) \subseteq MeantBy(w, k)
<1> SUFFICES ASSUME k \in DOMAIN parseEnvFile(t)
             PROVE  parseEnvFile(t)[k] \in MeantBy(w, k)
  BY DEF At
<1>1. PICK i : LastOne(t, k, i)
  BY ParseIs
<1>2. parseEnvFile(t)[k] = Said(t[i])
  BY <1>1, ParseIs
<1> QED BY <1>1, <1>2, UserSays DEF LastOne

LEMMA ShareReads ==
  ASSUME NEW w, NEW t, NEW s, Text(w, t), Text(w, s), ToSet(s) \subseteq w, Apart(w),
         NEW k \in Key, ~Several(w, k)
  PROVE  At(parseEnvFile(mergeEnv(t, s)), k) \subseteq At(parseEnvFile(t), k) \cup MeantBy(w, k)
<1> SUFFICES ASSUME k \in DOMAIN parseEnvFile(mergeEnv(t, s))
             PROVE  parseEnvFile(mergeEnv(t, s))[k] \in At(parseEnvFile(t), k) \cup MeantBy(w, k)
  BY DEF At
<1>1. CASE k \in DOMAIN parseEnvFile(t) /\ parseEnvFile(mergeEnv(t, s))[k] = parseEnvFile(t)[k]
  BY <1>1 DEF At
<1>2. ASSUME NEW i \in 1 .. Len(s), Assigning(s[i]), s[i].key = k,
             parseEnvFile(mergeEnv(t, s))[k] = Said(s[i])
      PROVE  parseEnvFile(mergeEnv(t, s))[k] \in MeantBy(w, k)
  BY <1>2, UserSays
<1> QED BY <1>1, <1>2, MergeEnvReads

LEMMA FilteredReads ==
  ASSUME NEW w, NEW t, Text(w, t), Apart(w), NEW keys, filterRawForKeys(t, keys) # NoText,
         NEW k, ~Several(w, k)
  PROVE  At(parseEnvFile(filterRawForKeys(t, keys)), k) \subseteq At(parseEnvFile(t), k)
BY FilterReads DEF At

LEMMA MergeReads ==
  ASSUME NEW t, Text(written, t), FitFile(written, up), Merge(t), up'.raw # NoText,
         Apart(written), NEW k \in Key, ~Several(written, k), up # NoFile
  PROVE  UpReads(up', k) \subseteq At(parseEnvFile(t), k) \cup UpReads(up, k)
<1> DEFINE new == parseEnvFile(t)
           merged == mergePolicyAware(up.entries, new)
           raw == filterRawForKeys(t, Allowed(DOMAIN merged))
<1>1. up'.entries = merged /\ up'.raw = raw
  BY DEF Merge, MergedText, FitFile, Files
<1>2. /\ \A j \in DOMAIN new : merged[j] = new[j]
      /\ up.slice # NoSlice => merged = new
      /\ up.slice = NoSlice => \A j \in DOMAIN merged \ DOMAIN new :
                                 j \in DOMAIN up.entries /\ merged[j] = up.entries[j]
  BY ParseFits, MergedFits DEF FitFile
<1>3. At(parseEnvFile(raw), k) \subseteq At(new, k)
  BY <1>1, FilteredReads
<1> HIDE DEF merged, raw, new
<1>4. At(merged, k) \subseteq At(new, k) \cup At(up.entries, k)
  BY <1>2 DEF At
<1>5. OpenedOf(up') = raw
  BY <1>1 DEF OpenedOf
<1>6. UpReads(up', k) \subseteq At(new, k) \cup At(up.entries, k)
  BY <1>1, <1>3, <1>4, <1>5 DEF UpReads
<1>7. At(up.entries, k) \subseteq UpReads(up, k)
  BY DEF UpReads
<1> QED BY <1>6, <1>7 DEF new

LEMMA NothingInNothing == \A k : At(parseEnvFile(<<>>), k) = {}
<1>1. Len(<<>>) = 0
  OBVIOUS
<1>2. \A k : Assigns(<<>>, k) = {}
  BY <1>1 DEF Assigns
<1> QED BY <1>2 DEF parseEnvFile, At

LEMMA ReadsKept ==
  ASSUME Sound, Sound', Next, ~ExtUnlock, ~SafeEditSave, ~PageSave,
         Apart(written'), up' # NoFile => up'.raw # NoText,
         NEW k \in Key, ~Several(written', k)
  PROVE  EnvReads(env', k) \cup UpReads(up', k)
           \subseteq EnvReads(env, k) \cup UpReads(up, k) \cup MeantBy(written', k)
<1>1. /\ env # NoFile => Text(written, env)
      /\ up # NoFile => FitFile(written, up)
      /\ env' # NoFile => Text(written', env')
  BY DEF Sound, TextInvariant
<1>2. CASE Edit
  <2>1. PICK t \in UserText : env' = t /\ Types(t) /\ UNCHANGED up
    BY <1>2 DEF Edit
  <2>2. Text(written', t) /\ ToSet(t) \subseteq written'
    BY <2>1, WrittenMore DEF Types
  <2>3. At(parseEnvFile(t), k) \subseteq MeantBy(written', k)
    BY <2>2, UserReads
  <2> QED BY <2>1, <2>3 DEF EnvReads
<1>3. CASE ReceiveShare
  <2> DEFINE old == IF env = NoFile THEN <<>> ELSE env
  <2>1. PICK t \in UserText :
          (env' = t \/ env' = mergeEnv(old, t)) /\ Types(t) /\ UNCHANGED up
    BY <1>3 DEF ReceiveShare
  <2>2. Text(written', t) /\ ToSet(t) \subseteq written' /\ Text(written', old)
    BY <2>1, WrittenMore, EmptyText DEF Types
  <2>3. At(parseEnvFile(t), k) \subseteq MeantBy(written', k)
    BY <2>2, UserReads
  <2>4. At(parseEnvFile(mergeEnv(old, t)), k)
          \subseteq At(parseEnvFile(old), k) \cup MeantBy(written', k)
    <3>1. PICK o, v : o = old /\ v = written'
      OBVIOUS
    <3> HIDE DEF old
    <3> QED BY <2>2, <3>1, ShareReads
  <2>5. At(parseEnvFile(old), k) \subseteq EnvReads(env, k)
    BY NothingInNothing DEF EnvReads
  <2> HIDE DEF old
  <2> QED BY <2>1, <2>3, <2>4, <2>5 DEF EnvReads
<1>4. CASE Import
  <2>1. UNCHANGED <<env, written>> /\ EnvReads(env, k) = At(parseEnvFile(env), k)
    BY <1>4 DEF Import, EnvReads
  <2>2. CASE up = NoFile
    <3>1. up' = create(parseEnvFile(env), env)
      BY <1>4, <2>2 DEF Import
    <3>2. up'.entries = parseEnvFile(env) /\ OpenedOf(up') = env
      BY <1>1, <1>4, <3>1, TextIsSome DEF create, OpenedOf, Import
    <3>3. UpReads(up', k) \subseteq At(parseEnvFile(env), k)
      BY <3>2 DEF UpReads
    <3> QED BY <2>1, <3>3
  <2>3. CASE up # NoFile
    <3>1. Merge(env) /\ Text(written, env) /\ FitFile(written, up)
      BY <1>1, <1>4, <2>3 DEF Import
    <3>2. up' # NoFile => UpReads(up', k) \subseteq At(parseEnvFile(env), k) \cup UpReads(up, k)
      BY <2>1, <2>3, <3>1, MergeReads
    <3>3. up' = NoFile => UpReads(up', k) = {}
      BY DEF UpReads
    <3> QED BY <2>1, <3>2, <3>3
  <2> QED BY <2>2, <2>3
<1>5. CASE CliUnlock
  <2>1. UNCHANGED up /\ up # NoFile /\ env' = OpenedOf(up)
    BY <1>5 DEF CliUnlock, Opened, OpenedOf
  <2>2. EnvReads(env', k) \subseteq UpReads(up, k)
    BY <2>1 DEF EnvReads, UpReads
  <2> QED BY <2>1, <2>2
<1>6. CASE Lock
  BY <1>6 DEF Lock, EnvReads
<1>7. CASE Reencrypt
  <2>1. UNCHANGED <<env, written>> /\ up # NoFile /\ FitFile(written, up)
    BY <1>1, <1>7 DEF Reencrypt
  <2>2. /\ At(up.entries, k) \subseteq UpReads(up, k)
        /\ At(parseEnvFile(OpenedOf(up)), k) \subseteq UpReads(up, k)
    BY <2>1 DEF UpReads
  <2>3. /\ up' # NoFile => At(up'.entries, k) \subseteq At(up.entries, k)
        /\ up' # NoFile =>
             At(parseEnvFile(OpenedOf(up')), k) \subseteq At(parseEnvFile(OpenedOf(up)), k)
    <3>1. CASE up.slice = NoSlice
      <4>1. up'.entries = up.entries /\ up'.raw = up.raw
        BY <1>7, <3>1 DEF Reencrypt, create
      <4>2. OpenedOf(up') = OpenedOf(up)
        BY <4>1 DEF OpenedOf
      <4> QED BY <4>1, <4>2
    <3>2. CASE up.slice # NoSlice
      <4>1. /\ up'.entries = Restrict(up.entries, up.slice)
            /\ up'.raw = IF up.raw = NoText THEN NoText ELSE filterRawForKeys(up.raw, up.slice)
            /\ up.slice \subseteq DOMAIN up.entries
        BY <1>7, <2>1, <3>2 DEF Reencrypt, FitFile, Files
      <4>2. At(up'.entries, k) \subseteq At(up.entries, k)
        BY <4>1 DEF Restrict, At
      <4>3. ASSUME up' # NoFile
            PROVE  At(parseEnvFile(OpenedOf(up')), k) \subseteq At(parseEnvFile(OpenedOf(up)), k)
        <5>1. /\ up.raw # NoText /\ up'.raw = filterRawForKeys(up.raw, up.slice)
              /\ filterRawForKeys(up.raw, up.slice) # NoText
          BY <4>1, <4>3
        <5>2. OpenedOf(up') = filterRawForKeys(up.raw, up.slice) /\ OpenedOf(up) = up.raw
          BY <5>1 DEF OpenedOf
        <5>3. Text(written, up.raw) /\ written' = written
          BY <2>1, <5>1 DEF FitFile
        <5> QED BY <5>1, <5>2, <5>3, FilteredReads
      <4> QED BY <4>2, <4>3
    <3> QED BY <3>1, <3>2
  <2>4. UpReads(up', k) \subseteq UpReads(up, k)
    BY <2>2, <2>3 DEF UpReads
  <2> QED BY <2>1, <2>4
<1>8. CASE AddPolicy
  <2>1. UNCHANGED env /\ up # NoFile /\ up'.entries = up.entries /\ up'.raw = up.raw
    BY <1>1, <1>8 DEF AddPolicy, FitFile, Files
  <2>2. OpenedOf(up') = OpenedOf(up)
    BY <2>1 DEF OpenedOf
  <2>3. UpReads(up', k) \subseteq UpReads(up, k)
    BY <2>1, <2>2 DEF UpReads
  <2> QED BY <2>1, <2>3
<1> QED BY <1>2, <1>3, <1>4, <1>5, <1>6, <1>7, <1>8 DEF Next

\* Apart from the merges nothing gives a key another value than it had or the user
\* meant, while no values with several lines can hold each other's halves and the text
\* is not rebuilt from the entries (OnlyMergesChange).
THEOREM OnlyMergesDoChange == Spec => OnlyMergesChange
<1> DEFINE Kept ==
      \/ Torn' \/ (up' # NoFile /\ up'.raw = NoText)
      \/ \A k \in Key : \/ SeveralLines(k)'
                        \/ Readings(k)' \subseteq Meant(k)'
                        \/ Readings(k)' \subseteq Readings(k) \cup Meant(k)'
      \/ ExtUnlock \/ SafeEditSave \/ PageSave
<1>1. ASSUME Sound, [Next]_vars PROVE [Kept]_vars
  <2> SUFFICES ASSUME Next, ~Torn', up' # NoFile => up'.raw # NoText,
                      ~ExtUnlock, ~SafeEditSave, ~PageSave,
                      NEW k \in Key, ~SeveralLines(k)'
               PROVE  Readings(k)' \subseteq Readings(k) \cup Meant(k)'
    BY <1>1
  <2>1. Sound'
    BY <1>1, SoundStep
  <2>2. \A j : Meant(j)' = MeantBy(written', j)
    BY DEF Meant, MeantBy
  <2>3. \A j : SeveralLines(j)' <=> Several(written', j)
    BY <2>2 DEF SeveralLines, Several
  <2>4. Apart(written') /\ ~Several(written', k)
    BY <2>3 DEF Torn, Apart
  <2>5. /\ Readings(k) = EnvReads(env, k) \cup UpReads(up, k)
        /\ Readings(k)' = EnvReads(env', k) \cup UpReads(up', k)
    BY DEF Readings, EnvReads, UpReads, At, Opened, OpenedOf
  <2> QED BY <1>1, <2>1, <2>2, <2>4, <2>5, ReadsKept
<1> HIDE DEF Kept
<1>2. Spec => [][Kept]_vars
  BY <1>1, SoundAlways, PTL DEF Spec
<1> QED BY <1>2 DEF Kept, OnlyMergesChange

=============================================================================
