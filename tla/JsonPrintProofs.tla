-------------------------- MODULE JsonPrintProofs --------------------------
(***************************************************************************)
(* What printing a document does, for any document, any sizes and any      *)
(* buffer.                                                                 *)
(***************************************************************************)
EXTENDS JsonPrint, FiniteSetTheorems, SequenceTheorems, WellFoundedInduction, TLAPS

(* The elements of a printed text: the bytes and the numerals.             *)
Elements == Bytes \cup {ToString(n) : n \in Int}

Nodes == {x \in [kind : Kinds, key : Seq(Bytes), text : Seq(Elements)] :
            x.kind \in {"string", "raw"} => x.text \in Seq(Bytes)}

-----------------------------------------------------------------------------
(* Induction.                                                              *)

LEMMA NatSetInduction ==
  ASSUME NEW T \in SUBSET Nat, 0 \in T, \A n \in T : n + 1 \in T
  PROVE  T = Nat
<1> DEFINE R == OpToRel(<, Nat)
<1>1. IsWellFoundedOn(R, Nat)
  BY NatLessThanWellFounded
<1>2. R = {ss \in Nat \X Nat : ss[1] < ss[2]}
  BY DEF OpToRel
<1> HIDE DEF R
<1> SUFFICES ASSUME Nat \ T # {} PROVE FALSE
  OBVIOUS
<1>3. PICK x \in Nat \ T : \A y \in Nat \ T : ~ (<<y, x>> \in R)
  BY <1>1, WFMin
<1>4. x # 0 /\ x - 1 \in Nat
  BY <1>3
<1>5. <<x - 1, x>> \in R
  BY <1>2, <1>4
<1>6. x - 1 \in T
  BY <1>3, <1>4, <1>5
<1>7. QED
  BY <1>6, <1>3, <1>4


-----------------------------------------------------------------------------
(* FlattenSeq.                                                             *)

Flattening(s, g, n) ==
  g = [i \in 1..n |-> IF i = 1 THEN s[i] ELSE g[i-1] \o s[i]]

LEMMA FlattenExists ==
  ASSUME NEW X, NEW N \in Nat, NEW s \in [1..N -> Seq(X)]
  PROVE  \E g \in [1..N -> Seq(X)] : Flattening(s, g, N)
<1> DEFINE Flat(g, n) == \A i \in 1..n : g[i] = IF i = 1 THEN s[i] ELSE g[i-1] \o s[i]
           Q(n) == n <= N => \E g \in [1..n -> Seq(X)] : Flat(g, n)
<1>1. Q(0)
  <2>1. [i \in 1..0 |-> <<>>] \in [1..0 -> Seq(X)]
    OBVIOUS
  <2>2. Flat([i \in 1..0 |-> <<>>], 0)
    OBVIOUS
  <2> QED BY <2>1, <2>2
<1>2. ASSUME NEW n \in Nat, Q(n) PROVE Q(n + 1)
  <2> SUFFICES ASSUME n + 1 <= N PROVE \E g \in [1..n+1 -> Seq(X)] : Flat(g, n+1)
    OBVIOUS
  <2>1. PICK g \in [1..n -> Seq(X)] : Flat(g, n)
    BY <1>2
  <2> DEFINE e == IF n = 0 THEN s[1] ELSE g[n] \o s[n+1]
             h == [i \in 1..n+1 |-> IF i <= n THEN g[i] ELSE e]
  <2>0. e \in Seq(X)
    BY n + 1 \in 1..N
  <2>2. h \in [1..n+1 -> Seq(X)]
    BY <2>0
  <2>3. ASSUME NEW i \in 1..n+1
        PROVE h[i] = IF i = 1 THEN s[i] ELSE h[i-1] \o s[i]
    <3>1. CASE i = n+1
      <4>1. h[i] = e BY <3>1
      <4>2. n # 0 => h[i-1] = g[n] BY <3>1
      <4> QED BY <4>1, <4>2, <3>1
    <3>2. CASE i <= n
      <4>1. h[i] = g[i] /\ (i # 1 => h[i-1] = g[i-1]) BY <3>2
      <4>2. g[i] = IF i = 1 THEN s[i] ELSE g[i-1] \o s[i]
        <5>1. i \in 1..n BY <3>2
        <5> QED BY <5>1, <2>1
      <4> HIDE DEF h
      <4> QED BY <4>1, <4>2
    <3> QED BY <3>1, <3>2
  <2> QED BY <2>2, <2>3
<1>3. \A n \in Nat : Q(n)
  <2> HIDE DEF Q
  <2> DEFINE T == {n \in Nat : Q(n)}
  <2>1. T \in SUBSET Nat /\ 0 \in T /\ \A n \in T : n + 1 \in T
    BY <1>1, <1>2
  <2>2. T = Nat
    <3> HIDE DEF T
    <3> QED BY <2>1, NatSetInduction
  <2> QED BY <2>2
<1>4. Q(N)
  <2> HIDE DEF Q
  <2> QED BY <1>3
<1>5. PICK g \in [1..N -> Seq(X)] : Flat(g, N)
  <2> HIDE DEF Flat
  <2> QED BY <1>4
<1>6. Flattening(s, g, N)
  BY <1>5 DEF Flattening
<1> QED BY <1>6


LEMMA FlattenFunction ==
  ASSUME NEW X, NEW N \in Nat \ {0}, NEW s \in [1..N -> Seq(X)]
  PROVE  \E g : Flattening(s, g, N) /\ FlattenSeq(s) = g[N]
<1>1. s \in Seq(Seq(X)) /\ Len(s) = N OBVIOUS
<1> DEFINE f == CHOOSE g : Flattening(s, g, N)
<1>2. \E g : Flattening(s, g, N)
  <2>1. N \in Nat OBVIOUS
  <2> QED BY <2>1, FlattenExists
<1>3. Flattening(s, f, N)
  BY <1>2
<1>4. FlattenSeq(s) = f[N]
  BY <1>1 DEF FlattenSeq, Flattening
<1> QED BY <1>3, <1>4

LEMMA FlatteningAt ==
  ASSUME NEW s, NEW g, NEW n \in Nat, Flattening(s, g, n)
  PROVE  \A i \in 1..n : g[i] = IF i = 1 THEN s[i] ELSE g[i-1] \o s[i]
<1> SUFFICES ASSUME NEW i \in 1..n PROVE g[i] = IF i = 1 THEN s[i] ELSE g[i-1] \o s[i]
  OBVIOUS
<1> DEFINE e(j) == IF j = 1 THEN s[j] ELSE g[j-1] \o s[j]
           f == [j \in 1..n |-> e(j)]
<1>1. g = f
  BY DEF Flattening
<1>2. f[i] = e(i)
  <2> HIDE DEF e
  <2> QED OBVIOUS
<1>3. g[i] = e(i)
  <2> HIDE DEF e, f
  <2> QED BY <1>1, <1>2
<1> QED BY <1>3

LEMMA FlatteningUnique ==
  ASSUME NEW X, NEW N \in Nat, NEW M \in Nat, M <= N,
         NEW s \in [1..N -> Seq(X)], NEW t, \A i \in 1..M : t[i] = s[i],
         NEW g, NEW h, Flattening(s, g, N), Flattening(t, h, M)
  PROVE  \A i \in 1..M : g[i] = h[i] /\ g[i] \in Seq(X)
<1> DEFINE Q(n) == n \in 1..M => g[n] = h[n] /\ g[n] \in Seq(X)
<1>1. Q(0)
  OBVIOUS
<1>2. ASSUME NEW n \in Nat, Q(n) PROVE Q(n + 1)
  <2> SUFFICES ASSUME n + 1 \in 1..M PROVE g[n+1] = h[n+1] /\ g[n+1] \in Seq(X)
    OBVIOUS
  <2>0. n + 1 \in 1..N /\ n + 1 - 1 = n /\ (n + 1 = 1 <=> n = 0) OBVIOUS
  <2>1. g[n+1] = IF n + 1 = 1 THEN s[n+1] ELSE g[n + 1 - 1] \o s[n+1]
    <3>1. \A i \in 1..N : g[i] = IF i = 1 THEN s[i] ELSE g[i-1] \o s[i]
      BY FlatteningAt
    <3> QED BY <2>0, <3>1
  <2>2. h[n+1] = IF n + 1 = 1 THEN t[n+1] ELSE h[n + 1 - 1] \o t[n+1]
    <3>1. \A i \in 1..M : h[i] = IF i = 1 THEN t[i] ELSE h[i-1] \o t[i]
      BY FlatteningAt
    <3> QED BY <2>0, <3>1
  <2>3. s[n+1] \in Seq(X) /\ t[n+1] = s[n+1]
    BY <2>0
  <2>4. n # 0 => g[n] = h[n] /\ g[n] \in Seq(X)
    BY <1>2
  <2> QED BY <2>0, <2>1, <2>2, <2>3, <2>4
<1>3. \A n \in Nat : Q(n)
  <2> HIDE DEF Q
  <2> DEFINE T == {n \in Nat : Q(n)}
  <2>1. T \in SUBSET Nat /\ 0 \in T /\ \A n \in T : n + 1 \in T
    BY <1>1, <1>2
  <2>2. T = Nat
    <3> HIDE DEF T
    <3> QED BY <2>1, NatSetInduction
  <2> QED BY <2>2
<1> QED BY <1>3

LEMMA FlattenEmpty ==
  FlattenSeq(<<>>) = <<>>
BY DEF FlattenSeq

LEMMA FlattenType ==
  ASSUME NEW X, NEW N \in Nat, NEW s \in [1..N -> Seq(X)]
  PROVE  FlattenSeq(s) \in Seq(X)
<1>1. CASE N = 0
  <2>1. s = <<>> BY <1>1
  <2>2. <<>> \in Seq(X) OBVIOUS
  <2> QED BY ONLY <2>1, <2>2, FlattenEmpty
<1>2. CASE N # 0
  <2>1. PICK g : Flattening(s, g, N) /\ FlattenSeq(s) = g[N]
    BY <1>2, FlattenFunction
  <2>2. N \in 1..N BY <1>2
  <2>3. \A i \in 1..N : g[i] = g[i] /\ g[i] \in Seq(X)
    BY <2>1, FlatteningUnique
  <2> QED BY <2>1, <2>2, <2>3
<1> QED BY <1>1, <1>2

LEMMA FlattenStep ==
  ASSUME NEW X, NEW n \in Nat, NEW s \in [1..n+1 -> Seq(X)],
         NEW t \in [1..n -> Seq(X)], \A i \in 1..n : t[i] = s[i]
  PROVE  FlattenSeq(s) = FlattenSeq(t) \o s[n+1]
<1>0. n + 1 \in Nat \ {0} /\ n + 1 \in Nat /\ n <= n + 1 /\ n + 1 \in 1..n+1 OBVIOUS
<1>1. PICK g : Flattening(s, g, n+1) /\ FlattenSeq(s) = g[n+1]
  BY <1>0, FlattenFunction
<1>2. g[n+1] = IF n + 1 = 1 THEN s[n+1] ELSE g[n + 1 - 1] \o s[n+1]
  <2> DEFINE m == n + 1
  <2>1. m \in Nat /\ Flattening(s, g, m) /\ m \in 1..m
    BY <1>0, <1>1
  <2> HIDE DEF m
  <2>2. \A i \in 1..m : g[i] = IF i = 1 THEN s[i] ELSE g[i-1] \o s[i]
    BY ONLY <2>1, FlatteningAt
  <2>3. g[m] = IF m = 1 THEN s[m] ELSE g[m-1] \o s[m]
    BY <2>1, <2>2
  <2> QED BY <2>3 DEF m
<1>3. CASE n = 0
  <2>1. FlattenSeq(s) = s[n+1]
    BY <1>1, <1>2, <1>3
  <2>2. t = <<>> /\ s[n+1] \in Seq(X) BY <1>3
  <2>3. <<>> \o s[n+1] = s[n+1] BY <2>2
  <2> QED BY ONLY <2>1, <2>2, <2>3, FlattenEmpty
<1>4. CASE n # 0
  <2>1. n \in Nat \ {0} /\ n \in 1..n /\ n + 1 # 1 /\ n + 1 - 1 = n BY <1>4
  <2>2. PICK h : Flattening(t, h, n) /\ FlattenSeq(t) = h[n]
    BY <2>1, FlattenFunction
  <2>3. \A i \in 1..n : g[i] = h[i] /\ g[i] \in Seq(X)
    BY <1>0, <1>1, <2>2, FlatteningUnique
  <2>4. g[n] = h[n] BY <2>1, <2>3
  <2> QED BY <1>1, <1>2, <2>1, <2>2, <2>4
<1> QED BY <1>3, <1>4

-----------------------------------------------------------------------------
(* Counting.                                                               *)

LEMMA CountType ==
  ASSUME NEW S, NEW n \in Nat
  PROVE  /\ IsFiniteSet({j \in 1..n : j \in S})
         /\ Cardinality({j \in 1..n : j \in S}) \in Nat
<1>1. IsFiniteSet(1..n)
  BY FS_Interval
<1>2. IsFiniteSet({j \in 1..n : j \in S})
  BY <1>1, FS_Subset
<1> QED
  BY <1>2, FS_CardinalityType

LEMMA CountStep ==
  ASSUME NEW S, NEW n \in Nat
  PROVE  Cardinality({j \in 1..n+1 : j \in S}) =
           Cardinality({j \in 1..n : j \in S}) + (IF n + 1 \in S THEN 1 ELSE 0)
<1> DEFINE A == {j \in 1..n : j \in S}
           B == {j \in 1..n+1 : j \in S}
<1>1. IsFiniteSet(A) /\ Cardinality(A) \in Nat
  BY CountType
<1>2. CASE n + 1 \in S
  <2>1. B = A \cup {n + 1} /\ n + 1 \notin A
    BY <1>2
  <2>2. Cardinality(A \cup {n + 1}) = Cardinality(A) + 1
    <3> HIDE DEF A
    <3> QED BY <1>1, <2>1, FS_AddElement
  <2> QED BY <1>2, <2>1, <2>2
<1>3. CASE n + 1 \notin S
  <2>1. B = A
    BY <1>3
  <2> QED BY <1>1, <1>3, <2>1
<1> QED BY <1>2, <1>3

LEMMA CountZero ==
  ASSUME NEW S PROVE Cardinality({j \in 1..0 : j \in S}) = 0
<1>1. {j \in 1..0 : j \in S} = {}
  OBVIOUS
<1> QED BY <1>1, FS_EmptySet

LEMMA AroundFirst ==
  ASSUME NEW doc PROVE Around(doc, 1) = 0
<1>1. {j \in 1..0 : doc[j].kind \in Containers} = {} /\ {j \in 1..0 : doc[j].kind = "end"} = {}
  OBVIOUS
<1>2. 1 - 1 = 0 OBVIOUS
<1> QED BY <1>1, <1>2, FS_EmptySet DEF Around, Opens, Ends

LEMMA AroundNext ==
  ASSUME NEW doc, NEW n \in Nat \ {0}
  PROVE  /\ Around(doc, n) \in Int
         /\ Around(doc, n + 1) = Around(doc, n) +
              (IF doc[n].kind \in Containers THEN 1 ELSE IF doc[n].kind = "end" THEN -1 ELSE 0)
<1> DEFINE C == {j \in Nat : doc[j].kind \in Containers}
           E == {j \in Nat : doc[j].kind = "end"}
<1>0. n - 1 \in Nat /\ n \in Nat /\ (n - 1) + 1 = n /\ (n + 1) - 1 = n
  OBVIOUS
<1>1. ASSUME NEW m \in Nat
      PROVE  /\ {j \in 1..m : doc[j].kind \in Containers} = {j \in 1..m : j \in C}
             /\ {j \in 1..m : doc[j].kind = "end"} = {j \in 1..m : j \in E}
  OBVIOUS
<1> DEFINE c(m) == Cardinality({j \in 1..m : j \in C})
           e(m) == Cardinality({j \in 1..m : j \in E})
<1>2. Around(doc, n) = c(n - 1) - e(n - 1) /\ Around(doc, n + 1) = c(n) - e(n)
  <2> HIDE DEF C, E
  <2> QED BY <1>0, <1>1 DEF Around, Opens, Ends
<1>3. c(n - 1) \in Nat /\ e(n - 1) \in Nat
  <2> HIDE DEF C, E
  <2> QED BY <1>0, CountType
<1>4. /\ c(n) = c(n - 1) + (IF n \in C THEN 1 ELSE 0)
      /\ e(n) = e(n - 1) + (IF n \in E THEN 1 ELSE 0)
  <2> HIDE DEF C, E
  <2> DEFINE m == n - 1
  <2>1. m \in Nat /\ m + 1 = n
    BY <1>0
  <2> HIDE DEF m
  <2>2. c(m + 1) = c(m) + (IF m + 1 \in C THEN 1 ELSE 0)
    BY <2>1, CountStep
  <2>3. e(m + 1) = e(m) + (IF m + 1 \in E THEN 1 ELSE 0)
    BY <2>1, CountStep
  <2> HIDE DEF c, e
  <2>4. c(n) = c(m) + (IF n \in C THEN 1 ELSE 0)
    BY <2>1, <2>2
  <2>5. e(n) = e(m) + (IF n \in E THEN 1 ELSE 0)
    BY <2>1, <2>3
  <2> QED BY <2>4, <2>5 DEF m
<1>5. (n \in C <=> doc[n].kind \in Containers) /\ (n \in E <=> doc[n].kind = "end")
  OBVIOUS
<1>6. "end" \notin Containers
  BY DEF Containers
<1> HIDE DEF c, e, C, E
<1> QED BY <1>2, <1>3, <1>4, <1>5, <1>6

-----------------------------------------------------------------------------
(* Strings.                                                                *)

LEMMA SyntaxBytes ==
  /\ {Quote, "\\", "\n", "\t", " ", "[", "]", "{", "}", ",", ":",
      "n", "t", "u", "0", "7", "l", "r", "e", "f", "a", "s"} \subseteq Bytes
  /\ Nul \notin Bytes
BY BytesAssumption DEF Syntax

LEMMA EscapedByte ==
  ASSUME NEW b \in Bytes
  PROVE  /\ Escaped(b) \in Seq(Bytes)
         /\ Len(Escaped(b)) = 1 + (IF b \in ShortEscapes THEN 1 ELSE 0)
                                + 5 * (IF b \in Controls THEN 1 ELSE 0)
<1>1. CASE b \in ShortEscapes
  <2>1. b \notin Controls
    BY <1>1 DEF ShortEscapes, Controls, Quote
  <2>2. PICK c \in Bytes : Escaped(b) = <<"\\", c>>
    <3>1. CASE b = "\n"
      <4>1. Escaped(b) = <<"\\", "n">> /\ "n" \in Bytes
        BY <3>1, SyntaxBytes DEF Escaped, Controls, Quote
      <4> QED BY ONLY <4>1
    <3>2. CASE b = "\t"
      <4>1. Escaped(b) = <<"\\", "t">> /\ "t" \in Bytes
        BY <3>2, SyntaxBytes DEF Escaped, Controls, Quote
      <4> QED BY ONLY <4>1
    <3>3. CASE b \in {Quote, "\\"}
      <4>1. Escaped(b) = <<"\\", b>>
        BY <3>3 DEF Escaped, Controls, Quote
      <4> QED BY ONLY <4>1, b \in Bytes
    <3> QED BY <1>1, <3>1, <3>2, <3>3 DEF ShortEscapes
  <2>3. "\\" \in Bytes
    BY SyntaxBytes
  <2> QED BY ONLY <1>1, <2>1, <2>2, <2>3
<1>2. CASE b \in Controls
  <2>1. b \notin ShortEscapes
    BY <1>2 DEF ShortEscapes, Controls, Quote
  <2>2. Escaped(b) = <<"\\", "u", "0", "0", "0", "7">>
    BY <1>2 DEF Escaped, Controls, Quote
  <2>3. "\\" \in Bytes /\ "u" \in Bytes /\ "0" \in Bytes /\ "7" \in Bytes
    BY SyntaxBytes
  <2> QED BY ONLY <1>2, <2>1, <2>2, <2>3
<1>3. CASE b \notin ShortEscapes \cup Controls
  <2>1. Escaped(b) = <<b>>
    BY <1>3 DEF Escaped, ShortEscapes, Controls, Quote
  <2> QED BY ONLY <1>3, <2>1, b \in Bytes
<1> QED BY <1>1, <1>2, <1>3

(* The second pass of print_string_ptr writes what the first has counted.  *)
LEMMA EscapedLength ==
  ASSUME NEW s \in Seq(Bytes)
  PROVE  /\ EscapedText(s) \in Seq(Bytes)
         /\ ExtraBytes(s) \in Nat
         /\ Len(EscapedText(s)) = Len(s) + ExtraBytes(s)
<1> DEFINE S == {j \in Nat : s[j] \in ShortEscapes}
           C == {j \in Nat : s[j] \in Controls}
           short(n) == Cardinality({j \in 1..n : j \in S})
           control(n) == Cardinality({j \in 1..n : j \in C})
           flat(n) == [i \in 1..n |-> Escaped(s[i])]
           Q(n) == n <= Len(s) =>
                     Len(FlattenSeq(flat(n))) = n + short(n) + 5 * control(n)
<1>a. ASSUME NEW n \in Nat, n <= Len(s) PROVE flat(n) \in [1..n -> Seq(Bytes)]
  <2>1. \A i \in 1..n : s[i] \in Bytes
    BY <1>a
  <2> QED BY <2>1, EscapedByte
<1>b. ASSUME NEW n \in Nat PROVE short(n) \in Nat /\ control(n) \in Nat
  <2> HIDE DEF S, C
  <2> QED BY <1>b, CountType
<1>1. Q(0)
  <2>1. flat(0) = <<>>
    OBVIOUS
  <2>2. FlattenSeq(flat(0)) = <<>>
    BY ONLY <2>1, FlattenEmpty
  <2>3. short(0) = 0 /\ control(0) = 0
    <3> HIDE DEF S, C
    <3> QED BY CountZero
  <2>4. Len(FlattenSeq(flat(0))) = 0
    BY ONLY <2>2
  <2> HIDE DEF short, control, flat
  <2> QED BY <2>3, <2>4
<1>2. ASSUME NEW n \in Nat, Q(n) PROVE Q(n + 1)
  <2> SUFFICES ASSUME n + 1 <= Len(s)
               PROVE  Len(FlattenSeq(flat(n+1))) = n + 1 + short(n+1) + 5 * control(n+1)
    OBVIOUS
  <2>0. n + 1 \in Nat /\ n <= Len(s) /\ n + 1 \in 1..n+1 /\ s[n+1] \in Bytes
    OBVIOUS
  <2>1. flat(n) \in [1..n -> Seq(Bytes)] /\ flat(n+1) \in [1..n+1 -> Seq(Bytes)]
    <3> HIDE DEF flat
    <3> QED BY <2>0, <1>a
  <2>2. (\A i \in 1..n : flat(n)[i] = flat(n+1)[i]) /\ flat(n+1)[n+1] = Escaped(s[n+1])
    OBVIOUS
  <2>3. FlattenSeq(flat(n+1)) = FlattenSeq(flat(n)) \o flat(n+1)[n+1]
    <3> HIDE DEF flat
    <3> QED BY <2>1, <2>2, FlattenStep
  <2>4. FlattenSeq(flat(n)) \in Seq(Bytes)
    <3> HIDE DEF flat
    <3> QED BY <2>1, FlattenType
  <2>5. /\ short(n+1) = short(n) + (IF n+1 \in S THEN 1 ELSE 0)
        /\ control(n+1) = control(n) + (IF n+1 \in C THEN 1 ELSE 0)
    <3> HIDE DEF S, C
    <3> QED BY CountStep
  <2>6. (n+1 \in S <=> s[n+1] \in ShortEscapes) /\ (n+1 \in C <=> s[n+1] \in Controls)
    OBVIOUS
  <2>7. /\ Escaped(s[n+1]) \in Seq(Bytes)
        /\ Len(Escaped(s[n+1])) = 1 + (IF s[n+1] \in ShortEscapes THEN 1 ELSE 0)
                                    + 5 * (IF s[n+1] \in Controls THEN 1 ELSE 0)
    BY <2>0, EscapedByte
  <2>8. Len(FlattenSeq(flat(n))) = n + short(n) + 5 * control(n)
    BY <2>0, <1>2
  <2>9. Len(FlattenSeq(flat(n+1))) = Len(FlattenSeq(flat(n))) + Len(Escaped(s[n+1]))
    <3> HIDE DEF flat
    <3> QED BY <2>2, <2>3, <2>4, <2>7
  <2>10. short(n) \in Nat /\ control(n) \in Nat
    <3> HIDE DEF short, control
    <3> QED BY <1>b
  <2> DEFINE a == IF n+1 \in S THEN 1 ELSE 0
             c == IF n+1 \in C THEN 1 ELSE 0
  <2>11. a \in Int /\ c \in Int
    <3> HIDE DEF S, C
    <3> QED OBVIOUS
  <2>12. Len(Escaped(s[n+1])) = 1 + a + 5 * c
    BY <2>6, <2>7
  <2>13. short(n+1) = short(n) + a /\ control(n+1) = control(n) + c
    BY <2>5
  <2> HIDE DEF S, C, short, control, flat, a, c
  <2>14. Len(FlattenSeq(flat(n+1))) = n + short(n) + 5 * control(n) + (1 + a + 5 * c)
    BY ONLY <2>8, <2>9, <2>12
  <2>15. n + short(n) + 5 * control(n) + (1 + a + 5 * c)
           = n + 1 + (short(n) + a) + 5 * (control(n) + c)
    BY ONLY <2>10, <2>11, n \in Nat
  <2> QED BY ONLY <2>13, <2>14, <2>15
<1>3. \A n \in Nat : Q(n)
  <2> HIDE DEF Q
  <2> DEFINE T == {n \in Nat : Q(n)}
  <2>1. T \in SUBSET Nat /\ 0 \in T /\ \A n \in T : n + 1 \in T
    BY <1>1, <1>2
  <2>2. T = Nat
    <3> HIDE DEF T
    <3> QED BY <2>1, NatSetInduction
  <2> QED BY <2>2
<1>4. Q(Len(s))
  <2> HIDE DEF Q
  <2>1. Len(s) \in Nat
    OBVIOUS
  <2> QED BY <1>3, <2>1
<1>5. DOMAIN s = 1..Len(s) /\ Len(s) \in Nat
  OBVIOUS
<1>6. EscapedText(s) = FlattenSeq(flat(Len(s)))
  BY <1>5 DEF EscapedText
<1>7. ExtraBytes(s) = short(Len(s)) + 5 * control(Len(s))
  <2>1. /\ {i \in DOMAIN s : s[i] \in ShortEscapes} = {j \in 1..Len(s) : j \in S}
        /\ {i \in DOMAIN s : s[i] \in Controls} = {j \in 1..Len(s) : j \in C}
    BY <1>5
  <2> HIDE DEF S, C
  <2> QED BY <2>1 DEF ExtraBytes
<1>8. short(Len(s)) \in Nat /\ control(Len(s)) \in Nat
  <2> HIDE DEF short, control
  <2> QED BY <1>b, <1>5
<1>9. FlattenSeq(flat(Len(s))) \in Seq(Bytes)
  <2>1. flat(Len(s)) \in [1..Len(s) -> Seq(Bytes)]
    <3> HIDE DEF flat
    <3> QED BY <1>a, <1>5
  <2> HIDE DEF flat
  <2> QED BY <1>5, <2>1, FlattenType
<1> HIDE DEF flat, short, control
<1> QED BY <1>4, <1>5, <1>6, <1>7, <1>8, <1>9

-----------------------------------------------------------------------------
(* The containers around a node.                                           *)

Documents == {doc \in Seq(Nodes) : IsTree(doc)}

LEMMA NodeAt ==
  ASSUME NEW doc \in Seq(Nodes), NEW i \in 1..Len(doc)
  PROVE  /\ doc[i] \in Nodes
         /\ doc[i].kind \in Kinds /\ doc[i].key \in Seq(Bytes)
         /\ doc[i].text \in Seq(Elements)
         /\ doc[i].kind \in {"string", "raw"} => doc[i].text \in Seq(Bytes)
<1>1. doc[i] \in Nodes
  OBVIOUS
<1> QED BY <1>1 DEF Nodes

LEMMA AroundInTree ==
  ASSUME NEW doc \in Documents, NEW i \in 1..Len(doc) + 1
  PROVE  /\ Around(doc, i) \in Nat
         /\ Around(doc, i) = 0 <=> i = 1 \/ i = Len(doc) + 1
         /\ Len(doc) \in Nat \ {0}
<1>1. doc \in Seq(Nodes) /\ IsTree(doc)
  BY DEF Documents
<1>2. Len(doc) \in Nat \ {0}
  BY <1>1 DEF IsTree
<1>3. Around(doc, i) \in Int
  BY <1>2, AroundNext
<1>4. Around(doc, 1) = 0
  BY AroundFirst
<1>5. Around(doc, Len(doc) + 1) = 0 /\ \A j \in 2..Len(doc) : Around(doc, j) > 0
  BY <1>1 DEF IsTree
<1>6. i = 1 \/ i = Len(doc) + 1 \/ i \in 2..Len(doc)
  BY <1>2
<1> QED BY <1>2, <1>3, <1>4, <1>5, <1>6

(* The containers before node i that are at level k.                       *)
Opened(doc, i, k) ==
  {j \in 1..i - 1 : doc[j].kind \in Containers /\ Around(doc, j) = k - 1}

(* The stack holds the kinds of the containers around node i.              *)
Stack(doc, i, stack) ==
  /\ stack \in Seq(Containers) /\ i \in 1..Len(doc) + 1
  /\ Len(stack) = Around(doc, i)
  /\ \A k \in 1..Len(stack) :
       \E j \in Opened(doc, i, k) : /\ doc[j].kind = stack[k]
                                    /\ \A l \in Opened(doc, i, k) : l <= j

LEMMA StackStarts ==
  ASSUME NEW doc \in Documents PROVE Stack(doc, 1, <<>>)
<1>1. Len(doc) \in Nat
  BY DEF Documents
<1>2. 1 \in 1..Len(doc) + 1 /\ <<>> \in Seq(Containers) /\ Len(<<>>) = 0 /\ 1..0 = {}
  BY <1>1
<1> QED BY <1>2, AroundFirst DEF Stack

LEMMA StackParent ==
  ASSUME NEW doc \in Documents, NEW i, NEW stack, Stack(doc, i, stack)
  PROVE  Parent(doc, i) = IF stack = <<>> THEN "none" ELSE Last(stack)
<1>1. stack \in Seq(Containers) /\ Len(stack) = Around(doc, i) /\ Len(stack) \in Nat
  BY DEF Stack
<1>2. CASE stack = <<>>
  BY <1>1, <1>2 DEF Parent
<1>3. CASE stack # <<>>
  <2>1. Len(stack) \in 1..Len(stack) /\ Around(doc, i) # 0
    BY <1>1, <1>3
  <2> DEFINE S == Opened(doc, i, Len(stack))
  <2>2. PICK j \in S : doc[j].kind = stack[Len(stack)] /\ \A l \in S : l <= j
    BY <2>1 DEF Stack
  <2>3. S \in SUBSET Int
    <3>1. i \in Int
      BY DEF Stack, Documents
    <3> QED BY <3>1 DEF Opened
  <2>4. Max(S) = j
    <3> HIDE DEF S
    <3>1. \A x \in S : (\A y \in S : x >= y) <=> x = j
      BY <2>2, <2>3
    <3>2. Max(S) = CHOOSE x \in S : \A y \in S : x >= y
      BY DEF Max
    <3>3. (CHOOSE x \in S : \A y \in S : x >= y) = (CHOOSE x \in S : x = j)
      BY <3>1
    <3> QED BY <3>2, <3>3
  <2>5. Parent(doc, i) = doc[Max(S)].kind
    BY <1>1, <2>1 DEF Parent, Opened
  <2> QED BY <1>3, <2>2, <2>4, <2>5 DEF Last
<1> QED BY <1>2, <1>3

LEMMA StackSteps ==
  ASSUME NEW doc \in Documents, NEW i \in 1..Len(doc), NEW stack, Stack(doc, i, stack)
  PROVE  /\ doc[i].kind \notin Containers \cup {"end"} => Stack(doc, i + 1, stack)
         /\ doc[i].kind \in Containers => Stack(doc, i + 1, Append(stack, doc[i].kind))
         /\ doc[i].kind = "end" => stack # <<>> /\ Stack(doc, i + 1, Front(stack))
<1>1. /\ doc \in Seq(Nodes) /\ Len(doc) \in Nat
      /\ i \in Nat \ {0} /\ i \in 1..Len(doc) + 1 /\ i + 1 \in 1..Len(doc) + 1
  BY DEF Documents
<1>2. /\ stack \in Seq(Containers) /\ Len(stack) = Around(doc, i) /\ Len(stack) \in Nat
      /\ \A k \in 1..Len(stack) :
           \E j \in Opened(doc, i, k) : /\ doc[j].kind = stack[k]
                                        /\ \A l \in Opened(doc, i, k) : l <= j
  BY DEF Stack
<1>3. Around(doc, i + 1) = Around(doc, i) +
        (IF doc[i].kind \in Containers THEN 1 ELSE IF doc[i].kind = "end" THEN -1 ELSE 0)
  BY <1>1, AroundNext
<1>4. "end" \notin Containers
  BY DEF Containers
<1>5. ASSUME NEW k
      PROVE  Opened(doc, i + 1, k) = Opened(doc, i, k) \cup
               (IF doc[i].kind \in Containers /\ Around(doc, i) = k - 1 THEN {i} ELSE {})
  <2>1. 1..(i + 1) - 1 = (1..i - 1) \cup {i}
    BY <1>1
  <2> QED BY <2>1 DEF Opened
<1>6. ASSUME NEW k \in 1..Len(stack)
      PROVE  /\ Opened(doc, i + 1, k) = Opened(doc, i, k)
             /\ \E j \in Opened(doc, i + 1, k) : /\ doc[j].kind = stack[k]
                                                 /\ \A l \in Opened(doc, i + 1, k) : l <= j
  <2>1. Around(doc, i) # k - 1
    BY <1>2
  <2>2. Opened(doc, i + 1, k) = Opened(doc, i, k)
    BY <1>5, <2>1
  <2> QED BY <1>2, <2>2
<1>7. CASE doc[i].kind \notin Containers \cup {"end"}
  <2>1. Len(stack) = Around(doc, i + 1)
    BY <1>2, <1>3, <1>7
  <2> QED BY <1>1, <1>2, <1>4, <1>6, <1>7, <2>1 DEF Stack
<1>8. CASE doc[i].kind \in Containers
  <2> DEFINE longer == Append(stack, doc[i].kind)
  <2>1. /\ longer \in Seq(Containers) /\ Len(longer) = Len(stack) + 1
        /\ \A k \in 1..Len(stack) : longer[k] = stack[k]
        /\ longer[Len(stack) + 1] = doc[i].kind
    BY <1>2, <1>8
  <2>2. Len(longer) = Around(doc, i + 1)
    BY <1>2, <1>3, <1>8, <2>1
  <2>3. ASSUME NEW k \in 1..Len(longer)
        PROVE  \E j \in Opened(doc, i + 1, k) : /\ doc[j].kind = longer[k]
                                                /\ \A l \in Opened(doc, i + 1, k) : l <= j
    <3>1. CASE k \in 1..Len(stack)
      BY <1>6, <2>1, <3>1
    <3>2. CASE k = Len(stack) + 1
      <4>1. Opened(doc, i + 1, k) = Opened(doc, i, k) \cup {i}
        <5>1. Around(doc, i) = k - 1
          BY <1>2, <3>2
        <5> QED BY <1>5, <1>8, <5>1
      <4>2. \A l \in Opened(doc, i, k) : l <= i
        BY <1>1 DEF Opened
      <4>3. i \in Opened(doc, i + 1, k) /\ \A l \in Opened(doc, i + 1, k) : l <= i
        BY <1>1, <4>1, <4>2
      <4> QED BY <2>1, <3>2, <4>3
    <3> QED BY <1>2, <2>1, <3>1, <3>2
  <2> HIDE DEF longer
  <2>4. Stack(doc, i + 1, longer)
    BY <1>1, <2>1, <2>2, <2>3 DEF Stack
  <2> QED BY <1>4, <1>8, <2>4 DEF longer
<1>9. CASE doc[i].kind = "end"
  <2>1. Around(doc, i + 1) \in Nat /\ Len(stack) # 0 /\ Around(doc, i + 1) = Len(stack) - 1
    BY <1>1, <1>2, <1>3, <1>4, <1>9, AroundInTree
  <2> DEFINE shorter == Front(stack)
  <2>2. /\ shorter \in Seq(Containers) /\ Len(shorter) = Len(stack) - 1
        /\ \A k \in 1..Len(shorter) : shorter[k] = stack[k]
    <3>1. shorter = [k \in 1..Len(stack) - 1 |-> stack[k]]
      BY <1>2 DEF Front, SubSeq
    <3>2. Len(stack) - 1 \in Nat
      BY <1>2, <2>1
    <3> QED BY <1>2, <3>1, <3>2
  <2> HIDE DEF shorter
  <2>3. ASSUME NEW k \in 1..Len(shorter)
        PROVE  \E j \in Opened(doc, i + 1, k) : /\ doc[j].kind = shorter[k]
                                                /\ \A l \in Opened(doc, i + 1, k) : l <= j
    <3>1. k \in 1..Len(stack)
      BY <1>2, <2>2
    <3> QED BY <1>6, <2>2, <3>1
  <2>4. Stack(doc, i + 1, shorter)
    BY <1>1, <2>1, <2>2, <2>3 DEF Stack
  <2>5. stack # <<>>
    BY <2>1
  <2> QED BY <1>4, <1>9, <2>4, <2>5 DEF shorter
<1> QED BY <1>7, <1>8, <1>9

-----------------------------------------------------------------------------
(* The text of a document, node by node.                                   *)

LEMMA TabsType ==
  ASSUME NEW n \in Int
  PROVE  Tabs(n) \in Seq(Bytes) /\ (n \in Nat => Len(Tabs(n)) = n)
<1>1. "\t" \in Bytes
  BY SyntaxBytes
<1>2. CASE n \in Nat
  BY <1>1, <1>2 DEF Tabs
<1>3. CASE n \notin Nat
  <2>1. 1..n = 1..0
    BY <1>3
  <2>2. Tabs(n) = [i \in 1..0 |-> "\t"]
    BY <2>1 DEF Tabs
  <2> QED BY <1>1, <1>3, <2>2
<1> QED BY <1>2, <1>3

LEMMA LiteralType ==
  ASSUME NEW kind \in DOMAIN Literal
  PROVE  Literal[kind] \in Seq(Bytes)
<1>1. {"n", "u", "l", "t", "r", "e", "f", "a", "s"} \subseteq Bytes
  BY SyntaxBytes
<1>2. kind \in {"null", "true", "false"}
  BY DEF Literal
<1>3. CASE kind = "null"
  <2>1. Literal[kind] = <<"n", "u", "l", "l">>
    BY <1>3 DEF Literal
  <2> QED BY ONLY <1>1, <2>1
<1>4. CASE kind = "true"
  <2>1. Literal[kind] = <<"t", "r", "u", "e">>
    BY <1>4 DEF Literal
  <2> QED BY ONLY <1>1, <2>1
<1>5. CASE kind = "false"
  <2>1. Literal[kind] = <<"f", "a", "l", "s", "e">>
    BY <1>5 DEF Literal
  <2> QED BY ONLY <1>1, <2>1
<1> QED BY <1>2, <1>3, <1>4, <1>5

LEMMA BytesAreElements == Seq(Bytes) \subseteq Seq(Elements)
<1>1. Bytes \subseteq Elements
  BY DEF Elements
<1> QED BY <1>1

LEMMA Pair ==
  ASSUME NEW S, NEW a \in S, NEW b \in S
  PROVE  /\ <<>> \in Seq(S) /\ <<a>> \in Seq(S) /\ <<a, b>> \in Seq(S)
         /\ <<a>> \o <<b>> = <<a, b>>
<1>1. <<>> \in Seq(S) /\ <<a>> \in Seq(S) /\ <<a, b>> \in Seq(S)
  OBVIOUS
<1>2. Len(<<a>> \o <<b>>) = 2 /\ (<<a>> \o <<b>>)[1] = a /\ (<<a>> \o <<b>>)[2] = b
  BY <1>1
<1>3. <<a>> \o <<b>> \in Seq(S)
  BY <1>1
<1>4. <<a>> \o <<b>> = <<a, b>>
  <2> DEFINE s == <<a>> \o <<b>>
  <2> HIDE DEF s
  <2>1. s \in Seq(S) /\ Len(s) = 2 /\ s[1] = a /\ s[2] = b
    BY <1>2, <1>3 DEF s
  <2>2. s = <<a, b>>
    BY <2>1
  <2> QED BY <2>2 DEF s
<1> QED BY <1>1, <1>4

LEMMA Joined ==
  ASSUME NEW S, NEW s \in Seq(S), NEW t \in Seq(S)
  PROVE  /\ s \o t \in Seq(S) /\ Len(s \o t) = Len(s) + Len(t)
         /\ \A i \in 1..Len(s) : (s \o t)[i] = s[i]
         /\ \A i \in 1..Len(t) : (s \o t)[Len(s) + i] = t[i]
OBVIOUS

LEMMA Appended ==
  ASSUME NEW S, NEW s \in Seq(S), NEW z \in S
  PROVE  /\ Append(s, z) \in Seq(S) /\ Len(Append(s, z)) = Len(s) + 1 /\ Len(s) \in Nat
         /\ \A i \in 1..Len(s) : Append(s, z)[i] = s[i]
         /\ Append(s, z)[Len(s) + 1] = z
OBVIOUS

LEMMA AppendedOne ==
  ASSUME NEW S, NEW a \in S, NEW z \in S
  PROVE  /\ <<a>> \in Seq(S) /\ Len(<<a>>) = 1 /\ Append(<<a>>, z) = <<a, z>>
<1> DEFINE x == <<a>>
           w == Append(x, z)
<1>1. x \in Seq(S) /\ Len(x) = 1 /\ x[1] = a
  OBVIOUS
<1> HIDE DEF x
<1>2. /\ w \in Seq(S) /\ Len(w) = Len(x) + 1 /\ w[Len(x) + 1] = z
      /\ \A i \in 1..Len(x) : w[i] = x[i]
  <2>1. x \in Seq(S) /\ z \in S
    BY <1>1
  <2> QED BY ONLY <2>1, Appended
<1> HIDE DEF w
<1>3. w \in Seq(S) /\ Len(w) = 2 /\ w[1] = a /\ w[2] = z
  BY <1>1, <1>2
<1>4. w = <<a, z>>
  BY <1>3
<1> QED BY <1>1, <1>4 DEF w, x

LEMMA AppendedToJoined ==
  ASSUME NEW S, NEW s \in Seq(S), NEW a \in S, NEW z \in S
  PROVE  /\ Append(s \o <<a>>, z) = s \o <<a, z>>
         /\ s \o <<a>> \in Seq(S) /\ Len(s \o <<a>>) = Len(s) + 1 /\ Len(s) \in Nat
<1> DEFINE x == <<a>>
<1>1. x \in Seq(S) /\ Len(x) = 1 /\ Append(x, z) = <<a, z>>
  BY AppendedOne
<1> HIDE DEF x
<1>2. s \o x \in Seq(S) /\ Len(s \o x) = Len(s) + Len(x)
  BY ONLY <1>1, Joined
<1>3. Append(s \o x, z) = s \o Append(x, z)
  <2>1. x \in Seq(S)
    BY <1>1
  <2> QED BY <2>1
<1>4. Len(s) \in Nat
  OBVIOUS
<1> QED BY <1>1, <1>2, <1>3, <1>4 DEF x

LEMMA Join3 ==
  ASSUME NEW S, NEW s \in Seq(S), NEW t \in Seq(S), NEW u \in Seq(S)
  PROVE  (s \o t) \o u = s \o (t \o u)
OBVIOUS

LEMMA Join3Elements ==
  \A s, t, u \in Seq(Elements) : (s \o t) \o u = s \o (t \o u)
BY Join3

(* A key or a string with its quotes.                                      *)
Quoted(s) == <<Quote>> \o EscapedText(s) \o <<Quote>>

LEMMA QuotedType ==
  ASSUME NEW s \in Seq(Bytes)
  PROVE  /\ Quoted(s) \in Seq(Bytes)
         /\ ExtraBytes(s) \in Nat /\ Len(s) \in Nat
         /\ Len(Quoted(s)) = Len(s) + ExtraBytes(s) + 2
<1>1. Quote \in Bytes
  BY SyntaxBytes
<1>2. <<Quote>> \in Seq(Bytes) /\ Len(<<Quote>>) = 1
  BY <1>1
<1> DEFINE e == EscapedText(s)
<1>3. e \in Seq(Bytes) /\ ExtraBytes(s) \in Nat /\ Len(e) = Len(s) + ExtraBytes(s)
  BY EscapedLength
<1> HIDE DEF e
<1>4. <<Quote>> \o e \in Seq(Bytes) /\ Len(<<Quote>> \o e) = 1 + Len(e)
  BY <1>2, <1>3
<1>5. <<Quote>> \o e \o <<Quote>> \in Seq(Bytes) /\ Len(<<Quote>> \o e \o <<Quote>>) = 2 + Len(e)
  BY <1>2, <1>3, <1>4
<1>6. Len(s) \in Nat
  OBVIOUS
<1> QED BY <1>3, <1>5, <1>6 DEF Quoted, e

LEMMA SeparatorType ==
  ASSUME NEW doc, NEW i, NEW format PROVE Separator(doc, i, format) \in Seq(Bytes)
<1>1. "," \in Bytes /\ " " \in Bytes
  BY SyntaxBytes
<1>2. <<>> \in Seq(Bytes) /\ <<",">> \in Seq(Bytes) /\ <<",", " ">> \in Seq(Bytes)
  BY ONLY <1>1, Pair
<1> QED BY <1>2 DEF Separator

LEMMA LineStartType ==
  ASSUME NEW doc \in Seq(Nodes), NEW i \in 1..Len(doc), NEW format
  PROVE  LineStart(doc, i, format) \in Seq(Bytes)
<1>1. "\n" \in Bytes
  BY SyntaxBytes
<1>2. <<>> \in Seq(Bytes) /\ <<"\n">> \in Seq(Bytes)
  BY <1>1
<1> DEFINE n == Around(doc, i) - (IF doc[i].kind = "end" THEN 1 ELSE 0)
<1>3. n \in Int
  <2>1. i \in Nat \ {0}
    OBVIOUS
  <2> QED BY <2>1, AroundNext
<1>4. <<"\n">> \o Tabs(n) \in Seq(Bytes)
  <2> HIDE DEF n
  <2> QED BY <1>2, <1>3, TabsType
<1> QED BY <1>2, <1>4 DEF LineStart

LEMMA KeyTextType ==
  ASSUME NEW doc \in Seq(Nodes), NEW i \in 1..Len(doc), NEW format
  PROVE  /\ KeyText(doc, i, format) \in Seq(Bytes)
         /\ Parent(doc, i) = "object" /\ doc[i].kind # "end" =>
              KeyText(doc, i, format) =
                Quoted(doc[i].key) \o (IF format THEN <<":", "\t">> ELSE <<":">>)
<1> DEFINE e == EscapedText(doc[i].key)
<1>1. doc[i].key \in Seq(Bytes)
  BY NodeAt
<1>2. e \in Seq(Bytes)
  BY <1>1, EscapedLength
<1> HIDE DEF e
<1>3. Quote \in Bytes /\ ":" \in Bytes /\ "\t" \in Bytes
  BY SyntaxBytes
<1>4. /\ <<Quote>> \in Seq(Bytes) /\ <<":">> \in Seq(Bytes) /\ <<"\t">> \in Seq(Bytes)
      /\ <<>> \in Seq(Bytes) /\ <<Quote, ":">> \in Seq(Bytes) /\ <<":", "\t">> \in Seq(Bytes)
      /\ <<Quote>> \o <<":">> = <<Quote, ":">> /\ <<":">> \o <<"\t">> = <<":", "\t">>
  BY ONLY <1>3, Pair
<1>5. <<Quote>> \o e \o <<Quote, ":">> = (<<Quote>> \o e \o <<Quote>>) \o <<":">>
  <2>1. <<Quote>> \o e \in Seq(Bytes)
    BY <1>2, <1>4
  <2>2. (<<Quote>> \o e \o <<Quote>>) \o <<":">> = (<<Quote>> \o e) \o (<<Quote>> \o <<":">>)
    BY <1>4, <2>1, Join3
  <2> QED BY <1>4, <2>2
<1>6. <<Quote>> \o e \o <<Quote>> \in Seq(Bytes)
  BY <1>2, <1>4
<1>7. /\ <<Quote>> \o e \o <<Quote, ":">> \o <<>> = (<<Quote>> \o e \o <<Quote>>) \o <<":">>
      /\ <<Quote>> \o e \o <<Quote, ":">> \o <<"\t">>
           = (<<Quote>> \o e \o <<Quote>>) \o <<":", "\t">>
  <2> DEFINE q == <<Quote>> \o e \o <<Quote>>
  <2> HIDE DEF q
  <2>1. q \in Seq(Bytes)
    BY <1>6 DEF q
  <2>2. (q \o <<":">>) \o <<>> = q \o <<":">>
    BY <1>4, <2>1
  <2>3. (q \o <<":">>) \o <<"\t">> = q \o <<":", "\t">>
    BY <1>4, <2>1, Join3
  <2> QED BY <1>5, <2>2, <2>3 DEF q
<1>8. Parent(doc, i) = "object" /\ doc[i].kind # "end" =>
        KeyText(doc, i, format) = <<Quote>> \o e \o <<Quote, ":">>
                                    \o (IF format THEN <<"\t">> ELSE <<>>)
  BY DEF KeyText, e
<1>9. Parent(doc, i) = "object" /\ doc[i].kind # "end" =>
        KeyText(doc, i, format) = (<<Quote>> \o e \o <<Quote>>)
                                    \o (IF format THEN <<":", "\t">> ELSE <<":">>)
  BY <1>7, <1>8
<1>10. KeyText(doc, i, format) \in Seq(Bytes)
  <2>1. CASE Parent(doc, i) = "object" /\ doc[i].kind # "end"
    <3>1. (<<Quote>> \o e \o <<Quote>>) \o (IF format THEN <<":", "\t">> ELSE <<":">>) \in Seq(Bytes)
      BY <1>4, <1>6
    <3> QED BY <1>9, <2>1, <3>1
  <2>2. CASE ~(Parent(doc, i) = "object" /\ doc[i].kind # "end")
    BY <1>4, <2>2 DEF KeyText
  <2> QED BY <2>1, <2>2
<1> QED BY <1>9, <1>10 DEF Quoted, e

LEMMA NodeTextType ==
  ASSUME NEW doc \in Seq(Nodes), NEW i \in 1..Len(doc)
  PROVE  /\ NodeText(doc, i) \in Seq(Elements)
         /\ doc[i].kind # "number" => NodeText(doc, i) \in Seq(Bytes)
         /\ doc[i].kind = "string" => NodeText(doc, i) = Quoted(doc[i].text)
<1>1. /\ doc[i].kind \in Kinds /\ doc[i].text \in Seq(Elements)
      /\ doc[i].kind \in {"string", "raw"} => doc[i].text \in Seq(Bytes)
  BY NodeAt
<1>2. {"[", "]", "{", "}"} \subseteq Bytes
  BY SyntaxBytes
<1>3. /\ <<"[">> \in Seq(Bytes) /\ <<"]">> \in Seq(Bytes)
      /\ <<"{">> \in Seq(Bytes) /\ <<"}">> \in Seq(Bytes)
  <2>1. "[" \in Bytes /\ "]" \in Bytes /\ "{" \in Bytes /\ "}" \in Bytes
    BY <1>2
  <2> QED BY ONLY <2>1, Pair
<1>4. DOMAIN Literal = {"null", "true", "false"}
  BY DEF Literal
<1>5. doc[i].kind = "string" => /\ NodeText(doc, i) = Quoted(doc[i].text)
                                /\ Quoted(doc[i].text) \in Seq(Bytes)
  <2>1. doc[i].kind = "string" => NodeText(doc, i) = Quoted(doc[i].text)
    BY <1>4 DEF NodeText, Quoted
  <2> QED BY <1>1, <2>1, QuotedType
<1>6. CASE doc[i].kind \in {"null", "true", "false"}
  <2>1. NodeText(doc, i) = Literal[doc[i].kind]
    BY <1>4, <1>6 DEF NodeText
  <2> QED BY <1>4, <1>6, <2>1, LiteralType, BytesAreElements
<1>7. CASE doc[i].kind \in {"number", "raw"}
  <2>1. NodeText(doc, i) = doc[i].text
    BY <1>4, <1>7 DEF NodeText
  <2> QED BY <1>1, <1>7, <2>1
<1>8. CASE doc[i].kind = "string"
  BY <1>5, <1>8, BytesAreElements
<1>9. CASE doc[i].kind \notin {"null", "true", "false", "number", "raw", "string"}
  <2>1. NodeText(doc, i) \in {<<"[">>, <<"]">>, <<"{">>, <<"}">>}
    BY <1>4, <1>9 DEF NodeText
  <2> QED BY <1>3, <1>9, <2>1, BytesAreElements
<1> QED BY <1>6, <1>7, <1>8, <1>9

-----------------------------------------------------------------------------
(* What has been printed when the next thing to be done is a stage at node *)
(* n: the nodes before it, and a part of what is ahead of its own text.    *)

Full(doc, i, format) ==
  Separator(doc, i, format) \o LineStart(doc, i, format)
    \o KeyText(doc, i, format) \o NodeText(doc, i)

Prefix(doc, format, n) == FlattenSeq([i \in 1..n |-> Full(doc, i, format)])

Ahead(doc, format, at, n) ==
  CASE at = "value"             -> Separator(doc, n, format) \o LineStart(doc, n, format)
                                     \o KeyText(doc, n, format)
    [] at = "key"               -> Separator(doc, n, format) \o LineStart(doc, n, format)
    [] at \in {"keyed", "colon"} -> Separator(doc, n, format) \o LineStart(doc, n, format)
                                     \o Quoted(doc[n].key)
    [] at = "indent"            -> Separator(doc, n, format) \o <<"\n">>
    [] at = "close"             -> IF format /\ Parent(doc, n) = "object"
                                     THEN <<"\n">> ELSE <<>>
    [] OTHER                    -> <<>>

Shown(doc, format, at, n) == Prefix(doc, format, n - 1) \o Ahead(doc, format, at, n)

(* A stage at node n is possible.                                          *)
Possible(doc, format, at, n) ==
  /\ at \in {"value", "indent", "key", "keyed", "colon"} =>
       n \in 1..Len(doc) /\ doc[n].kind # "end"
  /\ at \in {"indent", "key", "keyed", "colon"} => Parent(doc, n) = "object"
  /\ at = "indent" => format
  /\ at = "close" => n \in 1..Len(doc) /\ doc[n].kind = "end"
  /\ at = "separator" => n \in 2..Len(doc)
  /\ at = "printed" => n \in 2..Len(doc) + 1
  /\ at \in {"printed", "separator"} => doc[n - 1].kind \notin Containers
  /\ at \in {"finish", "done", "released"} => n = Len(doc) + 1

LEMMA Empty ==
  ASSUME NEW S, NEW s \in Seq(S) PROVE s \o <<>> = s /\ <<>> \o s = s
OBVIOUS

LEMMA FullType ==
  ASSUME NEW doc \in Seq(Nodes), NEW i \in 1..Len(doc), NEW format
  PROVE  Full(doc, i, format) \in Seq(Elements)
<1> DEFINE a == Separator(doc, i, format)
           b == LineStart(doc, i, format)
           c == KeyText(doc, i, format)
           d == NodeText(doc, i)
<1>1. /\ a \in Seq(Elements) /\ b \in Seq(Elements) /\ c \in Seq(Elements)
      /\ d \in Seq(Elements)
  BY SeparatorType, LineStartType, KeyTextType, NodeTextType, BytesAreElements
<1>2. Full(doc, i, format) = a \o b \o c \o d
  BY DEF Full
<1> HIDE DEF a, b, c, d
<1>3. a \o b \in Seq(Elements)
  BY <1>1
<1>4. a \o b \o c \in Seq(Elements)
  BY <1>1, <1>3
<1>5. a \o b \o c \o d \in Seq(Elements)
  BY <1>1, <1>4
<1> QED BY <1>2, <1>5

LEMMA PrefixType ==
  ASSUME NEW doc \in Seq(Nodes), NEW format, NEW n \in 0..Len(doc)
  PROVE  Prefix(doc, format, n) \in Seq(Elements)
<1> DEFINE s == [i \in 1..n |-> Full(doc, i, format)]
<1>1. s \in [1..n -> Seq(Elements)]
  <2>1. \A i \in 1..n : i \in 1..Len(doc)
    OBVIOUS
  <2> QED BY <2>1, FullType
<1> HIDE DEF s
<1>2. FlattenSeq(s) \in Seq(Elements)
  BY <1>1, FlattenType
<1> QED BY <1>2 DEF Prefix, s

LEMMA PrefixEnds ==
  ASSUME NEW doc \in Seq(Nodes), NEW format
  PROVE  /\ Prefix(doc, format, 0) = <<>>
         /\ Prefix(doc, format, Len(doc)) = Rendered(doc, format)
<1>1. [i \in 1..0 |-> Full(doc, i, format)] = <<>>
  OBVIOUS
<1>2. DOMAIN doc = 1..Len(doc)
  OBVIOUS
<1>3. FlattenSeq([i \in 1..0 |-> Full(doc, i, format)]) = <<>>
  BY ONLY <1>1, FlattenEmpty
<1> QED BY <1>2, <1>3 DEF Prefix, Rendered, Full

LEMMA PrefixNext ==
  ASSUME NEW doc \in Seq(Nodes), NEW format, NEW n \in 1..Len(doc)
  PROVE  Prefix(doc, format, n) = Prefix(doc, format, n - 1) \o Full(doc, n, format)
<1> DEFINE m == n - 1
           s == [i \in 1..m+1 |-> Full(doc, i, format)]
           t == [i \in 1..m |-> Full(doc, i, format)]
<1>1. m \in Nat /\ m + 1 = n
  OBVIOUS
<1> HIDE DEF m
<1>2. s \in [1..m+1 -> Seq(Elements)] /\ t \in [1..m -> Seq(Elements)]
  <2>1. \A i \in 1..m+1 : i \in 1..Len(doc)
    BY <1>1
  <2>2. \A i \in 1..m : i \in 1..m+1
    BY <1>1
  <2> QED BY <2>1, <2>2, FullType
<1>3. (\A i \in 1..m : t[i] = s[i]) /\ s[m+1] = Full(doc, n, format)
  BY <1>1
<1>4. Prefix(doc, format, n) = FlattenSeq(s) /\ Prefix(doc, format, n - 1) = FlattenSeq(t)
  BY <1>1 DEF Prefix, m
<1> HIDE DEF s, t
<1>5. FlattenSeq(s) = FlattenSeq(t) \o s[m+1]
  BY <1>1, <1>2, <1>3, FlattenStep
<1> QED BY <1>3, <1>4, <1>5

(* The text grows with the nodes.                                          *)
LEMMA PrefixGrows ==
  ASSUME NEW doc \in Seq(Nodes), NEW format, NEW n \in 0..Len(doc)
  PROVE  /\ Len(Prefix(doc, format, n)) \in Nat
         /\ Len(Prefix(doc, format, n)) <= Len(Rendered(doc, format))
<1> DEFINE l(i) == Len(Prefix(doc, format, i))
           Q(k) == \A i \in 0..Len(doc) : i + k = Len(doc) => l(i) <= l(Len(doc))
<1>0. Len(doc) \in Nat /\ \A i \in 0..Len(doc) : l(i) \in Nat
  BY PrefixType
<1>1. Q(0)
  BY <1>0
<1>2. ASSUME NEW k \in Nat, Q(k) PROVE Q(k + 1)
  <2> SUFFICES ASSUME NEW i \in 0..Len(doc), i + (k + 1) = Len(doc)
               PROVE  l(i) <= l(Len(doc))
    OBVIOUS
  <2>1. i + 1 \in 1..Len(doc) /\ (i + 1) + k = Len(doc) /\ (i + 1) - 1 = i /\ i + 1 \in 0..Len(doc)
    BY <1>0
  <2>2. l(i + 1) <= l(Len(doc))
    <3> HIDE DEF l
    <3> QED BY <1>2, <2>1
  <2>3. Prefix(doc, format, i + 1) = Prefix(doc, format, i) \o Full(doc, i + 1, format)
    BY <2>1, PrefixNext
  <2>4. Prefix(doc, format, i) \in Seq(Elements) /\ Full(doc, i + 1, format) \in Seq(Elements)
    BY <2>1, PrefixType, FullType
  <2>5. l(i + 1) = l(i) + Len(Full(doc, i + 1, format)) /\ Len(Full(doc, i + 1, format)) \in Nat
    BY <2>3, <2>4
  <2>6. l(i) \in Nat /\ l(i + 1) \in Nat /\ l(Len(doc)) \in Nat
    <3> HIDE DEF l
    <3>1. Len(doc) \in 0..Len(doc)
      BY <1>0
    <3> QED BY <1>0, <2>1, <3>1
  <2> HIDE DEF l
  <2> QED BY <2>2, <2>5, <2>6
<1>3. \A k \in Nat : Q(k)
  <2> HIDE DEF Q
  <2> DEFINE T == {k \in Nat : Q(k)}
  <2>1. T \in SUBSET Nat /\ 0 \in T /\ \A k \in T : k + 1 \in T
    BY <1>1, <1>2
  <2>2. T = Nat
    <3> HIDE DEF T
    <3> QED BY <2>1, NatSetInduction
  <2> QED BY <2>2
<1>4. Q(Len(doc) - n)
  <2> HIDE DEF Q
  <2>1. Len(doc) - n \in Nat
    BY <1>0
  <2> QED BY <1>3, <2>1
<1>5. l(n) <= l(Len(doc))
  <2>1. n + (Len(doc) - n) = Len(doc)
    BY <1>0
  <2> HIDE DEF l
  <2> QED BY <1>4, <2>1
<1>6. l(Len(doc)) = Len(Rendered(doc, format))
  BY PrefixEnds
<1> QED BY <1>0, <1>5, <1>6

(* No more than the whole text has been printed at any time.               *)
LEMMA ShownBound ==
  ASSUME NEW doc \in Seq(Nodes), NEW format \in BOOLEAN, NEW at, NEW n \in 1..Len(doc) + 1,
         Possible(doc, format, at, n)
  PROVE  /\ Shown(doc, format, at, n) \in Seq(Elements)
         /\ Len(Shown(doc, format, at, n)) \in Nat
         /\ Len(Shown(doc, format, at, n)) <= Len(Rendered(doc, format))
         /\ Len(Rendered(doc, format)) \in Nat
<1> DEFINE p == Prefix(doc, format, n - 1)
           a == Separator(doc, n, format)
           b == LineStart(doc, n, format)
           c == KeyText(doc, n, format)
           d == NodeText(doc, n)
           h == Ahead(doc, format, at, n)
<1>0. Len(doc) \in Nat /\ n - 1 \in 0..Len(doc) /\ Len(doc) \in 0..Len(doc)
  OBVIOUS
<1>1. p \in Seq(Elements) /\ Len(p) \in Nat /\ Len(p) <= Len(Rendered(doc, format))
  BY <1>0, PrefixType, PrefixGrows
<1>2. Len(Rendered(doc, format)) \in Nat
  BY <1>0, PrefixGrows, PrefixEnds
<1>3. CASE at \notin {"value", "key", "keyed", "colon", "indent", "close"}
  <2>1. h = <<>>
    BY <1>3 DEF Ahead
  <2>2. Shown(doc, format, at, n) = p
    <3>1. Shown(doc, format, at, n) = p \o <<>>
      BY <2>1 DEF Shown
    <3> HIDE DEF p
    <3> QED BY <1>1, <3>1
  <2> QED BY <1>1, <1>2, <2>2
<1>4. CASE at \in {"value", "key", "keyed", "colon", "indent", "close"}
  <2>1. n \in 1..Len(doc)
    BY <1>4 DEF Possible
  <2>2. /\ a \in Seq(Bytes) /\ b \in Seq(Bytes) /\ c \in Seq(Bytes) /\ d \in Seq(Elements)
        /\ Seq(Bytes) \subseteq Seq(Elements)
    BY <2>1, SeparatorType, LineStartType, KeyTextType, NodeTextType, BytesAreElements
  <2>3. /\ Prefix(doc, format, n) = p \o (a \o b \o c \o d)
        /\ Len(Prefix(doc, format, n)) \in Nat
        /\ Len(Prefix(doc, format, n)) <= Len(Rendered(doc, format))
    <3>1. n \in 0..Len(doc)
      BY <2>1
    <3> QED BY <2>1, <3>1, PrefixNext, PrefixGrows DEF Full
  <2>4. h \in Seq(Bytes) /\ Len(h) <= Len(a) + Len(b) + Len(c)
    <3>a. /\ a \o b \in Seq(Bytes) /\ Len(a \o b) = Len(a) + Len(b)
          /\ a \o b \o c \in Seq(Bytes) /\ Len(a \o b \o c) = Len(a) + Len(b) + Len(c)
          /\ Len(a) \in Nat /\ Len(b) \in Nat /\ Len(c) \in Nat
      <4> HIDE DEF a, b, c
      <4>1. a \o b \in Seq(Bytes) /\ Len(a \o b) = Len(a) + Len(b)
        BY <2>2, Joined
      <4>2. a \o b \o c \in Seq(Bytes) /\ Len(a \o b \o c) = Len(a \o b) + Len(c)
        BY <2>2, <4>1, Joined
      <4> QED BY <2>2, <4>1, <4>2
    <3>b. "\n" \in Bytes /\ ":" \in Bytes /\ "\t" \in Bytes
      BY SyntaxBytes
    <3>c. <<"\n">> \in Seq(Bytes) /\ Len(<<"\n">>) = 1
      BY ONLY <3>b, Pair
    <3>1. CASE at = "value"
      <4>1. h = a \o b \o c
        BY <3>1 DEF Ahead
      <4> HIDE DEF a, b, c, h
      <4> QED BY <3>a, <4>1
    <3>2. CASE at = "key"
      <4>1. h = a \o b
        BY <3>2 DEF Ahead
      <4> HIDE DEF a, b, c, h
      <4> QED BY <3>a, <4>1
    <3>3. CASE at \in {"keyed", "colon"}
      <4> DEFINE q == Quoted(doc[n].key)
                 e == IF format THEN <<":", "\t">> ELSE <<":">>
      <4>1. h = a \o b \o q
        BY <3>3 DEF Ahead
      <4>2. doc[n].key \in Seq(Bytes)
        BY <2>1, NodeAt
      <4>3. q \in Seq(Bytes)
        BY <4>2, QuotedType
      <4>4. Parent(doc, n) = "object" /\ doc[n].kind # "end"
        BY <3>3 DEF Possible
      <4>5. c = q \o e
        BY <2>1, <4>4, KeyTextType
      <4>6. e \in Seq(Bytes)
        <5>1. <<":", "\t">> \in Seq(Bytes) /\ <<":">> \in Seq(Bytes)
          BY ONLY <3>b, Pair
        <5> QED BY <5>1
      <4> HIDE DEF a, b, c, h, q, e
      <4>7. Len(c) = Len(q) + Len(e) /\ Len(q) \in Nat /\ Len(e) \in Nat
        BY <4>3, <4>5, <4>6
      <4>8. a \o b \o q \in Seq(Bytes) /\ Len(a \o b \o q) = Len(a \o b) + Len(q)
        BY <3>a, <4>3, Joined
      <4> QED BY <3>a, <4>1, <4>7, <4>8
    <3>4. CASE at = "indent"
      <4>1. h = a \o <<"\n">>
        BY <3>4 DEF Ahead
      <4>2. format /\ Parent(doc, n) = "object"
        BY <3>4 DEF Possible
      <4> DEFINE m == Around(doc, n) - (IF doc[n].kind = "end" THEN 1 ELSE 0)
      <4>3. b = <<"\n">> \o Tabs(m)
        BY <4>2 DEF LineStart
      <4>4. m \in Int
        <5>1. n \in Nat \ {0}
          OBVIOUS
        <5> QED BY <5>1, AroundNext
      <4>5. Tabs(m) \in Seq(Bytes)
        <5> HIDE DEF m
        <5> QED BY <4>4, TabsType
      <4> HIDE DEF a, b, c, h, m
      <4>6. Len(b) = 1 + Len(Tabs(m)) /\ Len(Tabs(m)) \in Nat
        BY <3>c, <4>3, <4>5, Joined
      <4>7. a \o <<"\n">> \in Seq(Bytes) /\ Len(a \o <<"\n">>) = Len(a) + 1
        BY <2>2, <3>c, Joined
      <4> QED BY <3>a, <4>1, <4>6, <4>7
    <3>5. CASE at = "close"
      <4>1. h = IF format /\ Parent(doc, n) = "object" THEN <<"\n">> ELSE <<>>
        BY <3>5 DEF Ahead
      <4>2. CASE format /\ Parent(doc, n) = "object"
        <5> DEFINE m == Around(doc, n) - (IF doc[n].kind = "end" THEN 1 ELSE 0)
        <5>3. b = <<"\n">> \o Tabs(m)
          BY <4>2 DEF LineStart
        <5>4. m \in Int
          <6>1. n \in Nat \ {0}
            OBVIOUS
          <6> QED BY <6>1, AroundNext
        <5>5. Tabs(m) \in Seq(Bytes)
          <6> HIDE DEF m
          <6> QED BY <5>4, TabsType
        <5> HIDE DEF a, b, c, h, m
        <5>6. Len(b) = 1 + Len(Tabs(m)) /\ Len(Tabs(m)) \in Nat
          BY <3>c, <5>3, <5>5, Joined
        <5> QED BY <3>a, <3>c, <4>1, <4>2, <5>6
      <4>3. CASE ~(format /\ Parent(doc, n) = "object")
        <5>1. h = <<>> /\ <<>> \in Seq(Bytes) /\ Len(<<>>) = 0
          BY <4>1, <4>3
        <5> HIDE DEF a, b, c, h
        <5> QED BY <3>a, <5>1
      <4> QED BY <4>2, <4>3
    <3> QED BY <1>4, <3>1, <3>2, <3>3, <3>4, <3>5
  <2>5. Shown(doc, format, at, n) = p \o h
    BY DEF Shown
  <2> HIDE DEF a, b, c, d, h, p
  <2>6. /\ a \in Seq(Elements) /\ b \in Seq(Elements) /\ c \in Seq(Elements) /\ h \in Seq(Elements)
    BY <2>2, <2>4
  <2>7. /\ p \o h \in Seq(Elements) /\ Len(p \o h) = Len(p) + Len(h) /\ Len(p \o h) \in Nat
    BY <1>1, <2>6
  <2>8. a \o b \in Seq(Elements) /\ Len(a \o b) = Len(a) + Len(b)
    BY <2>6
  <2>9. a \o b \o c \in Seq(Elements) /\ Len(a \o b \o c) = Len(a) + Len(b) + Len(c)
    BY <2>6, <2>8
  <2>10. a \o b \o c \o d \in Seq(Elements) /\ Len(a \o b \o c \o d) = Len(a) + Len(b) + Len(c) + Len(d)
    BY <2>2, <2>6, <2>9
  <2>11. Len(p \o (a \o b \o c \o d)) = Len(p) + (Len(a) + Len(b) + Len(c) + Len(d))
    BY <1>1, <2>10
  <2>12. Len(d) \in Nat /\ Len(a) \in Nat /\ Len(b) \in Nat /\ Len(c) \in Nat /\ Len(h) \in Nat
    BY <2>2, <2>6
  <2>13. Len(Shown(doc, format, at, n)) <= Len(Prefix(doc, format, n))
    BY <1>1, <2>3, <2>4, <2>5, <2>7, <2>11, <2>12
  <2> QED BY <1>2, <2>3, <2>5, <2>7, <2>13
<1> QED BY <1>3, <1>4

-----------------------------------------------------------------------------
(* What a step adds to what has been printed.                              *)

LEMMA ShownStart ==
  ASSUME NEW doc \in Documents, NEW format
  PROVE  Shown(doc, format, "value", 1) = <<>>
<1>1. doc \in Seq(Nodes) /\ Parent(doc, 1) = "none"
  BY AroundFirst DEF Documents, Parent
<1>2. /\ Separator(doc, 1, format) = <<>> /\ LineStart(doc, 1, format) = <<>>
      /\ KeyText(doc, 1, format) = <<>>
  BY <1>1 DEF Separator, LineStart, KeyText
<1>3. Ahead(doc, format, "value", 1) = <<>> \o <<>> \o <<>>
  BY <1>2 DEF Ahead
<1>4. Prefix(doc, format, 1 - 1) = <<>>
  BY <1>1, PrefixEnds, 1 - 1 = 0
<1>5. <<>> \in Seq(Bytes) /\ <<>> \o <<>> = <<>>
  OBVIOUS
<1> QED BY <1>3, <1>4, <1>5 DEF Shown

LEMMA ShownLeaf ==
  ASSUME NEW doc \in Seq(Nodes), NEW format \in BOOLEAN, NEW n \in 1..Len(doc)
  PROVE  /\ Shown(doc, format, "printed", n + 1) = Prefix(doc, format, n)
         /\ Shown(doc, format, "printed", n + 1) =
              Shown(doc, format, "value", n) \o NodeText(doc, n)
<1> DEFINE p == Prefix(doc, format, n - 1)
           a == Separator(doc, n, format) \o LineStart(doc, n, format) \o KeyText(doc, n, format)
           d == NodeText(doc, n)
<1>1. p \in Seq(Elements) /\ d \in Seq(Elements) /\ a \in Seq(Elements)
  <2>1. n - 1 \in 0..Len(doc)
    OBVIOUS
  <2>2. /\ Separator(doc, n, format) \in Seq(Bytes) /\ LineStart(doc, n, format) \in Seq(Bytes)
        /\ KeyText(doc, n, format) \in Seq(Bytes)
    BY SeparatorType, LineStartType, KeyTextType
  <2>3. a \in Seq(Bytes)
    BY <2>2
  <2> QED BY <2>1, <2>3, PrefixType, NodeTextType, BytesAreElements
<1>2. Shown(doc, format, "value", n) = p \o a
  BY DEF Shown, Ahead
<1>3. Prefix(doc, format, n) = p \o (a \o d)
  BY PrefixNext DEF Full
<1>4. Shown(doc, format, "printed", n + 1) = Prefix(doc, format, n)
  <2>1. Prefix(doc, format, n) \in Seq(Elements) /\ (n + 1) - 1 = n
    <3>1. n \in 0..Len(doc)
      OBVIOUS
    <3> QED BY <3>1, PrefixType
  <2>2. Shown(doc, format, "printed", n + 1) = Prefix(doc, format, n) \o <<>>
    BY <2>1 DEF Shown, Ahead
  <2> QED BY <2>1, <2>2, Empty
<1> HIDE DEF p, a, d
<1>5. (p \o a) \o d = p \o (a \o d)
  BY <1>1, Join3
<1> QED BY <1>2, <1>3, <1>4, <1>5 DEF d

(* Before the first node in a container there is no comma.                 *)
LEMMA FirstSeparator ==
  ASSUME NEW doc, NEW format, NEW n \in Nat \ {0}, doc[n].kind \in Containers
  PROVE  Separator(doc, n + 1, format) = <<>>
<1>1. (n + 1) - 1 = n
  OBVIOUS
<1> QED BY <1>1 DEF Separator

LEMMA ShownArray ==
  ASSUME NEW doc \in Seq(Nodes), NEW format \in BOOLEAN, NEW n \in 1..Len(doc),
         doc[n].kind = "array", Parent(doc, n + 1) = "array"
  PROVE  /\ Shown(doc, format, "value", n + 1) = Shown(doc, format, "value", n) \o <<"[">>
         /\ Shown(doc, format, "close", n + 1) = Shown(doc, format, "value", n) \o <<"[">>
<1> DEFINE p == Prefix(doc, format, n)
<1>1. NodeText(doc, n) = <<"[">>
  BY DEF NodeText, Literal
<1>2. p = Shown(doc, format, "value", n) \o <<"[">>
  BY <1>1, ShownLeaf
<1>3. p \in Seq(Elements) /\ n \in Nat \ {0} /\ (n + 1) - 1 = n
  <2>1. n \in 0..Len(doc)
    OBVIOUS
  <2> QED BY <2>1, PrefixType
<1>4. /\ Separator(doc, n + 1, format) = <<>> /\ LineStart(doc, n + 1, format) = <<>>
      /\ KeyText(doc, n + 1, format) = <<>>
  BY <1>3, FirstSeparator DEF LineStart, KeyText, Containers
<1>5. /\ Shown(doc, format, "value", n + 1) = p \o (<<>> \o <<>> \o <<>>)
      /\ Shown(doc, format, "close", n + 1) = p \o <<>>
  BY <1>3, <1>4 DEF Shown, Ahead
<1> HIDE DEF p
<1>6. p \o <<>> = p /\ <<>> \o <<>> = <<>>
  BY <1>3, Empty
<1> QED BY <1>2, <1>5, <1>6

LEMMA ShownObject ==
  ASSUME NEW doc \in Seq(Nodes), NEW format \in BOOLEAN, NEW n \in 1..Len(doc),
         doc[n].kind = "object", Parent(doc, n + 1) = "object"
  PROVE  LET shown == Shown(doc, format, "value", n) \o (IF format THEN <<"{", "\n">> ELSE <<"{">>)
         IN /\ Shown(doc, format, "close", n + 1) = shown
            /\ Shown(doc, format, IF format THEN "indent" ELSE "key", n + 1) = shown
<1> DEFINE p == Prefix(doc, format, n)
           v == Shown(doc, format, "value", n)
           shown == v \o (IF format THEN <<"{", "\n">> ELSE <<"{">>)
<1>1. NodeText(doc, n) = <<"{">>
  BY DEF NodeText, Literal
<1>2. p = v \o <<"{">>
  BY <1>1, ShownLeaf
<1>3. p \in Seq(Elements) /\ n \in Nat \ {0} /\ (n + 1) - 1 = n
  <2>1. n \in 0..Len(doc)
    OBVIOUS
  <2> QED BY <2>1, PrefixType
<1>4. v \in Seq(Elements)
  <2>1. Possible(doc, format, "value", n) /\ n \in 1..Len(doc) + 1
    BY DEF Possible
  <2> QED BY <2>1, ShownBound
<1>5. Separator(doc, n + 1, format) = <<>>
  BY <1>3, FirstSeparator DEF Containers
<1>6. /\ <<"{">> \in Seq(Elements) /\ <<"\n">> \in Seq(Elements)
      /\ <<"{">> \o <<"\n">> = <<"{", "\n">>
  <2>1. "{" \in Elements /\ "\n" \in Elements
    BY SyntaxBytes DEF Elements
  <2> QED BY ONLY <2>1, Pair
<1>7. CASE format
  <2>1. /\ Shown(doc, format, "close", n + 1) = p \o <<"\n">>
        /\ Shown(doc, format, "indent", n + 1) = p \o (<<>> \o <<"\n">>)
    BY <1>3, <1>5, <1>7 DEF Shown, Ahead
  <2>2. shown = v \o <<"{", "\n">>
    BY <1>7
  <2> HIDE DEF p, v, shown
  <2>3. <<>> \o <<"\n">> = <<"\n">>
    BY <1>6, Empty
  <2>4. p \o <<"\n">> = v \o <<"{", "\n">>
    <3>1. (v \o <<"{">>) \o <<"\n">> = v \o (<<"{">> \o <<"\n">>)
      <4> DEFINE x == <<"{">>
                 y == <<"\n">>
      <4>1. x \in Seq(Elements)
        BY <1>6
      <4>2. y \in Seq(Elements)
        BY <1>6
      <4>3. v \in Seq(Elements)
        BY <1>4
      <4> HIDE DEF x, y, v
      <4>4. (v \o x) \o y = v \o (x \o y)
        BY ONLY <4>1, <4>2, <4>3, Join3Elements, Zenon
      <4> QED BY <4>4 DEF x, y
    <3> QED BY <1>2, <1>6, <3>1
  <2> QED BY <1>7, <2>1, <2>2, <2>3, <2>4 DEF shown, v
<1>8. CASE ~format
  <2>0. LineStart(doc, n + 1, format) = <<>>
    BY <1>8 DEF LineStart
  <2>1. /\ Shown(doc, format, "close", n + 1) = p \o <<>>
        /\ Shown(doc, format, "key", n + 1) = p \o (<<>> \o <<>>)
    BY <1>3, <1>5, <1>8, <2>0 DEF Shown, Ahead
  <2>2. shown = v \o <<"{">>
    BY <1>8
  <2> HIDE DEF p, v, shown
  <2>3. p \o <<>> = p /\ <<>> \o <<>> = <<>>
    BY <1>3, Empty
  <2> QED BY <1>2, <1>8, <2>1, <2>2, <2>3 DEF shown, v
<1> QED BY <1>7, <1>8

LEMMA ShownPieces ==
  ASSUME NEW doc \in Seq(Nodes), NEW format \in BOOLEAN, NEW n \in 1..Len(doc)
  PROVE  /\ Prefix(doc, format, n - 1) \in Seq(Elements)
         /\ Separator(doc, n, format) \in Seq(Elements)
         /\ LineStart(doc, n, format) \in Seq(Elements)
         /\ KeyText(doc, n, format) \in Seq(Elements)
         /\ NodeText(doc, n) \in Seq(Elements)
         /\ Quoted(doc[n].key) \in Seq(Elements)
<1>1. n - 1 \in 0..Len(doc) /\ doc[n].key \in Seq(Bytes)
  BY NodeAt
<1> QED BY <1>1, PrefixType, SeparatorType, LineStartType, KeyTextType, NodeTextType,
           QuotedType, BytesAreElements

LEMMA ShownIndent ==
  ASSUME NEW doc \in Seq(Nodes), NEW n \in 1..Len(doc),
         Possible(doc, TRUE, "indent", n)
  PROVE  Shown(doc, TRUE, "key", n) = Shown(doc, TRUE, "indent", n) \o Tabs(Around(doc, n))
<1> DEFINE p == Prefix(doc, TRUE, n - 1)
           a == Separator(doc, n, TRUE)
           t == Tabs(Around(doc, n))
           l == <<"\n">>
<1>1. p \in Seq(Elements) /\ a \in Seq(Elements)
  BY ShownPieces
<1>2. l \in Seq(Elements)
  <2>1. "\n" \in Elements
    BY SyntaxBytes DEF Elements
  <2> QED BY ONLY <2>1, Pair
<1>3. t \in Seq(Elements) /\ Around(doc, n) \in Int
  <2>1. n \in Nat \ {0}
    OBVIOUS
  <2>2. Around(doc, n) \in Int
    BY <2>1, AroundNext
  <2> QED BY <2>2, TabsType, BytesAreElements
<1>4. LineStart(doc, n, TRUE) = l \o t
  <2>1. Parent(doc, n) = "object" /\ doc[n].kind # "end"
    BY DEF Possible
  <2>2. Around(doc, n) - 0 = Around(doc, n)
    BY <1>3
  <2> QED BY <2>1, <2>2 DEF LineStart
<1>5. Shown(doc, TRUE, "indent", n) = p \o (a \o l)
  BY DEF Shown, Ahead
<1>6. Shown(doc, TRUE, "key", n) = p \o (a \o (l \o t))
  BY <1>4 DEF Shown, Ahead
<1> HIDE DEF p, a, t, l
<1>a. p \in Seq(Elements)
  BY <1>1
<1>b. a \in Seq(Elements)
  BY <1>1
<1>c. t \in Seq(Elements)
  BY <1>3
<1>7. a \o l \in Seq(Elements) /\ (a \o l) \o t = a \o (l \o t)
  <2>1. (a \o l) \o t = a \o (l \o t)
    BY ONLY <1>2, <1>b, <1>c, Join3Elements, Zenon
  <2>2. a \o l \in Seq(Elements)
    BY <1>2, <1>b
  <2> QED BY ONLY <2>1, <2>2
<1>8. (p \o (a \o l)) \o t = p \o ((a \o l) \o t)
  <2> DEFINE x == a \o l
  <2>1. x \in Seq(Elements)
    BY <1>7
  <2> HIDE DEF x
  <2>2. (p \o x) \o t = p \o (x \o t)
    BY ONLY <1>a, <1>c, <2>1, Join3Elements, Zenon
  <2> QED BY <2>2 DEF x
<1> QED BY <1>5, <1>6, <1>7, <1>8 DEF t

LEMMA ShownKey ==
  ASSUME NEW doc \in Seq(Nodes), NEW format \in BOOLEAN, NEW n \in 1..Len(doc)
  PROVE  /\ Shown(doc, format, "keyed", n) =
              Shown(doc, format, "key", n) \o Quoted(doc[n].key)
         /\ Shown(doc, format, "colon", n) = Shown(doc, format, "keyed", n)
<1> DEFINE p == Prefix(doc, format, n - 1)
           a == Separator(doc, n, format)
           b == LineStart(doc, n, format)
           q == Quoted(doc[n].key)
<1>1. p \in Seq(Elements) /\ a \in Seq(Elements) /\ b \in Seq(Elements) /\ q \in Seq(Elements)
  BY ShownPieces
<1>2. /\ Shown(doc, format, "keyed", n) = p \o (a \o b \o q)
      /\ Shown(doc, format, "colon", n) = p \o (a \o b \o q)
      /\ Shown(doc, format, "key", n) = p \o (a \o b)
  BY DEF Shown, Ahead
<1> HIDE DEF p, a, b, q
<1>3. a \o b \in Seq(Elements)
  BY <1>1
<1>4. (p \o (a \o b)) \o q = p \o ((a \o b) \o q)
  <2> DEFINE x == a \o b
  <2>1. x \in Seq(Elements)
    BY <1>3
  <2> HIDE DEF x
  <2>a. p \in Seq(Elements)
    BY <1>1
  <2>b. q \in Seq(Elements)
    BY <1>1
  <2>2. (p \o x) \o q = p \o (x \o q)
    BY ONLY <2>a, <2>b, <2>1, Join3Elements, Zenon
  <2> QED BY <2>2 DEF x
<1> QED BY <1>2, <1>4 DEF q

LEMMA ColonType ==
  ASSUME NEW format \in BOOLEAN
  PROVE  (IF format THEN <<":", "\t">> ELSE <<":">>) \in Seq(Bytes)
<1>1. ":" \in Bytes /\ "\t" \in Bytes
  BY SyntaxBytes
<1>2. <<":", "\t">> \in Seq(Bytes) /\ <<":">> \in Seq(Bytes)
  BY ONLY <1>1, Pair
<1> QED BY <1>2

LEMMA ShownColon ==
  ASSUME NEW doc \in Seq(Nodes), NEW format \in BOOLEAN, NEW n \in 1..Len(doc),
         Possible(doc, format, "colon", n)
  PROVE  Shown(doc, format, "value", n) =
           Shown(doc, format, "colon", n) \o (IF format THEN <<":", "\t">> ELSE <<":">>)
<1> DEFINE p == Prefix(doc, format, n - 1)
           a == Separator(doc, n, format)
           b == LineStart(doc, n, format)
           q == Quoted(doc[n].key)
           c == IF format THEN <<":", "\t">> ELSE <<":">>
<1>1. /\ p \in Seq(Elements) /\ a \in Seq(Elements) /\ b \in Seq(Elements) /\ q \in Seq(Elements)
      /\ c \in Seq(Elements)
  BY ShownPieces, ColonType, BytesAreElements
<1>2. KeyText(doc, n, format) = q \o c
  <2>1. Parent(doc, n) = "object" /\ doc[n].kind # "end"
    BY DEF Possible
  <2> QED BY <2>1, KeyTextType
<1>3. /\ Shown(doc, format, "colon", n) = p \o (a \o b \o q)
      /\ Shown(doc, format, "value", n) = p \o (a \o b \o (q \o c))
  BY <1>2 DEF Shown, Ahead
<1> HIDE DEF p, a, b, q, c
<1>4. a \o b \in Seq(Elements)
  BY <1>1
<1>5. a \o b \o q \in Seq(Elements) /\ a \o b \o (q \o c) = (a \o b \o q) \o c
  <2> DEFINE x == a \o b
  <2>1. x \in Seq(Elements)
    BY <1>4
  <2>2. q \in Seq(Elements)
    BY <1>1
  <2>3. c \in Seq(Elements)
    BY <1>1
  <2> HIDE DEF x
  <2>4. (x \o q) \o c = x \o (q \o c)
    BY ONLY <2>1, <2>2, <2>3, Join3Elements, Zenon
  <2>5. x \o q \in Seq(Elements)
    BY <2>1, <2>2
  <2> QED BY ONLY <2>4, <2>5 DEF x
<1>6. (p \o (a \o b \o q)) \o c = p \o ((a \o b \o q) \o c)
  <2> DEFINE x == a \o b \o q
  <2>1. x \in Seq(Elements)
    BY <1>5
  <2>a. p \in Seq(Elements)
    BY <1>1
  <2>b. c \in Seq(Elements)
    BY <1>1
  <2> HIDE DEF x
  <2>2. (p \o x) \o c = p \o (x \o c)
    BY ONLY <2>1, <2>a, <2>b, Join3Elements, Zenon
  <2> QED BY <2>2 DEF x
<1> QED BY <1>3, <1>5, <1>6 DEF c

(* update_offset changes nothing in the text.                              *)
LEMMA ShownUpdate ==
  ASSUME NEW doc, NEW format, NEW n
  PROVE  /\ Shown(doc, format, "separator", n) = Shown(doc, format, "printed", n)
         /\ Shown(doc, format, "finish", n) = Shown(doc, format, "printed", n)
         /\ Shown(doc, format, "done", n) = Shown(doc, format, "printed", n)
BY DEF Shown, Ahead

LEMMA ShownWhole ==
  ASSUME NEW doc \in Documents, NEW format \in BOOLEAN
  PROVE  Shown(doc, format, "done", Len(doc) + 1) = Rendered(doc, format)
<1>1. doc \in Seq(Nodes) /\ Len(doc) \in 1..Len(doc)
  BY DEF Documents, IsTree
<1> QED BY <1>1, ShownLeaf, ShownUpdate, PrefixEnds

LEMMA ShownElement ==
  ASSUME NEW doc \in Seq(Nodes), NEW format \in BOOLEAN, NEW n \in 1..Len(doc),
         Possible(doc, format, "separator", n), Parent(doc, n) = "array"
  PROVE  /\ doc[n].kind = "end" =>
              Shown(doc, format, "close", n) = Shown(doc, format, "separator", n)
         /\ doc[n].kind # "end" =>
              Shown(doc, format, "value", n) = Shown(doc, format, "separator", n)
                                                 \o (IF format THEN <<",", " ">> ELSE <<",">>)
<1> DEFINE p == Prefix(doc, format, n - 1)
           c == IF format THEN <<",", " ">> ELSE <<",">>
<1>1. p \in Seq(Elements) /\ Separator(doc, n, format) \in Seq(Elements)
  BY ShownPieces
<1>2. Shown(doc, format, "separator", n) = p \o <<>> /\ Shown(doc, format, "close", n) = p \o <<>>
  BY DEF Shown, Ahead
<1>3. LineStart(doc, n, format) = <<>> /\ KeyText(doc, n, format) = <<>>
  BY DEF LineStart, KeyText
<1>4. doc[n].kind # "end" => Separator(doc, n, format) = c
  <2>1. n # 1 /\ doc[n - 1].kind \notin Containers
    BY DEF Possible
  <2> QED BY <2>1 DEF Separator
<1>5. Shown(doc, format, "value", n) = p \o (Separator(doc, n, format) \o <<>> \o <<>>)
  BY <1>3 DEF Shown, Ahead
<1>6. Separator(doc, n, format) \o <<>> = Separator(doc, n, format)
  BY <1>1, Empty
<1> HIDE DEF p, c
<1>7. p \o <<>> = p
  BY <1>1, Empty
<1> QED BY <1>2, <1>4, <1>5, <1>6, <1>7 DEF c

LEMMA ShownMember ==
  ASSUME NEW doc \in Seq(Nodes), NEW format \in BOOLEAN, NEW n \in 1..Len(doc),
         Possible(doc, format, "separator", n), Parent(doc, n) = "object"
  PROVE  LET text == (IF doc[n].kind = "end" THEN <<>> ELSE <<",">>) \o
                       (IF format THEN <<"\n">> ELSE <<>>)
         IN /\ text \in Seq(Bytes)
            /\ doc[n].kind = "end" =>
                 Shown(doc, format, "close", n) = Shown(doc, format, "separator", n) \o text
            /\ doc[n].kind # "end" =>
                 Shown(doc, format, IF format THEN "indent" ELSE "key", n) =
                   Shown(doc, format, "separator", n) \o text
<1> DEFINE p == Prefix(doc, format, n - 1)
           c == IF doc[n].kind = "end" THEN <<>> ELSE <<",">>
           l == IF format THEN <<"\n">> ELSE <<>>
<1>1. p \in Seq(Elements)
  BY ShownPieces
<1>2. Shown(doc, format, "separator", n) = p
  <2>1. Shown(doc, format, "separator", n) = p \o <<>>
    BY DEF Shown, Ahead
  <2> HIDE DEF p
  <2> QED BY <1>1, <2>1, Empty
<1>3. c \in Seq(Bytes) /\ l \in Seq(Bytes)
  <2>1. "," \in Bytes /\ "\n" \in Bytes
    BY SyntaxBytes
  <2>2. <<>> \in Seq(Bytes) /\ <<",">> \in Seq(Bytes) /\ <<"\n">> \in Seq(Bytes)
    BY ONLY <2>1, Pair
  <2> QED BY <2>2
<1>4. doc[n].kind = "end" => Shown(doc, format, "close", n) = p \o l
  BY DEF Shown, Ahead
<1>5. doc[n].kind = "end" => c = <<>>
  OBVIOUS
<1>6. doc[n].kind # "end" => Separator(doc, n, format) = c
  <2>1. n # 1 /\ doc[n - 1].kind \notin Containers
    BY DEF Possible
  <2> QED BY <2>1 DEF Separator
<1>7. doc[n].kind # "end" =>
        Shown(doc, format, IF format THEN "indent" ELSE "key", n) = p \o (c \o l)
  <2>1. CASE format
    BY <1>6, <2>1 DEF Shown, Ahead
  <2>2. CASE ~format
    <3>1. LineStart(doc, n, format) = <<>>
      BY <2>2 DEF LineStart
    <3> QED BY <1>6, <2>2, <3>1 DEF Shown, Ahead
  <2> QED BY <2>1, <2>2
<1> DEFINE text == c \o l
<1>8. text \in Seq(Bytes) /\ (c = <<>> => text = l)
  <2> HIDE DEF c, l
  <2> QED BY <1>3, Empty
<1> HIDE DEF p, l
<1> QED BY <1>2, <1>4, <1>5, <1>7, <1>8 DEF l

LEMMA ShownClose ==
  ASSUME NEW doc \in Documents, NEW format \in BOOLEAN, NEW n \in 1..Len(doc),
         doc[n].kind = "end", Around(doc, n) \in Nat \ {0}
  PROVE  LET tabs == IF format THEN Tabs(Around(doc, n) - 1) ELSE <<>>
         IN /\ Parent(doc, n) = "array" =>
                 Shown(doc, format, "printed", n + 1) = Shown(doc, format, "close", n) \o <<"]">>
            /\ Parent(doc, n) = "object" =>
                 Shown(doc, format, "printed", n + 1) =
                   Shown(doc, format, "close", n) \o (tabs \o <<"}">>)
            /\ tabs \in Seq(Bytes)
<1> DEFINE p == Prefix(doc, format, n - 1)
           v == Shown(doc, format, "value", n)
           t == Tabs(Around(doc, n) - 1)
           l == <<"\n">>
           e == <<"}">>
<1>0. doc \in Seq(Nodes)
  BY DEF Documents
<1>1. p \in Seq(Elements)
  BY <1>0, ShownPieces
<1>2. t \in Seq(Bytes) /\ <<>> \in Seq(Bytes)
  <2>1. Around(doc, n) - 1 \in Int
    OBVIOUS
  <2> QED BY <2>1, TabsType
<1>3. "\n" \in Bytes /\ "}" \in Bytes
  BY SyntaxBytes
<1>4. l \in Seq(Bytes) /\ e \in Seq(Bytes)
  BY ONLY <1>3, Pair
<1>5. Separator(doc, n, format) = <<>> /\ KeyText(doc, n, format) = <<>>
  BY DEF Separator, KeyText
<1>6. v = p \o (<<>> \o LineStart(doc, n, format) \o <<>>)
  BY <1>5 DEF Shown, Ahead
<1>7. <<>> \o LineStart(doc, n, format) \o <<>> = LineStart(doc, n, format)
  <2> DEFINE b == LineStart(doc, n, format)
  <2>1. b \in Seq(Bytes)
    BY <1>0, LineStartType
  <2> HIDE DEF b
  <2>2. <<>> \o b = b /\ b \o <<>> = b
    BY <2>1, Empty
  <2> QED BY <2>2 DEF b
<1>8. Shown(doc, format, "printed", n + 1) = v \o NodeText(doc, n)
  BY <1>0, ShownLeaf
<1>9. Parent(doc, n) = "array" =>
        Shown(doc, format, "printed", n + 1) = Shown(doc, format, "close", n) \o <<"]">>
  <2> SUFFICES ASSUME Parent(doc, n) = "array"
               PROVE  Shown(doc, format, "printed", n + 1) =
                        Shown(doc, format, "close", n) \o <<"]">>
    OBVIOUS
  <2>1. LineStart(doc, n, format) = <<>> /\ NodeText(doc, n) = <<"]">>
    BY DEF LineStart, NodeText, Literal
  <2>2. Shown(doc, format, "close", n) = p \o <<>>
    BY DEF Shown, Ahead
  <2> HIDE DEF p, v
  <2> QED BY <1>6, <1>7, <1>8, <2>1, <2>2
<1>10. ASSUME Parent(doc, n) = "object"
       PROVE  Shown(doc, format, "printed", n + 1) =
                Shown(doc, format, "close", n) \o ((IF format THEN t ELSE <<>>) \o <<"}">>)
  <2>1. NodeText(doc, n) = e
    BY <1>10 DEF NodeText, Literal
  <2>2. CASE format
    <3>1. LineStart(doc, n, format) = l \o t
      BY <1>10, <2>2 DEF LineStart
    <3>2. Shown(doc, format, "close", n) = p \o l
      BY <1>10, <2>2 DEF Shown, Ahead
    <3> HIDE DEF p, v, l, t, e
    <3>3. /\ p \in Seq(Elements) /\ l \in Seq(Elements) /\ t \in Seq(Elements)
          /\ e \in Seq(Elements)
      BY <1>1, <1>2, <1>4, BytesAreElements
    <3>4. (p \o (l \o t)) \o e = (p \o l) \o (t \o e)
      <4>a. p \in Seq(Elements)
        BY <3>3
      <4>b. l \in Seq(Elements)
        BY <3>3
      <4>c. t \in Seq(Elements)
        BY <3>3
      <4>d. e \in Seq(Elements)
        BY <3>3
      <4>1. p \o l \in Seq(Elements)
        BY <3>3
      <4>2. p \o (l \o t) = (p \o l) \o t
        <5>1. (p \o l) \o t = p \o (l \o t)
          BY ONLY <4>a, <4>b, <4>c, Join3Elements, Zenon
        <5> QED BY ONLY <5>1
      <4>3. ((p \o l) \o t) \o e = (p \o l) \o (t \o e)
        <5> DEFINE x == p \o l
        <5>1. x \in Seq(Elements)
          BY <4>1
        <5> HIDE DEF x
        <5>2. (x \o t) \o e = x \o (t \o e)
          BY ONLY <4>c, <4>d, <5>1, Join3Elements, Zenon
        <5> QED BY <5>2 DEF x
      <4> QED BY <4>2, <4>3
    <3> QED BY <1>6, <1>7, <1>8, <2>1, <2>2, <3>1, <3>2, <3>4 DEF t, e
  <2>3. CASE ~format
    <3>1. LineStart(doc, n, format) = <<>>
      BY <2>3 DEF LineStart
    <3>2. Shown(doc, format, "close", n) = p \o <<>>
      BY <2>3 DEF Shown, Ahead
    <3> HIDE DEF p, v, e
    <3>3. <<>> \o e = e
      BY <1>4, Empty
    <3>4. Shown(doc, format, "printed", n + 1) = (p \o <<>>) \o (<<>> \o e)
      BY <1>6, <1>7, <1>8, <2>1, <3>1, <3>3
    <3> QED BY <2>3, <3>2, <3>4 DEF e
  <2> QED BY <2>2, <2>3
<1> HIDE DEF t
<1> QED BY <1>2, <1>9, <1>10 DEF t

-----------------------------------------------------------------------------
(* The invariant of the printer.                                           *)

Cells == Elements \cup {Nul, Junk}

(* A node that has a text.                                                 *)
HasText(node) == /\ node.kind # "invalid"
                 /\ node.kind = "number" => Len(node.text) < NumberBuffer

Active == {"value", "indent", "key", "keyed", "colon", "separator", "close",
           "printed", "finish", "done"}

(* What is in the buffer but has not been counted in offset yet.           *)
Pending == \/ stage \in {"printed", "keyed"}
           \/ stage = "done" /\ call.way # "print"

CallInv ==
  /\ stage # "idle" =>
       /\ call.doc \in Documents /\ call.way \in Ways
       /\ call.size \in 0..IntMax /\ call.format \in BOOLEAN
  /\ stage = "finish" => call.way = "print"

BufferInv ==
  /\ mem \in Seq(Cells) /\ offset \in Nat /\ ~outside
  /\ stage = "idle" => next = 1 /\ open = <<>> /\ offset = 0 /\ ~alive
  /\ stage \notin {"idle", "released"} /\ call.way = "preallocated" =>
       alive /\ Len(mem) = call.size

(* The buffer begins with what has been printed of the document ...        *)
Holds(shown) ==
  /\ Len(shown) <= Len(mem) /\ \A i \in 1..Len(shown) : mem[i] = shown[i]
  /\ (* ... which a zero ends if offset has to be found, or is there to be *)
     (* returned.                                                          *)
     stage \in {"printed", "keyed", "finish", "done"} =>
       Len(shown) < Len(mem) /\ mem[Len(shown) + 1] = Nul
  /\ ~Pending => offset = Len(shown)
  /\ Pending => offset <= Len(shown) /\ \A i \in offset + 1..Len(shown) : mem[i] # Nul

TextInv ==
  stage \in Active =>
    /\ alive
    /\ Stack(call.doc, next, open)
    /\ Possible(call.doc, call.format, stage, next)
    /\ Holds(Shown(call.doc, call.format, stage, next))
    /\ \A i \in 1..next - 1 : HasText(call.doc[i])

FailureInv ==
  /\ stage \in {"failing", "failed"} /\ call.way = "preallocated" /\ Printable(call.doc) =>
       call.size <= Len(Rendered(call.doc, call.format)) + 1
  /\ stage = "failed" => alive = (call.way = "preallocated")

PrintingInv == CallInv /\ BufferInv /\ TextInv /\ FailureInv

-----------------------------------------------------------------------------
(* One piece of the text.                                                  *)

(* What ensure makes room for is in the buffer, where it belongs.          *)
LEMMA PieceStored ==
  ASSUME mem \in Seq(Cells), offset \in Nat, offset <= Len(mem), ~outside,
         NEW text \in Seq(Cells), NEW needed \in Nat, Len(text) <= needed + 1,
         NEW advance, NEW then, then # "failing",
         Piece(needed, text, advance, then)
  PROVE  /\ ~outside' /\ mem' \in Seq(Cells)
         /\ \/ /\ stage' = then /\ alive' = alive /\ offset' = offset + advance
               /\ offset + Len(text) <= Len(mem')
               /\ call.way = "preallocated" => Len(mem') = Len(mem)
               /\ \A i \in 1..offset : mem'[i] = mem[i]
               /\ \A i \in 1..Len(text) : mem'[offset + i] = text[i]
            \/ /\ stage' = "failing" /\ offset' = offset
               /\ call.way = "preallocated" /\ alive =>
                    /\ alive' /\ mem' = mem
                    /\ Len(mem) <= IntMax => Len(mem) <= needed + offset
<1>0. IntMax \in Nat
  BY SizesAssumption
<1>1. Len(mem) \in Nat /\ Len(text) \in Nat /\ Reserved(needed) \in Nat
  BY DEF Reserved
<1>2. ASSUME NEW size \in Nat, Len(mem) <= size, Reserved(needed) <= size, Store(size, text)
      PROVE  /\ ~outside' /\ mem' \in Seq(Cells) /\ Len(mem') = size
             /\ offset + Len(text) <= size
             /\ \A i \in 1..offset : mem'[i] = mem[i]
             /\ \A i \in 1..Len(text) : mem'[offset + i] = text[i]
  <2>1. offset + Len(text) <= size
    BY <1>1, <1>2 DEF Reserved
  <2> DEFINE cell(i) == IF i \in offset + 1..offset + Len(text) THEN text[i - offset]
                        ELSE IF i <= Len(mem) THEN mem[i] ELSE Junk
  <2>2. mem' = [i \in 1..size |-> cell(i)] /\ ~outside'
    <3>1. mem' = [i \in 1..size |-> cell(i)]
      BY <1>2 DEF Store
    <3>2. ~ (offset + Len(text) > size)
      BY <1>1, <2>1
    <3>3. outside' = (outside \/ offset + Len(text) > size)
      BY <1>2 DEF Store
    <3>4. ~outside'
      BY <3>2, <3>3
    <3> QED BY <3>1, <3>4
  <2>3. ASSUME NEW i \in 1..size PROVE cell(i) \in Cells
    <3>1. CASE i \in offset + 1..offset + Len(text)
      <4>1. i - offset \in 1..Len(text)
        BY <1>1, <3>1
      <4> QED BY <3>1, <4>1
    <3>2. CASE i \notin offset + 1..offset + Len(text) /\ i <= Len(mem)
      <4>1. i \in 1..Len(mem)
        BY <3>2
      <4> QED BY <3>2, <4>1
    <3>3. CASE i \notin offset + 1..offset + Len(text) /\ ~(i <= Len(mem))
      BY <3>3 DEF Cells
    <3> QED BY <3>1, <3>2, <3>3
  <2>4. mem' \in Seq(Cells) /\ Len(mem') = size
    <3> HIDE DEF cell
    <3> QED BY <2>2, <2>3
  <2>5. ASSUME NEW i \in 1..size PROVE mem'[i] = cell(i)
    <3> HIDE DEF cell
    <3> QED BY <2>2
  <2>6. ASSUME NEW i \in 1..offset PROVE mem'[i] = mem[i]
    <3>1. i \in 1..size /\ i \notin offset + 1..offset + Len(text) /\ i <= Len(mem)
      BY <1>1, <2>1
    <3>2. cell(i) = mem[i]
      BY <3>1
    <3> HIDE DEF cell
    <3> QED BY <2>5, <3>1, <3>2
  <2>7. ASSUME NEW i \in 1..Len(text) PROVE mem'[offset + i] = text[i]
    <3>1. /\ offset + i \in 1..size /\ offset + i \in offset + 1..offset + Len(text)
          /\ (offset + i) - offset = i
      BY <1>1, <2>1
    <3>2. cell(offset + i) = text[i]
      BY <3>1
    <3> HIDE DEF cell
    <3> QED BY <2>5, <3>1, <3>2
  <2> QED BY <2>1, <2>2, <2>4, <2>6, <2>7
<1>3. CASE HasRoom(needed) /\ Store(Len(mem), text)
            /\ offset' = offset + advance /\ stage' = then /\ UNCHANGED alive
  <2>1. Reserved(needed) <= Len(mem)
    BY <1>3 DEF HasRoom
  <2> QED BY <1>1, <1>2, <1>3, <2>1
<1>4. CASE MayGrow(needed) /\ Store(GrownTo(needed), text)
            /\ offset' = offset + advance /\ stage' = then /\ UNCHANGED alive
  <2>1. /\ Len(mem) < Reserved(needed) /\ Reserved(needed) <= IntMax
        /\ call.way # "preallocated"
    BY <1>4 DEF MayGrow
  <2>2. GrownTo(needed) \in Nat /\ Reserved(needed) <= GrownTo(needed)
    BY <1>0, <1>1, <2>1 DEF GrownTo
  <2> QED BY <1>1, <1>2, <1>4, <2>1, <2>2
<1>5. CASE MayGrow(needed) /\ mem' = <<>> /\ alive' = FALSE /\ stage' = "failing"
            /\ UNCHANGED <<offset, outside>>
  <2>1. call.way # "preallocated" /\ <<>> \in Seq(Cells)
    BY <1>5 DEF MayGrow
  <2> QED BY <1>5, <2>1
<1>6. CASE ~HasRoom(needed) /\ ~MayGrow(needed) /\ stage' = "failing"
            /\ UNCHANGED <<mem, offset, alive, outside>>
  <2>1. alive /\ Len(mem) <= IntMax => Len(mem) <= needed + offset
    <3> SUFFICES ASSUME alive, Len(mem) <= IntMax, Len(mem) > needed + offset PROVE FALSE
      BY <1>1
    <3>1. Sane(needed)
      BY <1>0, <1>1 DEF Sane
    <3>2. Reserved(needed) <= Len(mem)
      BY <1>1 DEF Reserved
    <3> QED BY <1>6, <3>1, <3>2 DEF HasRoom
  <2> QED BY <1>6, <2>1
<1> QED BY <1>3, <1>4, <1>5, <1>6 DEF Piece

(* A step that prints a piece keeps the invariant, if what it prints is    *)
(* what comes next in the text of the document.                            *)
LEMMA PieceKeeps ==
  ASSUME PrintingInv, call' = call,
         stage \in {"value", "indent", "key", "colon", "separator", "close"},
         NEW needed \in Nat, NEW text \in Seq(Cells), NEW advance,
         NEW then \in Active \ {"finish", "done"},
         NEW zero \in BOOLEAN, NEW body \in Seq(Elements),
         text = IF zero THEN Append(body, Nul) ELSE body,
         Len(text) <= needed + 1, needed <= Len(body) + 1,
         IF then \in {"printed", "keyed"}
           THEN zero /\ (advance = Len(body) \/ (advance = 0 /\ body \in Seq(Bytes)))
           ELSE advance = Len(body),
         Piece(needed, text, advance, then),
         Stack(call.doc, next', open'), Possible(call.doc, call.format, then, next'),
         Shown(call.doc, call.format, then, next') =
           Shown(call.doc, call.format, stage, next) \o body,
         \A i \in 1..next' - 1 : HasText(call.doc[i])
  PROVE  PrintingInv'
<1> DEFINE doc == call.doc
           s == Shown(call.doc, call.format, stage, next)
           t == Shown(call.doc, call.format, then, next')
<1>1. /\ call.doc \in Documents /\ call.way \in Ways
      /\ call.size \in 0..IntMax /\ call.format \in BOOLEAN
      /\ doc \in Seq(Nodes) /\ stage # "idle"
  BY DEF PrintingInv, CallInv, Documents
<1>2. /\ mem \in Seq(Cells) /\ offset \in Nat /\ ~outside
      /\ call.way = "preallocated" => alive /\ Len(mem) = call.size
  BY DEF PrintingInv, BufferInv
<1>3. /\ alive /\ Stack(doc, next, open) /\ Possible(doc, call.format, stage, next)
      /\ Holds(s)
  BY DEF PrintingInv, TextInv, Active
<1>4. /\ Len(s) <= Len(mem) /\ (\A i \in 1..Len(s) : mem[i] = s[i]) /\ offset = Len(s)
  <2>1. ~Pending
    BY DEF Pending
  <2> QED BY <1>3, <2>1 DEF Holds
<1>5. s \in Seq(Elements) /\ Len(s) \in Nat
  <2>1. next \in 1..Len(doc) + 1
    BY <1>3 DEF Stack
  <2> QED BY <1>1, <1>3, <2>1, ShownBound
<1>6. /\ t \in Seq(Elements) /\ Len(t) \in Nat /\ Len(t) <= Len(Rendered(doc, call.format))
      /\ Len(Rendered(doc, call.format)) \in Nat
  <2>1. next' \in 1..Len(doc) + 1
    BY DEF Stack
  <2> QED BY <1>1, <2>1, ShownBound
<1> HIDE DEF s, t, doc
<1>7. t = s \o body
  BY DEF s, t
<1>8. /\ Len(t) = Len(s) + Len(body)
      /\ (\A i \in 1..Len(s) : t[i] = s[i]) /\ \A i \in 1..Len(body) : t[Len(s) + i] = body[i]
      /\ Len(body) \in Nat
  BY <1>5, <1>7, Joined
<1>9. /\ \A i \in 1..Len(body) : text[i] = body[i] /\ i \in 1..Len(text)
      /\ zero => text[Len(body) + 1] = Nul /\ Len(body) + 1 \in 1..Len(text)
      /\ Len(text) = Len(body) + (IF zero THEN 1 ELSE 0)
  <2>1. CASE zero
    <3>1. text = Append(body, Nul)
      BY <2>1
    <3>2. /\ Len(Append(body, Nul)) = Len(body) + 1
          /\ Append(body, Nul)[Len(body) + 1] = Nul
          /\ \A i \in 1..Len(body) : Append(body, Nul)[i] = body[i]
      OBVIOUS
    <3> QED BY ONLY <1>8, <2>1, <3>1, <3>2
  <2>2. CASE ~zero
    BY <2>2
  <2> QED BY <2>1, <2>2
<1>10. then # "failing"
  BY DEF Active
<1>11. /\ ~outside' /\ mem' \in Seq(Cells)
       /\ \/ /\ stage' = then /\ alive' = alive /\ offset' = offset + advance
             /\ offset + Len(text) <= Len(mem')
             /\ call.way = "preallocated" => Len(mem') = Len(mem)
             /\ \A i \in 1..offset : mem'[i] = mem[i]
             /\ \A i \in 1..Len(text) : mem'[offset + i] = text[i]
          \/ /\ stage' = "failing" /\ offset' = offset
             /\ call.way = "preallocated" /\ alive =>
                  /\ alive' /\ mem' = mem
                  /\ Len(mem) <= IntMax => Len(mem) <= needed + offset
  BY <1>2, <1>4, <1>10, PieceStored
<1>12. CallInv'
  <2>1. stage' # "finish"
    BY <1>11
  <2> QED BY <1>1, <2>1 DEF CallInv
<1>13. CASE stage' = "failing"
  <2>1. offset' = offset /\ stage' # then
    BY <1>10, <1>11, <1>13
  <2>2. BufferInv'
    BY <1>2, <1>3, <1>11, <1>13, <2>1 DEF BufferInv
  <2>3. TextInv'
    BY <1>13 DEF TextInv, Active
  <2>4. call.way = "preallocated" => call.size <= Len(Rendered(doc, call.format)) + 1
    <3> SUFFICES ASSUME call.way = "preallocated"
                 PROVE  call.size <= Len(Rendered(doc, call.format)) + 1
      OBVIOUS
    <3>1. Len(mem) <= IntMax /\ Len(mem) = call.size
      BY <1>1, <1>2
    <3>2. call.size <= needed + Len(s)
      BY <1>3, <1>4, <1>10, <1>11, <1>13, <3>1
    <3> QED BY <1>1, <1>5, <1>6, <1>8, <3>2
  <2>5. FailureInv'
    BY <1>13, <2>4 DEF FailureInv, doc
  <2> QED BY <1>12, <2>2, <2>3, <2>5 DEF PrintingInv
<1>14. CASE stage' = then
  <2>1. /\ alive' = alive /\ offset' = offset + advance
        /\ offset + Len(text) <= Len(mem')
        /\ call.way = "preallocated" => Len(mem') = Len(mem)
        /\ \A i \in 1..offset : mem'[i] = mem[i]
        /\ \A i \in 1..Len(text) : mem'[offset + i] = text[i]
    BY <1>10, <1>11, <1>14
  <2>2. advance \in Nat /\ advance <= Len(body) /\ offset' \in Nat
    BY <1>2, <1>8, <2>1
  <2>3. then \notin {"idle", "failing", "failed", "finish", "done", "released"}
    BY DEF Active
  <2>4. BufferInv'
    BY <1>2, <1>3, <1>11, <1>14, <2>1, <2>2, <2>3 DEF BufferInv
  <2>5. FailureInv'
    BY <1>14, <2>3 DEF FailureInv
  <2>6. Len(t) <= Len(mem')
    BY <1>2, <1>4, <1>5, <1>8, <1>9, <1>11, <2>1
  <2>7. ASSUME NEW i \in 1..Len(t) PROVE mem'[i] = t[i]
    <3>1. CASE i \in 1..Len(s)
      BY <1>4, <1>8, <2>1, <3>1
    <3>2. CASE i \notin 1..Len(s)
      <4>1. i - Len(s) \in 1..Len(body) /\ Len(s) + (i - Len(s)) = i
        BY <1>5, <1>8, <3>2
      <4>2. PICK j \in 1..Len(body) : i = Len(s) + j
        BY <4>1
      <4>3. mem'[Len(s) + j] = text[j] /\ t[Len(s) + j] = body[j] /\ text[j] = body[j]
        BY <1>4, <1>8, <1>9, <2>1
      <4> QED BY <4>2, <4>3
    <3> QED BY <3>1, <3>2
  <2>8. zero => Len(t) < Len(mem') /\ mem'[Len(t) + 1] = Nul
    <3> SUFFICES ASSUME zero PROVE Len(t) < Len(mem') /\ mem'[Len(t) + 1] = Nul
      OBVIOUS
    <3>1. Len(text) = Len(body) + 1 /\ Len(body) + 1 \in 1..Len(text)
      BY <1>9
    <3>2. Len(s) + (Len(body) + 1) = Len(t) + 1
      BY <1>5, <1>8
    <3>3. mem'[Len(s) + (Len(body) + 1)] = Nul
      BY <1>4, <1>9, <2>1, <3>1
    <3>4. Len(t) < Len(mem')
      BY <1>4, <1>5, <1>6, <1>8, <1>11, <2>1, <3>1
    <3> QED BY <3>2, <3>3, <3>4
  <2>9. Pending' <=> then \in {"printed", "keyed"}
    BY <1>14, <2>3 DEF Pending
  <2>10. ASSUME then \in {"printed", "keyed"}
         PROVE  zero /\ offset' <= Len(t) /\ \A i \in offset' + 1..Len(t) : mem'[i] # Nul
    <3>1. zero /\ (advance = Len(body) \/ (advance = 0 /\ body \in Seq(Bytes)))
      BY <2>10
    <3>2. offset' <= Len(t)
      BY <1>4, <1>5, <1>8, <2>1, <2>2
    <3>3. ASSUME NEW i \in offset' + 1..Len(t) PROVE mem'[i] # Nul
      <4>1. advance = 0 /\ body \in Seq(Bytes) /\ i \in Len(s) + 1..Len(t)
        <5>1. advance # Len(body)
          BY <1>4, <1>5, <1>8, <2>1, <3>3
        <5> QED BY <1>4, <1>5, <2>1, <3>1, <3>3, <5>1
      <4>2. i - Len(s) \in 1..Len(body) /\ i = Len(s) + (i - Len(s))
        BY <1>5, <1>8, <4>1
      <4>3. PICK j \in 1..Len(body) : i = Len(s) + j
        BY <4>2
      <4>4. t[Len(s) + j] = body[j] /\ body[j] \in Bytes
        BY <1>8, <4>1
      <4>5. i \in 1..Len(t)
        BY <1>5, <4>1
      <4>6. mem'[i] = t[i]
        BY <2>7, <4>5
      <4>7. Nul \notin Bytes
        BY SyntaxBytes
      <4> QED BY <4>3, <4>4, <4>6, <4>7
    <3> QED BY <3>1, <3>2, <3>3
  <2>11. then \notin {"printed", "keyed"} => offset' = Len(t)
    BY <1>4, <1>8, <2>1
  <2>12. Shown(call.doc, call.format, stage, next)' = t
    BY <1>14 DEF t
  <2>13. Holds(Shown(call.doc, call.format, stage, next))'
    BY <1>14, <2>3, <2>6, <2>7, <2>8, <2>9, <2>10, <2>11, <2>12 DEF Holds
  <2>14. TextInv'
    BY <1>3, <1>14, <2>1, <2>13 DEF TextInv, doc
  <2> QED BY <1>12, <2>4, <2>5, <2>14 DEF PrintingInv
<1> QED BY <1>11, <1>13, <1>14

-----------------------------------------------------------------------------
(* Every step of the printer keeps its invariant.                          *)

LEMMA Doing ==
  ASSUME PrintingInv, stage \in Active
  PROVE  /\ call.doc \in Documents /\ call.doc \in Seq(Nodes) /\ Len(call.doc) \in Nat \ {0}
         /\ call.format \in BOOLEAN /\ call.way \in Ways
         /\ next \in Nat \ {0} /\ next \in 1..Len(call.doc) + 1
         /\ Stack(call.doc, next, open)
         /\ open \in Seq(Containers) /\ Len(open) = Around(call.doc, next) /\ Len(open) \in Nat
         /\ Parent(call.doc, next) = IF open = <<>> THEN "none" ELSE Last(open)
         /\ Possible(call.doc, call.format, stage, next)
         /\ \A i \in 1..next - 1 : HasText(call.doc[i])
<1>1. /\ call.doc \in Documents /\ call.doc \in Seq(Nodes) /\ Len(call.doc) \in Nat \ {0}
      /\ call.format \in BOOLEAN /\ call.way \in Ways
  <2>1. stage # "idle"
    BY DEF Active
  <2> QED BY <2>1 DEF PrintingInv, CallInv, Documents, IsTree
<1>2. /\ Stack(call.doc, next, open) /\ Possible(call.doc, call.format, stage, next)
      /\ \A i \in 1..next - 1 : HasText(call.doc[i])
  BY DEF PrintingInv, TextInv
<1>3. /\ open \in Seq(Containers) /\ Len(open) = Around(call.doc, next)
      /\ next \in 1..Len(call.doc) + 1
  BY <1>2 DEF Stack
<1>4. Len(open) \in Nat /\ next \in Nat \ {0}
  BY <1>1, <1>3
<1>5. Parent(call.doc, next) = IF open = <<>> THEN "none" ELSE Last(open)
  BY <1>1, <1>2, StackParent
<1> QED BY <1>1, <1>2, <1>3, <1>4, <1>5

LEMMA ElementsAreCells ==
  /\ Seq(Elements) \subseteq Seq(Cells) /\ Seq(Bytes) \subseteq Seq(Cells)
  /\ \A s \in Seq(Elements) : /\ Append(s, Nul) \in Seq(Cells)
                              /\ Len(Append(s, Nul)) = Len(s) + 1 /\ Len(s) \in Nat
<1>1. Elements \subseteq Cells /\ Nul \in Cells
  BY DEF Cells
<1>2. Seq(Elements) \subseteq Seq(Cells)
  BY <1>1
<1>3. ASSUME NEW s \in Seq(Elements)
      PROVE  /\ Append(s, Nul) \in Seq(Cells)
             /\ Len(Append(s, Nul)) = Len(s) + 1 /\ Len(s) \in Nat
  <2>1. s \in Seq(Cells)
    BY <1>2
  <2> QED BY <1>1, <2>1
<1> QED BY <1>2, <1>3, BytesAreElements

(* The three kinds of pieces: bytes that are counted at once, the same     *)
(* with a zero behind them, and bytes with a zero that are counted later.  *)
LEMMA CountedPieceKeeps ==
  ASSUME PrintingInv, call' = call,
         stage \in {"value", "indent", "key", "colon", "separator", "close"},
         NEW needed \in Nat, NEW text \in Seq(Bytes), NEW advance, advance = Len(text),
         Len(text) <= needed + 1, needed <= Len(text) + 1,
         NEW then \in {"value", "indent", "key", "close"},
         Piece(needed, text, advance, then),
         Stack(call.doc, next', open'), Possible(call.doc, call.format, then, next'),
         Shown(call.doc, call.format, then, next') =
           Shown(call.doc, call.format, stage, next) \o text,
         \A i \in 1..next' - 1 : HasText(call.doc[i])
  PROVE  PrintingInv'
<1>1. text \in Seq(Cells) /\ text \in Seq(Elements)
  BY ElementsAreCells, BytesAreElements
<1>2. then \in Active \ {"finish", "done"}
  BY DEF Active
<1>3. IF then \in {"printed", "keyed"}
        THEN FALSE /\ (advance = Len(text) \/ (advance = 0 /\ text \in Seq(Bytes)))
        ELSE advance = Len(text)
  OBVIOUS
<1>4. text = IF FALSE THEN Append(text, Nul) ELSE text
  OBVIOUS
<1> QED BY <1>1, <1>2, <1>3, <1>4, PieceKeeps

LEMMA EndedPieceKeeps ==
  ASSUME PrintingInv, call' = call,
         stage \in {"value", "indent", "key", "colon", "separator", "close"},
         NEW body \in Seq(Bytes), NEW advance, NEW needed, needed = Len(body) + 1,
         NEW then \in {"value", "indent", "key", "close", "printed", "keyed"},
         advance = IF then \in {"printed", "keyed"} THEN 0 ELSE Len(body),
         Piece(needed, Append(body, Nul), advance, then),
         Stack(call.doc, next', open'), Possible(call.doc, call.format, then, next'),
         Shown(call.doc, call.format, then, next') =
           Shown(call.doc, call.format, stage, next) \o body,
         \A i \in 1..next' - 1 : HasText(call.doc[i])
  PROVE  PrintingInv'
<1> DEFINE text == Append(body, Nul)
<1>1. body \in Seq(Elements)
  BY BytesAreElements
<1>2. text \in Seq(Cells) /\ Len(text) = Len(body) + 1 /\ Len(body) \in Nat
  BY <1>1, ElementsAreCells
<1>3. then \in Active \ {"finish", "done"}
  BY DEF Active
<1>4. IF then \in {"printed", "keyed"}
        THEN TRUE /\ (advance = Len(body) \/ (advance = 0 /\ body \in Seq(Bytes)))
        ELSE advance = Len(body)
  OBVIOUS
<1>5. text = IF TRUE THEN Append(body, Nul) ELSE body
  OBVIOUS
<1>6. Piece(needed, text, advance, then)
  OBVIOUS
<1> HIDE DEF text
<1>7. needed \in Nat /\ Len(text) <= needed + 1 /\ needed <= Len(body) + 1
  BY <1>2
<1> QED BY <1>1, <1>2, <1>3, <1>4, <1>5, <1>6, <1>7, PieceKeeps

(* The closing quote and the zero are where the string ends.               *)
LEMMA QuotedTextIs ==
  ASSUME NEW s \in Seq(Bytes)
  PROVE  QuotedText(s) = Append(Quoted(s), Nul)
<1> DEFINE e == EscapedText(s)
           q == <<Quote>>
           body == q \o e
           n == Len(s) + ExtraBytes(s)
<1>1. e \in Seq(Bytes) /\ n \in Nat /\ Len(e) = n
  BY EscapedLength
<1>2. q \in Seq(Bytes) /\ Len(q) = 1 /\ q[1] = Quote
  <2>1. Quote \in Bytes
    BY SyntaxBytes
  <2> QED BY <2>1
<1> DEFINE x(i) == IF i = n + 2 THEN Quote ELSE IF i = n + 3 THEN Nul
                   ELSE IF i <= Len(body) THEN body[i] ELSE Junk
<1>3. QuotedText(s) = [i \in 1..Max({Len(body), n + 3}) |-> x(i)]
  BY DEF QuotedText
<1>4. Quoted(s) = body \o q
  BY DEF Quoted
<1> HIDE DEF e, q, n
<1>5. body \in Seq(Bytes) /\ Len(body) = n + 1
  <2>1. q \o e \in Seq(Bytes) /\ Len(q \o e) = Len(q) + Len(e)
    BY ONLY <1>1, <1>2, Joined
  <2> QED BY <1>1, <1>2, <2>1
<1> HIDE DEF body
<1>6. body \o q \in Seq(Bytes) /\ Len(body \o q) = n + 2 /\ (body \o q)[n + 2] = Quote
      /\ \A i \in 1..n + 1 : (body \o q)[i] = body[i]
  <2>0. /\ body \o q \in Seq(Bytes) /\ Len(body \o q) = Len(body) + Len(q)
        /\ \A i \in 1..Len(body) : (body \o q)[i] = body[i]
        /\ \A i \in 1..Len(q) : (body \o q)[Len(body) + i] = q[i]
    BY ONLY <1>2, <1>5, Joined
  <2>1. body \o q \in Seq(Bytes) /\ Len(body \o q) = n + 2
    BY <1>1, <1>2, <1>5, <2>0
  <2>2. \A i \in 1..n + 1 : (body \o q)[i] = body[i]
    BY <1>5, <2>0
  <2>3. (body \o q)[Len(body) + 1] = q[1]
    BY <1>2, <2>0
  <2>4. Len(body) + 1 = n + 2
    BY <1>1, <1>5
  <2> QED BY <1>2, <2>1, <2>2, <2>3, <2>4
<1>7. Max({Len(body), n + 3}) = n + 3
  <2> DEFINE S == {Len(body), n + 3}
  <2>1. \A m \in S : (\A y \in S : m >= y) <=> m = n + 3
    BY <1>1, <1>5
  <2>2. n + 3 \in S
    OBVIOUS
  <2> HIDE DEF S
  <2>3. Max(S) = CHOOSE m \in S : \A y \in S : m >= y
    BY DEF Max
  <2>4. (CHOOSE m \in S : \A y \in S : m >= y) = (CHOOSE m \in S : m = n + 3)
    BY <2>1
  <2>5. Max(S) = n + 3
    BY <2>2, <2>3, <2>4
  <2> QED BY <2>5 DEF S
<1> DEFINE a == Append(body \o q, Nul)
           u == body \o q
<1> HIDE DEF u
<1>8. u \in Seq(Cells) /\ Nul \in Cells /\ Len(u) = n + 2
  BY <1>6, ElementsAreCells DEF u, Cells
<1>9. a = Append(u, Nul)
  BY DEF u
<1>10. /\ a \in Seq(Cells) /\ Len(a) = n + 3 /\ a[n + 3] = Nul
       /\ \A i \in 1..n + 2 : a[i] = u[i]
  <2>1. /\ Append(u, Nul) \in Seq(Cells) /\ Len(Append(u, Nul)) = Len(u) + 1
        /\ Append(u, Nul)[Len(u) + 1] = Nul /\ \A i \in 1..Len(u) : Append(u, Nul)[i] = u[i]
    BY ONLY <1>8
  <2>2. Len(u) + 1 = n + 3
    BY <1>1, <1>8
  <2> HIDE DEF a
  <2> QED BY <1>8, <1>9, <2>1, <2>2
<1> HIDE DEF a
<1>11. ASSUME NEW i \in 1..n + 3 PROVE a[i] = x(i)
  <2>1. CASE i \in 1..n + 1
    <3>1. a[i] = body[i]
      <4>1. i \in 1..n + 2
        BY <1>1, <2>1
      <4>2. a[i] = u[i]
        BY <1>10, <4>1
      <4>3. u[i] = body[i]
        BY <1>6, <2>1 DEF u
      <4> QED BY <4>2, <4>3
    <3>2. x(i) = body[i]
      BY <1>1, <1>5, <2>1
    <3> QED BY <3>1, <3>2
  <2>2. CASE i = n + 2
    <3>1. a[i] = Quote
      BY <1>1, <1>6, <1>10, <2>2 DEF u
    <3> QED BY <2>2, <3>1
  <2>3. CASE i = n + 3
    <3>1. x(i) = Nul
      BY <1>1, <2>3
    <3> QED BY <1>10, <2>3, <3>1
  <2> QED BY <1>1, <2>1, <2>2, <2>3
<1> HIDE DEF x
<1>12. a = [i \in 1..n + 3 |-> x(i)]
  <2>1. a = [i \in 1..n + 3 |-> a[i]]
    BY <1>1, <1>10
  <2> QED BY <1>11, <2>1
<1> QED BY <1>3, <1>4, <1>7, <1>12 DEF a

LEMMA LeafKeeps ==
  ASSUME PrintingInv, stage = "value", call' = call, open' = open, next' = next + 1,
         Node.kind \notin Containers \cup {"end"}, HasText(Node),
         NEW needed \in Nat, NEW advance,
         needed = Len(NodeText(call.doc, next)) + 1,
         advance = Len(NodeText(call.doc, next))
           \/ (advance = 0 /\ NodeText(call.doc, next) \in Seq(Bytes)),
         Piece(needed, Append(NodeText(call.doc, next), Nul), advance, "printed")
  PROVE  PrintingInv'
<1> DEFINE body == NodeText(call.doc, next)
           text == Append(body, Nul)
<1>0. stage \in Active
  BY DEF Active
<1>1. /\ call.doc \in Documents /\ call.doc \in Seq(Nodes) /\ call.format \in BOOLEAN
      /\ next \in 1..Len(call.doc) /\ Stack(call.doc, next, open)
      /\ \A i \in 1..next - 1 : HasText(call.doc[i])
  <2>1. Possible(call.doc, call.format, "value", next)
    BY <1>0, Doing
  <2>2. next \in 1..Len(call.doc)
    BY <2>1 DEF Possible
  <2> QED BY <1>0, <2>2, Doing
<1>2. body \in Seq(Elements)
  BY <1>1, NodeTextType
<1>3. text \in Seq(Cells) /\ Len(text) = Len(body) + 1 /\ Len(body) \in Nat
  BY <1>2, ElementsAreCells
<1>4. Stack(call.doc, next + 1, open)
  BY <1>1, StackSteps DEF Node
<1>5. Possible(call.doc, call.format, "printed", next + 1)
  <2>1. next + 1 \in 2..Len(call.doc) + 1 /\ (next + 1) - 1 = next
    BY <1>1
  <2> QED BY <2>1 DEF Possible, Node
<1>6. Shown(call.doc, call.format, "printed", next + 1) =
        Shown(call.doc, call.format, stage, next) \o body
  BY <1>1, ShownLeaf
<1>7. \A i \in 1..(next + 1) - 1 : HasText(call.doc[i])
  <2>1. \A i \in 1..(next + 1) - 1 : i \in 1..next - 1 \/ i = next
    BY <1>1
  <2> QED BY <1>1, <2>1 DEF Node
<1>8. "printed" \in Active \ {"finish", "done"}
  BY DEF Active
<1> HIDE DEF body, text
<1>9. Piece(needed, text, advance, "printed")
  BY DEF body, text
<1>10. needed = Len(body) + 1 /\ (advance = Len(body) \/ (advance = 0 /\ body \in Seq(Bytes)))
  BY DEF body
<1>11. /\ Len(text) <= needed + 1 /\ needed <= Len(body) + 1
       /\ text = IF TRUE THEN Append(body, Nul) ELSE body
  BY <1>3, <1>10 DEF text
<1> QED BY <1>2, <1>3, <1>4, <1>5, <1>6, <1>7, <1>8, <1>9, <1>10, <1>11, PieceKeeps

LEMMA PrintLeafKeeps ==
  ASSUME PrintingInv, PrintLeaf PROVE PrintingInv'
<1> DEFINE doc == call.doc
<1>1. stage = "value" /\ next' = next + 1 /\ call' = call /\ open' = open
  BY DEF PrintLeaf
<1>2. /\ doc \in Seq(Nodes) /\ next \in 1..Len(doc) /\ Len(doc) \in Nat
      /\ doc[next] \in Nodes
  <2>1. stage \in Active
    BY <1>1 DEF Active
  <2>2. Possible(doc, call.format, "value", next)
    BY <1>1, <2>1, Doing
  <2>3. next \in 1..Len(doc) /\ doc \in Seq(Nodes)
    BY <2>1, <2>2, Doing DEF Possible
  <2> QED BY <2>3, NodeAt
<1>3. /\ Node = doc[next] /\ Node.text \in Seq(Elements)
      /\ Node.kind \in {"string", "raw"} => Node.text \in Seq(Bytes)
  BY <1>2, NodeAt DEF Node
<1> HIDE DEF doc
<1>4. DOMAIN Literal = {"null", "true", "false"}
  BY DEF Literal
<1>5. CASE PrintLiteral
  <2>1. Node.kind \in {"null", "true", "false"}
    BY <1>4, <1>5 DEF PrintLiteral
  <2>2. NodeText(doc, next) = Literal[Node.kind]
    BY <1>3, <1>4, <2>1 DEF NodeText
  <2>3. NodeText(doc, next) \in Seq(Bytes)
    BY <1>4, <2>1, <2>2, LiteralType
  <2>4. Piece(Len(NodeText(doc, next)) + 1, Append(NodeText(doc, next), Nul), 0, "printed")
    BY <1>5, <2>2 DEF PrintLiteral
  <2>5. Node.kind \notin Containers \cup {"end"} /\ HasText(Node)
    BY <2>1 DEF Containers, HasText
  <2>6. Len(NodeText(doc, next)) + 1 \in Nat
    BY <2>3
  <2> QED BY <1>1, <2>3, <2>4, <2>5, <2>6, LeafKeeps DEF doc
<1>6. CASE PrintNumber
  <2>1. Node.kind = "number" /\ Len(Node.text) < NumberBuffer
    BY <1>6 DEF PrintNumber
  <2>2. NodeText(doc, next) = Node.text
    BY <1>3, <1>4, <2>1 DEF NodeText
  <2>3. Piece(Len(NodeText(doc, next)) + 1, Append(NodeText(doc, next), Nul),
              Len(NodeText(doc, next)), "printed")
    BY <1>6, <2>2 DEF PrintNumber
  <2>4. Node.kind \notin Containers \cup {"end"} /\ HasText(Node)
    BY <2>1 DEF Containers, HasText
  <2> DEFINE l == Len(NodeText(doc, next))
             n == l + 1
  <2>5. n \in Nat /\ l = Len(NodeText(call.doc, next))
    BY <1>3, <2>2 DEF doc
  <2>6. n = Len(NodeText(call.doc, next)) + 1
    BY <2>5
  <2>7. Piece(n, Append(NodeText(call.doc, next), Nul), l, "printed")
    BY <2>3 DEF doc
  <2>8. l = Len(NodeText(call.doc, next)) \/ (l = 0 /\ NodeText(call.doc, next) \in Seq(Bytes))
    BY <2>5
  <2> HIDE DEF l, n
  <2> QED BY ONLY PrintingInv, <1>1, <2>4, <2>5, <2>6, <2>7, <2>8, LeafKeeps
<1>7. CASE PrintRaw
  <2>1. Node.kind = "raw"
    BY <1>7 DEF PrintRaw
  <2>2. NodeText(doc, next) = Node.text
    BY <1>3, <1>4, <2>1 DEF NodeText
  <2>3. Piece(Len(NodeText(doc, next)) + 1, Append(NodeText(doc, next), Nul), 0, "printed")
    BY <1>7, <2>2 DEF PrintRaw
  <2>4. Node.kind \notin Containers \cup {"end"} /\ HasText(Node)
    BY <2>1 DEF Containers, HasText
  <2>5. Len(NodeText(doc, next)) + 1 \in Nat /\ NodeText(doc, next) \in Seq(Bytes)
    BY <1>3, <2>1, <2>2
  <2> QED BY <1>1, <2>3, <2>4, <2>5, LeafKeeps DEF doc
<1>8. CASE Node.kind = "string" /\ PrintString(Node.text, "printed")
  <2>1. Node.text \in Seq(Bytes)
    BY <1>3, <1>8
  <2>2. NodeText(doc, next) = Quoted(Node.text)
    BY <1>2, <1>3, <1>8, NodeTextType
  <2>3. /\ Len(NodeText(doc, next)) = Len(Node.text) + ExtraBytes(Node.text) + 2
        /\ NodeText(doc, next) \in Seq(Bytes) /\ ExtraBytes(Node.text) \in Nat
        /\ Len(Node.text) \in Nat
    BY <2>1, <2>2, QuotedType
  <2>4. QuotedText(Node.text) = Append(NodeText(doc, next), Nul)
    BY <2>1, <2>2, QuotedTextIs
  <2>5. Len(Node.text) + ExtraBytes(Node.text) + 3 = Len(NodeText(doc, next)) + 1
    BY <2>3
  <2>6. Piece(Len(NodeText(doc, next)) + 1, Append(NodeText(doc, next), Nul), 0, "printed")
    BY <1>8, <2>4, <2>5 DEF PrintString
  <2>7. Node.kind \notin Containers \cup {"end"} /\ HasText(Node)
    BY <1>8 DEF Containers, HasText
  <2>8. Len(NodeText(doc, next)) + 1 \in Nat
    BY <2>3
  <2> QED BY <1>1, <2>3, <2>6, <2>7, <2>8, LeafKeeps DEF doc
<1>9. CASE PrintNothing
  <2>1. ~HasText(Node)
    <3>1. CASE Node.kind = "invalid"
      BY <3>1 DEF HasText
    <3>2. CASE Node.kind = "number" /\ Len(Node.text) >= NumberBuffer
      <4>1. Len(Node.text) \in Nat /\ NumberBuffer \in Nat
        BY <1>3, SizesAssumption
      <4> QED BY <3>2, <4>1 DEF HasText
    <3> QED BY <1>9, <3>1, <3>2 DEF PrintNothing
  <2>2. ~Printable(doc)
    <3>1. next \in DOMAIN doc
      BY <1>2
    <3> QED BY <1>3, <2>1, <3>1 DEF Printable, HasText
  <2>3. stage' = "failing" /\ UNCHANGED <<mem, offset, alive, outside>>
    BY <1>9 DEF PrintNothing
  <2>4. CallInv'
    BY <1>1, <2>3 DEF PrintingInv, CallInv
  <2>5. BufferInv'
    BY <1>1, <2>3 DEF PrintingInv, BufferInv
  <2>6. TextInv'
    BY <2>3 DEF TextInv, Active
  <2>7. FailureInv'
    BY <1>1, <2>2, <2>3 DEF FailureInv, doc
  <2> QED BY <2>4, <2>5, <2>6, <2>7 DEF PrintingInv
<1> QED BY <1>5, <1>6, <1>7, <1>8, <1>9 DEF PrintLeaf

LEMMA OpenArrayKeeps ==
  ASSUME PrintingInv, OpenArray PROVE PrintingInv'
<1> DEFINE then == BeforeElement(next + 1)
           body == <<"[">>
<1>0. stage \in Active /\ stage = "value" /\ Node.kind = "array"
  BY DEF OpenArray, Active
<1>1. /\ call.doc \in Documents /\ call.doc \in Seq(Nodes) /\ call.format \in BOOLEAN
      /\ next \in 1..Len(call.doc) /\ Stack(call.doc, next, open)
      /\ \A i \in 1..next - 1 : HasText(call.doc[i]) /\ open \in Seq(Containers)
  <2>1. Possible(call.doc, call.format, "value", next)
    BY <1>0, Doing
  <2>2. next \in 1..Len(call.doc)
    BY <2>1 DEF Possible
  <2> QED BY <1>0, <2>2, Doing
<1>2. call' = call /\ next' = next + 1 /\ open' = Append(open, "array")
  BY DEF OpenArray
<1>3. Stack(call.doc, next', open')
  <2>1. call.doc[next].kind = "array" /\ "array" \in Containers
    BY <1>0 DEF Node, Containers
  <2> QED BY <1>1, <1>2, <2>1, StackSteps
<1>4. Parent(call.doc, next') = "array" /\ next' \in 2..Len(call.doc)
  <2>1. Last(open') = "array" /\ open' # <<>> /\ Len(open') # 0
    BY <1>1, <1>2 DEF Last
  <2>2. next' \in 1..Len(call.doc) + 1 /\ Len(open') = Around(call.doc, next')
    BY <1>3 DEF Stack
  <2>3. Around(call.doc, next') = 0 <=> next' = 1 \/ next' = Len(call.doc) + 1
    BY <1>1, <2>2, AroundInTree
  <2>4. next' \in 2..Len(call.doc)
    BY <1>1, <1>2, <2>1, <2>2, <2>3
  <2> QED BY <1>1, <1>3, <2>1, <2>4, StackParent
<1>5. then \in {"value", "close"} /\ then \in Active \ {"finish", "done"}
  BY DEF BeforeElement, Active
<1>6. Possible(call.doc, call.format, then, next')
  <2>1. then = IF call.doc[next'].kind = "end" THEN "close" ELSE "value"
    BY <1>2 DEF BeforeElement
  <2>2. next' \in 1..Len(call.doc)
    BY <1>4
  <2> HIDE DEF then
  <2> QED BY <2>1, <2>2 DEF Possible
<1>7. Shown(call.doc, call.format, then, next') = Shown(call.doc, call.format, stage, next) \o body
  <2>1. call.doc[next].kind = "array" /\ Parent(call.doc, next + 1) = "array"
    BY <1>0, <1>2, <1>4 DEF Node
  <2> HIDE DEF then
  <2> QED BY <1>0, <1>1, <1>2, <1>5, <2>1, ShownArray
<1>8. body \in Seq(Bytes) /\ Len(body) = 1
  <2>1. "[" \in Bytes
    BY SyntaxBytes
  <2> QED BY ONLY <2>1
<1>9. \A i \in 1..next' - 1 : HasText(call.doc[i])
  <2>1. \A i \in 1..(next + 1) - 1 : i \in 1..next - 1 \/ i = next
    BY <1>1
  <2>2. HasText(call.doc[next])
    BY <1>0 DEF Node, HasText
  <2> QED BY <1>1, <1>2, <2>1, <2>2
<1>10. Piece(1, body, 1, then)
  BY DEF OpenArray
<1> HIDE DEF then, body
<1>11. 1 \in Nat /\ 1 = Len(body) /\ Len(body) <= 1 + 1 /\ 1 <= Len(body) + 1
  BY <1>8
<1>12. stage \in {"value", "indent", "key", "colon", "separator", "close"}
       /\ then \in {"value", "indent", "key", "close"}
  BY <1>0, <1>5
<1> QED BY <1>2, <1>3, <1>6, <1>7, <1>8, <1>9, <1>10, <1>11, <1>12, CountedPieceKeeps

LEMMA OpenObjectKeeps ==
  ASSUME PrintingInv, OpenObject PROVE PrintingInv'
<1> DEFINE then == BeforeMember(next + 1)
           body == IF call.format THEN <<"{", "\n">> ELSE <<"{">>
<1>0. stage \in Active /\ stage = "value" /\ Node.kind = "object"
  BY DEF OpenObject, Active
<1>1. /\ call.doc \in Documents /\ call.doc \in Seq(Nodes) /\ call.format \in BOOLEAN
      /\ next \in 1..Len(call.doc) /\ Stack(call.doc, next, open)
      /\ \A i \in 1..next - 1 : HasText(call.doc[i]) /\ open \in Seq(Containers)
  <2>1. Possible(call.doc, call.format, "value", next)
    BY <1>0, Doing
  <2>2. next \in 1..Len(call.doc)
    BY <2>1 DEF Possible
  <2> QED BY <1>0, <2>2, Doing
<1>2. call' = call /\ next' = next + 1 /\ open' = Append(open, "object")
  BY DEF OpenObject
<1>3. Stack(call.doc, next', open')
  <2>1. call.doc[next].kind = "object" /\ "object" \in Containers
    BY <1>0 DEF Node, Containers
  <2> QED BY <1>1, <1>2, <2>1, StackSteps
<1>4. Parent(call.doc, next') = "object" /\ next' \in 2..Len(call.doc)
  <2>1. Last(open') = "object" /\ open' # <<>> /\ Len(open') # 0
    BY <1>0, <1>2, Doing DEF Last
  <2>2. next' \in 1..Len(call.doc) + 1 /\ Len(open') = Around(call.doc, next')
    BY <1>3 DEF Stack
  <2>3. Around(call.doc, next') = 0 <=> next' = 1 \/ next' = Len(call.doc) + 1
    BY <1>1, <2>2, AroundInTree
  <2>4. next' \in 2..Len(call.doc)
    BY <1>1, <1>2, <2>1, <2>2, <2>3
  <2> QED BY <1>1, <1>3, <2>1, <2>4, StackParent
<1>5. then = IF call.doc[next'].kind = "end" THEN "close"
             ELSE IF call.format THEN "indent" ELSE "key"
  BY <1>2 DEF BeforeMember
<1> HIDE DEF then
<1>6. Possible(call.doc, call.format, then, next')
  <2>1. next' \in 1..Len(call.doc)
    BY <1>4
  <2> QED BY <1>4, <1>5, <2>1 DEF Possible
<1>7. Shown(call.doc, call.format, then, next') = Shown(call.doc, call.format, stage, next) \o body
  <2>1. call.doc[next].kind = "object" /\ Parent(call.doc, next + 1) = "object"
    BY <1>0, <1>2, <1>4 DEF Node
  <2> QED BY <1>0, <1>1, <1>2, <1>5, <2>1, ShownObject
<1>8. body \in Seq(Bytes)
  <2>1. "{" \in Bytes /\ "\n" \in Bytes
    BY SyntaxBytes
  <2>2. <<"{", "\n">> \in Seq(Bytes) /\ <<"{">> \in Seq(Bytes)
    BY ONLY <2>1, Pair
  <2> QED BY <2>2
<1>9. \A i \in 1..next' - 1 : HasText(call.doc[i])
  <2>1. \A i \in 1..(next + 1) - 1 : i \in 1..next - 1 \/ i = next
    BY <1>1
  <2>2. HasText(call.doc[next])
    BY <1>0 DEF Node, HasText
  <2> QED BY <1>1, <1>2, <2>1, <2>2
<1>10. Piece(Len(body) + 1, body, Len(body), then)
  BY DEF OpenObject, then
<1> HIDE DEF body
<1> DEFINE needed == Len(body) + 1
<1>11. /\ needed \in Nat /\ Len(body) <= needed + 1 /\ needed <= Len(body) + 1
       /\ Piece(needed, body, Len(body), then)
  BY <1>8, <1>10
<1> HIDE DEF needed
<1>12. stage \in {"value", "indent", "key", "colon", "separator", "close"}
       /\ then \in {"value", "indent", "key", "close"}
  BY <1>0, <1>5
<1> QED BY <1>2, <1>3, <1>6, <1>7, <1>8, <1>9, <1>11, <1>12, CountedPieceKeeps

LEMMA PrintIndentKeeps ==
  ASSUME PrintingInv, PrintIndent PROVE PrintingInv'
<1> DEFINE body == Tabs(Depth)
<1>0. /\ stage \in Active /\ stage = "indent" /\ call' = call /\ next' = next /\ open' = open
      /\ stage \in {"value", "indent", "key", "colon", "separator", "close"}
  BY DEF PrintIndent, Active
<1>1. Possible(call.doc, call.format, "indent", next)
  BY <1>0, Doing
<1>2. /\ call.format = TRUE /\ next \in 1..Len(call.doc) /\ call.doc[next].kind # "end"
      /\ Parent(call.doc, next) = "object"
  <2>1. call.format \in BOOLEAN
    BY <1>0, Doing
  <2> QED BY <1>1, <2>1 DEF Possible
<1>3. Depth = Around(call.doc, next) /\ Depth \in Nat
  BY <1>0, Doing DEF Depth
<1>4. body \in Seq(Bytes) /\ Len(body) = Depth
  BY <1>3, TabsType
<1>5. Possible(call.doc, call.format, "key", next')
  BY <1>0, <1>2 DEF Possible
<1>6. Shown(call.doc, call.format, "key", next') =
        Shown(call.doc, call.format, stage, next) \o body
  BY <1>0, <1>1, <1>2, <1>3, ShownIndent, Doing
<1>7. Stack(call.doc, next', open') /\ \A i \in 1..next' - 1 : HasText(call.doc[i])
  BY <1>0, Doing
<1>8. Piece(Depth, body, Depth, "key")
  BY DEF PrintIndent
<1> HIDE DEF body
<1>9. Depth \in Nat /\ Len(body) <= Depth + 1 /\ Depth <= Len(body) + 1
  BY <1>3, <1>4
<1> QED BY <1>0, <1>3, <1>4, <1>5, <1>6, <1>7, <1>8, <1>9, CountedPieceKeeps

LEMMA PrintColonKeeps ==
  ASSUME PrintingInv, PrintColon PROVE PrintingInv'
<1> DEFINE body == IF call.format THEN <<":", "\t">> ELSE <<":">>
<1>0. /\ stage \in Active /\ stage = "colon" /\ call' = call /\ next' = next /\ open' = open
      /\ stage \in {"value", "indent", "key", "colon", "separator", "close"}
  BY DEF PrintColon, Active
<1>1. Possible(call.doc, call.format, "colon", next)
  BY <1>0, Doing
<1>2. /\ next \in 1..Len(call.doc) /\ call.doc[next].kind # "end"
  BY <1>1 DEF Possible
<1>3. body \in Seq(Bytes)
  BY <1>0, Doing, ColonType
<1>4. Possible(call.doc, call.format, "value", next')
  BY <1>0, <1>2 DEF Possible
<1>5. Shown(call.doc, call.format, "value", next') =
        Shown(call.doc, call.format, stage, next) \o body
  BY <1>0, <1>1, <1>2, ShownColon, Doing
<1>6. Stack(call.doc, next', open') /\ \A i \in 1..next' - 1 : HasText(call.doc[i])
  BY <1>0, Doing
<1>7. Piece(Len(body), body, Len(body), "value")
  BY DEF PrintColon
<1> HIDE DEF body
<1>8. Len(body) \in Nat /\ Len(body) <= Len(body) + 1
  BY <1>3
<1> QED BY <1>0, <1>3, <1>4, <1>5, <1>6, <1>7, <1>8, CountedPieceKeeps

LEMMA PrintKeyKeeps ==
  ASSUME PrintingInv, PrintKey PROVE PrintingInv'
<1> DEFINE key  == call.doc[next].key
           body == Quoted(key)
<1>0. /\ stage \in Active /\ stage = "key" /\ call' = call /\ next' = next /\ open' = open
      /\ stage \in {"value", "indent", "key", "colon", "separator", "close"}
  BY DEF PrintKey, Active
<1>1. Possible(call.doc, call.format, "key", next)
  BY <1>0, Doing
<1>2. /\ next \in 1..Len(call.doc) /\ call.doc[next].kind # "end"
      /\ Parent(call.doc, next) = "object"
  BY <1>1 DEF Possible
<1>3. key \in Seq(Bytes)
  BY <1>0, <1>2, Doing, NodeAt
<1>4. /\ body \in Seq(Bytes) /\ Len(key) + ExtraBytes(key) + 3 = Len(body) + 1
  <2>1. /\ body \in Seq(Bytes) /\ Len(body) = Len(key) + ExtraBytes(key) + 2
        /\ ExtraBytes(key) \in Nat /\ Len(key) \in Nat
    <3> HIDE DEF key
    <3> QED BY ONLY <1>3, QuotedType
  <2> HIDE DEF body, key
  <2> QED BY <2>1
<1>5. Possible(call.doc, call.format, "keyed", next')
  BY <1>0, <1>2 DEF Possible
<1>6. Shown(call.doc, call.format, "keyed", next') =
        Shown(call.doc, call.format, stage, next) \o body
  BY <1>0, <1>2, ShownKey, Doing
<1>7. Stack(call.doc, next', open') /\ \A i \in 1..next' - 1 : HasText(call.doc[i])
  BY <1>0, Doing
<1>8. Piece(Len(body) + 1, Append(body, Nul), 0, "keyed")
  <2>1. QuotedText(key) = Append(body, Nul)
    BY <1>3, QuotedTextIs
  <2>2. PrintString(key, "keyed")
    BY DEF PrintKey, Node
  <2> QED BY <1>4, <2>1, <2>2 DEF PrintString
<1> HIDE DEF body
<1> QED BY <1>0, <1>4, <1>5, <1>6, <1>7, <1>8, EndedPieceKeeps

(* update_offset finds the zero behind the text.                           *)
LEMMA UpdateOffsetKeeps ==
  ASSUME PrintingInv, UpdateOffset PROVE PrintingInv'
<1> DEFINE s == Shown(call.doc, call.format, stage, next)
<1>0. /\ stage \in Active /\ stage \in {"keyed", "printed"}
      /\ stage' \in {"colon", "separator", "finish"} /\ stage' # stage
      /\ call' = call /\ next' = next /\ open' = open /\ mem' = mem /\ alive' = alive
  BY DEF UpdateOffset, Active
<1>1. Possible(call.doc, call.format, stage, next) /\ alive
  <2>1. alive
    BY <1>0 DEF PrintingInv, TextInv
  <2> QED BY <1>0, <2>1, Doing
<1>2. /\ s \in Seq(Elements) /\ Len(s) \in Nat
  BY <1>0, <1>1, Doing, ShownBound
<1>3. /\ mem \in Seq(Cells) /\ offset \in Nat /\ ~outside /\ Len(mem) \in Nat
      /\ call.way = "preallocated" => Len(mem) = call.size
  BY <1>0 DEF PrintingInv, BufferInv
<1>4. /\ Len(s) < Len(mem) /\ mem[Len(s) + 1] = Nul /\ offset <= Len(s)
      /\ \A i \in 1..Len(s) : mem[i] = s[i]
      /\ \A i \in offset + 1..Len(s) : mem[i] # Nul
  <2>1. Holds(s) /\ Pending
    BY <1>0 DEF PrintingInv, TextInv, Pending
  <2> HIDE DEF s
  <2> QED BY <1>0, <2>1 DEF Holds
<1>5. stage \in {"keyed", "printed"} /\ stage' = (IF stage = "keyed" THEN "colon"
                                                 ELSE IF open # <<>> THEN "separator" ELSE "finish")
  BY DEF UpdateOffset
<1>6. Shown(call.doc, call.format, stage', next) = s
  <2>1. Shown(call.doc, call.format, "colon", next) = Shown(call.doc, call.format, "keyed", next)
    BY DEF Shown, Ahead
  <2> QED BY <1>5, <2>1, ShownUpdate
<1> HIDE DEF s
<1>7. offset' = Len(s) /\ ~outside'
  <2>1. Len(s) + 1 \in Zeros
    BY <1>2, <1>3, <1>4 DEF Zeros
  <2>2. ASSUME NEW m \in Zeros PROVE m \in Int /\ Len(s) + 1 <= m
    <3>1. m \in offset + 1..Len(mem) /\ mem[m] = Nul /\ m \in Int
      BY <1>3 DEF Zeros
    <3>2. m \notin offset + 1..Len(s)
      BY <1>4, <3>1
    <3> QED BY <1>2, <1>3, <3>1, <3>2
  <2>3. \A m \in Zeros : (\A y \in Zeros : m <= y) <=> m = Len(s) + 1
    BY <1>2, <2>1, <2>2
  <2>4. (CHOOSE m \in Zeros : \A y \in Zeros : m <= y) = (CHOOSE m \in Zeros : m = Len(s) + 1)
    BY <2>3
  <2>5. Min(Zeros) = Len(s) + 1
    BY <2>1, <2>4 DEF Min
  <2>6. Zeros # {}
    BY <2>1
  <2>7. /\ offset' = IF Zeros = {} THEN Len(mem) ELSE Min(Zeros) - 1
        /\ outside' = (outside \/ Zeros = {})
    BY DEF UpdateOffset, OffsetUpdated
  <2>8. offset' = Min(Zeros) - 1
    BY <2>6, <2>7
  <2>9. ~outside'
    BY <1>3, <2>6, <2>7
  <2> QED BY <1>2, <1>3, <2>5, <2>8, <2>9
<1>8. Possible(call.doc, call.format, stage', next)
  <2>1. /\ next \in 1..Len(call.doc) + 1 /\ call.doc \in Documents
        /\ Len(open) = Around(call.doc, next) /\ open \in Seq(Containers)
        /\ Len(call.doc) \in Nat
    BY <1>0, Doing
  <2>2. Around(call.doc, next) = 0 <=> next = 1 \/ next = Len(call.doc) + 1
    BY <2>1, AroundInTree
  <2>3. CASE stage = "keyed"
    BY <1>1, <1>5, <2>3 DEF Possible
  <2>4. CASE stage = "printed"
    <3>1. next \in 2..Len(call.doc) + 1 /\ call.doc[next - 1].kind \notin Containers
      BY <1>1, <2>4 DEF Possible
    <3>2. CASE open # <<>>
      <4>1. Len(open) # 0
        BY <2>1, <3>2
      <4>2. next \in 2..Len(call.doc)
        BY <2>1, <2>2, <3>1, <4>1
      <4>3. stage' = "separator"
        BY <1>5, <2>4, <3>2
      <4> QED BY <3>1, <4>2, <4>3 DEF Possible
    <3>3. CASE open = <<>>
      <4>1. Len(open) = 0
        BY <3>3
      <4>2. next = Len(call.doc) + 1
        BY <2>1, <2>2, <3>1, <4>1
      <4>3. stage' = "finish"
        BY <1>5, <2>4, <3>3
      <4> QED BY <4>2, <4>3 DEF Possible
    <3> QED BY <3>2, <3>3
  <2> QED BY <1>0, <2>3, <2>4
<1>9. CallInv'
  <2>1. stage' = "finish" => call.way = "print"
    BY DEF UpdateOffset
  <2> QED BY <1>0, <2>1 DEF PrintingInv, CallInv, Active
<1>10. BufferInv'
  <2>1. call.way = "preallocated" => alive /\ Len(mem) = call.size
    BY <1>1, <1>3
  <2> QED BY <1>0, <1>2, <1>3, <1>7, <2>1 DEF BufferInv
<1>11. Holds(s)'
  <2>1. s' = s
    BY <1>0, <1>6 DEF s
  <2>2. ~Pending'
    BY <1>0 DEF Pending
  <2>3. /\ Len(s') <= Len(mem') /\ \A i \in 1..Len(s') : mem'[i] = s'[i]
        /\ Len(s') < Len(mem') /\ mem'[Len(s') + 1] = Nul
        /\ offset' = Len(s')
    BY <1>0, <1>2, <1>3, <1>4, <1>7, <2>1
  <2> QED BY <2>2, <2>3 DEF Holds
<1>12. TextInv'
  <2>1. Holds(Shown(call.doc, call.format, stage, next))'
    BY <1>11 DEF s
  <2>2. Stack(call.doc, next, open) /\ \A i \in 1..next - 1 : HasText(call.doc[i])
    BY <1>0, Doing
  <2> QED BY <1>0, <1>1, <1>8, <2>1, <2>2 DEF TextInv
<1>13. FailureInv'
  BY <1>0 DEF FailureInv
<1> QED BY <1>9, <1>10, <1>12, <1>13 DEF PrintingInv

LEMMA NextElementKeeps ==
  ASSUME PrintingInv, NextElement PROVE PrintingInv'
<1> DEFINE body == IF call.format THEN <<",", " ">> ELSE <<",">>
<1>0. /\ stage \in Active /\ stage = "separator" /\ Last(open) = "array"
      /\ call' = call /\ next' = next /\ open' = open
      /\ stage \in {"value", "indent", "key", "colon", "separator", "close"}
  BY DEF NextElement, Active
<1>1. /\ Possible(call.doc, call.format, "separator", next)
      /\ Parent(call.doc, next) = "array" /\ next \in 1..Len(call.doc)
      /\ Stack(call.doc, next, open) /\ call.doc \in Seq(Nodes) /\ call.format \in BOOLEAN
      /\ \A i \in 1..next - 1 : HasText(call.doc[i])
  <2>1. Possible(call.doc, call.format, "separator", next)
    BY <1>0, Doing
  <2>2. /\ next \in 2..Len(call.doc) /\ Len(call.doc) \in Nat /\ call.doc \in Documents
        /\ open \in Seq(Containers) /\ Len(open) = Around(call.doc, next)
    BY <1>0, <2>1, Doing DEF Possible
  <2>3. next \in 1..Len(call.doc) + 1 /\ next # 1 /\ next # Len(call.doc) + 1
    BY <2>2
  <2>4. open # <<>>
    BY <2>2, <2>3, AroundInTree
  <2>5. Parent(call.doc, next) = "array"
    BY <1>0, <2>4, Doing
  <2> QED BY <1>0, <2>1, <2>2, <2>5, Doing
<1>2. CASE call.doc[next].kind = "end"
  <2>1. stage' = "close" /\ UNCHANGED <<mem, offset, alive, outside>>
    BY <1>2 DEF NextElement, Node
  <2>2. Shown(call.doc, call.format, "close", next) = Shown(call.doc, call.format, stage, next)
    BY <1>0, <1>1, <1>2, ShownElement
  <2>3. Possible(call.doc, call.format, "close", next)
    BY <1>1, <1>2 DEF Possible
  <2>4. alive /\ Holds(Shown(call.doc, call.format, stage, next))
    BY <1>0 DEF PrintingInv, TextInv
  <2>5. Holds(Shown(call.doc, call.format, stage, next))'
    <3> DEFINE s == Shown(call.doc, call.format, stage, next)
    <3>1. s' = s
      BY <1>0, <2>1, <2>2
    <3>2. Holds(s) /\ ~Pending
      BY <1>0, <2>4 DEF Pending
    <3>3. ~Pending'
      BY <2>1 DEF Pending
    <3> HIDE DEF s
    <3>4. Holds(s)'
      BY <2>1, <3>1, <3>2, <3>3 DEF Holds
    <3> QED BY <3>4 DEF s
  <2>6. TextInv'
    BY <1>0, <1>1, <2>1, <2>3, <2>4, <2>5 DEF TextInv
  <2>7. CallInv' /\ BufferInv' /\ FailureInv'
    BY <1>0, <2>1 DEF PrintingInv, CallInv, BufferInv, FailureInv
  <2> QED BY <2>6, <2>7 DEF PrintingInv
<1>3. CASE call.doc[next].kind # "end"
  <2>1. Piece(Len(body) + 1, Append(body, Nul), Len(body), "value")
    BY <1>3 DEF NextElement, Node
  <2>2. Shown(call.doc, call.format, "value", next') =
          Shown(call.doc, call.format, stage, next) \o body
    BY <1>0, <1>1, <1>3, ShownElement
  <2>3. body \in Seq(Bytes)
    <3>1. "," \in Bytes /\ " " \in Bytes
      BY SyntaxBytes
    <3>2. <<",", " ">> \in Seq(Bytes) /\ <<",">> \in Seq(Bytes)
      BY ONLY <3>1, Pair
    <3> QED BY <3>2
  <2>4. Possible(call.doc, call.format, "value", next')
    BY <1>0, <1>1, <1>3 DEF Possible
  <2> DEFINE needed == Len(body) + 1
  <2>5. Piece(needed, Append(body, Nul), Len(body), "value") /\ needed = Len(body) + 1
    BY <2>1
  <2> HIDE DEF body, needed
  <2>6. Stack(call.doc, next', open') /\ \A i \in 1..next' - 1 : HasText(call.doc[i])
    BY <1>0, <1>1
  <2> QED BY <1>0, <2>2, <2>3, <2>4, <2>5, <2>6, EndedPieceKeeps
<1> QED BY <1>2, <1>3

LEMMA NextMemberKeeps ==
  ASSUME PrintingInv, NextMember PROVE PrintingInv'
<1> DEFINE body == (IF call.doc[next].kind = "end" THEN <<>> ELSE <<",">>) \o
                   (IF call.format THEN <<"\n">> ELSE <<>>)
           then == BeforeMember(next)
<1>0. /\ stage \in Active /\ stage = "separator" /\ Last(open) = "object"
      /\ call' = call /\ next' = next /\ open' = open
      /\ stage \in {"value", "indent", "key", "colon", "separator", "close"}
  BY DEF NextMember, Active
<1>1. /\ Possible(call.doc, call.format, "separator", next)
      /\ Parent(call.doc, next) = "object" /\ next \in 1..Len(call.doc)
      /\ Stack(call.doc, next, open) /\ call.doc \in Seq(Nodes) /\ call.format \in BOOLEAN
      /\ \A i \in 1..next - 1 : HasText(call.doc[i])
  <2>1. Possible(call.doc, call.format, "separator", next)
    BY <1>0, Doing
  <2>2. /\ next \in 2..Len(call.doc) /\ Len(call.doc) \in Nat /\ call.doc \in Documents
        /\ open \in Seq(Containers) /\ Len(open) = Around(call.doc, next)
    BY <1>0, <2>1, Doing DEF Possible
  <2>3. next \in 1..Len(call.doc) + 1 /\ next # 1 /\ next # Len(call.doc) + 1
    BY <2>2
  <2>4. open # <<>>
    BY <2>2, <2>3, AroundInTree
  <2>5. Parent(call.doc, next) = "object"
    BY <1>0, <2>4, Doing
  <2> QED BY <1>0, <2>1, <2>2, <2>5, Doing
<1>2. then = IF call.doc[next].kind = "end" THEN "close"
             ELSE IF call.format THEN "indent" ELSE "key"
  BY DEF BeforeMember
<1>3. Piece(Len(body) + 1, Append(body, Nul), Len(body), then)
  BY DEF NextMember, Node
<1>4. body \in Seq(Bytes)
  BY <1>1, ShownMember
<1> HIDE DEF then
<1>5. Shown(call.doc, call.format, then, next') =
        Shown(call.doc, call.format, stage, next) \o body
  BY <1>0, <1>1, <1>2, ShownMember
<1>6. Possible(call.doc, call.format, then, next')
  BY <1>0, <1>1, <1>2 DEF Possible
<1> DEFINE needed == Len(body) + 1
<1>7. Piece(needed, Append(body, Nul), Len(body), then) /\ needed = Len(body) + 1
  BY <1>3
<1> HIDE DEF body, needed
<1>8. Stack(call.doc, next', open') /\ \A i \in 1..next' - 1 : HasText(call.doc[i])
  BY <1>0, <1>1
<1>9. /\ then \in {"value", "indent", "key", "close", "printed", "keyed"}
      /\ Len(body) = IF then \in {"printed", "keyed"} THEN 0 ELSE Len(body)
  BY <1>2
<1> QED BY <1>0, <1>4, <1>5, <1>6, <1>7, <1>8, <1>9, EndedPieceKeeps

LEMMA CloseKeeps ==
  ASSUME PrintingInv, Close PROVE PrintingInv'
<1> DEFINE tabs == IF call.format THEN Tabs(Depth - 1) ELSE <<>>
           body == IF Last(open) = "array" THEN <<"]">> ELSE tabs \o <<"}">>
<1>0. /\ stage \in Active /\ stage = "close"
      /\ call' = call /\ next' = next + 1 /\ open' = Front(open)
      /\ stage \in {"value", "indent", "key", "colon", "separator", "close"}
  BY DEF Close, Active
<1>1. /\ call.doc \in Documents /\ next \in 1..Len(call.doc) /\ call.doc[next].kind = "end"
      /\ Stack(call.doc, next, open) /\ call.doc \in Seq(Nodes) /\ call.format \in BOOLEAN
      /\ \A i \in 1..next - 1 : HasText(call.doc[i])
      /\ Depth = Around(call.doc, next) /\ Len(call.doc) \in Nat
      /\ open \in Seq(Containers) /\ Len(open) = Depth /\ Depth \in Nat
  <2>1. Possible(call.doc, call.format, "close", next)
    BY <1>0, Doing
  <2>2. next \in 1..Len(call.doc) /\ call.doc[next].kind = "end"
    BY <2>1 DEF Possible
  <2> QED BY <1>0, <2>2, Doing DEF Depth
<1>2. open # <<>> /\ Stack(call.doc, next', open')
  BY <1>0, <1>1, StackSteps
<1>3. Around(call.doc, next) \in Nat \ {0} /\ Last(open) \in Containers
  <2>1. Len(open) # 0 /\ Len(open) \in 1..Len(open)
    BY <1>1, <1>2
  <2> QED BY <1>1, <2>1 DEF Last
<1>4. Parent(call.doc, next) = Last(open)
  BY <1>0, <1>2, Doing
<1>5. tabs \in Seq(Bytes) /\ body \in Seq(Bytes)
  <2>1. "]" \in Bytes /\ "}" \in Bytes
    BY SyntaxBytes
  <2>2. <<"]">> \in Seq(Bytes) /\ <<"}">> \in Seq(Bytes)
    BY ONLY <2>1, Pair
  <2>3. tabs \in Seq(Bytes)
    BY <1>1, <1>3, ShownClose
  <2> HIDE DEF tabs
  <2>4. tabs \o <<"}">> \in Seq(Bytes)
    BY ONLY <2>2, <2>3, Joined
  <2> QED BY <2>2, <2>3, <2>4
<1>6. Shown(call.doc, call.format, "printed", next') =
        Shown(call.doc, call.format, stage, next) \o body
  <2>1. Last(open) \in {"array", "object"}
    BY <1>3 DEF Containers
  <2>2. tabs = IF call.format THEN Tabs(Around(call.doc, next) - 1) ELSE <<>>
    BY <1>1
  <2> HIDE DEF tabs
  <2> QED BY <1>0, <1>1, <1>3, <1>4, <2>1, <2>2, ShownClose
<1>7. Possible(call.doc, call.format, "printed", next')
  <2>1. next + 1 \in 2..Len(call.doc) + 1 /\ (next + 1) - 1 = next
    BY <1>1
  <2>2. "end" \notin Containers
    BY DEF Containers
  <2> QED BY <1>0, <1>1, <2>1, <2>2 DEF Possible
<1> DEFINE b == "]"
           c == "}"
<1>8. /\ Nul \in Cells /\ b \in Cells /\ c \in Cells /\ <<>> \in Seq(Cells)
      /\ Append(<<b>>, Nul) = <<b, Nul>> /\ Len(<<b>>) + 1 = 2
  <2>1. b \in Bytes /\ c \in Bytes
    BY SyntaxBytes
  <2> HIDE DEF b, c
  <2>2. Nul \in Cells /\ b \in Cells /\ c \in Cells
    BY <2>1 DEF Cells, Elements
  <2>3. <<>> \in Seq(Cells)
    OBVIOUS
  <2>4. Append(<<b>>, Nul) = <<b, Nul>> /\ Len(<<b>>) = 1
    BY ONLY <2>2, AppendedOne
  <2> QED BY <2>2, <2>3, <2>4
<1>9. tabs \in Seq(Cells)
  BY <1>5, ElementsAreCells
<1>10. Piece(Len(body) + 1, Append(body, Nul), 0, "printed")
  <2>1. CASE Last(open) = "array"
    <3>1. Piece(2, <<"]", Nul>>, 0, "printed")
      BY <2>1 DEF Close
    <3>2. Append(<<"]">>, Nul) = <<"]", Nul>> /\ Len(<<"]">>) + 1 = 2
      BY <1>8 DEF b
    <3> QED BY <2>1, <3>1, <3>2
  <2>2. CASE Last(open) # "array"
    <3>1. Piece(Len(tabs) + 2, tabs \o <<"}", Nul>>, 0, "printed")
      BY <2>2 DEF Close
    <3> HIDE DEF tabs
    <3>2. /\ Append(tabs \o <<c>>, Nul) = tabs \o <<c, Nul>>
          /\ Len(tabs \o <<c>>) + 1 = Len(tabs) + 2
      <4> HIDE DEF c
      <4>1. /\ Append(tabs \o <<c>>, Nul) = tabs \o <<c, Nul>>
            /\ Len(tabs \o <<c>>) = Len(tabs) + 1 /\ Len(tabs) \in Nat
        BY ONLY <1>8, <1>9, AppendedToJoined
      <4> QED BY <4>1
    <3>3. body = tabs \o <<c>>
      BY <2>2
    <3> HIDE DEF body
    <3> QED BY <2>2, <3>1, <3>2, <3>3
  <2> QED BY <2>1, <2>2
<1>11. \A i \in 1..next' - 1 : HasText(call.doc[i])
  <2>1. \A i \in 1..(next + 1) - 1 : i \in 1..next - 1 \/ i = next
    BY <1>1
  <2>2. HasText(call.doc[next])
    BY <1>1 DEF HasText
  <2> QED BY <1>0, <1>1, <2>1, <2>2
<1> DEFINE needed == Len(body) + 1
<1>12. Piece(needed, Append(body, Nul), 0, "printed") /\ needed = Len(body) + 1
  BY <1>10
<1> HIDE DEF body, needed
<1> QED BY <1>0, <1>2, <1>5, <1>6, <1>7, <1>11, <1>12, EndedPieceKeeps

LEMMA ReturnBufferKeeps ==
  ASSUME PrintingInv, ReturnBuffer PROVE PrintingInv'
<1> DEFINE s == Shown(call.doc, call.format, "printed", next)
<1>0. /\ stage \in Active /\ stage = "printed" /\ open = <<>> /\ call.way # "print"
      /\ stage' = "done" /\ UNCHANGED <<call, next, open, mem, offset, alive, outside>>
  BY DEF ReturnBuffer, Active
<1>1. Possible(call.doc, call.format, "done", next)
  <2>1. /\ next \in 2..Len(call.doc) + 1 /\ Len(call.doc) \in Nat /\ call.doc \in Documents
        /\ Len(open) = Around(call.doc, next) /\ Len(open) = 0
    BY <1>0, Doing DEF Possible
  <2>2. next \in 1..Len(call.doc) + 1 /\ next # 1
    BY <2>1
  <2>3. next = Len(call.doc) + 1
    BY <2>1, <2>2, AroundInTree
  <2> QED BY <2>3 DEF Possible
<1>2. /\ alive /\ Stack(call.doc, next, open) /\ \A i \in 1..next - 1 : HasText(call.doc[i])
      /\ Holds(s)
  BY <1>0 DEF PrintingInv, TextInv
<1>3. Shown(call.doc, call.format, "done", next) = s
  BY ShownUpdate
<1> HIDE DEF s
<1>4. Holds(Shown(call.doc, call.format, stage, next))'
  <2> DEFINE t == Shown(call.doc, call.format, stage, next)
  <2>1. t' = s
    BY <1>0, <1>3
  <2>2. Pending /\ Pending'
    BY <1>0 DEF Pending
  <2> HIDE DEF t
  <2>3. Holds(t)'
    BY <1>0, <1>2, <2>1, <2>2 DEF Holds
  <2> QED BY <2>3 DEF t
<1>5. TextInv'
  BY <1>0, <1>1, <1>2, <1>4 DEF TextInv
<1>6. CallInv' /\ BufferInv' /\ FailureInv'
  BY <1>0 DEF PrintingInv, CallInv, BufferInv, FailureInv
<1> QED BY <1>5, <1>6 DEF PrintingInv

LEMMA ReturnTextKeeps ==
  ASSUME PrintingInv, ReturnText PROVE PrintingInv'
<1> DEFINE s == Shown(call.doc, call.format, "finish", next)
<1>0. /\ stage \in Active /\ stage = "finish" /\ call.way = "print"
      /\ UNCHANGED <<call, next, open, offset, alive, outside>>
  BY DEF ReturnText, Active, PrintingInv, CallInv
<1>1. /\ alive /\ Stack(call.doc, next, open) /\ \A i \in 1..next - 1 : HasText(call.doc[i])
      /\ Holds(s) /\ Possible(call.doc, call.format, "finish", next)
  BY <1>0 DEF PrintingInv, TextInv
<1>2. /\ mem \in Seq(Cells) /\ offset \in Nat /\ ~outside /\ Len(mem) \in Nat
  BY DEF PrintingInv, BufferInv
<1>3. /\ offset = Len(s) /\ Len(s) < Len(mem) /\ mem[Len(s) + 1] = Nul
      /\ \A i \in 1..Len(s) : mem[i] = s[i]
  <2>1. ~Pending
    BY <1>0 DEF Pending
  <2> HIDE DEF s
  <2> QED BY <1>0, <1>1, <2>1 DEF Holds
<1>4. CASE stage' = "failing" /\ UNCHANGED mem
  <2>1. TextInv'
    BY <1>4 DEF TextInv, Active
  <2>2. CallInv' /\ BufferInv' /\ FailureInv'
    BY <1>0, <1>4 DEF PrintingInv, CallInv, BufferInv, FailureInv
  <2> QED BY <2>1, <2>2 DEF PrintingInv
<1>5. CASE /\ mem' = [i \in 1..(offset + 1) |-> IF i <= Len(mem) THEN mem[i] ELSE Junk]
           /\ stage' = "done"
  <2>1. Shown(call.doc, call.format, "done", next) = s
    BY ShownUpdate
  <2> HIDE DEF s
  <2>2. \A i \in 1..(offset + 1) : i \in 1..Len(mem) /\ i <= Len(mem)
    BY <1>2, <1>3
  <2>3. mem' = [i \in 1..(offset + 1) |-> mem[i]]
    BY <1>5, <2>2
  <2>4. /\ mem' \in Seq(Cells) /\ Len(mem') = offset + 1
        /\ \A i \in 1..(offset + 1) : mem'[i] = mem[i]
    BY <1>2, <2>2, <2>3
  <2>5. Holds(Shown(call.doc, call.format, stage, next))'
    <3> DEFINE t == Shown(call.doc, call.format, stage, next)
    <3>1. t' = s
      BY <1>0, <1>5, <2>1
    <3>2. ~Pending'
      BY <1>0, <1>5 DEF Pending
    <3> HIDE DEF t
    <3>3. /\ Len(s) <= Len(mem') /\ \A i \in 1..Len(s) : mem'[i] = s[i]
          /\ Len(s) < Len(mem') /\ mem'[Len(s) + 1] = Nul /\ offset' = Len(s)
      BY <1>0, <1>2, <1>3, <2>4
    <3>4. Holds(t)'
      BY <3>1, <3>2, <3>3 DEF Holds
    <3> QED BY <3>4 DEF t
  <2>6. Possible(call.doc, call.format, "done", next)
    BY <1>1 DEF Possible
  <2>7. TextInv'
    BY <1>0, <1>1, <1>5, <2>5, <2>6 DEF TextInv
  <2>8. CallInv' /\ BufferInv' /\ FailureInv'
    BY <1>0, <1>5, <2>4 DEF PrintingInv, CallInv, BufferInv, FailureInv
  <2> QED BY <2>7, <2>8 DEF PrintingInv
<1> QED BY <1>4, <1>5 DEF ReturnText

LEMMA ReturnNothingKeeps ==
  ASSUME PrintingInv, ReturnNothing PROVE PrintingInv'
<1>0. /\ stage = "failing" /\ stage' = "failed"
      /\ UNCHANGED <<call, next, open, mem, offset, outside>>
      /\ alive' = (alive /\ call.way = "preallocated")
  BY DEF ReturnNothing
<1>1. call.way = "preallocated" => alive
  BY <1>0 DEF PrintingInv, BufferInv
<1>2. alive' = (call.way = "preallocated")
  BY <1>0, <1>1
<1>3. TextInv'
  BY <1>0 DEF TextInv, Active
<1>4. CallInv'
  BY <1>0 DEF PrintingInv, CallInv
<1>5. BufferInv'
  BY <1>0, <1>2 DEF PrintingInv, BufferInv
<1>6. FailureInv'
  BY <1>0, <1>2 DEF PrintingInv, FailureInv
<1> QED BY <1>3, <1>4, <1>5, <1>6 DEF PrintingInv

(* Whatever the printer does next, its invariant holds.                    *)
LEMMA PrintStepKeeps ==
  ASSUME PrintingInv, PrintStep PROVE PrintingInv'
BY PrintLeafKeeps, OpenArrayKeeps, OpenObjectKeeps, PrintIndentKeeps, PrintKeyKeeps,
   PrintColonKeeps, UpdateOffsetKeeps, NextElementKeeps, NextMemberKeeps, CloseKeeps,
   ReturnBufferKeeps, ReturnTextKeeps, ReturnNothingKeeps DEF PrintStep

LEMMA PrintRestKeeps ==
  ASSUME PrintingInv, UNCHANGED printVars PROVE PrintingInv'
<1>1. /\ call' = call /\ stage' = stage /\ next' = next /\ open' = open /\ mem' = mem
      /\ offset' = offset /\ alive' = alive /\ outside' = outside
  BY DEF printVars
<1>2. TextInv'
  <2>1. \A s : Holds(s) => Holds(s)'
    BY <1>1 DEF Holds, Pending
  <2> DEFINE s == Shown(call.doc, call.format, stage, next)
  <2>2. s' = s
    BY <1>1
  <2> QED BY <1>1, <2>1, <2>2 DEF PrintingInv, TextInv
<1> QED BY <1>1, <1>2 DEF PrintingInv, CallInv, BufferInv, FailureInv

LEMMA PrintInitHolds == PrintInit => PrintingInv
<1> SUFFICES ASSUME PrintInit PROVE PrintingInv
  OBVIOUS
<1>1. <<>> \in Seq(Cells)
  OBVIOUS
<1>2. CallInv /\ FailureInv /\ TextInv
  BY DEF PrintInit, CallInv, FailureInv, TextInv, Active
<1>3. BufferInv
  BY <1>1 DEF PrintInit, BufferInv
<1> QED BY <1>2, <1>3 DEF PrintingInv

(* A printing function is called with a document.                          *)
LEMMA BeginKeeps ==
  ASSUME PrintingInv, NEW c, Begin(c), c.doc \in Documents, c.way \in Ways,
         c.size \in 0..IntMax, c.format \in BOOLEAN
  PROVE  PrintingInv'
<1> DEFINE size == IF c.way = "print" THEN DefaultSize ELSE c.size
<1>0. /\ stage = "idle" /\ call' = c /\ UNCHANGED <<next, open, offset, outside>>
      /\ stage' \in {"value", "failed"}
      /\ next = 1 /\ open = <<>> /\ offset = 0 /\ ~outside /\ mem \in Seq(Cells)
  BY DEF Begin, PrintingInv, BufferInv
<1>1. CallInv'
  BY <1>0 DEF CallInv
<1>2. CASE stage' = "value" /\ alive' = TRUE /\ mem' = Unwritten(size)
  <2>1. size \in Nat
    BY SizesAssumption
  <2>2. mem' \in Seq(Cells) /\ Len(mem') = size
    <3>1. Junk \in Cells
      BY DEF Cells
    <3> HIDE DEF size
    <3> QED BY <1>2, <2>1, <3>1 DEF Unwritten
  <2>3. BufferInv'
    BY <1>0, <1>2, <2>2 DEF BufferInv
  <2>4. Possible(c.doc, c.format, "value", 1)
    <3>1. 1 \in 1..Len(c.doc) /\ c.doc \in Seq(Nodes) /\ Len(c.doc) \in Nat
      BY DEF Documents, IsTree
    <3>2. c.doc[1].kind # "end"
      <4> SUFFICES ASSUME c.doc[1].kind = "end" PROVE FALSE
        OBVIOUS
      <4>1. Stack(c.doc, 1, <<>>)
        BY StackStarts
      <4> QED BY <3>1, <4>1, StackSteps
    <3> QED BY <3>1, <3>2 DEF Possible
  <2>5. Holds(Shown(call.doc, call.format, stage, next))'
    <3> DEFINE t == Shown(call.doc, call.format, stage, next)
    <3>1. t' = <<>>
      BY <1>0, <1>2, ShownStart
    <3>2. ~Pending'
      BY <1>2 DEF Pending
    <3>3. Len(<<>>) = 0 /\ 1..0 = {}
      OBVIOUS
    <3>4. Len(mem') \in Nat
      BY <2>2
    <3> HIDE DEF t
    <3>5. Holds(t)'
      BY <1>0, <1>2, <3>1, <3>2, <3>3, <3>4 DEF Holds
    <3> QED BY <3>5 DEF t
  <2>6. TextInv'
    <3>1. 1..1 - 1 = {}
      OBVIOUS
    <3>2. Stack(c.doc, 1, <<>>)
      BY StackStarts
    <3> QED BY <1>0, <1>2, <2>4, <2>5, <3>1, <3>2 DEF TextInv
  <2>7. FailureInv'
    BY <1>2 DEF FailureInv
  <2> QED BY <1>1, <2>3, <2>6, <2>7 DEF PrintingInv
<1>3. CASE c.way # "preallocated" /\ stage' = "failed" /\ UNCHANGED <<mem, alive>> /\ ~alive
  <2>1. TextInv'
    BY <1>3 DEF TextInv, Active
  <2>2. BufferInv'
    BY <1>0, <1>3 DEF BufferInv
  <2>3. alive' = (call'.way = "preallocated")
    <3>1. alive' = FALSE /\ (call'.way = "preallocated") = FALSE
      BY <1>0, <1>3
    <3> QED BY <3>1
  <2>4. FailureInv'
    BY <1>0, <1>3, <2>3 DEF FailureInv
  <2> QED BY <1>1, <2>1, <2>2, <2>4 DEF PrintingInv
<1>4. ~alive
  BY <1>0 DEF PrintingInv, BufferInv
<1> QED BY <1>2, <1>3, <1>4 DEF Begin

-----------------------------------------------------------------------------
(* What the invariant says of the text that is returned.                   *)

LEMMA NothingOutside == PrintingInv => PrintsInside
BY DEF PrintingInv, BufferInv, PrintsInside

LEMMA DoneIsRendered == PrintingInv => TextIsRendered
<1> SUFFICES ASSUME PrintingInv PROVE TextIsRendered
  OBVIOUS
<1>1. stage = "failed" => alive = (call.way = "preallocated")
  BY DEF PrintingInv, FailureInv
<1>2. CASE stage = "done"
  <2> DEFINE text == Rendered(call.doc, call.format)
  <2>1. /\ call.doc \in Documents /\ call.format \in BOOLEAN /\ next = Len(call.doc) + 1
        /\ call.doc \in Seq(Nodes) /\ \A i \in 1..next - 1 : HasText(call.doc[i])
        /\ Len(call.doc) \in Nat /\ next \in 1..Len(call.doc) + 1
        /\ Possible(call.doc, call.format, "done", next)
    <3>1. stage \in Active
      BY <1>2 DEF Active
    <3> QED BY <1>2, <3>1, Doing DEF Possible
  <2>2. Shown(call.doc, call.format, stage, next) = text
    BY <1>2, <2>1, ShownWhole
  <2>3. text \in Seq(Elements) /\ Len(text) \in Nat
    BY <1>2, <2>1, <2>2, ShownBound
  <2> HIDE DEF text
  <2>4. /\ alive /\ Len(text) < Len(mem) /\ mem[Len(text) + 1] = Nul
        /\ \A i \in 1..Len(text) : mem[i] = text[i]
    <3>1. alive /\ Holds(text)
      BY <1>2, <2>2 DEF PrintingInv, TextInv, Active
    <3> QED BY <1>2, <3>1 DEF Holds
  <2>5. SubSeq(mem, 1, Len(text)) = text
    <3>1. mem \in Seq(Cells) /\ Len(mem) \in Nat
      BY DEF PrintingInv, BufferInv
    <3>2. SubSeq(mem, 1, Len(text)) = [i \in 1..Len(text) |-> mem[i]]
      BY <2>3, <2>4, <3>1
    <3>3. text = [i \in 1..Len(text) |-> text[i]]
      BY <2>3
    <3> QED BY <2>4, <3>2, <3>3
  <2>6. Printable(call.doc)
    <3>1. \A i \in DOMAIN call.doc : HasText(call.doc[i])
      BY <2>1
    <3> QED BY <3>1 DEF Printable, HasText
  <2>7. Len(mem) > Len(text)
    BY <2>3, <2>4 DEF PrintingInv, BufferInv
  <2> QED BY <1>1, <2>4, <2>5, <2>6, <2>7 DEF TextIsRendered, text
<1> QED BY <1>1, <1>2 DEF TextIsRendered

LEMMA EnoughIsGiven == PrintingInv => FiveMoreSuffice
<1> SUFFICES ASSUME PrintingInv, stage = "failed", call.way = "preallocated",
                    Printable(call.doc)
             PROVE  call.size < Len(Rendered(call.doc, call.format)) + 1 + 5
  BY DEF FiveMoreSuffice
<1>1. /\ call.doc \in Seq(Nodes) /\ call.format \in BOOLEAN /\ call.size \in 0..IntMax
      /\ call.doc \in Documents /\ Len(call.doc) \in Nat \ {0}
  BY DEF PrintingInv, CallInv, Documents, IsTree
<1>2. Len(Rendered(call.doc, call.format)) \in Nat
  <2>1. Len(call.doc) + 1 \in 1..Len(call.doc) + 1
    BY <1>1
  <2>2. Possible(call.doc, call.format, "done", Len(call.doc) + 1)
    BY DEF Possible
  <2> QED BY <1>1, <2>1, <2>2, ShownBound
<1>3. call.size <= Len(Rendered(call.doc, call.format)) + 1
  BY DEF PrintingInv, FailureInv
<1> QED BY <1>1, <1>2, <1>3, SizesAssumption

-----------------------------------------------------------------------------
(* Documents made of others.                                               *)

(* Nodes that are the values in a container, one behind the other.         *)
Forests == {doc \in Seq(Nodes) : /\ Around(doc, Len(doc) + 1) = 0
                                 /\ \A i \in 1..Len(doc) + 1 : Around(doc, i) >= 0}

LEMMA AroundSame ==
  ASSUME NEW s, NEW t, NEW n \in Nat \ {0}, \A j \in 1..n - 1 : s[j].kind = t[j].kind
  PROVE  Around(s, n) = Around(t, n)
<1>1. /\ {j \in 1..n - 1 : s[j].kind \in Containers} = {j \in 1..n - 1 : t[j].kind \in Containers}
      /\ {j \in 1..n - 1 : s[j].kind = "end"} = {j \in 1..n - 1 : t[j].kind = "end"}
  OBVIOUS
<1> QED BY <1>1 DEF Around, Opens, Ends

LEMMA AroundSecond ==
  ASSUME NEW doc
  PROVE  Around(doc, 2) = IF doc[1].kind \in Containers THEN 1
                          ELSE IF doc[1].kind = "end" THEN -1 ELSE 0
<1> DEFINE one == 1
<1>1. one \in Nat \ {0} /\ one + 1 = 2 /\ one = 1
  OBVIOUS
<1> HIDE DEF one
<1>2. Around(doc, one + 1) = Around(doc, one) +
        (IF doc[one].kind \in Containers THEN 1 ELSE IF doc[one].kind = "end" THEN -1 ELSE 0)
  BY <1>1, AroundNext
<1>3. Around(doc, 1) = 0
  BY AroundFirst
<1> QED BY <1>1, <1>2, <1>3

LEMMA AroundJoined ==
  ASSUME NEW s \in Seq(Nodes), NEW t \in Seq(Nodes)
  PROVE  /\ \A i \in 1..Len(s) + 1 : Around(s \o t, i) = Around(s, i)
         /\ \A j \in 1..Len(t) + 1 :
              Around(s \o t, Len(s) + j) = Around(s, Len(s) + 1) + Around(t, j)
<1> DEFINE u == s \o t
           P(j) == Around(u, Len(s) + j) = Around(s, Len(s) + 1) + Around(t, j)
           Q(n) == n \in 0..Len(t) => P(n + 1)
<1>1. /\ u \in Seq(Nodes) /\ Len(s) \in Nat /\ Len(t) \in Nat
      /\ \A i \in 1..Len(s) : u[i] = s[i]
      /\ \A i \in 1..Len(t) : u[Len(s) + i] = t[i]
  BY Joined
<1> HIDE DEF u
<1>2. ASSUME NEW i \in 1..Len(s) + 1 PROVE Around(u, i) = Around(s, i)
  <2>1. i \in Nat \ {0}
    BY <1>1
  <2>2. ASSUME NEW j \in 1..i - 1 PROVE u[j].kind = s[j].kind
    <3>1. j \in 1..Len(s)
      BY <1>1
    <3> QED BY <1>1, <3>1
  <2> QED BY <2>1, <2>2, AroundSame
<1>3. Q(0)
  <2>1. Around(u, Len(s) + 1) = Around(s, Len(s) + 1)
    BY <1>1, <1>2
  <2>2. Around(t, 1) = 0 /\ Around(s, Len(s) + 1) \in Int
    BY <1>1, AroundFirst, AroundNext
  <2> QED BY <2>1, <2>2
<1>4. ASSUME NEW n \in Nat, Q(n) PROVE Q(n + 1)
  <2> SUFFICES ASSUME n + 1 \in 0..Len(t) PROVE P((n + 1) + 1)
    OBVIOUS
  <2>1. P(n + 1) /\ n + 1 \in 1..Len(t)
    BY <1>1, <1>4
  <2> DEFINE m == Len(s) + (n + 1)
             d == IF t[n + 1].kind \in Containers THEN 1 ELSE IF t[n + 1].kind = "end" THEN -1 ELSE 0
  <2>2. m \in Nat \ {0} /\ u[m] = t[n + 1] /\ n + 1 \in Nat \ {0}
    BY <1>1, <2>1
  <2>3. Around(u, m + 1) = Around(u, m) + d
    <3> HIDE DEF m
    <3> QED BY <2>2, AroundNext
  <2>4. Around(t, (n + 1) + 1) = Around(t, n + 1) + d
    BY <2>2, AroundNext
  <2>5. m + 1 = Len(s) + ((n + 1) + 1)
    BY <1>1
  <2>6. Around(u, m) = Around(s, Len(s) + 1) + Around(t, n + 1)
    BY <2>1
  <2>7. d \in Int /\ Around(t, n + 1) \in Int /\ Around(s, Len(s) + 1) \in Int
    BY <1>1, <2>2, AroundNext
  <2> HIDE DEF m, d
  <2>8. Around(u, m + 1) = Around(s, Len(s) + 1) + Around(t, (n + 1) + 1)
    BY <2>3, <2>4, <2>6, <2>7
  <2> QED BY <2>5, <2>8
<1>5. \A n \in Nat : Q(n)
  <2> HIDE DEF Q
  <2> DEFINE T == {n \in Nat : Q(n)}
  <2>1. T \in SUBSET Nat /\ 0 \in T /\ \A n \in T : n + 1 \in T
    BY <1>3, <1>4
  <2>2. T = Nat
    <3> HIDE DEF T
    <3> QED BY <2>1, NatSetInduction
  <2> QED BY <2>2
<1>6. ASSUME NEW j \in 1..Len(t) + 1 PROVE P(j)
  <2>1. j - 1 \in Nat /\ j - 1 \in 0..Len(t) /\ (j - 1) + 1 = j
    BY <1>1
  <2>2. Q(j - 1)
    <3> HIDE DEF Q
    <3> QED BY <1>5, <2>1
  <2> QED BY <2>1, <2>2
<1> QED BY <1>2, <1>6 DEF u

LEMMA EmptyForest == <<>> \in Forests
<1>1. <<>> \in Seq(Nodes) /\ Len(<<>>) = 0 /\ 0 + 1 = 1 /\ 1..1 = {1}
  OBVIOUS
<1> QED BY <1>1, AroundFirst DEF Forests

LEMMA DocumentIsForest == Documents \subseteq Forests
<1> SUFFICES ASSUME NEW doc \in Documents PROVE doc \in Forests
  OBVIOUS
<1>1. doc \in Seq(Nodes) /\ Len(doc) + 1 \in 1..Len(doc) + 1
  BY DEF Documents
<1>2. \A i \in 1..Len(doc) + 1 : Around(doc, i) \in Nat
  BY AroundInTree
<1>3. Around(doc, Len(doc) + 1) = 0
  BY <1>1, AroundInTree
<1> QED BY <1>1, <1>2, <1>3 DEF Forests

LEMMA ForestsJoined ==
  ASSUME NEW s \in Forests, NEW t \in Forests PROVE s \o t \in Forests
<1> DEFINE u == s \o t
<1>1. /\ s \in Seq(Nodes) /\ t \in Seq(Nodes) /\ Len(s) \in Nat /\ Len(t) \in Nat
      /\ Around(s, Len(s) + 1) = 0 /\ Around(t, Len(t) + 1) = 0
      /\ \A i \in 1..Len(s) + 1 : Around(s, i) >= 0
      /\ \A i \in 1..Len(t) + 1 : Around(t, i) >= 0
  BY DEF Forests
<1>2. u \in Seq(Nodes) /\ Len(u) = Len(s) + Len(t)
  BY <1>1, Joined
<1>3. /\ \A i \in 1..Len(s) + 1 : Around(u, i) = Around(s, i)
      /\ \A j \in 1..Len(t) + 1 : Around(u, Len(s) + j) = Around(t, j)
  <2>1. ASSUME NEW j \in 1..Len(t) + 1 PROVE 0 + Around(t, j) = Around(t, j)
    <3>1. j \in Nat \ {0}
      BY <1>1
    <3>2. Around(t, j) \in Int
      BY <3>1, AroundNext
    <3> QED BY <3>2
  <2> QED BY <1>1, <2>1, AroundJoined
<1> HIDE DEF u
<1>4. Around(u, Len(u) + 1) = 0
  <2>1. Len(t) + 1 \in 1..Len(t) + 1 /\ Len(u) + 1 = Len(s) + (Len(t) + 1)
    BY <1>1, <1>2
  <2> QED BY <1>1, <1>3, <2>1
<1>5. ASSUME NEW i \in 1..Len(u) + 1 PROVE Around(u, i) >= 0
  <2>1. CASE i \in 1..Len(s) + 1
    BY <1>1, <1>3, <2>1
  <2>2. CASE i \notin 1..Len(s) + 1
    <3>1. i - Len(s) \in 1..Len(t) + 1 /\ Len(s) + (i - Len(s)) = i
      BY <1>1, <1>2, <2>2
    <3> QED BY <1>1, <1>3, <3>1
  <2> QED BY <2>1, <2>2
<1> QED BY <1>2, <1>4, <1>5 DEF Forests, u

LEMMA FlattenForests ==
  ASSUME NEW N \in Nat, NEW s \in [1..N -> Forests] PROVE FlattenSeq(s) \in Forests
<1> DEFINE Q(n) == \A f \in [1..n -> Forests] : FlattenSeq(f) \in Forests
<1>1. Q(0)
  <2> SUFFICES ASSUME NEW f \in [1..0 -> Forests] PROVE FlattenSeq(f) \in Forests
    OBVIOUS
  <2>1. f = <<>>
    OBVIOUS
  <2> QED BY <2>1, FlattenEmpty, EmptyForest
<1>2. ASSUME NEW n \in Nat, Q(n) PROVE Q(n + 1)
  <2> SUFFICES ASSUME NEW f \in [1..n + 1 -> Forests] PROVE FlattenSeq(f) \in Forests
    OBVIOUS
  <2> DEFINE g == [i \in 1..n |-> f[i]]
  <2>1. /\ g \in [1..n -> Forests] /\ f[n + 1] \in Forests
        /\ \A i \in 1..n : g[i] = f[i]
    OBVIOUS
  <2> HIDE DEF g
  <2>2. Forests \subseteq Seq(Nodes)
    BY DEF Forests
  <2>3. f \in [1..n + 1 -> Seq(Nodes)] /\ g \in [1..n -> Seq(Nodes)]
    BY <2>1, <2>2
  <2>4. FlattenSeq(f) = FlattenSeq(g) \o f[n + 1]
    BY <2>1, <2>3, FlattenStep
  <2> QED BY <1>2, <2>1, <2>4, ForestsJoined
<1>3. \A n \in Nat : Q(n)
  <2> HIDE DEF Q
  <2> DEFINE T == {n \in Nat : Q(n)}
  <2>1. T \in SUBSET Nat /\ 0 \in T /\ \A n \in T : n + 1 \in T
    BY <1>1, <1>2
  <2>2. T = Nat
    <3> HIDE DEF T
    <3> QED BY <2>1, NatSetInduction
  <2> QED BY <2>2
<1> QED BY <1>3

LEMMA LeafIsDocument ==
  ASSUME NEW node \in Nodes, node.kind \notin Containers \cup {"end"}
  PROVE  <<node>> \in Documents
<1> DEFINE doc == <<node>>
<1>1. doc \in Seq(Nodes) /\ Len(doc) = 1 /\ doc[1] = node
  OBVIOUS
<1> HIDE DEF doc
<1>2. Around(doc, 2) = 0 /\ Len(doc) + 1 = 2
  BY <1>1, AroundSecond
<1>3. Around(doc, Len(doc) + 1) = 0 /\ 2..Len(doc) = {}
  BY <1>1, <1>2
<1> QED BY <1>1, <1>3 DEF Documents, IsTree, doc

LEMMA ContainerIsDocument ==
  ASSUME NEW c \in Nodes, c.kind \in Containers, NEW e \in Nodes, e.kind = "end",
         NEW f \in Forests
  PROVE  <<c>> \o f \o <<e>> \in Documents
<1> DEFINE a == <<c>>
           z == <<e>>
           b == a \o f
           u == b \o z
<1>1. a \in Seq(Nodes) /\ Len(a) = 1 /\ a[1] = c /\ z \in Seq(Nodes) /\ Len(z) = 1 /\ z[1] = e
  OBVIOUS
<1>2. /\ f \in Seq(Nodes) /\ Len(f) \in Nat /\ Around(f, Len(f) + 1) = 0
      /\ \A i \in 1..Len(f) + 1 : Around(f, i) >= 0 /\ Around(f, i) \in Int
  <2>1. f \in Seq(Nodes) /\ Len(f) \in Nat /\ Around(f, Len(f) + 1) = 0
        /\ \A i \in 1..Len(f) + 1 : Around(f, i) >= 0
    BY DEF Forests
  <2>2. ASSUME NEW i \in 1..Len(f) + 1 PROVE Around(f, i) \in Int
    <3>1. i \in Nat \ {0}
      BY <2>1
    <3> QED BY <3>1, AroundNext
  <2> QED BY <2>1, <2>2
<1> HIDE DEF a, z
<1>3. b \in Seq(Nodes) /\ Len(b) = 1 + Len(f)
  BY <1>1, <1>2, Joined
<1>4. /\ Around(a, 1) = 0 /\ Around(a, 2) = 1
      /\ Around(z, 1) = 0 /\ Around(z, 2) = -1
  <2>1. e.kind \notin Containers
    BY DEF Containers
  <2> QED BY <1>1, <2>1, AroundFirst, AroundSecond
<1>5. ASSUME NEW i \in 1..Len(f) + 1 PROVE Around(b, 1 + i) = 1 + Around(f, i)
  <2>1. Around(b, Len(a) + i) = Around(a, Len(a) + 1) + Around(f, i)
    BY <1>1, <1>2, AroundJoined
  <2>2. Len(a) + i = 1 + i /\ Len(a) + 1 = 2
    BY <1>1
  <2> QED BY <1>4, <2>1, <2>2
<1> HIDE DEF b
<1>6. u \in Seq(Nodes) /\ Len(u) = Len(f) + 2
  <2>1. u \in Seq(Nodes) /\ Len(u) = Len(b) + Len(z)
    BY <1>1, <1>3, Joined
  <2> QED BY <1>1, <1>2, <1>3, <2>1
<1>7. /\ \A i \in 1..Len(b) + 1 : Around(u, i) = Around(b, i)
      /\ \A j \in 1..2 : Around(u, Len(b) + j) = Around(b, Len(b) + 1) + Around(z, j)
  <2>1. Len(z) + 1 = 2
    BY <1>1
  <2> QED BY <1>1, <1>3, <2>1, AroundJoined
<1> HIDE DEF u
<1>8. Around(u, Len(u) + 1) = 0
  <2>1. Len(f) + 1 \in 1..Len(f) + 1 /\ Len(b) + 1 = 1 + (Len(f) + 1)
    BY <1>2, <1>3
  <2>2. Around(b, Len(b) + 1) = 1
    BY <1>2, <1>5, <2>1
  <2>3. Len(u) + 1 = Len(b) + 2
    BY <1>2, <1>3, <1>6
  <2> QED BY <1>4, <1>7, <2>2, <2>3
<1>9. ASSUME NEW i \in 2..Len(u) PROVE Around(u, i) > 0
  <2>1. i - 1 \in 1..Len(f) + 1 /\ i \in 1..Len(b) + 1 /\ 1 + (i - 1) = i
    BY <1>2, <1>3, <1>6
  <2>2. Around(u, i) = 1 + Around(f, i - 1)
    BY <1>5, <1>7, <2>1
  <2> QED BY <1>2, <2>1, <2>2
<1>10. Len(u) > 0
  BY <1>2, <1>6
<1> QED BY <1>6, <1>8, <1>9, <1>10 DEF Documents, IsTree, u, b, a, z

LEMMA StackExists ==
  ASSUME NEW doc \in Documents, NEW i \in 1..Len(doc) + 1
  PROVE  \E stack : Stack(doc, i, stack)
<1> DEFINE Q(n) == n \in 0..Len(doc) => \E stack : Stack(doc, n + 1, stack)
<1>0. Len(doc) \in Nat
  BY DEF Documents
<1>1. Q(0)
  BY StackStarts
<1>2. ASSUME NEW n \in Nat, Q(n) PROVE Q(n + 1)
  <2> SUFFICES ASSUME n + 1 \in 0..Len(doc) PROVE \E stack : Stack(doc, (n + 1) + 1, stack)
    OBVIOUS
  <2>1. n + 1 \in 1..Len(doc) /\ n \in 0..Len(doc)
    BY <1>0
  <2>2. PICK stack : Stack(doc, n + 1, stack)
    BY <1>2, <2>1
  <2> DEFINE m == n + 1
  <2>3. m \in 1..Len(doc) /\ Stack(doc, m, stack)
    BY <2>1, <2>2
  <2> HIDE DEF m
  <2>4. \E following : Stack(doc, m + 1, following)
    BY <2>3, StackSteps
  <2> QED BY <2>4 DEF m
<1>3. \A n \in Nat : Q(n)
  <2> HIDE DEF Q
  <2> DEFINE T == {n \in Nat : Q(n)}
  <2>1. T \in SUBSET Nat /\ 0 \in T /\ \A n \in T : n + 1 \in T
    BY <1>1, <1>2
  <2>2. T = Nat
    <3> HIDE DEF T
    <3> QED BY <2>1, NatSetInduction
  <2> QED BY <2>2
<1>4. i - 1 \in Nat /\ i - 1 \in 0..Len(doc) /\ (i - 1) + 1 = i
  BY <1>0
<1>5. Q(i - 1)
  <2> HIDE DEF Q
  <2> QED BY <1>3, <1>4
<1> QED BY <1>4, <1>5

(* The key of the outermost value is not printed.                          *)
LEMMA Rekeyed ==
  ASSUME NEW doc \in Documents, NEW key \in Seq(Bytes)
  PROVE  LET other == [doc EXCEPT ![1].key = key]
         IN /\ other \in Documents /\ Len(other) = Len(doc)
            /\ \A format \in BOOLEAN : Rendered(other, format) = Rendered(doc, format)
<1> DEFINE other == [doc EXCEPT ![1].key = key]
<1>1. /\ doc \in Seq(Nodes) /\ Len(doc) \in Nat /\ 1 \in 1..Len(doc)
      /\ IsTree(doc) /\ DOMAIN doc = 1..Len(doc)
  BY DEF Documents, IsTree
<1>2. /\ DOMAIN other = 1..Len(doc)
      /\ \A i \in 1..Len(doc) :
           other[i] = IF i = 1 THEN [doc[1] EXCEPT !.key = key] ELSE doc[i]
  BY <1>1
<1> HIDE DEF other
<1>3. ASSUME NEW i \in 1..Len(doc)
      PROVE  /\ other[i] \in Nodes /\ other[i].kind = doc[i].kind /\ other[i].text = doc[i].text
             /\ i # 1 => other[i].key = doc[i].key
  <2>1. doc[i] \in Nodes
    BY <1>1
  <2>2. CASE i = 1
    <3>1. other[i] = [doc[i] EXCEPT !.key = key]
      BY <1>2, <2>2
    <3> QED BY <2>1, <2>2, <3>1 DEF Nodes
  <2>3. CASE i # 1
    BY <1>2, <2>1, <2>3
  <2> QED BY <2>2, <2>3
<1>4. other \in Seq(Nodes) /\ Len(other) = Len(doc)
  <2>1. other = [i \in 1..Len(doc) |-> other[i]]
    <3>1. other = [i \in DOMAIN other |-> other[i]]
      BY DEF other
    <3> QED BY <1>2, <3>1
  <2> QED BY <1>1, <1>3, <2>1
<1>5. ASSUME NEW i \in 1..Len(doc) + 1 PROVE Around(other, i) = Around(doc, i)
  <2>1. i \in Nat \ {0} /\ \A j \in 1..i - 1 : j \in 1..Len(doc)
    BY <1>1
  <2> QED BY <1>3, <2>1, AroundSame
<1>6. other \in Documents
  <2>1. Len(doc) + 1 \in 1..Len(doc) + 1 /\ \A i \in 2..Len(doc) : i \in 1..Len(doc) + 1
    BY <1>1
  <2> QED BY <1>1, <1>4, <1>5, <2>1 DEF Documents, IsTree
<1>7. ASSUME NEW i \in 1..Len(doc) PROVE Parent(other, i) = Parent(doc, i)
  <2>1. i \in 1..Len(doc) + 1
    BY <1>1
  <2>2. PICK stack : Stack(doc, i, stack)
    BY <2>1, StackExists
  <2>3. ASSUME NEW k PROVE Opened(other, i, k) = Opened(doc, i, k)
    <3>1. \A j \in 1..i - 1 : j \in 1..Len(doc) /\ j \in 1..Len(doc) + 1
      BY <1>1
    <3> QED BY <1>3, <1>5, <3>1 DEF Opened
  <2>4. ASSUME NEW k, NEW j \in Opened(doc, i, k) PROVE other[j].kind = doc[j].kind
    <3>1. j \in 1..Len(doc)
      BY <1>1 DEF Opened
    <3> QED BY <1>3, <3>1
  <2>5. Stack(other, i, stack)
    BY <1>4, <1>5, <2>1, <2>2, <2>3, <2>4 DEF Stack
  <2> QED BY <1>6, <2>2, <2>5, StackParent
<1>8. ASSUME NEW format \in BOOLEAN, NEW i \in 1..Len(doc)
      PROVE  Full(other, i, format) = Full(doc, i, format)
  <2>1. /\ Parent(other, i) = Parent(doc, i) /\ Around(other, i) = Around(doc, i)
        /\ other[i].kind = doc[i].kind /\ other[i].text = doc[i].text
        /\ i # 1 => other[i].key = doc[i].key /\ other[i - 1].kind = doc[i - 1].kind
    <3>1. i \in 1..Len(doc) + 1 /\ (i # 1 => i - 1 \in 1..Len(doc))
      BY <1>1
    <3> QED BY <1>3, <1>5, <1>7, <3>1
  <2>2. Separator(other, i, format) = Separator(doc, i, format)
    BY <2>1 DEF Separator
  <2>3. LineStart(other, i, format) = LineStart(doc, i, format)
    BY <2>1 DEF LineStart
  <2>4. KeyText(other, i, format) = KeyText(doc, i, format)
    <3>1. CASE i = 1
      <4>1. Parent(doc, 1) = "none"
        BY AroundFirst DEF Parent
      <4> QED BY <2>1, <3>1, <4>1 DEF KeyText
    <3>2. CASE i # 1
      BY <2>1, <3>2 DEF KeyText
    <3> QED BY <3>1, <3>2
  <2>5. NodeText(other, i) = NodeText(doc, i)
    BY <2>1 DEF NodeText
  <2> QED BY <2>2, <2>3, <2>4, <2>5 DEF Full
<1>9. ASSUME NEW format \in BOOLEAN PROVE Rendered(other, format) = Rendered(doc, format)
  <2>1. Rendered(other, format) = FlattenSeq([i \in 1..Len(doc) |-> Full(other, i, format)])
    BY <1>2 DEF Rendered, Full
  <2>2. Rendered(doc, format) = FlattenSeq([i \in 1..Len(doc) |-> Full(doc, i, format)])
    BY <1>1 DEF Rendered, Full
  <2>3. [i \in 1..Len(doc) |-> Full(other, i, format)] = [i \in 1..Len(doc) |-> Full(doc, i, format)]
    BY <1>8
  <2> QED BY <2>1, <2>2, <2>3
<1> QED BY <1>4, <1>6, <1>9 DEF other
=============================================================================
