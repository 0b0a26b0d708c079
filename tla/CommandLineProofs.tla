------------------------- MODULE CommandLineProofs -------------------------
(***************************************************************************)
(* What ParseCommandLine makes of every line, of any length: the words of  *)
(* a quoted line, those of a line without quotes, and that nothing of a    *)
(* line is lost.                                                           *)
(*                                                                         *)
(* The parser is a loop over the characters, so these are inductions over  *)
(* the line.  They rest on NatsFromZero, which has a set where an          *)
(* induction theorem has a predicate: to prove a formula for all numbers,  *)
(* take the set of those for which it holds.                               *)
(***************************************************************************)
EXTENDS CommandLine, SequenceTheorems, WellFoundedInduction, TLAPS

-----------------------------------------------------------------------------
(* Induction. *)

LEMMA NatsFromZero ==
  ASSUME NEW T, 0 \in T, \A n \in Nat : n \in T => n + 1 \in T
  PROVE  \A n \in Nat : n \in T
<1> DEFINE Others == Nat \ T
           Less == OpToRel(<, Nat)
<1> SUFFICES ASSUME Others # {} PROVE FALSE
  OBVIOUS
<1>1. IsWellFoundedOn(Less, Nat)
  BY NatLessThanWellFounded
<1>2. Others \subseteq Nat
  OBVIOUS
<1>3. PICK x \in Others : \A y \in Others : <<y, x>> \notin Less
  <2> HIDE DEF Others, Less
  <2> QED BY <1>1, <1>2, WFMin
<1>4. x \in Nat /\ x # 0
  OBVIOUS
<1>5. x - 1 \in Nat /\ x = (x - 1) + 1
  BY <1>4
<1>6. x - 1 \in Others
  BY <1>5
<1>7. <<x - 1, x>> \in Less
  BY <1>4, <1>5 DEF OpToRel
<1> QED BY <1>3, <1>6, <1>7

\* A set that has the empty sequence, and with each sequence all that are longer by
\* one, has all sequences.
LEMMA SeqsFromEmpty ==
  ASSUME NEW S, NEW T, <<>> \in T, \A s \in Seq(S), e \in S : s \in T => Append(s, e) \in T
  PROVE  \A s \in Seq(S) : s \in T
<1> DEFINE N == {n \in Nat : \A s \in Seq(S) : Len(s) = n => s \in T}
<1>1. 0 \in N
  BY EmptySeq
<1>2. ASSUME NEW n \in Nat, n \in N PROVE n + 1 \in N
  <2> SUFFICES ASSUME NEW s \in Seq(S), Len(s) = n + 1 PROVE s \in T
    OBVIOUS
  <2>1. s # <<>>
    BY EmptySeq
  <2>2. PICK t \in Seq(S), e \in S : s = Append(t, e)
    BY <2>1, SequenceEmptyOrAppend
  <2>3. Len(t) = n
    BY <2>2, AppendProperties, LenProperties
  <2>4. t \in T
    BY <1>2, <2>3
  <2> QED BY <2>2, <2>4
<1>3. \A n \in Nat : n \in N
  <2> HIDE DEF N
  <2> QED BY <1>1, <1>2, NatsFromZero
<1>4. \A s \in Seq(S) : Len(s) \in N
  BY <1>3, LenProperties
<1> QED BY <1>4

-----------------------------------------------------------------------------
(* FlattenSeq. *)

\* f flattens the beginnings of s.
Flattens(f, s) == f = [i \in 1..Len(s) |-> IF i = 1 THEN s[i] ELSE f[i - 1] \o s[i]]

LEMMA FlattensValues ==
  ASSUME NEW s, NEW f, Flattens(f, s), NEW i \in 1..Len(s)
  PROVE  f[i] = IF i = 1 THEN s[i] ELSE f[i - 1] \o s[i]
BY Zenon DEF Flattens

LEMMA FlattensExists ==
  ASSUME NEW S
  PROVE  \A s \in Seq(Seq(S)) : \E f : Flattens(f, s)
<1> DEFINE T == {s \in Seq(Seq(S)) : \E f : Flattens(f, s)}
<1>1. <<>> \in T
  <2>1. <<>> \in Seq(Seq(S)) /\ Len(<<>>) = 0
    BY EmptySeq
  <2>2. Flattens(<<>>, <<>>)
    BY <2>1 DEF Flattens
  <2> QED BY <2>1, <2>2
<1>2. ASSUME NEW s \in Seq(Seq(S)), NEW w \in Seq(S), s \in T
      PROVE  Append(s, w) \in T
  <2> DEFINE t == Append(s, w)
             n == Len(s)
  <2>1. PICK f : Flattens(f, s)
    BY <1>2
  <2>2. /\ t \in Seq(Seq(S)) /\ n \in Nat /\ Len(t) = n + 1
        /\ \A i \in 1..n : t[i] = s[i]
    BY AppendProperties, LenProperties
  <2> DEFINE g == [i \in 1..n + 1 |-> IF i = 1 THEN t[1] ELSE IF i <= n THEN f[i] ELSE f[n] \o t[i]]
  <2>3. \A i \in 1..n : g[i] = f[i]
    BY <2>1, <2>2, FlattensValues
  <2>4. \A i \in 1..n + 1 : g[i] = IF i = 1 THEN t[i] ELSE g[i - 1] \o t[i]
    <3> SUFFICES ASSUME NEW i \in 1..n + 1 PROVE g[i] = IF i = 1 THEN t[i] ELSE g[i - 1] \o t[i]
      OBVIOUS
    <3>1. CASE i = 1
      BY <3>1
    <3>2. CASE i # 1 /\ i <= n
      <4>1. i \in 1..n /\ i - 1 \in 1..n
        BY <3>2, <2>2
      <4>2. f[i] = f[i - 1] \o s[i]
        BY <2>1, <3>2, <4>1, FlattensValues
      <4> QED BY <2>2, <2>3, <3>2, <4>1, <4>2
    <3>3. CASE i # 1 /\ i = n + 1
      <4>1. n \in 1..n /\ i - 1 = n
        BY <3>3, <2>2
      <4>2. g[n] = f[n]
        BY <2>3, <4>1
      <4>3. i # 1 /\ ~(i <= n) /\ i \in 1..n + 1
        BY <3>3, <2>2
      <4>4. g[i] = f[n] \o t[i]
        <5> HIDE DEF t, n
        <5> QED BY <4>3, Zenon
      <4> QED BY <3>3, <4>1, <4>2, <4>4
    <3> QED BY <2>2, <3>1, <3>2, <3>3
  <2>5. g = [i \in 1..n + 1 |-> IF i = 1 THEN t[i] ELSE g[i - 1] \o t[i]]
    <3> DEFINE h == [i \in 1..n + 1 |-> IF i = 1 THEN t[i] ELSE g[i - 1] \o t[i]]
    <3>1. DOMAIN g = 1..n + 1 /\ g = [i \in DOMAIN g |-> g[i]]
      OBVIOUS
    <3> HIDE DEF g
    <3> QED BY <2>4, <3>1
  <2>6. Flattens(g, t)
    <3> HIDE DEF g, t
    <3> QED BY <2>2, <2>5 DEF Flattens
  <2> QED BY <2>2, <2>6
<1> HIDE DEF T
<1>3. \A s \in Seq(Seq(S)) : s \in T
  BY <1>1, <1>2, SeqsFromEmpty
<1> QED BY <1>3 DEF T

\* So the definition of FlattenSeq is one.
LEMMA FlattenIs ==
  ASSUME NEW S, NEW s \in Seq(Seq(S)), s # <<>>
  PROVE  \E f : Flattens(f, s) /\ FlattenSeq(s) = f[Len(s)]
<1>1. Len(s) # 0
  BY EmptySeq
<1>2. \E f : f = [i \in 1..Len(s) |-> IF i = 1 THEN s[i] ELSE f[i - 1] \o s[i]]
  BY FlattensExists, Zenon DEF Flattens
<1> QED BY <1>1, <1>2, Zenon DEF FlattenSeq, Flattens

LEMMA FlattenEmpty == FlattenSeq(<<>>) = <<>>
BY EmptySeq DEF FlattenSeq

\* A sequence is flattened as the beginning of another one is.
LEMMA FlattensAgree ==
  ASSUME NEW s, NEW t, Len(s) \in Nat, Len(t) \in Nat, Len(s) <= Len(t),
         \A i \in 1..Len(s) : s[i] = t[i],
         NEW f, Flattens(f, s), NEW g, Flattens(g, t)
  PROVE  \A i \in 1..Len(s) : f[i] = g[i]
<1> DEFINE T == {i \in Nat : i \in 1..Len(s) => f[i] = g[i]}
<1>1. 0 \in T
  OBVIOUS
<1>2. ASSUME NEW i \in Nat, i \in T PROVE i + 1 \in T
  <2> SUFFICES ASSUME i + 1 \in 1..Len(s) PROVE f[i + 1] = g[i + 1]
    OBVIOUS
  <2>1. i + 1 \in 1..Len(s) /\ i + 1 \in 1..Len(t) /\ (i + 1) - 1 = i
    OBVIOUS
  <2>2. /\ f[i + 1] = IF i + 1 = 1 THEN s[i + 1] ELSE f[i] \o s[i + 1]
        /\ g[i + 1] = IF i + 1 = 1 THEN t[i + 1] ELSE g[i] \o t[i + 1]
    BY <2>1, FlattensValues
  <2>3. i + 1 # 1 => f[i] = g[i]
    BY <1>2
  <2> QED BY <2>2, <2>3
<1>3. \A i \in Nat : i \in T
  <2> HIDE DEF T
  <2> QED BY <1>1, <1>2, NatsFromZero
<1> QED BY <1>3

LEMMA FlattenAppend ==
  ASSUME NEW S, NEW s \in Seq(Seq(S)), NEW w \in Seq(S)
  PROVE  FlattenSeq(Append(s, w)) = FlattenSeq(s) \o w
<1> DEFINE t == Append(s, w)
           n == Len(s)
<1>1. /\ t \in Seq(Seq(S)) /\ t # <<>> /\ n \in Nat /\ Len(t) = n + 1
      /\ \A i \in 1..n : t[i] = s[i]
      /\ t[n + 1] = w
  BY AppendProperties, LenProperties
<1>2. PICK g : Flattens(g, t) /\ FlattenSeq(t) = g[n + 1]
  BY <1>1, FlattenIs
<1>3. g[n + 1] = IF n + 1 = 1 THEN w ELSE g[n] \o w
  <2>1. n + 1 \in 1..Len(t) /\ (n + 1) - 1 = n
    BY <1>1
  <2> HIDE DEF t, n
  <2> QED BY <1>1, <1>2, <2>1, FlattensValues
<1>4. CASE s = <<>>
  <2>1. FlattenSeq(s) = <<>> /\ n + 1 = 1
    BY <1>4, FlattenEmpty, EmptySeq
  <2> QED BY <1>2, <1>3, <2>1, ConcatEmptySeq
<1>5. CASE s # <<>>
  <2>1. PICK f : Flattens(f, s) /\ FlattenSeq(s) = f[n]
    BY <1>5, FlattenIs
  <2>2. n # 0
    BY <1>5, EmptySeq
  <2>3. \A i \in 1..n : f[i] = g[i]
    <3>1. Len(s) \in Nat /\ Len(t) \in Nat /\ Len(s) <= Len(t)
      BY <1>1
    <3>2. \A i \in 1..Len(s) : s[i] = t[i]
      BY <1>1
    <3> HIDE DEF t
    <3>3. \A i \in 1..Len(s) : f[i] = g[i]
      BY <1>2, <2>1, <3>1, <3>2, FlattensAgree
    <3> QED BY <3>3
  <2>4. f[n] = g[n]
    BY <1>1, <2>2, <2>3
  <2> QED BY <1>1, <1>2, <1>3, <2>1, <2>2, <2>4
<1> QED BY <1>4, <1>5

LEMMA FlattenType ==
  ASSUME NEW S
  PROVE  \A s \in Seq(Seq(S)) : FlattenSeq(s) \in Seq(S)
<1> DEFINE T == {s \in Seq(Seq(S)) : FlattenSeq(s) \in Seq(S)}
<1>1. <<>> \in T
  BY FlattenEmpty, EmptySeq
<1>2. ASSUME NEW s \in Seq(Seq(S)), NEW w \in Seq(S), s \in T PROVE Append(s, w) \in T
  BY <1>2, FlattenAppend, ConcatProperties, AppendProperties
<1> HIDE DEF T
<1>3. \A s \in Seq(Seq(S)) : s \in T
  BY <1>1, <1>2, SeqsFromEmpty
<1> QED BY <1>3 DEF T

-----------------------------------------------------------------------------
(* The loop. *)

\* f has the parser's states at the beginnings of s.
Reads(f, p, s) ==
  f = [k \in 0..Len(s) |-> IF k = 0 THEN p ELSE ReadChar(f[k - 1], s[k])]

LEMMA ReadsValues ==
  ASSUME NEW p, NEW s, NEW f, Reads(f, p, s), NEW k \in 0..Len(s)
  PROVE  f[k] = IF k = 0 THEN p ELSE ReadChar(f[k - 1], s[k])
BY Zenon DEF Reads

LEMMA ReadsExists ==
  ASSUME NEW p, NEW S
  PROVE  \A s \in Seq(S) : \E f : Reads(f, p, s)
<1> DEFINE T == {s \in Seq(S) : \E f : Reads(f, p, s)}
<1>1. <<>> \in T
  <2>1. <<>> \in Seq(S) /\ Len(<<>>) = 0
    BY EmptySeq
  <2> DEFINE f == [k \in 0..0 |-> p]
  <2>2. f = [k \in 0..0 |-> IF k = 0 THEN p ELSE ReadChar(f[k - 1], <<>>[k])]
    OBVIOUS
  <2>3. Reads(f, p, <<>>)
    BY <2>1, <2>2 DEF Reads
  <2> QED BY <2>1, <2>3
<1>2. ASSUME NEW s \in Seq(S), NEW e \in S, s \in T
      PROVE  Append(s, e) \in T
  <2> DEFINE t == Append(s, e)
             n == Len(s)
  <2>1. PICK f : Reads(f, p, s)
    BY <1>2
  <2>2. /\ t \in Seq(S) /\ n \in Nat /\ Len(t) = n + 1
        /\ \A k \in 1..n : t[k] = s[k]
    BY AppendProperties, LenProperties
  <2> DEFINE g == [k \in 0..n + 1 |-> IF k <= n THEN f[k] ELSE ReadChar(f[n], t[k])]
  <2>3. \A k \in 0..n : g[k] = f[k]
    BY <2>2
  <2>4. \A k \in 0..n + 1 : g[k] = IF k = 0 THEN p ELSE ReadChar(g[k - 1], t[k])
    <3> SUFFICES ASSUME NEW k \in 0..n + 1 PROVE g[k] = IF k = 0 THEN p ELSE ReadChar(g[k - 1], t[k])
      OBVIOUS
    <3>1. CASE k <= n
      <4>1. k \in 0..n
        BY <2>2, <3>1
      <4>2. f[k] = IF k = 0 THEN p ELSE ReadChar(f[k - 1], s[k])
        BY <2>1, <4>1, ReadsValues
      <4>3. k # 0 => k - 1 \in 0..n /\ k \in 1..n
        BY <2>2, <4>1
      <4> HIDE DEF g, t, n
      <4> QED BY <2>2, <2>3, <4>1, <4>2, <4>3
    <3>2. CASE k = n + 1
      <4>1. k # 0 /\ ~(k <= n) /\ k - 1 = n /\ n \in 0..n
        BY <2>2, <3>2
      <4>2. g[k] = ReadChar(f[n], t[k])
        <5> HIDE DEF t, n
        <5> QED BY <4>1, Zenon
      <4>3. g[n] = f[n]
        BY <2>3, <4>1
      <4> HIDE DEF g
      <4> QED BY <4>1, <4>2, <4>3
    <3> QED BY <2>2, <3>1, <3>2
  <2>5. g = [k \in 0..n + 1 |-> IF k = 0 THEN p ELSE ReadChar(g[k - 1], t[k])]
    <3>1. DOMAIN g = 0..n + 1 /\ g = [k \in DOMAIN g |-> g[k]]
      OBVIOUS
    <3> HIDE DEF g
    <3> QED BY <2>4, <3>1
  <2>6. Reads(g, p, t)
    <3> HIDE DEF g, t
    <3> QED BY <2>2, <2>5 DEF Reads
  <2> QED BY <2>2, <2>6
<1> HIDE DEF T
<1>3. \A s \in Seq(S) : s \in T
  BY <1>1, <1>2, SeqsFromEmpty
<1> QED BY <1>3 DEF T

LEMMA ReadAllIs ==
  ASSUME NEW p, NEW S, NEW s \in Seq(S)
  PROVE  \E f : Reads(f, p, s) /\ ReadAll(p, s) = f[Len(s)]
<1>1. \E f : Reads(f, p, s)
  BY ReadsExists
<1>2. \E f : f = [k \in 0..Len(s) |-> IF k = 0 THEN p ELSE ReadChar(f[k - 1], s[k])]
  BY <1>1, Zenon DEF Reads
<1> QED BY <1>2, Zenon DEF ReadAll, Reads

LEMMA ReadAllEmpty == ASSUME NEW p PROVE ReadAll(p, <<>>) = p
<1>1. <<>> \in Seq({}) /\ Len(<<>>) = 0
  BY EmptySeq
<1>2. PICK f : Reads(f, p, <<>>) /\ ReadAll(p, <<>>) = f[0]
  BY <1>1, ReadAllIs
<1> QED BY <1>1, <1>2, ReadsValues

LEMMA ReadsAgree ==
  ASSUME NEW p, NEW s, NEW t, Len(s) \in Nat, Len(t) \in Nat, Len(s) <= Len(t),
         \A k \in 1..Len(s) : s[k] = t[k],
         NEW f, Reads(f, p, s), NEW g, Reads(g, p, t)
  PROVE  \A k \in 0..Len(s) : f[k] = g[k]
<1> DEFINE T == {k \in Nat : k \in 0..Len(s) => f[k] = g[k]}
<1>1. 0 \in T
  <2>1. f[0] = p /\ g[0] = p
    BY ReadsValues
  <2> QED BY <2>1
<1>2. ASSUME NEW k \in Nat, k \in T PROVE k + 1 \in T
  <2> SUFFICES ASSUME k + 1 \in 0..Len(s) PROVE f[k + 1] = g[k + 1]
    OBVIOUS
  <2>1. k + 1 \in 0..Len(s) /\ k + 1 \in 0..Len(t) /\ (k + 1) - 1 = k /\ k + 1 # 0
    OBVIOUS
  <2>2. f[k + 1] = ReadChar(f[k], s[k + 1]) /\ g[k + 1] = ReadChar(g[k], t[k + 1])
    BY <2>1, ReadsValues
  <2>3. f[k] = g[k] /\ s[k + 1] = t[k + 1]
    BY <1>2
  <2> QED BY <2>2, <2>3
<1>3. \A k \in Nat : k \in T
  <2> HIDE DEF T
  <2> QED BY <1>1, <1>2, NatsFromZero
<1> QED BY <1>3

LEMMA ReadAllAppend ==
  ASSUME NEW p, NEW S, NEW s \in Seq(S), NEW e \in S
  PROVE  ReadAll(p, Append(s, e)) = ReadChar(ReadAll(p, s), e)
<1> DEFINE t == Append(s, e)
           n == Len(s)
<1>1. /\ t \in Seq(S) /\ n \in Nat /\ Len(t) = n + 1
      /\ \A k \in 1..n : t[k] = s[k]
      /\ t[n + 1] = e
  BY AppendProperties, LenProperties
<1>2. PICK g : Reads(g, p, t) /\ ReadAll(p, t) = g[n + 1]
  BY <1>1, ReadAllIs
<1>3. PICK f : Reads(f, p, s) /\ ReadAll(p, s) = f[n]
  BY ReadAllIs
<1>4. g[n + 1] = ReadChar(g[n], e)
  <2>1. n + 1 \in 0..Len(t) /\ (n + 1) - 1 = n /\ n + 1 # 0
    BY <1>1
  <2> HIDE DEF t, n
  <2> QED BY <1>1, <1>2, <2>1, ReadsValues
<1>5. f[n] = g[n]
  <2>1. Len(s) \in Nat /\ Len(t) \in Nat /\ Len(s) <= Len(t)
    BY <1>1
  <2>2. \A k \in 1..Len(s) : s[k] = t[k]
    BY <1>1
  <2> HIDE DEF t
  <2>3. \A k \in 0..Len(s) : f[k] = g[k]
    BY <1>2, <1>3, <2>1, <2>2, ReadsAgree
  <2> QED BY <2>1, <2>3
<1> QED BY <1>2, <1>3, <1>4, <1>5

LEMMA AppendConcat ==
  ASSUME NEW S, NEW s \in Seq(S), NEW t \in Seq(S), NEW e \in S
  PROVE  s \o Append(t, e) = Append(s \o t, e)
<1>1. Append(t, e) = t \o <<e>> /\ Append(s \o t, e) = (s \o t) \o <<e>> /\ <<e>> \in Seq(S)
  BY AppendIsConcat, ConcatProperties
<1> QED BY <1>1, ConcatAssociative

\* A line can be read in two parts.
LEMMA ReadAllConcat ==
  ASSUME NEW p, NEW S, NEW s \in Seq(S)
  PROVE  \A t \in Seq(S) : ReadAll(p, s \o t) = ReadAll(ReadAll(p, s), t)
<1> DEFINE T == {t \in Seq(S) : ReadAll(p, s \o t) = ReadAll(ReadAll(p, s), t)}
<1>1. <<>> \in T
  BY ReadAllEmpty, ConcatEmptySeq, EmptySeq
<1>2. ASSUME NEW t \in Seq(S), NEW e \in S, t \in T PROVE Append(t, e) \in T
  <2>1. s \o t \in Seq(S) /\ Append(t, e) \in Seq(S)
    BY ConcatProperties, AppendProperties
  <2>2. ReadAll(p, s \o Append(t, e)) = ReadChar(ReadAll(p, s \o t), e)
    <3>1. s \o Append(t, e) = Append(s \o t, e)
      BY AppendConcat
    <3>2. ASSUME NEW r \in Seq(S) PROVE ReadAll(p, Append(r, e)) = ReadChar(ReadAll(p, r), e)
      BY ReadAllAppend
    <3> QED BY <2>1, <3>1, <3>2
  <2>3. ReadAll(ReadAll(p, s), Append(t, e)) = ReadChar(ReadAll(ReadAll(p, s), t), e)
    BY ReadAllAppend
  <2> QED BY <1>2, <2>1, <2>2, <2>3
<1> HIDE DEF T
<1>3. \A t \in Seq(S) : t \in T
  BY <1>1, <1>2, SeqsFromEmpty
<1> QED BY <1>3 DEF T

-----------------------------------------------------------------------------
(* Types. *)

Lasts == Char \cup {"none", "?"}
Parsers ==
  [parts : Seq(Word), item : Word, open : BOOLEAN, last : Lasts, ok : BOOLEAN]

LEMMA SpecialChars == Special \subseteq Char
BY DEF Char

LEMMA AddType == ASSUME NEW p \in Parsers, NEW ch \in Char PROVE Add(p, ch) \in Parsers
<1>1. Append(p.item, ch) \in Word
  BY AppendProperties DEF Parsers, Word
<1> QED BY <1>1 DEF Add, Parsers

LEMMA EndItemType == ASSUME NEW p \in Parsers PROVE EndItem(p) \in Parsers
<1>1. Append(p.parts, p.item) \in Seq(Word) /\ <<>> \in Word
  BY AppendProperties, EmptySeq DEF Parsers, Word
<1> QED BY <1>1 DEF EndItem, Parsers

LEMMA OpenedType ==
  ASSUME NEW p \in Parsers, NEW b \in BOOLEAN
  PROVE  [p EXCEPT !.open = b] \in Parsers
BY DEF Parsers

LEMMA AcceptType == ASSUME NEW p \in Parsers, NEW ch \in Char PROVE Accept(p, ch) \in Parsers
<1>1. \A c \in Char : Add(p, c) \in Parsers
  BY AddType
<1>2. EndItem(p) \in Parsers /\ EndItem([p EXCEPT !.open = FALSE]) \in Parsers
  BY EndItemType, OpenedType
<1>3. Refuse(p) \in Parsers
  BY DEF Refuse, Parsers
<1>4. AtSpace(p) \in Parsers /\ AtQuote(p) \in Parsers
  BY <1>1, <1>2, OpenedType, SpecialChars DEF AtSpace, AtQuote, Special
<1>5. Backslash \in Char /\ Apostrophe \in Char
  BY SpecialChars DEF Special
<1> QED BY <1>1, <1>3, <1>4, <1>5 DEF Accept

LEMMA ReadCharType == ASSUME NEW p \in Parsers, NEW ch \in Char PROVE ReadChar(p, ch) \in Parsers
<1>1. Accept(p, ch) \in Parsers
  BY AcceptType
<1>2. (IF p.last = Backslash /\ ch = Backslash THEN "?" ELSE ch) \in Lasts
  BY DEF Lasts
<1> QED BY <1>1, <1>2 DEF ReadChar, Parsers

LEMMA StartType == Start \in Parsers
BY EmptySeq DEF Start, Parsers, Word, Lasts

LEMMA ReadAllType ==
  ASSUME NEW p \in Parsers
  PROVE  \A line \in Word : ReadAll(p, line) \in Parsers
<1> DEFINE T == {line \in Word : ReadAll(p, line) \in Parsers}
<1>1. <<>> \in T
  BY ReadAllEmpty, EmptySeq DEF Word
<1>2. ASSUME NEW s \in Seq(Char), NEW e \in Char, s \in T PROVE Append(s, e) \in T
  BY <1>2, ReadAllAppend, ReadCharType, AppendProperties DEF Word
<1> HIDE DEF T
<1>3. \A s \in Seq(Char) : s \in T
  BY <1>1, <1>2, SeqsFromEmpty
<1> QED BY <1>3 DEF T, Word

LEMMA AtEndType == ASSUME NEW p \in Parsers PROVE AtEnd(p) \in Parsers
<1>1. EndItem(p) \in Parsers
  BY EndItemType
<1>2. Refuse(p) \in Parsers
  BY DEF Refuse, Parsers
<1> QED BY <1>1, <1>2 DEF AtEnd

LEMMA WordsConcat == \A s, t \in Word : s \o t \in Word
BY ConcatProperties DEF Word

LEMMA WordsAppend == \A s \in Word, ch \in Char : Append(s, ch) \in Word
BY AppendProperties DEF Word

LEMMA WordOfOne == <<>> \in Word /\ \A ch \in Char : <<ch>> \in Word /\ <<ch>> = Append(<<>>, ch)
BY EmptySeq DEF Word

\* A line that is longer by a character, a line of one, and one in two parts.
LEMMA ReadMore ==
  \A p : \A s \in Word, ch \in Char : ReadAll(p, Append(s, ch)) = ReadChar(ReadAll(p, s), ch)
BY ReadAllAppend DEF Word

LEMMA ReadOne == \A p : \A ch \in Char : ReadAll(p, <<ch>>) = ReadChar(p, ch)
<1> SUFFICES ASSUME NEW p, NEW ch \in Char PROVE ReadAll(p, <<ch>>) = ReadChar(p, ch)
  OBVIOUS
<1>1. ReadAll(p, <<>>) = p
  BY ReadAllEmpty
<1>2. ReadAll(p, Append(<<>>, ch)) = ReadChar(ReadAll(p, <<>>), ch)
  BY WordOfOne, ReadMore
<1> QED BY <1>1, <1>2, WordOfOne

LEMMA ReadTwo ==
  \A p : \A s, t \in Word : ReadAll(p, s \o t) = ReadAll(ReadAll(p, s), t)
BY ReadAllConcat DEF Word

\* Whatever the line, ParseCommandLine returns words and whether they count
\* (utils.go:49-117).
THEOREM ParseType ==
  ASSUME NEW line \in Word
  PROVE  ParseCommandLine(line) \in [ok : BOOLEAN, parts : Seq(Word)]
<1> DEFINE p == ReadAll(Start, line)
           q == IF p.ok /\ EndNoticed(line) THEN AtEnd(p) ELSE p
<1>1. p \in Parsers
  BY StartType, ReadAllType
<1>2. q \in Parsers
  BY <1>1, AtEndType
<1>3. ParseCommandLine(line) = [ok |-> q.ok, parts |-> q.parts]
  BY DEF ParseCommandLine
<1> HIDE DEF q
<1> QED BY <1>2, <1>3 DEF Parsers


-----------------------------------------------------------------------------
(* What a quoted line means. *)

\* A sequence that is longer by one than another and else the same.
LEMMA LongerByOne ==
  ASSUME NEW R, NEW n \in Nat, NEW f \in [1..n -> R], NEW g \in [1..n + 1 -> R],
         \A k \in 1..n : g[k] = f[k],
         NEW x, g[n + 1] = x
  PROVE  f \in Seq(R) /\ x \in R /\ g = Append(f, x)
<1>1. f \in Seq(R) /\ Len(f) = n /\ g \in Seq(R) /\ Len(g) = n + 1
  OBVIOUS
<1>2. x \in R
  OBVIOUS
<1>3. /\ Append(f, x) \in Seq(R) /\ Len(Append(f, x)) = n + 1
      /\ \A k \in 1..n : Append(f, x)[k] = f[k]
      /\ Append(f, x)[n + 1] = x
  BY <1>1, <1>2, AppendProperties
<1>4. \A k \in 1..n + 1 : g[k] = Append(f, x)[k]
  BY <1>3
<1>5. g = Append(f, x)
  BY <1>1, <1>3, <1>4, SeqEqual
<1> QED BY <1>1, <1>2, <1>5

EscapeOf(ch) == IF ch \in {Backslash, Quote} THEN <<Backslash, ch>> ELSE <<ch>>

LEMMA EscapeType == \A ch \in Char : EscapeOf(ch) \in Word
BY SpecialChars DEF EscapeOf, Word, Special

LEMMA EscapedAppend ==
  ASSUME NEW word \in Word, NEW ch \in Char
  PROVE  /\ Escaped(word) \in Word
         /\ Escaped(Append(word, ch)) = Escaped(word) \o EscapeOf(ch)
<1> DEFINE more == Append(word, ch)
           f == [k \in DOMAIN word |-> EscapeOf(word[k])]
           g == [k \in DOMAIN more |-> EscapeOf(more[k])]
           n == Len(word)
<1>1. /\ word \in Seq(Char) /\ n \in Nat /\ DOMAIN word = 1..n
      /\ more \in Seq(Char) /\ DOMAIN more = 1..n + 1
      /\ \A k \in 1..n : more[k] = word[k]
      /\ more[n + 1] = ch
  BY AppendProperties, LenProperties DEF Word
<1>2. f \in [DOMAIN word -> Seq(Char)]
  BY <1>1, EscapeType, ElementOfSeq DEF Word
<1>3. g \in [DOMAIN more -> Seq(Char)]
  BY <1>1, EscapeType, ElementOfSeq DEF Word
<1>4. \A k \in DOMAIN word : g[k] = f[k]
  BY <1>1
<1>5. g[n + 1] = EscapeOf(ch)
  BY <1>1
<1>6. f \in Seq(Seq(Char)) /\ g = Append(f, EscapeOf(ch))
  <2>1. n \in Nat /\ f \in [1..n -> Seq(Char)] /\ g \in [1..n + 1 -> Seq(Char)]
    BY <1>1, <1>2, <1>3
  <2>2. \A k \in 1..n : g[k] = f[k]
    BY <1>1, <1>4
  <2> HIDE DEF f, g, n, more
  <2> QED BY <1>5, <2>1, <2>2, LongerByOne
<1>7. FlattenSeq(g) = FlattenSeq(f) \o EscapeOf(ch)
  BY <1>6, EscapeType, FlattenAppend DEF Word
<1>8. FlattenSeq(f) \in Word
  BY <1>6, FlattenType DEF Word
<1>9. Escaped(word) = FlattenSeq(f) /\ Escaped(more) = FlattenSeq(g)
  BY DEF Escaped, EscapeOf
<1> QED BY <1>7, <1>8, <1>9

LEMMA EscapedEmpty == Escaped(<<>>) = <<>>
<1>1. Escaped(<<>>) = FlattenSeq(<<>>)
  BY DEF Escaped
<1> QED BY <1>1, FlattenEmpty

\* In quotes, after these words and with item of the next one read.  The next
\* character is not escaped.
InWord(p, parts, item) ==
  /\ p \in Parsers
  /\ p.ok /\ p.open
  /\ p.parts = parts /\ p.item = item
  /\ p.last # Backslash

\* After these words, with nothing read of another one.
Between(p, parts) ==
  /\ p \in Parsers
  /\ p.ok /\ ~p.open
  /\ p.parts = parts /\ p.item = <<>>

LEMMA ReadEscape ==
  ASSUME NEW p, NEW parts, NEW item, InWord(p, parts, item), NEW ch \in Char
  PROVE  InWord(ReadAll(p, EscapeOf(ch)), parts, Append(item, ch))
<1>1. CASE ch \in {Backslash, Quote}
  <2> DEFINE q == ReadChar(p, Backslash)
  <2>1. Backslash \in Char /\ ReadAll(p, EscapeOf(ch)) = ReadChar(q, ch)
    <3>1. Backslash \in Char
      BY SpecialChars DEF Special
    <3>2. <<Backslash, ch>> = Append(<<Backslash>>, ch)
      OBVIOUS
    <3>3. ReadAll(p, <<Backslash>>) = q
      BY <3>1, ReadOne
    <3>4. ReadAll(p, Append(<<Backslash>>, ch)) = ReadChar(ReadAll(p, <<Backslash>>), ch)
      BY <3>1, WordOfOne, ReadMore
    <3> QED BY <1>1, <3>1, <3>2, <3>3, <3>4 DEF EscapeOf
  <2>2. q \in Parsers
    BY <2>1, ReadCharType DEF InWord
  <2>3. q = [p EXCEPT !.last = Backslash]
    BY DEF ReadChar, Accept, InWord, Parsers, Backslash, Apostrophe, Space, Quote
  <2>4. ReadChar(q, ch) \in Parsers
    BY <2>2, ReadCharType
  <2>5. ReadChar(q, ch) = [Add(q, ch) EXCEPT !.last = IF ch = Backslash THEN "?" ELSE ch]
    BY <1>1, <2>3 DEF ReadChar, Accept, AtQuote, InWord, Parsers, Backslash, Quote, Apostrophe, Space
  <2> QED BY <1>1, <2>1, <2>3, <2>4, <2>5 DEF InWord, Add, Parsers, Backslash, Quote
<1>2. CASE ch \notin {Backslash, Quote}
  <2>1. ReadAll(p, EscapeOf(ch)) = ReadChar(p, ch)
    BY <1>2, ReadOne DEF EscapeOf
  <2>2. ReadChar(p, ch) \in Parsers
    BY ReadCharType DEF InWord
  <2>3. ReadChar(p, ch) = [Add(p, ch) EXCEPT !.last = ch]
    BY <1>2 DEF ReadChar, Accept, AtSpace, InWord, Parsers, Backslash, Quote, Apostrophe, Space
  <2> QED BY <1>2, <2>1, <2>2, <2>3 DEF InWord, Add, Parsers
<1> QED BY <1>1, <1>2

LEMMA ReadEscaped ==
  ASSUME NEW p, NEW parts, InWord(p, parts, <<>>)
  PROVE  \A word \in Word : InWord(ReadAll(p, Escaped(word)), parts, word)
<1> DEFINE T == {word \in Word : InWord(ReadAll(p, Escaped(word)), parts, word)}
<1>1. <<>> \in T
  BY EscapedEmpty, ReadAllEmpty, EmptySeq DEF Word
<1>2. ASSUME NEW word \in Seq(Char), NEW ch \in Char, word \in T PROVE Append(word, ch) \in T
  <2> DEFINE q == ReadAll(p, Escaped(word))
  <2>1. ReadAll(p, Escaped(Append(word, ch))) = ReadAll(q, EscapeOf(ch))
    <3>1. Escaped(word) \in Word /\ Escaped(Append(word, ch)) = Escaped(word) \o EscapeOf(ch)
      BY EscapedAppend DEF Word
    <3> QED BY <3>1, EscapeType, ReadTwo
  <2>2. InWord(q, parts, word)
    BY <1>2
  <2> HIDE DEF q
  <2>3. InWord(ReadAll(q, EscapeOf(ch)), parts, Append(word, ch))
    BY <2>2, ReadEscape
  <2> QED BY <2>1, <2>3, AppendProperties DEF Word
<1> HIDE DEF T
<1>3. \A word \in Seq(Char) : word \in T
  BY <1>1, <1>2, SeqsFromEmpty
<1> QED BY <1>3 DEF T, Word

LEMMA EscapedType == \A word \in Word : Escaped(word) \in Word
BY EscapedAppend, SpecialChars DEF Special

LEMMA ReadInQuotes ==
  ASSUME NEW p, NEW parts, Between(p, parts), NEW word \in Word
  PROVE  /\ InQuotes(word) \in Word
         /\ Between(ReadAll(p, InQuotes(word)), Append(parts, word))
<1> DEFINE a == ReadChar(p, Quote)
           b == ReadAll(a, Escaped(word))
           c == ReadChar(b, Quote)
<1>1. Quote \in Char /\ <<Quote>> \in Word
  BY SpecialChars, WordOfOne DEF Special
<1>2. Escaped(word) \in Word /\ <<Quote>> \o Escaped(word) \in Word
  BY <1>1, EscapedType, WordsConcat
<1>3. InQuotes(word) \in Word
  BY <1>1, <1>2, WordsConcat DEF InQuotes
<1>4. ReadAll(p, InQuotes(word)) = c
  <2>1. ReadAll(p, <<Quote>> \o Escaped(word)) = ReadAll(ReadAll(p, <<Quote>>), Escaped(word))
    BY <1>1, <1>2, ReadTwo
  <2>2. ReadAll(p, (<<Quote>> \o Escaped(word)) \o <<Quote>>)
          = ReadAll(ReadAll(p, <<Quote>> \o Escaped(word)), <<Quote>>)
    BY <1>1, <1>2, ReadTwo
  <2>3. ReadAll(p, <<Quote>>) = a /\ ReadAll(b, <<Quote>>) = c
    BY <1>1, ReadOne
  <2> QED BY <2>1, <2>2, <2>3 DEF InQuotes
<1>5. InWord(a, parts, <<>>)
  <2>1. a \in Parsers
    BY <1>1, ReadCharType DEF Between
  <2>2. a = [p EXCEPT !.open = TRUE, !.last = Quote]
    BY DEF ReadChar, Accept, AtQuote, Between, Parsers, Backslash, Quote, Apostrophe, Space
  <2> QED BY <2>1, <2>2 DEF InWord, Between, Parsers, Backslash, Quote
<1>6. InWord(b, parts, word)
  <2> HIDE DEF a
  <2> QED BY <1>5, ReadEscaped
<1>7. Between(c, Append(parts, word))
  <2> HIDE DEF b
  <2>1. c \in Parsers
    BY <1>1, <1>6, ReadCharType DEF InWord
  <2>2. c = [EndItem([b EXCEPT !.open = FALSE]) EXCEPT !.last = Quote]
    BY <1>6 DEF ReadChar, Accept, AtQuote, InWord, Parsers, Backslash, Quote, Apostrophe, Space
  <2> QED BY <1>6, <2>1, <2>2 DEF InWord, Between, EndItem, Parsers
<1> QED BY <1>3, <1>4, <1>7

\* A line for these words and one more.
LEMMA LineOfAppend ==
  ASSUME NEW words \in Seq(Word), NEW word \in Word
  PROVE  /\ LineOf(words) \in Word
         /\ LineOf(Append(words, word)) =
              LineOf(words) \o (IF words = <<>> THEN InQuotes(word) ELSE <<Space>> \o InQuotes(word))
<1> DEFINE Put(w, k) == IF k = 1 THEN InQuotes(w) ELSE <<Space>> \o InQuotes(w)
           more == Append(words, word)
           f == [k \in DOMAIN words |-> Put(words[k], k)]
           g == [k \in DOMAIN more |-> Put(more[k], k)]
           n == Len(words)
<1>1. /\ n \in Nat /\ DOMAIN words = 1..n
      /\ more \in Seq(Word) /\ DOMAIN more = 1..n + 1
      /\ \A k \in 1..n : more[k] = words[k]
      /\ more[n + 1] = word
      /\ n = 0 <=> words = <<>>
  BY AppendProperties, LenProperties, EmptySeq
<1>2. ASSUME NEW w \in Word, NEW k PROVE Put(w, k) \in Seq(Char)
  <2>1. <<Quote>> \in Seq(Char) /\ <<Space>> \in Seq(Char) /\ Escaped(w) \in Seq(Char)
    BY EscapedType, SpecialChars DEF Word, Special
  <2>2. InQuotes(w) \in Seq(Char)
    BY <2>1, ConcatProperties DEF InQuotes
  <2>3. <<Space>> \o InQuotes(w) \in Seq(Char)
    BY <2>1, <2>2, ConcatProperties
  <2> QED BY <2>2, <2>3
<1>3. f \in [DOMAIN words -> Seq(Char)] /\ g \in [DOMAIN more -> Seq(Char)]
  <2>1. \A k \in DOMAIN words : words[k] \in Word
    BY <1>1, ElementOfSeq
  <2>2. \A k \in DOMAIN more : more[k] \in Word
    BY <1>1, <2>1
  <2> HIDE DEF Put, more
  <2> QED BY <1>2, <2>1, <2>2
<1>4. \A k \in DOMAIN words : g[k] = f[k]
  BY <1>1
<1>5. g[n + 1] = Put(word, n + 1)
  BY <1>1
<1>6. f \in Seq(Seq(Char)) /\ Put(word, n + 1) \in Seq(Char) /\ g = Append(f, Put(word, n + 1))
  <2> DEFINE x == Put(word, n + 1)
  <2>1. n \in Nat /\ f \in [1..n -> Seq(Char)] /\ g \in [1..n + 1 -> Seq(Char)]
    BY <1>1, <1>3
  <2>2. \A k \in 1..n : g[k] = f[k]
    BY <1>1, <1>4
  <2>3. g[n + 1] = x
    BY <1>5
  <2> HIDE DEF f, g, n, more, x
  <2>4. f \in Seq(Seq(Char)) /\ x \in Seq(Char) /\ g = Append(f, x)
    BY <2>1, <2>2, <2>3, LongerByOne
  <2> QED BY <2>4 DEF x
<1>7. FlattenSeq(g) = FlattenSeq(f) \o Put(word, n + 1) /\ FlattenSeq(f) \in Word
  <2> HIDE DEF f, g, Put
  <2> QED BY <1>6, FlattenAppend, FlattenType DEF Word
<1>8. LineOf(words) = FlattenSeq(f) /\ LineOf(more) = FlattenSeq(g)
  BY DEF LineOf
<1>9. Put(word, n + 1) = IF words = <<>> THEN InQuotes(word) ELSE <<Space>> \o InQuotes(word)
  BY <1>1
<1> HIDE DEF f, g, Put
<1> QED BY <1>7, <1>8, <1>9

LEMMA ReadLineOf ==
  \A words \in Seq(Word) : Between(ReadAll(Start, LineOf(words)), words)
<1> DEFINE T == {words \in Seq(Word) : Between(ReadAll(Start, LineOf(words)), words)}
<1>1. <<>> \in T
  <2>1. LineOf(<<>>) = <<>>
    <3>1. LineOf(<<>>) = FlattenSeq(<<>>)
      BY DEF LineOf
    <3> QED BY <3>1, FlattenEmpty
  <2>2. Between(Start, <<>>)
    BY StartType DEF Between, Start
  <2> QED BY <2>1, <2>2, ReadAllEmpty, EmptySeq
<1>2. ASSUME NEW words \in Seq(Word), NEW word \in Word, words \in T PROVE Append(words, word) \in T
  <2> DEFINE p == ReadAll(Start, LineOf(words))
             q == ReadChar(p, Space)
  <2>1. Between(p, words)
    BY <1>2
  <2>2. Space \in Char /\ <<Space>> \in Word /\ LineOf(words) \in Word
    BY SpecialChars, WordOfOne, LineOfAppend DEF Special
  <2>3. InQuotes(word) \in Word
    BY <2>1, ReadInQuotes
  <2>4. CASE words = <<>>
    <3>1. ReadAll(Start, LineOf(Append(words, word))) = ReadAll(p, InQuotes(word))
      <4>1. LineOf(Append(words, word)) = LineOf(words) \o InQuotes(word)
        BY <2>4, LineOfAppend
      <4> QED BY <2>2, <2>3, <4>1, ReadTwo
    <3> HIDE DEF p
    <3> QED BY <2>1, <3>1, ReadInQuotes, AppendProperties
  <2>5. CASE words # <<>>
    <3>1. Between(q, words)
      <4>1. q \in Parsers
        BY <2>1, <2>2, ReadCharType DEF Between
      <4>2. q = [p EXCEPT !.last = Space]
        BY <2>1 DEF ReadChar, Accept, AtSpace, Between, Parsers, Backslash, Apostrophe, Space, Quote
      <4> HIDE DEF p, q
      <4> QED BY <2>1, <4>1, <4>2 DEF Between, Parsers
    <3>2. ReadAll(Start, LineOf(Append(words, word))) = ReadAll(q, InQuotes(word))
      <4>1. LineOf(Append(words, word)) = LineOf(words) \o (<<Space>> \o InQuotes(word))
        BY <2>5, LineOfAppend
      <4>2. <<Space>> \o InQuotes(word) \in Word
        BY <2>2, <2>3, WordsConcat
      <4>3. ReadAll(Start, LineOf(Append(words, word))) = ReadAll(p, <<Space>> \o InQuotes(word))
        BY <2>2, <4>1, <4>2, ReadTwo
      <4>4. ReadAll(p, <<Space>> \o InQuotes(word)) = ReadAll(ReadAll(p, <<Space>>), InQuotes(word))
        BY <2>2, <2>3, ReadTwo
      <4>5. ReadAll(p, <<Space>>) = q
        BY <2>2, ReadOne
      <4> QED BY <4>3, <4>4, <4>5
    <3> HIDE DEF q
    <3> QED BY <3>1, <3>2, ReadInQuotes, AppendProperties
  <2> QED BY <2>4, <2>5
<1> HIDE DEF T
<1>3. \A words \in Seq(Word) : words \in T
  BY <1>1, <1>2, SeqsFromEmpty
<1> QED BY <1>3 DEF T

\* Any words, however many and whatever is in them, are what the parser makes of the
\* line that has each of them in quotes (utils.go:49-117).
THEOREM QuotedWordsAreRead ==
  ASSUME NEW words \in Seq(Word)
  PROVE  ParseCommandLine(LineOf(words)) = [ok |-> TRUE, parts |-> words]
<1> DEFINE p == ReadAll(Start, LineOf(words))
<1>1. Between(p, words)
  BY ReadLineOf
<1>2. p.ok /\ AtEnd(p) = p /\ p.parts = words
  BY <1>1 DEF Between, AtEnd
<1> QED BY <1>2 DEF ParseCommandLine

-----------------------------------------------------------------------------
(* What is kept of a line. *)

OrdinaryOf(ch) == IF ch \in Special THEN <<>> ELSE <<ch>>

LEMMA OrdinaryAppend ==
  ASSUME NEW s \in Word, NEW ch \in Char
  PROVE  /\ Ordinary(s) \in Word
         /\ Ordinary(Append(s, ch)) = Ordinary(s) \o OrdinaryOf(ch)
<1> DEFINE more == Append(s, ch)
           f == [k \in DOMAIN s |-> OrdinaryOf(s[k])]
           g == [k \in DOMAIN more |-> OrdinaryOf(more[k])]
           n == Len(s)
<1>1. /\ s \in Seq(Char) /\ n \in Nat /\ DOMAIN s = 1..n
      /\ more \in Seq(Char) /\ DOMAIN more = 1..n + 1
      /\ \A k \in 1..n : more[k] = s[k]
      /\ more[n + 1] = ch
  BY AppendProperties, LenProperties DEF Word
<1>2. \A c \in Char : OrdinaryOf(c) \in Seq(Char)
  BY WordOfOne DEF OrdinaryOf, Word
<1>3. f \in Seq(Seq(Char)) /\ g = Append(f, OrdinaryOf(ch))
  <2>1. n \in Nat /\ f \in [1..n -> Seq(Char)] /\ g \in [1..n + 1 -> Seq(Char)]
    BY <1>1, <1>2, ElementOfSeq
  <2>2. \A k \in 1..n : g[k] = f[k]
    BY <1>1
  <2>3. g[n + 1] = OrdinaryOf(ch)
    BY <1>1
  <2> HIDE DEF f, g, n, more
  <2> QED BY <2>1, <2>2, <2>3, LongerByOne
<1>4. FlattenSeq(g) = FlattenSeq(f) \o OrdinaryOf(ch)
  BY <1>2, <1>3, FlattenAppend
<1>5. FlattenSeq(f) \in Word
  BY <1>3, FlattenType DEF Word
<1>6. Ordinary(s) = FlattenSeq(f) /\ Ordinary(more) = FlattenSeq(g)
  BY DEF Ordinary, OrdinaryOf
<1> QED BY <1>4, <1>5, <1>6

\* What the parser has of the line.
Held(p) == FlattenSeq(p.parts) \o p.item

LEMMA HeldType == \A p \in Parsers : Held(p) \in Word
BY FlattenType, WordsConcat DEF Held, Parsers, Word

LEMMA HeldAdd ==
  ASSUME NEW p \in Parsers, NEW ch \in Char
  PROVE  Held(Add(p, ch)) = Append(Held(p), ch)
<1>1. FlattenSeq(p.parts) \in Seq(Char) /\ p.item \in Seq(Char)
  BY FlattenType DEF Parsers, Word
<1>2. Add(p, ch).parts = p.parts /\ Add(p, ch).item = Append(p.item, ch)
  BY DEF Add, Parsers
<1>3. \A s, t \in Seq(Char) : s \o Append(t, ch) = Append(s \o t, ch)
  BY AppendConcat
<1>4. FlattenSeq(p.parts) \o Append(p.item, ch) = Append(FlattenSeq(p.parts) \o p.item, ch)
  BY <1>1, <1>3
<1> QED BY <1>2, <1>4 DEF Held

LEMMA HeldEndItem ==
  ASSUME NEW p \in Parsers
  PROVE  Held(EndItem(p)) = Held(p) /\ EndItem(p).item = <<>>
<1>1. p.parts \in Seq(Seq(Char)) /\ p.item \in Seq(Char)
  BY DEF Parsers, Word
<1>2. EndItem(p).parts = Append(p.parts, p.item) /\ EndItem(p).item = <<>>
  BY DEF EndItem, Parsers
<1>3. FlattenSeq(Append(p.parts, p.item)) = FlattenSeq(p.parts) \o p.item
  BY <1>1, FlattenAppend
<1>4. Held(p) \o <<>> = Held(p)
  BY HeldType, ConcatEmptySeq DEF Word
<1> QED BY <1>2, <1>3, <1>4 DEF Held

\* The parser drops no character but special ones.
LEMMA HeldAccept ==
  ASSUME NEW p \in Parsers, NEW ch \in Char
  PROVE  Ordinary(Held(Accept(p, ch))) = Ordinary(Held(p)) \o OrdinaryOf(ch)
<1>1. Ordinary(Held(Add(p, ch))) = Ordinary(Held(p)) \o OrdinaryOf(ch)
  BY HeldAdd, HeldType, OrdinaryAppend
<1>2. CASE ch \in Special
  <2>1. Ordinary(Held(p)) \o OrdinaryOf(ch) = Ordinary(Held(p))
    BY <1>2, HeldType, OrdinaryAppend, ConcatEmptySeq DEF OrdinaryOf, Word
  <2>2. \A q \in Parsers : Held([q EXCEPT !.open = TRUE]) = Held(q) /\ Held([q EXCEPT !.open = FALSE]) = Held(q)
    BY DEF Held, Parsers
  <2>3. Held(Refuse(p)) = Held(p)
    BY DEF Held, Refuse, Parsers
  <2>4. Held(EndItem(p)) = Held(p) /\ Held(EndItem([p EXCEPT !.open = FALSE])) = Held(p)
    BY <2>2, HeldEndItem, OpenedType
  <2>5. Held(Accept(p, ch)) \in {Held(p), Held(Add(p, ch))}
    BY <1>2, <2>2, <2>3, <2>4 DEF Accept, AtSpace, AtQuote, Special
  <2> QED BY <1>1, <2>1, <2>5
<1>3. CASE ch \notin Special
  BY <1>1, <1>3 DEF Accept, Special
<1> QED BY <1>2, <1>3

LEMMA HeldReadChar ==
  ASSUME NEW p \in Parsers, NEW ch \in Char, ReadChar(p, ch).ok
  PROVE  /\ p.ok
         /\ Ordinary(Held(ReadChar(p, ch))) = Ordinary(Held(p)) \o OrdinaryOf(ch)
<1>1. p.ok
  BY DEF ReadChar
<1>2. Accept(p, ch) \in Parsers
  BY AcceptType
<1>3. Held(ReadChar(p, ch)) = Held(Accept(p, ch))
  BY <1>1, <1>2 DEF ReadChar, Held, Parsers
<1> QED BY <1>1, <1>3, HeldAccept

LEMMA HeldReadAll ==
  \A line \in Word :
    LET p == ReadAll(Start, line)
    IN  p.ok => Ordinary(Held(p)) = Ordinary(line)
<1> DEFINE T == {line \in Word : ReadAll(Start, line).ok =>
                   Ordinary(Held(ReadAll(Start, line))) = Ordinary(line)}
<1>1. <<>> \in T
  <2>1. Held(Start) = <<>>
    BY FlattenEmpty, EmptySeq, ConcatEmptySeq DEF Held, Start
  <2> QED BY <2>1, ReadAllEmpty, WordOfOne
<1>2. ASSUME NEW s \in Seq(Char), NEW ch \in Char, s \in T PROVE Append(s, ch) \in T
  <2> DEFINE p == ReadAll(Start, s)
  <2>1. s \in Word /\ Append(s, ch) \in Word
    BY WordsAppend DEF Word
  <2>2. p \in Parsers
    BY <2>1, StartType, ReadAllType
  <2>3. ReadAll(Start, Append(s, ch)) = ReadChar(p, ch)
    BY <2>1, ReadMore
  <2>4. p.ok => Ordinary(Held(p)) = Ordinary(s)
    BY <1>2
  <2>5. Ordinary(Append(s, ch)) = Ordinary(s) \o OrdinaryOf(ch)
    BY <2>1, OrdinaryAppend
  <2> HIDE DEF p
  <2>6. ReadChar(p, ch).ok => Ordinary(Held(ReadChar(p, ch))) = Ordinary(Append(s, ch))
    BY <2>2, <2>4, <2>5, HeldReadChar
  <2> QED BY <2>1, <2>3, <2>6
<1> HIDE DEF T
<1>3. \A s \in Seq(Char) : s \in T
  BY <1>1, <1>2, SeqsFromEmpty
<1> QED BY <1>3 DEF T, Word

\* Of a line that is not refused, and does not end in a character of several bytes,
\* the words have all that was typed, in its order (utils.go:49-117).
THEOREM NothingIsLost ==
  ASSUME NEW line \in Word, EndNoticed(line), ParseCommandLine(line).ok
  PROVE  Ordinary(FlattenSeq(ParseCommandLine(line).parts)) = Ordinary(line)
<1> DEFINE p == ReadAll(Start, line)
           q == AtEnd(p)
<1>1. p \in Parsers
  BY StartType, ReadAllType
<1>2. /\ p.ok
      /\ ParseCommandLine(line).parts = q.parts
      /\ q.ok
  <2>1. ParseCommandLine(line) =
          LET r == IF p.ok THEN q ELSE p IN [ok |-> r.ok, parts |-> r.parts]
    BY DEF ParseCommandLine
  <2> HIDE DEF p, q
  <2> QED BY <2>1
<1>3. Ordinary(Held(p)) = Ordinary(line)
  BY <1>2, HeldReadAll
<1> HIDE DEF p
<1>4. Held(q) = Held(p) /\ q.item = <<>>
  BY <1>1, <1>2, HeldEndItem DEF AtEnd, Refuse, Parsers
<1>5. q \in Parsers
  BY <1>1, AtEndType
<1> HIDE DEF q
<1>6. Held(q) = FlattenSeq(q.parts)
  <2>1. FlattenSeq(q.parts) \in Seq(Char)
    BY <1>5, FlattenType DEF Parsers, Word
  <2>2. FlattenSeq(q.parts) \o <<>> = FlattenSeq(q.parts)
    BY <2>1, ConcatEmptySeq
  <2> QED BY <1>4, <2>2 DEF Held
<1> QED BY <1>2, <1>3, <1>4, <1>6

\* A line that is not refused and ends in a character that is neither a space nor
\* encoded in several bytes has a word (utils.go:93-107, endpoint.go:191).
THEOREM AWordIsFound ==
  ASSUME NEW s \in Word, NEW ch \in Char \ Wides, ch # Space,
         ParseCommandLine(Append(s, ch)).ok
  PROVE  ParseCommandLine(Append(s, ch)).parts # <<>>
<1> DEFINE line == Append(s, ch)
           p == ReadAll(Start, s)
           q == ReadChar(p, ch)
           r == AtEnd(q)
<1>1. line # <<>> /\ Last(line) = ch
  BY AppendProperties, LenProperties DEF Last, Word
<1>2. EndNoticed(line)
  BY <1>1 DEF EndNoticed
<1>3. p \in Parsers /\ q \in Parsers
  BY StartType, ReadAllType, ReadCharType
<1>4. ReadAll(Start, line) = q
  BY ReadMore
<1>5. ParseCommandLine(line) = LET t == IF q.ok THEN r ELSE q IN [ok |-> t.ok, parts |-> t.parts]
  BY <1>2, <1>4 DEF ParseCommandLine
<1> HIDE DEF line, r, q
<1>6. q.ok /\ r.ok /\ ParseCommandLine(line).parts = r.parts
  BY <1>5 DEF line
<1>7. ~q.open
  BY <1>3, <1>6 DEF r, AtEnd, Refuse, Parsers
<1> HIDE DEF p
<1>8. q.parts # <<>> \/ q.item # <<>>
  <2>1. p.ok /\ Accept(p, ch) \in Parsers
    BY <1>3, <1>6, AcceptType DEF q, ReadChar
  <2>2. q.parts = Accept(p, ch).parts /\ q.item = Accept(p, ch).item
        /\ q.open = Accept(p, ch).open /\ q.ok = Accept(p, ch).ok
    BY <2>1 DEF q, ReadChar, Parsers
  <2>3. Append(p.item, ch) # <<>> /\ Append(p.parts, p.item) # <<>>
    <3>1. p.item \in Seq(Char) /\ p.parts \in Seq(Word) /\ p.item \in Word
      BY <1>3 DEF Parsers, Word
    <3> QED BY <3>1, AppendProperties
  <2>4. CASE ch \notin Special
    BY <1>3, <2>2, <2>3, <2>4 DEF Accept, Add, Special, Parsers
  <2>5. CASE ch = Quote
    BY <1>3, <1>7, <2>2, <2>3, <2>5
       DEF Accept, AtQuote, Add, EndItem, Parsers, Backslash, Apostrophe, Space, Quote
  <2>6. CASE ch \in {Backslash, Apostrophe}
    BY <1>3, <1>6, <1>7, <2>1, <2>2, <2>6
       DEF Accept, Add, Refuse, Parsers, Backslash, Apostrophe, Space, Quote
  <2> QED BY <2>4, <2>5, <2>6 DEF Special
<1>9. r.parts # <<>>
  <2>1. Append(q.parts, q.item) # <<>>
    BY <1>3, AppendProperties DEF Parsers
  <2> QED BY <1>3, <1>7, <1>8, <2>1 DEF r, AtEnd, EndItem, Parsers
<1> QED BY <1>6, <1>9 DEF line

-----------------------------------------------------------------------------
(* What a line without quotes means. *)

Starts(line) == {k \in DOMAIN line : StartsWord(line, k)}

\* The words are those of the line, which start at these places.
AreWordsAt(line, words, first) ==
  /\ first \in [1..Len(words) -> DOMAIN line]
  /\ \A i, j \in 1..Len(words) : i < j => first[i] < first[j]
  /\ {first[i] : i \in 1..Len(words)} = Starts(line)
  /\ \A i \in 1..Len(words) : IsWordAt(line, first[i], words[i])

\* The words that have ended, and the item if there is one.
WordsOf(p) == IF p.item = <<>> THEN p.parts ELSE Append(p.parts, p.item)

\* The item is a word that has not ended, if the line does not end in a space.
ItemEnds(p, line, first) ==
  IF p.item = <<>>
    THEN Len(line) = 0 \/ line[Len(line)] = Space
    ELSE LET b == first[Len(p.parts) + 1]
         IN  /\ p.item = SubSeq(line, b, Len(line))
             /\ \A m \in b..Len(line) : line[m] # Space

\* The parser after a line without quotes.
Splits(p, line) ==
  /\ p \in Parsers /\ p.ok /\ ~p.open
  /\ \E first : AreWordsAt(line, WordsOf(p), first) /\ ItemEnds(p, line, first)

LEMMA LineAppend ==
  ASSUME NEW line \in Word, NEW ch \in Char
  PROVE  /\ Len(line) \in Nat /\ DOMAIN line = 1..Len(line)
         /\ \A k \in 1..Len(line) : line[k] \in Char
         /\ Append(line, ch) \in Word /\ Len(Append(line, ch)) = Len(line) + 1
         /\ DOMAIN Append(line, ch) = 1..Len(line) + 1
         /\ \A k \in 1..Len(line) : Append(line, ch)[k] = line[k]
         /\ Append(line, ch)[Len(line) + 1] = ch
<1> DEFINE more == Append(line, ch)
<1>1. /\ Len(line) \in Nat /\ DOMAIN line = 1..Len(line)
      /\ \A k \in 1..Len(line) : line[k] \in Char
  BY LenProperties, ElementOfSeq DEF Word
<1>2. /\ more \in Word /\ Len(more) = Len(line) + 1
      /\ \A k \in 1..Len(line) : more[k] = line[k]
      /\ more[Len(line) + 1] = ch
  BY AppendProperties DEF Word
<1>3. DOMAIN more = 1..Len(line) + 1
  BY <1>2, LenProperties DEF Word
<1> QED BY <1>1, <1>2, <1>3

LEMMA SubSeqStays ==
  ASSUME NEW line \in Word, NEW ch \in Char, NEW k \in 1..Len(line), NEW e \in k..Len(line)
  PROVE  SubSeq(Append(line, ch), k, e) = SubSeq(line, k, e)
<1>1. Append(line, ch) = line \o <<ch>> /\ <<ch>> \in Seq(Char) /\ line \in Seq(Char)
  BY AppendIsConcat DEF Word
<1>2. e \in 1..Len(line)
  BY LenProperties, <1>1
<1>3. SubSeq(line \o <<ch>>, k, e) = SubSeq(line, k, e)
  BY <1>1, <1>2, SubSeqOfConcat1
<1> QED BY <1>1, <1>3

LEMMA SubSeqGrows ==
  ASSUME NEW line \in Word, NEW ch \in Char, NEW k \in 1..Len(line)
  PROVE  /\ SubSeq(line, k, Len(line)) \in Word
         /\ SubSeq(Append(line, ch), k, Len(line) + 1) = Append(SubSeq(line, k, Len(line)), ch)
<1> DEFINE n == Len(line)
           more == Append(line, ch)
           w == SubSeq(line, k, n)
<1>1. /\ n \in Nat /\ more \in Seq(Char) /\ Len(more) = n + 1 /\ more[n + 1] = ch
      /\ \A i \in 1..n : line[i] \in Char
  BY LineAppend DEF Word
<1>2. w \in Seq(Char)
  <2>1. k \in Int /\ n \in Int /\ \A i \in k..n : line[i] \in Char
    BY <1>1
  <2> QED BY <2>1, SubSeqProperties
<1>3. SubSeq(more, k, n) = w
  <2>1. n \in k..n
    BY <1>1
  <2> QED BY <2>1, SubSeqStays
<1>4. SubSeq(more, k, n + 1) = SubSeq(more, k, n) \o <<ch>>
  <2>1. k \in 1..Len(more) /\ n + 1 \in k..Len(more) /\ (n + 1) - 1 = n
    BY <1>1
  <2> HIDE DEF more, n
  <2>2. SubSeq(more, k, n + 1) = SubSeq(more, k, (n + 1) - 1) \o <<more[n + 1]>>
    BY <1>1, <2>1, SubSeqRecursiveSecond
  <2> QED BY <1>1, <2>1, <2>2
<1>5. Append(w, ch) = w \o <<ch>>
  BY <1>2, AppendIsConcat
<1> QED BY <1>2, <1>3, <1>4, <1>5 DEF Word

LEMMA StartsAppend ==
  ASSUME NEW line \in Word, NEW ch \in Char
  PROVE  Starts(Append(line, ch)) =
           IF ch # Space /\ (Len(line) = 0 \/ line[Len(line)] = Space)
             THEN Starts(line) \cup {Len(line) + 1} ELSE Starts(line)
<1> DEFINE n == Len(line)
           more == Append(line, ch)
<1>1. /\ n \in Nat /\ DOMAIN line = 1..n /\ DOMAIN more = 1..n + 1
      /\ \A k \in 1..n : more[k] = line[k]
      /\ more[n + 1] = ch
  BY LineAppend
<1> HIDE DEF n, more
<1>2. \A k \in 1..n : StartsWord(more, k) <=> StartsWord(line, k)
  <2> SUFFICES ASSUME NEW k \in 1..n PROVE StartsWord(more, k) <=> StartsWord(line, k)
    OBVIOUS
  <2>1. k # 1 => k - 1 \in 1..n
    BY <1>1
  <2> QED BY <1>1, <2>1 DEF StartsWord
<1>3. StartsWord(more, n + 1) <=> ch # Space /\ (n = 0 \/ line[n] = Space)
  <2>1. n # 0 => more[n] = line[n]
    BY <1>1
  <2>2. (n + 1) - 1 = n /\ (n + 1 = 1 <=> n = 0)
    BY <1>1
  <2> QED BY <1>1, <2>1, <2>2 DEF StartsWord
<1>4. \A k \in 1..n + 1 : k \in 1..n \/ k = n + 1
  BY <1>1
<1>5. \A k : k \in Starts(more) <=> k \in Starts(line) \/ (k = n + 1 /\ StartsWord(more, n + 1))
  <2>1. \A k : k \in Starts(more) <=> k \in 1..n + 1 /\ StartsWord(more, k)
    BY <1>1 DEF Starts
  <2>2. \A k : k \in Starts(line) <=> k \in 1..n /\ StartsWord(line, k)
    BY <1>1 DEF Starts
  <2>3. n + 1 \in 1..n + 1 /\ 1..n \subseteq 1..n + 1
    BY <1>1
  <2> QED BY <1>2, <1>4, <2>1, <2>2, <2>3
<1> QED BY <1>3, <1>5 DEF n, more

\* A word that has ended, or ends now, is a word of the longer line.
LEMMA WordStays ==
  ASSUME NEW line \in Word, NEW ch \in Char, NEW k \in 1..Len(line), NEW word,
         IsWordAt(line, k, word),
         ch = Space \/ \E m \in k..Len(line) : line[m] = Space
  PROVE  IsWordAt(Append(line, ch), k, word)
<1> DEFINE n == Len(line)
           more == Append(line, ch)
<1>1. /\ n \in Nat /\ Len(more) = n + 1
      /\ \A i \in 1..n : more[i] = line[i]
      /\ more[n + 1] = ch
  BY LineAppend
<1>2. PICK e \in k..n : /\ word = SubSeq(line, k, e)
                        /\ \A m \in k..e : line[m] # Space
                        /\ e = n \/ line[e + 1] = Space
  BY DEF IsWordAt
<1>3. SubSeq(more, k, e) = word
  BY <1>2, SubSeqStays
<1>4. e \in k..Len(more)
  BY <1>1
<1>5. \A m \in k..e : more[m] # Space
  BY <1>1, <1>2
<1>6. more[e + 1] = Space
  BY <1>1, <1>2
<1> QED BY <1>3, <1>4, <1>5, <1>6 DEF IsWordAt

\* The character after what the item has been so far.
LEMMA ItemGrows ==
  ASSUME NEW line \in Word, NEW ch \in Char, ch # Space,
         NEW k \in 1..Len(line), \A m \in k..Len(line) : line[m] # Space
  PROVE  /\ IsWordAt(Append(line, ch), k, Append(SubSeq(line, k, Len(line)), ch))
         /\ \A m \in k..Len(line) + 1 : Append(line, ch)[m] # Space
<1> DEFINE n == Len(line)
           more == Append(line, ch)
<1>1. /\ n \in Nat /\ Len(more) = n + 1
      /\ \A i \in 1..n : more[i] = line[i]
      /\ more[n + 1] = ch
  BY LineAppend
<1>2. \A m \in k..n + 1 : more[m] # Space
  BY <1>1
<1>3. SubSeq(more, k, n + 1) = Append(SubSeq(line, k, n), ch)
  BY SubSeqGrows
<1>4. n + 1 \in k..Len(more)
  BY <1>1
<1> QED BY <1>1, <1>2, <1>3, <1>4 DEF IsWordAt

LEMMA ItemBegins ==
  ASSUME NEW line \in Word, NEW ch \in Char, ch # Space
  PROVE  /\ IsWordAt(Append(line, ch), Len(line) + 1, <<ch>>)
         /\ SubSeq(Append(line, ch), Len(line) + 1, Len(line) + 1) = <<ch>>
<1> DEFINE n == Len(line)
           more == Append(line, ch)
<1>1. n \in Nat /\ more \in Seq(Char) /\ Len(more) = n + 1 /\ more[n + 1] = ch
  BY LineAppend DEF Word
<1>2. SubSeq(more, n + 1, n + 1) = <<ch>>
  <2> DEFINE k == n + 1
  <2>1. k \in 1..Len(more) /\ k \in k..Len(more) /\ k - 1 < k /\ k \in Int /\ k - 1 \in Int
    BY <1>1
  <2> HIDE DEF k, more
  <2>2. SubSeq(more, k, k) = SubSeq(more, k, k - 1) \o <<more[k]>>
    BY <1>1, <2>1, SubSeqRecursiveSecond
  <2>3. SubSeq(more, k, k - 1) = <<>>
    BY <2>1, SubSeqEmpty
  <2>4. <<>> \o <<ch>> = <<ch>> /\ more[k] = ch
    BY <1>1, ConcatEmptySeq, WordOfOne DEF Word, k
  <2> QED BY <2>2, <2>3, <2>4 DEF k
<1>3. n + 1 \in n + 1..Len(more) /\ \A m \in n + 1..n + 1 : more[m] # Space
  BY <1>1
<1> QED BY <1>1, <1>2, <1>3 DEF IsWordAt

\* A space begins no word and ends the last one.
LEMMA SpaceKeepsWords ==
  ASSUME NEW line \in Word, NEW words, NEW first, AreWordsAt(line, words, first)
  PROVE  AreWordsAt(Append(line, Space), words, first)
<1> DEFINE n == Len(line)
           more == Append(line, Space)
<1>1. Space \in Char
  BY SpecialChars DEF Special
<1>2. DOMAIN line = 1..n /\ DOMAIN more = 1..n + 1 /\ n \in Nat
  BY <1>1, LineAppend
<1>3. first \in [1..Len(words) -> 1..n]
  BY <1>2 DEF AreWordsAt
<1>4. first \in [1..Len(words) -> DOMAIN more]
  BY <1>2, <1>3
<1>5. Starts(more) = Starts(line)
  BY <1>1, StartsAppend
<1>6. ASSUME NEW i \in 1..Len(words) PROVE IsWordAt(more, first[i], words[i])
  <2>1. first[i] \in 1..Len(line) /\ IsWordAt(line, first[i], words[i])
    BY <1>3 DEF AreWordsAt
  <2> QED BY <1>1, <2>1, WordStays
<1> QED BY <1>4, <1>5, <1>6 DEF AreWordsAt

\* A character that is no space begins a word after a space.
LEMMA WordBegins ==
  ASSUME NEW line \in Word, NEW words \in Seq(Word), NEW first, AreWordsAt(line, words, first),
         Len(line) = 0 \/ line[Len(line)] = Space,
         NEW ch \in Char, ch # Space
  PROVE  \E g : /\ AreWordsAt(Append(line, ch), Append(words, <<ch>>), g)
                /\ g[Len(words) + 1] = Len(line) + 1
<1> DEFINE n == Len(line)
           more == Append(line, ch)
           k == Len(words)
           longer == Append(words, <<ch>>)
           g == [i \in 1..k + 1 |-> IF i = k + 1 THEN n + 1 ELSE first[i]]
<1>1. DOMAIN line = 1..n /\ DOMAIN more = 1..n + 1 /\ n \in Nat
  BY LineAppend
<1>2. /\ k \in Nat /\ Len(longer) = k + 1 /\ longer[k + 1] = <<ch>>
      /\ \A i \in 1..k : longer[i] = words[i]
  BY WordOfOne, AppendProperties, LenProperties
<1>3. /\ first \in [1..k -> 1..n]
      /\ \A i, j \in 1..k : i < j => first[i] < first[j]
      /\ {first[i] : i \in 1..k} = Starts(line)
      /\ \A i \in 1..k : IsWordAt(line, first[i], words[i])
  BY <1>1 DEF AreWordsAt
<1>4. Starts(more) = Starts(line) \cup {n + 1}
  BY StartsAppend
<1>5. IsWordAt(more, n + 1, <<ch>>)
  BY ItemBegins
<1>6. ASSUME NEW i \in 1..k PROVE IsWordAt(more, first[i], words[i])
  <2>1. first[i] \in 1..Len(line) /\ IsWordAt(line, first[i], words[i])
    BY <1>3
  <2>2. Len(line) \in first[i]..Len(line) /\ line[Len(line)] = Space
    BY <1>1, <2>1
  <2> QED BY <2>1, <2>2, WordStays
<1> HIDE DEF n, more, k, longer
<1>7. g[k + 1] = n + 1 /\ \A i \in 1..k : g[i] = first[i]
  BY <1>2
<1>8. g \in [1..k + 1 -> 1..n + 1]
  BY <1>1, <1>2, <1>3
<1> HIDE DEF g
<1>9. \A i, j \in 1..k + 1 : i < j => g[i] < g[j]
  <2> SUFFICES ASSUME NEW i \in 1..k + 1, NEW j \in 1..k + 1, i < j PROVE g[i] < g[j]
    OBVIOUS
  <2>1. i \in 1..k /\ g[i] = first[i] /\ first[i] \in 1..n
    BY <1>2, <1>3, <1>7
  <2>2. CASE j = k + 1
    BY <1>1, <1>7, <2>1, <2>2
  <2>3. CASE j \in 1..k
    BY <1>3, <1>7, <2>1, <2>3
  <2> QED BY <1>2, <2>2, <2>3
<1>10. {g[i] : i \in 1..k + 1} = Starts(more)
  <2>1. \A i : i \in 1..k + 1 <=> i \in 1..k \/ i = k + 1
    BY <1>2
  <2>2. {g[i] : i \in 1..k + 1} = {first[i] : i \in 1..k} \cup {n + 1}
    BY <1>7, <2>1
  <2> QED BY <1>3, <1>4, <2>2
<1>11. \A i \in 1..k + 1 : IsWordAt(more, g[i], longer[i])
  <2>1. \A i \in 1..k : IsWordAt(more, g[i], longer[i])
    BY <1>2, <1>6, <1>7
  <2>2. IsWordAt(more, g[k + 1], longer[k + 1])
    BY <1>2, <1>5, <1>7
  <2>3. \A i \in 1..k + 1 : i \in 1..k \/ i = k + 1
    BY <1>2
  <2> QED BY <2>1, <2>2, <2>3
<1>12. AreWordsAt(more, longer, g)
  BY <1>1, <1>2, <1>8, <1>9, <1>10, <1>11 DEF AreWordsAt
<1> QED BY <1>7, <1>12 DEF n, more, k, longer

\* The line's words are these and an item that reaches to its end.
EndsInItem(line, words, item, first) ==
  /\ AreWordsAt(line, Append(words, item), first)
  /\ LET b == first[Len(words) + 1]
     IN  /\ item = SubSeq(line, b, Len(line))
         /\ \A m \in b..Len(line) : line[m] # Space

\* After another one it makes the last word longer.
LEMMA WordGrows ==
  ASSUME NEW line \in Word, NEW words \in Seq(Word), NEW item \in Word, NEW first,
         EndsInItem(line, words, item, first),
         Len(line) # 0, line[Len(line)] # Space,
         NEW ch \in Char, ch # Space
  PROVE  EndsInItem(Append(line, ch), words, Append(item, ch), first)
<1> DEFINE n == Len(line)
           more == Append(line, ch)
           k == Len(words)
           before == Append(words, item)
           after == Append(words, Append(item, ch))
           b == first[k + 1]
<1>0. /\ AreWordsAt(line, before, first)
      /\ item = SubSeq(line, b, n) /\ \A m \in b..n : line[m] # Space
  BY DEF EndsInItem
<1>1. DOMAIN line = 1..n /\ DOMAIN more = 1..n + 1 /\ n \in Nat
  BY LineAppend
<1>2. /\ k \in Nat /\ Len(before) = k + 1 /\ Len(after) = k + 1
      /\ \A i \in 1..k : before[i] = words[i] /\ after[i] = words[i]
      /\ before[k + 1] = item /\ after[k + 1] = Append(item, ch)
  <2>1. Append(item, ch) \in Word
    BY WordsAppend
  <2>2. ASSUME NEW w \in Word
        PROVE  /\ Len(Append(words, w)) = k + 1 /\ Append(words, w)[k + 1] = w
               /\ \A i \in 1..k : Append(words, w)[i] = words[i]
    BY AppendProperties
  <2>3. k \in Nat
    BY LenProperties
  <2> HIDE DEF k
  <2> QED BY <2>1, <2>2, <2>3
<1>3. /\ first \in [1..k + 1 -> 1..n]
      /\ \A i, j \in 1..k + 1 : i < j => first[i] < first[j]
      /\ {first[i] : i \in 1..k + 1} = Starts(line)
      /\ \A i \in 1..k + 1 : IsWordAt(line, first[i], before[i])
  BY <1>0, <1>1, <1>2 DEF AreWordsAt
<1>4. b \in 1..n /\ StartsWord(line, b)
  <2>1. k + 1 \in 1..k + 1
    BY <1>2
  <2> HIDE DEF n, k, before
  <2>2. b \in Starts(line) /\ b \in 1..n
    BY <1>3, <2>1
  <2> QED BY <2>2 DEF Starts
<1>5. Starts(more) = Starts(line)
  BY StartsAppend
<1>6. /\ IsWordAt(more, b, Append(item, ch))
      /\ \A m \in b..n + 1 : more[m] # Space
  BY <1>0, <1>4, ItemGrows
<1>7. Append(item, ch) = SubSeq(more, b, n + 1)
  BY <1>0, <1>4, SubSeqGrows
<1>8. ASSUME NEW i \in 1..k PROVE IsWordAt(more, first[i], after[i])
  <2>1. i \in 1..k + 1 /\ k + 1 \in 1..k + 1 /\ i < k + 1
    BY <1>2
  <2>2. first[i] \in 1..n /\ first[i] < b /\ IsWordAt(line, first[i], words[i])
    BY <1>2, <1>3, <2>1
  <2>3. b - 1 \in first[i]..n /\ line[b - 1] = Space
    BY <1>1, <1>4, <2>2 DEF StartsWord
  <2>4. IsWordAt(more, first[i], words[i])
    BY <2>2, <2>3, WordStays
  <2> QED BY <1>2, <2>4
<1> HIDE DEF n, more, k, before, after
<1>9. \A i \in 1..k + 1 : IsWordAt(more, first[i], after[i])
  <2>1. IsWordAt(more, first[k + 1], after[k + 1])
    BY <1>2, <1>6
  <2>2. \A i \in 1..k + 1 : i \in 1..k \/ i = k + 1
    BY <1>2
  <2> QED BY <1>8, <2>1, <2>2
<1>10. first \in [1..k + 1 -> 1..n + 1]
  BY <1>1, <1>3
<1>11. AreWordsAt(more, after, first)
  BY <1>1, <1>2, <1>3, <1>5, <1>9, <1>10 DEF AreWordsAt
<1>12. Len(more) = n + 1
  BY LineAppend DEF n, more
<1> QED BY <1>6, <1>7, <1>11, <1>12 DEF EndsInItem, n, more, k, after

\* No character is special but the space.
IsPlain(line) == \A k \in DOMAIN line : line[k] \notin Special \ {Space}

LEMMA WordsOfType == \A p \in Parsers : p.parts \in Seq(Word) /\ p.item \in Word
BY DEF Parsers

LEMMA SplitsAfterSpace ==
  ASSUME NEW p, NEW line \in Word, Splits(p, line)
  PROVE  Splits(ReadChar(p, Space), Append(line, Space))
<1> DEFINE q == ReadChar(p, Space)
           more == Append(line, Space)
<1>1. Space \in Char /\ p \in Parsers /\ p.ok /\ ~p.open
  BY SpecialChars DEF Splits, Special
<1>2. q \in Parsers
  BY <1>1, ReadCharType
<1>3. PICK first : AreWordsAt(line, WordsOf(p), first) /\ ItemEnds(p, line, first)
  BY DEF Splits
<1>4. AreWordsAt(more, WordsOf(p), first)
  BY <1>3, SpaceKeepsWords
<1>5. q.ok /\ ~q.open /\ q.item = <<>> /\ q.parts = WordsOf(p)
  <2>1. q = IF p.item # <<>> THEN [EndItem(p) EXCEPT !.last = Space] ELSE [p EXCEPT !.last = Space]
    BY <1>1 DEF ReadChar, Accept, AtSpace, Parsers, Backslash, Apostrophe, Space, Quote
  <2> HIDE DEF q
  <2> QED BY <1>1, <2>1 DEF EndItem, WordsOf, Parsers
<1>6. Len(more) # 0 /\ more[Len(more)] = Space
  BY <1>1, LineAppend
<1> HIDE DEF q, more
<1>7. ItemEnds(q, more, first) /\ WordsOf(q) = WordsOf(p)
  BY <1>5, <1>6 DEF ItemEnds, WordsOf
<1>8. Splits(q, more)
  BY <1>2, <1>4, <1>5, <1>7 DEF Splits
<1> QED BY <1>8 DEF q, more

LEMMA SplitsAfterOrdinary ==
  ASSUME NEW p, NEW line \in Word, Splits(p, line), NEW ch \in Char, ch \notin Special
  PROVE  Splits(ReadChar(p, ch), Append(line, ch))
<1> DEFINE q == ReadChar(p, ch)
           more == Append(line, ch)
           n == Len(line)
<1>1. p \in Parsers /\ p.ok /\ ~p.open /\ ch # Space
  BY DEF Splits, Special
<1>2. q \in Parsers /\ p.parts \in Seq(Word) /\ p.item \in Word
  BY <1>1, ReadCharType, WordsOfType
<1>3. PICK first : AreWordsAt(line, WordsOf(p), first) /\ ItemEnds(p, line, first)
  BY DEF Splits
<1>4. q.ok /\ ~q.open /\ q.parts = p.parts /\ q.item = Append(p.item, ch)
  <2>1. q = [Add(p, ch) EXCEPT !.last = ch]
    BY <1>1 DEF ReadChar, Accept, Parsers, Special
  <2> HIDE DEF q
  <2> QED BY <1>1, <2>1 DEF Add, Parsers
<1>5. q.item # <<>>
  <2>1. p.item \in Seq(Char)
    BY <1>2 DEF Word
  <2>2. Append(p.item, ch) # <<>>
    BY <2>1, AppendProperties
  <2> QED BY <1>4, <2>2
<1>6. WordsOf(q) = Append(p.parts, q.item)
  BY <1>4, <1>5 DEF WordsOf
<1>7. Len(more) = n + 1 /\ n \in Nat /\ more[n + 1] = ch
  BY LineAppend
<1> HIDE DEF q, more
<1>8. CASE p.item = <<>>
  <2>1. n = 0 \/ line[n] = Space
    BY <1>3, <1>8 DEF ItemEnds
  <2>2. WordsOf(p) = p.parts
    BY <1>8 DEF WordsOf
  <2>3. q.item = <<ch>>
    BY <1>4, <1>8, WordOfOne
  <2>4. PICK g : AreWordsAt(more, Append(p.parts, <<ch>>), g) /\ g[Len(p.parts) + 1] = n + 1
    BY <1>1, <1>2, <1>3, <2>1, <2>2, WordBegins DEF more
  <2>5. SubSeq(more, n + 1, n + 1) = <<ch>>
    BY <1>1, ItemBegins DEF more
  <2>6. \A m \in n + 1..n + 1 : more[m] # Space
    BY <1>1, <1>7
  <2>7. ItemEnds(q, more, g)
    BY <1>5, <1>4, <1>7, <2>3, <2>4, <2>5, <2>6 DEF ItemEnds
  <2> QED BY <1>2, <1>4, <1>6, <2>3, <2>4, <2>7 DEF Splits, q, more
<1>9. CASE p.item # <<>>
  <2> DEFINE b == first[Len(p.parts) + 1]
  <2>1. WordsOf(p) = Append(p.parts, p.item)
    BY <1>9 DEF WordsOf
  <2>2. p.item = SubSeq(line, b, n) /\ \A m \in b..n : line[m] # Space
    BY <1>3, <1>9 DEF ItemEnds
  <2>3. b \in 1..n
    <3>1. Len(p.parts) + 1 \in 1..Len(WordsOf(p))
      <4>1. Len(Append(p.parts, p.item)) = Len(p.parts) + 1 /\ Len(p.parts) \in Nat
        BY <1>2, AppendProperties, LenProperties
      <4> QED BY <2>1, <4>1
    <3>2. DOMAIN line = 1..n
      BY LineAppend
    <3> QED BY <1>3, <3>1, <3>2 DEF AreWordsAt
  <2>4. n # 0 /\ line[n] # Space
    BY <1>7, <2>2, <2>3
  <2> HIDE DEF b
  <2>5. EndsInItem(more, p.parts, Append(p.item, ch), first)
    <3>1. EndsInItem(line, p.parts, p.item, first)
      BY <1>3, <2>1, <2>2 DEF EndsInItem, b
    <3> QED BY <1>1, <1>2, <2>4, <3>1, WordGrows DEF more
  <2>6. ItemEnds(q, more, first)
    BY <1>4, <1>5, <1>7, <2>5 DEF ItemEnds, EndsInItem
  <2>7. AreWordsAt(more, WordsOf(q), first)
    BY <1>4, <1>6, <2>5 DEF EndsInItem
  <2> QED BY <1>2, <1>4, <2>6, <2>7 DEF Splits, q, more
<1> QED BY <1>8, <1>9

LEMMA ReadPlain ==
  \A line \in Word : IsPlain(line) => Splits(ReadAll(Start, line), line)
<1> DEFINE T == {line \in Word : IsPlain(line) => Splits(ReadAll(Start, line), line)}
<1>1. <<>> \in T
  <2>1. <<>> \in Word /\ Len(<<>>) = 0 /\ DOMAIN <<>> = {}
    BY WordOfOne, EmptySeq
  <2>2. Starts(<<>>) = {}
    BY <2>1 DEF Starts
  <2>3. AreWordsAt(<<>>, <<>>, <<>>)
    BY <2>1, <2>2 DEF AreWordsAt
  <2>4. WordsOf(Start) = <<>> /\ ItemEnds(Start, <<>>, <<>>)
    BY <2>1 DEF WordsOf, ItemEnds, Start
  <2>5. Splits(Start, <<>>)
    BY <2>3, <2>4, StartType DEF Splits, Start
  <2> QED BY <2>1, <2>5, ReadAllEmpty
<1>2. ASSUME NEW s \in Seq(Char), NEW ch \in Char, s \in T PROVE Append(s, ch) \in T
  <2>1. s \in Word /\ Append(s, ch) \in Word
    BY WordsAppend DEF Word
  <2> SUFFICES ASSUME IsPlain(Append(s, ch)) PROVE Splits(ReadAll(Start, Append(s, ch)), Append(s, ch))
    BY <2>1
  <2>2. IsPlain(s) /\ (ch = Space \/ ch \notin Special)
    <3>1. /\ DOMAIN s = 1..Len(s) /\ DOMAIN Append(s, ch) = 1..Len(s) + 1 /\ Len(s) \in Nat
          /\ \A k \in 1..Len(s) : Append(s, ch)[k] = s[k]
          /\ Append(s, ch)[Len(s) + 1] = ch
      BY <2>1, LineAppend
    <3> QED BY <3>1 DEF IsPlain
  <2>3. Splits(ReadAll(Start, s), s)
    BY <1>2, <2>2
  <2>4. ReadAll(Start, Append(s, ch)) = ReadChar(ReadAll(Start, s), ch)
    BY <2>1, ReadMore
  <2> QED BY <2>1, <2>2, <2>3, <2>4, SplitsAfterSpace, SplitsAfterOrdinary
<1> HIDE DEF T
<1>3. \A s \in Seq(Char) : s \in T
  BY <1>1, <1>2, SeqsFromEmpty
<1> QED BY <1>3 DEF T, Word

\* A line without quotes, backslashes and apostrophes, of any length, is its words
\* between spaces, unless its last character has several bytes (utils.go:49-117).
THEOREM SpacesSeparateWords ==
  ASSUME NEW line \in Word, EndNoticed(line), IsPlain(line)
  PROVE  /\ ParseCommandLine(line).ok
         /\ ArePlainWords(line, ParseCommandLine(line).parts)
<1> DEFINE p == ReadAll(Start, line)
<1>1. Splits(p, line)
  BY ReadPlain
<1>2. ParseCommandLine(line) =
        LET q == IF p.ok THEN AtEnd(p) ELSE p IN [ok |-> q.ok, parts |-> q.parts]
  BY DEF ParseCommandLine
<1> HIDE DEF p
<1>3. p \in Parsers /\ p.ok /\ ~p.open
  BY <1>1 DEF Splits
<1>4. AtEnd(p).ok /\ AtEnd(p).parts = WordsOf(p)
  BY <1>3 DEF AtEnd, EndItem, WordsOf, Parsers
<1>5. ParseCommandLine(line).ok /\ ParseCommandLine(line).parts = WordsOf(p)
  BY <1>2, <1>3, <1>4
<1>6. PICK first : AreWordsAt(line, WordsOf(p), first)
  BY <1>1 DEF Splits
<1>7. DOMAIN WordsOf(p) = 1..Len(WordsOf(p))
  <2>1. WordsOf(p) \in Seq(Word)
    BY <1>3, WordsOfType, AppendProperties DEF WordsOf
  <2> QED BY <2>1, LenProperties
<1>8. ArePlainWords(line, WordsOf(p))
  BY <1>6, <1>7 DEF ArePlainWords, AreWordsAt, Starts
<1> QED BY <1>5, <1>8

=============================================================================
