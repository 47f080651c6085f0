-------------------------- MODULE CrapNemesisProof --------------------------
(***************************************************************************)
(* Proofs about CrapNemesis: the parser returns what the reference says,     *)
(* for texts of any length over any letters, checked by TLAPS.              *)
(***************************************************************************)
EXTENDS CrapNemesis, FiniteSetTheorems, SequenceTheorems, TLAPS

Returnable(r) ==
    \A k \in DOMAIN r : k \in Seq(Letters) /\ r[k] \in Seq(Seq(Letters)) /\ r[k] # <<>>

LEMMA AppendGrows ==
    ASSUME NEW S, NEW s \in Seq(S), NEW x \in S
    PROVE  Append(s, x) \in Seq(S) /\ Append(s, x) # <<>>
<1>1. Append(s, x) \in Seq(S) /\ Len(Append(s, x)) = Len(s) + 1 /\ Len(s) \in Nat
    OBVIOUS
<1>2. Len(Append(s, x)) # 0
    BY <1>1
<1>3. Len(<<>>) = 0
    OBVIOUS
<1> QED BY <1>1, <1>2, <1>3

\* A value was pushed for every key that is returned (the push of line 51 is
\* unconditional), and a letter only reaches the buffer of its state.
THEOREM TypeCorrect == Spec => []ParserTypeOK
<1>1. Init => ParserTypeOK
    BY DEF Init, ParserTypeOK
<1>2. ASSUME ParserTypeOK, [Next]_vars PROVE ParserTypeOK'
    <2>a. /\ text \in Seq(Chars) /\ state \in {"key", "value"}
          /\ key \in Seq(Letters) /\ value \in Seq(Letters) /\ values \in Seq(Seq(Letters))
          /\ Returnable(ret)
        BY <1>2 DEF ParserTypeOK, Returnable
    <2>b. SUFFICES /\ text' \in Seq(Chars) /\ state' \in {"key", "value"}
                   /\ key' \in Seq(Letters) /\ value' \in Seq(Letters)
                   /\ values' \in Seq(Seq(Letters)) /\ Returnable(ret')
        BY DEF ParserTypeOK, Returnable
    <2>0. ASSUME NEW c \in Chars, Read(c) PROVE text' \in Seq(Chars)
        BY <2>a, <2>0 DEF Read
    <2>1. CASE UNCHANGED vars
        BY <2>a, <2>1 DEF vars
    <2>2. CASE Blank
        <3>1. text' \in Seq(Chars)
            BY <2>0, <2>2 DEF Blank, Chars
        <3>2. CASE EndsValue
            <4>1. values' = Append(values, value) /\ value' = <<>>
                BY <2>2, <3>2 DEF Blank
            <4>2. values' \in Seq(Seq(Letters)) /\ value' \in Seq(Letters)
                BY <2>a, <4>1, AppendGrows
            <4> QED BY <2>a, <2>2, <3>1, <4>2 DEF Blank
        <3>3. CASE ~EndsValue
            BY <2>a, <2>2, <3>1, <3>3 DEF Blank
        <3> QED BY <3>2, <3>3
    <2>3. CASE Percent \/ OpenBracket
        <3>1. text' \in Seq(Chars)
            BY <2>0, <2>3 DEF Percent, OpenBracket, Chars
        <3> QED BY <2>a, <2>3, <3>1 DEF Percent, OpenBracket
    <2>4. CASE CloseBracket
        <3>1. text' \in Seq(Chars)
            BY <2>0, <2>4 DEF CloseBracket, Chars
        <3>2. AllValues \in Seq(Seq(Letters)) /\ AllValues # <<>>
            BY <2>a, AppendGrows DEF AllValues
        <3>3. ret' = [k \in DOMAIN ret \cup {key} |-> IF k = key THEN AllValues ELSE ret[k]]
            BY <2>4 DEF CloseBracket
        <3>4. Returnable(ret')
            BY <2>a, <3>2, <3>3 DEF Returnable
        <3>5. /\ values' = <<>> /\ key' = <<>> /\ value' = <<>> /\ state' = "key"
            BY <2>4 DEF CloseBracket
        <3> QED BY <3>1, <3>4, <3>5
    <2>5. CASE \E c \in Letters : Letter(c)
        <3> PICK c \in Letters : Letter(c)
            BY <2>5
        <3>1. text' \in Seq(Chars)
            BY <2>0 DEF Letter, Chars
        <3> QED BY <2>a, <3>1, AppendGrows DEF Letter
    <2> QED BY <1>2, <2>1, <2>2, <2>3, <2>4, <2>5 DEF Next
<1> QED BY <1>1, <1>2, PTL DEF Spec

(***************************************************************************)
(* Positions in order.                                                     *)
(***************************************************************************)
Count(P, i) == Cardinality({j \in P : j <= i})

LEMMA ChoiceIn == \A S : S # {} => Choice(S) \in S
BY DEF Choice

\* There is an n-th position for each n up to their number.
LEMMA NthIn ==
    ASSUME NEW P \in SUBSET Nat, IsFiniteSet(P), NEW n \in 1 .. Cardinality(P)
    PROVE  Nth(P, n) \in P /\ Count(P, Nth(P, n)) = n
<1> DEFINE m == Cardinality(P)
           f == [x \in P |-> Count(P, x)]
<1>1. m \in Nat /\ IsFiniteSet(1 .. m) /\ Cardinality(1 .. m) = m
    BY FS_CardinalityType, FS_Interval
<1>2. ASSUME NEW x \in P
      PROVE  IsFiniteSet({j \in P : j <= x}) /\ Count(P, x) \in 1 .. m
    <2>1. {j \in P : j <= x} \in SUBSET P /\ x \in {j \in P : j <= x}
        OBVIOUS
    <2>2. IsFiniteSet({j \in P : j <= x}) /\ Count(P, x) \in Nat /\ Count(P, x) <= m
        BY <2>1, FS_Subset, FS_CardinalityType DEF Count
    <2>3. Count(P, x) # 0
        BY <2>1, <2>2, FS_EmptySet DEF Count
    <2> QED BY <1>1, <2>2, <2>3
<1>3. ASSUME NEW x \in P, NEW y \in P, x < y PROVE Count(P, x) # Count(P, y)
    <2> DEFINE A == {j \in P : j <= x}
               B == {j \in P : j <= y}
    <2>0. x \in Nat /\ y \in Nat
        OBVIOUS
    <2>1. \A j \in P : j <= x => j <= y
        BY <1>3, <2>0
    <2>2. y \in B /\ y \notin A
        BY <1>3, <2>0
    <2>3. A \in SUBSET B
        BY <2>1
    <2>4. IsFiniteSet(B)
        BY <1>2
    <2>5. Cardinality(B) = Cardinality(A) => B = A
        BY <2>3, <2>4, FS_Subset
    <2> QED BY <2>2, <2>5 DEF Count
<1>4. \A x, y \in P : f[x] = f[y] => x = y
    <2> SUFFICES ASSUME NEW x \in P, NEW y \in P, x < y PROVE f[x] # f[y]
        OBVIOUS
    <2> QED BY <1>3
<1>5. f \in [P -> 1 .. m]
    BY <1>2
<1> HIDE DEF f, m
<1>6. f \in Injection(P, 1 .. m)
    BY <1>4, <1>5 DEF Injection, IsInjective
<1>7. f \in Surjection(P, 1 .. m)
    BY <1>1, <1>6, FS_Injection DEF m
<1>8. PICK x \in P : f[x] = n
    BY <1>7 DEF Surjection, m
<1>9. x \in {i \in P : Cardinality({j \in P : j <= i}) = n}
    BY <1>8 DEF f, Count
<1>10. Nth(P, n) \in {i \in P : Cardinality({j \in P : j <= i}) = n}
    BY <1>9, ChoiceIn DEF Nth
<1> QED BY <1>10 DEF Count

\* A position past all others is the last one, and changes nothing of them.
LEMMA NthAdd ==
    ASSUME NEW P \in SUBSET Nat, IsFiniteSet(P), NEW x \in Nat, \A i \in P : i < x
    PROVE  /\ IsFiniteSet(P \cup {x})
           /\ Cardinality(P) \in Nat
           /\ Cardinality(P \cup {x}) = Cardinality(P) + 1
           /\ \A n \in 1 .. Cardinality(P) : Nth(P \cup {x}, n) = Nth(P, n)
           /\ Nth(P \cup {x}, Cardinality(P) + 1) = x
<1> DEFINE Q == P \cup {x}
           m == Cardinality(P)
<1>1. x \notin P /\ m \in Nat /\ IsFiniteSet(Q) /\ Cardinality(Q) = m + 1
    <2>1. x \notin P
        OBVIOUS
    <2> QED BY <2>1, FS_AddElement, FS_CardinalityType
<1>2. \A i \in P : {j \in Q : j <= i} = {j \in P : j <= i}
    <2> SUFFICES ASSUME NEW i \in P PROVE {j \in Q : j <= i} = {j \in P : j <= i}
        OBVIOUS
    <2>1. i \in Nat /\ ~(x <= i)
        OBVIOUS
    <2> QED BY <2>1
<1>3. {j \in Q : j <= x} = Q
    <2>1. ASSUME NEW j \in Q PROVE j <= x
        OBVIOUS
    <2> QED BY <2>1
<1>4. \A i \in P : Count(P, i) \in Nat /\ Count(P, i) <= m
    <2> SUFFICES ASSUME NEW i \in P PROVE Count(P, i) \in Nat /\ Count(P, i) <= m
        OBVIOUS
    <2>1. {j \in P : j <= i} \in SUBSET P
        OBVIOUS
    <2> QED BY <2>1, FS_Subset, FS_CardinalityType DEF Count
<1>5. ASSUME NEW n \in 1 .. m PROVE Nth(Q, n) = Nth(P, n)
    <2>1. {i \in Q : Cardinality({j \in Q : j <= i}) = n}
             = {i \in P : Cardinality({j \in P : j <= i}) = n}
        <3>1. Cardinality({j \in Q : j <= x}) # n
            BY <1>1, <1>3
        <3> HIDE DEF m
        <3>2. \A i \in P : Cardinality({j \in Q : j <= i}) = Cardinality({j \in P : j <= i})
            BY <1>2
        <3> QED BY <3>1, <3>2
    <2> QED BY <2>1 DEF Nth
<1>6. Nth(Q, m + 1) = x
    <2>1. {i \in Q : Cardinality({j \in Q : j <= i}) = m + 1} = {x}
        <3>1. \A i \in P : Cardinality({j \in Q : j <= i}) # m + 1
            BY <1>1, <1>2, <1>4 DEF Count
        <3>2. Cardinality({j \in Q : j <= x}) = m + 1
            BY <1>1, <1>3
        <3> HIDE DEF m
        <3> QED BY <3>1, <3>2
    <2>2. Nth(Q, m + 1) = Choice({x})
        BY <2>1 DEF Nth
    <2>3. Choice({x}) \in {x}
        BY ChoiceIn
    <2> QED BY <2>2, <2>3
<1> QED BY <1>1, <1>5, <1>6

\* Positions of a text are finitely many natural numbers.
LEMMA Positions ==
    ASSUME NEW m \in Nat, NEW P \in SUBSET (1 .. m)
    PROVE  IsFiniteSet(P) /\ Cardinality(P) \in Nat /\ P \in SUBSET Nat
<1>1. IsFiniteSet(1 .. m) /\ 1 .. m \in SUBSET Nat
    BY FS_Interval
<1>2. IsFiniteSet(P)
    BY <1>1, FS_Subset
<1>3. Cardinality(P) \in Nat
    BY <1>2, FS_CardinalityType
<1> QED BY <1>1, <1>2, <1>3

\* A finite set of positions that is not empty has a last one, which is its Max.
LEMMA MaxIn ==
    ASSUME NEW P \in SUBSET Nat, IsFiniteSet(P), P # {}
    PROVE  Max(P) \in P /\ \A i \in P : i <= Max(P)
<1> DEFINE m == Cardinality(P)
<1>1. m \in Nat /\ m # 0
    BY FS_CardinalityType, FS_EmptySet
<1> DEFINE x == Nth(P, m)
           A == {j \in P : j <= x}
<1>2. x \in P /\ Cardinality(A) = m
    <2>1. m \in 1 .. m
        BY <1>1
    <2> QED BY <2>1, NthIn DEF Count
<1>3. A \in SUBSET P
    OBVIOUS
<1>4. A = P
    BY <1>2, <1>3, FS_Subset
<1>5. \A j \in P : x >= j
    BY <1>4
<1> HIDE DEF x, A, m
<1>6. \E y \in P : \A j \in P : y >= j
    BY <1>2, <1>5
<1>7. Max(P) \in P /\ \A j \in P : Max(P) >= j
    BY <1>6 DEF Max
<1> QED BY <1>7

(***************************************************************************)
(* What one more character changes.                                        *)
(***************************************************************************)
\* A sequence that repeats u and then has x is u with x appended.
LEMMA IsAppend ==
    ASSUME NEW S, NEW u \in Seq(S), NEW v \in Seq(S), NEW x \in S,
           Len(v) = Len(u) + 1, \A i \in 1 .. Len(u) : v[i] = u[i], v[Len(u) + 1] = x
    PROVE  v = Append(u, x)
<1> DEFINE w == Append(u, x)
<1>1. w \in Seq(S) /\ Len(w) = Len(u) + 1
    BY AppendProperties
<1>2. w[Len(u) + 1] = x
    BY AppendProperties
<1>3. \A i \in 1 .. Len(u) : w[i] = u[i]
    BY AppendProperties
<1>4. Len(u) \in Nat
    BY LenProperties
<1> HIDE DEF w
<1>5. \A i \in 1 .. Len(v) : v[i] = w[i]
    BY <1>2, <1>3, <1>4
<1>6. v = w
    BY <1>1, <1>5, SeqEqual
<1> QED BY <1>6 DEF w

\* t is s and one more character.
Longer(s, t) ==
    /\ s \in Seq(Chars) /\ t \in Seq(Chars)
    /\ Len(s) \in Nat /\ Len(t) = Len(s) + 1
    /\ \A i \in 1 .. Len(s) : t[i] = s[i]

LEMMA AppendIsLonger ==
    ASSUME NEW s \in Seq(Chars), NEW c \in Chars
    PROVE  Longer(s, Append(s, c)) /\ Append(s, c)[Len(s) + 1] = c
<1>1. Append(s, c) \in Seq(Chars) /\ Len(Append(s, c)) = Len(s) + 1
    BY AppendProperties
<1>2. \A i \in 1 .. Len(s) : Append(s, c)[i] = s[i]
    BY AppendProperties
<1>3. Append(s, c)[Len(s) + 1] = c
    BY AppendProperties
<1>4. Len(s) \in Nat
    BY LenProperties
<1> QED BY <1>1, <1>2, <1>3, <1>4 DEF Longer

LEMMA AtIsText ==
    ASSUME NEW s \in Seq(Chars), NEW P \in SUBSET (1 .. Len(s)),
           NEW S, \A i \in P : s[i] \in S
    PROVE  /\ At(s, P) \in Seq(S)
           /\ Len(At(s, P)) = Cardinality(P)
           /\ At(s, P) = <<>> <=> P = {}
<1>1. Len(s) \in Nat
    BY LenProperties
<1>2. IsFiniteSet(P) /\ Cardinality(P) \in Nat /\ P \in SUBSET Nat
    BY <1>1, Positions
<1> DEFINE m == Cardinality(P)
           f == [n \in 1 .. m |-> s[Nth(P, n)]]
<1>3. ASSUME NEW n \in 1 .. m PROVE s[Nth(P, n)] \in S
    BY <1>2, NthIn
<1>4. f \in [1 .. m -> S] /\ m \in Nat
    BY <1>2, <1>3
<1>5. At(s, P) = f
    BY DEF At
<1> HIDE DEF f, m
<1>6. f \in Seq(S) /\ Len(f) = m
    BY <1>4
<1>7. f = <<>> <=> m = 0
    <2>1. f # <<>> => Len(f) # 0
        BY <1>6, EmptySeq
    <2>2. Len(<<>>) = 0
        BY EmptySeq
    <2> QED BY <1>6, <2>1, <2>2
<1>8. m = 0 <=> P = {}
    BY <1>2, FS_EmptySet DEF m
<1> QED BY <1>5, <1>6, <1>7, <1>8 DEF m

LEMMA AtSame ==
    ASSUME NEW s, NEW t, Longer(s, t), NEW P \in SUBSET (1 .. Len(s))
    PROVE  At(t, P) = At(s, P)
<1>1. IsFiniteSet(P) /\ Cardinality(P) \in Nat /\ P \in SUBSET Nat
    BY Positions DEF Longer
<1>2. ASSUME NEW n \in 1 .. Cardinality(P) PROVE t[Nth(P, n)] = s[Nth(P, n)]
    <2>1. Nth(P, n) \in P
        BY <1>1, NthIn
    <2> QED BY <2>1 DEF Longer
<1> QED BY <1>2 DEF At

\* The last position adds its character.
LEMMA AtAdd ==
    ASSUME NEW s, NEW t, Longer(s, t), NEW P \in SUBSET (1 .. Len(s)),
           NEW S, \A i \in P \cup {Len(t)} : t[i] \in S
    PROVE  /\ At(s, P) \in Seq(S)
           /\ At(t, P \cup {Len(t)}) = Append(At(s, P), t[Len(t)])
<1> DEFINE x == Len(t)
           m == Cardinality(P)
           Q == P \cup {x}
           u == At(s, P)
           v == At(t, Q)
<1>1. IsFiniteSet(P) /\ m \in Nat /\ P \in SUBSET Nat
    BY Positions DEF Longer
<1>2. x \in Nat /\ \A i \in P : i < x
    BY DEF Longer
<1>3. Cardinality(Q) = m + 1
    BY <1>1, <1>2, NthAdd
<1>4. \A n \in 1 .. m : Nth(Q, n) = Nth(P, n)
    BY <1>1, <1>2, NthAdd
<1>5. Nth(Q, m + 1) = x
    BY <1>1, <1>2, NthAdd
<1>6. \A n \in 1 .. m : Nth(P, n) \in P
    BY <1>1, NthIn
<1>7. \A i \in P : t[i] = s[i]
    BY DEF Longer
<1>8. u = [n \in 1 .. m |-> s[Nth(P, n)]]
    BY DEF At
<1>9. v = [n \in 1 .. m + 1 |-> t[Nth(Q, n)]]
    BY <1>3 DEF At
<1> HIDE DEF u, v, m, Q, x
<1>10. \A n \in 1 .. m : s[Nth(P, n)] \in S
    BY <1>6, <1>7 DEF x
<1>11. u \in Seq(S) /\ Len(u) = m
    BY <1>1, <1>8, <1>10
<1>12. \A n \in 1 .. m + 1 : t[Nth(Q, n)] \in S
    <2> SUFFICES ASSUME NEW n \in 1 .. m + 1 PROVE t[Nth(Q, n)] \in S
        OBVIOUS
    <2>1. CASE n \in 1 .. m
        <3>1. Nth(Q, n) \in P
            BY <1>4, <1>6, <2>1
        <3> QED BY <3>1
    <2>2. CASE n = m + 1
        BY <1>5, <2>2 DEF x
    <2> QED BY <1>1, <2>1, <2>2
<1>13. v \in Seq(S) /\ Len(v) = m + 1
    BY <1>1, <1>9, <1>12
<1>14. \A n \in 1 .. m : v[n] = u[n]
    <2> SUFFICES ASSUME NEW n \in 1 .. m PROVE v[n] = u[n]
        OBVIOUS
    <2>1. v[n] = t[Nth(Q, n)] /\ u[n] = s[Nth(P, n)]
        BY <1>1, <1>8, <1>9
    <2>2. Nth(Q, n) = Nth(P, n) /\ Nth(P, n) \in P
        BY <1>4, <1>6
    <2>3. t[Nth(P, n)] = s[Nth(P, n)]
        BY <1>7, <2>2
    <2> QED BY <2>1, <2>2, <2>3
<1>15. v[m + 1] = t[x] /\ t[x] \in S
    BY <1>1, <1>5, <1>9 DEF x
<1>16. v = Append(u, t[x])
    BY <1>11, <1>13, <1>14, <1>15, IsAppend
<1> QED BY <1>11, <1>16 DEF u, v, Q, x

\* Nothing of what is left of the new character depends on it.
LEMMA OpenedSame ==
    ASSUME NEW s, NEW t, Longer(s, t), NEW a \in Nat, NEW i \in 0 .. Len(s)
    PROVE  Opened(t, a, i) <=> Opened(s, a, i)
<1>1. \A j \in a + 1 .. i : t[j] = s[j]
    BY DEF Longer
<1> QED BY <1>1 DEF Opened

LEMMA LettersSame ==
    ASSUME NEW s, NEW t, Longer(s, t), NEW a \in Nat, NEW e \in 1 .. Len(t)
    PROVE  /\ KeyLetters(t, a, e) = KeyLetters(s, a, e)
           /\ Piece(t, a, e) = Piece(s, a, e)
           /\ Cuts(t, a, e) = Cuts(s, a, e)
<1>0. Len(s) \in Nat /\ Len(t) = Len(s) + 1
    BY DEF Longer
<1>1. ASSUME NEW d \in 1 .. Len(t), NEW i \in a + 1 .. d - 1
      PROVE  t[i] = s[i] /\ (Opened(t, a, i) <=> Opened(s, a, i))
    <2>1. i \in 0 .. Len(s) /\ i \in 1 .. Len(s)
        BY <1>0
    <2> QED BY <2>1, OpenedSame DEF Longer
<1>2. KeyLetters(t, a, e) = KeyLetters(s, a, e)
    BY <1>1 DEF KeyLetters
<1>3. ASSUME NEW d \in 1 .. Len(t) PROVE Piece(t, a, d) = Piece(s, a, d)
    <2>1. ValueLetters(t, a, d) = ValueLetters(s, a, d)
        BY <1>1 DEF ValueLetters
    <2>2. ASSUME NEW l \in ValueLetters(s, a, d), NEW j \in l + 1 .. d - 1
          PROVE  t[j] = s[j]
        <3>1. l \in a + 1 .. d - 1
            BY DEF ValueLetters
        <3>2. j \in 1 .. Len(s)
            BY <1>0, <3>1
        <3> QED BY <3>2 DEF Longer
    <2> QED BY <2>1, <2>2 DEF Piece
<1>4. Cuts(t, a, e) = Cuts(s, a, e)
    <2>1. ASSUME NEW i \in a + 1 .. e - 1
          PROVE  t[i] = s[i] /\ Piece(t, a, i) = Piece(s, a, i)
        <3>1. i \in 1 .. Len(t)
            BY <1>0
        <3> QED BY <1>1, <1>3, <3>1
    <2> QED BY <2>1 DEF Cuts
<1> QED BY <1>2, <1>3, <1>4

\* They are letters of the text, left of e.
LEMMA LettersIn ==
    ASSUME NEW s \in Seq(Chars), NEW a \in Nat, NEW e \in 1 .. Len(s) + 1
    PROVE  /\ KeyLetters(s, a, e) \in SUBSET (1 .. Len(s))
           /\ Piece(s, a, e) \in SUBSET (1 .. Len(s))
           /\ Cuts(s, a, e) \in SUBSET (1 .. Len(s))
           /\ \A i \in KeyLetters(s, a, e) \cup Piece(s, a, e) : s[i] \in Letters
<1>1. Len(s) \in Nat
    BY LenProperties
<1>2. a + 1 .. e - 1 \in SUBSET (1 .. Len(s))
    BY <1>1
<1> QED BY <1>2 DEF KeyLetters, Piece, ValueLetters, Cuts

LEMMA PiecesSame ==
    ASSUME NEW s, NEW t, Longer(s, t), NEW a \in Nat, NEW P \in SUBSET (1 .. Len(t))
    PROVE  Pieces(t, a, P) = Pieces(s, a, P)
<1>0. Len(s) \in Nat /\ Len(t) = Len(s) + 1 /\ s \in Seq(Chars)
    BY DEF Longer
<1>1. IsFiniteSet(P) /\ Cardinality(P) \in Nat /\ P \in SUBSET Nat
    <2>1. Len(t) \in Nat
        BY <1>0
    <2> QED BY <2>1, Positions
<1>2. ASSUME NEW n \in 1 .. Cardinality(P)
      PROVE  At(t, Piece(t, a, Nth(P, n))) = At(s, Piece(s, a, Nth(P, n)))
    <2>1. Nth(P, n) \in 1 .. Len(t)
        BY <1>1, NthIn
    <2>2. Piece(t, a, Nth(P, n)) = Piece(s, a, Nth(P, n))
        BY <2>1, LettersSame
    <2>3. Piece(s, a, Nth(P, n)) \in SUBSET (1 .. Len(s))
        BY <1>0, <2>1, LettersIn
    <2> QED BY <2>2, <2>3, AtSame
<1> QED BY <1>2 DEF Pieces

LEMMA PiecesAdd ==
    ASSUME NEW s, NEW t, Longer(s, t), NEW a \in Nat, NEW P \in SUBSET (1 .. Len(s))
    PROVE  /\ Pieces(s, a, P) \in Seq(Seq(Letters))
           /\ At(s, Piece(s, a, Len(t))) \in Seq(Letters)
           /\ Pieces(t, a, P \cup {Len(t)})
                = Append(Pieces(s, a, P), At(s, Piece(s, a, Len(t))))
<1> DEFINE x == Len(t)
           m == Cardinality(P)
           Q == P \cup {x}
<1>0. Len(s) \in Nat /\ x = Len(s) + 1 /\ s \in Seq(Chars)
    BY DEF Longer
<1>1. IsFiniteSet(P) /\ m \in Nat /\ P \in SUBSET Nat
    BY Positions DEF Longer
<1>a. Q \in SUBSET (1 .. Len(t)) /\ P \in SUBSET (1 .. x)
    <2>1. ASSUME NEW i \in P PROVE i \in 1 .. x
        BY <1>0
    <2>2. x \in 1 .. x
        BY <1>0
    <2>3. ASSUME NEW i \in Q PROVE i \in 1 .. x
        BY <2>1, <2>2
    <2> QED BY <2>1, <2>3
<1> DEFINE u == Pieces(s, a, P)
           v == Pieces(s, a, Q)
           of(i) == At(s, Piece(s, a, i))
<1>2. x \in Nat /\ \A i \in P : i < x
    BY <1>0
<1>3. Cardinality(Q) = m + 1
    BY <1>1, <1>2, NthAdd
<1>4. \A n \in 1 .. m : Nth(Q, n) = Nth(P, n)
    BY <1>1, <1>2, NthAdd
<1>5. Nth(Q, m + 1) = x
    BY <1>1, <1>2, NthAdd
<1>6. \A n \in 1 .. m : Nth(P, n) \in 1 .. x
    <2> SUFFICES ASSUME NEW n \in 1 .. m PROVE Nth(P, n) \in 1 .. x
        OBVIOUS
    <2>1. Nth(P, n) \in P
        BY <1>1, NthIn
    <2> QED BY <1>a, <2>1
<1>7. ASSUME NEW i \in 1 .. x PROVE of(i) \in Seq(Letters)
    <2>1. i \in 1 .. Len(s) + 1
        BY <1>0
    <2>2. Piece(s, a, i) \in SUBSET (1 .. Len(s)) /\ \A j \in Piece(s, a, i) : s[j] \in Letters
        BY <1>0, <2>1, LettersIn
    <2> QED BY <1>0, <2>2, AtIsText
<1>8. u = [n \in 1 .. m |-> of(Nth(P, n))]
    BY DEF Pieces
<1>9. v = [n \in 1 .. m + 1 |-> of(Nth(Q, n))]
    BY <1>3 DEF Pieces
<1>10. Pieces(t, a, Q) = v
    BY <1>a, PiecesSame
<1>11. x \in 1 .. x
    BY <1>0
<1> HIDE DEF u, v, m, Q, x, of
<1>12. \A n \in 1 .. m : of(Nth(P, n)) \in Seq(Letters)
    BY <1>6, <1>7
<1>13. u \in Seq(Seq(Letters)) /\ Len(u) = m
    BY <1>1, <1>8, <1>12
<1>14. \A n \in 1 .. m + 1 : of(Nth(Q, n)) \in Seq(Letters)
    <2> SUFFICES ASSUME NEW n \in 1 .. m + 1 PROVE of(Nth(Q, n)) \in Seq(Letters)
        OBVIOUS
    <2>1. CASE n \in 1 .. m
        BY <1>4, <1>12, <2>1
    <2>2. CASE n = m + 1
        BY <1>5, <1>7, <1>11, <2>2
    <2> QED BY <1>1, <2>1, <2>2
<1>15. v \in Seq(Seq(Letters)) /\ Len(v) = m + 1
    BY <1>1, <1>9, <1>14
<1>16. \A n \in 1 .. m : v[n] = u[n]
    <2> SUFFICES ASSUME NEW n \in 1 .. m PROVE v[n] = u[n]
        OBVIOUS
    <2>1. v[n] = of(Nth(Q, n)) /\ u[n] = of(Nth(P, n))
        BY <1>1, <1>8, <1>9
    <2> QED BY <1>4, <2>1
<1>17. v[m + 1] = of(x)
    <2>1. m + 1 \in 1 .. m + 1
        BY <1>1
    <2> QED BY <1>5, <1>9, <2>1
<1>18. of(x) \in Seq(Letters)
    BY <1>7, <1>11
<1>19. v = Append(u, of(x))
    BY <1>13, <1>15, <1>16, <1>17, <1>18, IsAppend
<1> QED BY <1>10, <1>13, <1>18, <1>19 DEF u, of, x, Q

\* What the new character adds to the item that began after a.
LEMMA Grown ==
    ASSUME NEW s, NEW t, Longer(s, t), NEW a \in 0 .. Len(s)
    PROVE  LET x == Len(t)
               c == t[x]
               o == Opened(s, a, Len(s))
           IN  /\ Opened(t, a, x) <=> o \/ c = "["
               /\ KeyLetters(t, a, x + 1)
                    = KeyLetters(s, a, x) \cup (IF c \in Letters /\ ~o THEN {x} ELSE {})
               /\ Piece(t, a, x + 1)
                    = IF c = " " THEN {}
                      ELSE Piece(s, a, x) \cup (IF c \in Letters /\ o THEN {x} ELSE {})
               /\ Cuts(t, a, x + 1)
                    = Cuts(s, a, x) \cup (IF c = " " /\ Piece(s, a, x) # {} THEN {x} ELSE {})
<1> DEFINE x == Len(t)
           c == t[x]
           o == Opened(s, a, Len(s))
<1>0. Len(s) \in Nat /\ x = Len(s) + 1 /\ a \in Nat /\ x \in a + 1 .. x
    BY DEF Longer
<1>1. Opened(t, a, Len(s)) <=> o
    BY <1>0, OpenedSame
<1>2. a + 1 .. x = (a + 1 .. Len(s)) \cup {x} /\ x + 1 - 1 = x /\ x - 1 = Len(s)
    BY <1>0
<1>3. Opened(t, a, x) <=> o \/ c = "["
    BY <1>1, <1>2 DEF Opened
<1>4. c \in Letters => c # "[" /\ c # " "
    BY LettersAssumption
<1>5. KeyLetters(t, a, x) = KeyLetters(s, a, x) /\ Piece(t, a, x) = Piece(s, a, x)
         /\ Cuts(t, a, x) = Cuts(s, a, x)
    BY <1>0, LettersSame
<1> HIDE DEF c, o, x
<1>6. KeyLetters(t, a, x + 1) = KeyLetters(s, a, x) \cup (IF c \in Letters /\ ~o THEN {x} ELSE {})
    <2>1. KeyLetters(t, a, x + 1)
            = {i \in a + 1 .. x : t[i] \in Letters /\ ~Opened(t, a, i)}
        BY <1>2 DEF KeyLetters
    <2>2. KeyLetters(t, a, x)
            = {i \in a + 1 .. Len(s) : t[i] \in Letters /\ ~Opened(t, a, i)}
        BY <1>2 DEF KeyLetters
    <2> QED BY <1>2, <1>3, <1>4, <1>5, <2>1, <2>2 DEF c
<1>7. ValueLetters(t, a, x + 1) = ValueLetters(t, a, x) \cup (IF c \in Letters /\ o THEN {x} ELSE {})
    <2>1. ValueLetters(t, a, x + 1)
            = {i \in a + 1 .. x : t[i] \in Letters /\ Opened(t, a, i)}
        BY <1>2 DEF ValueLetters
    <2>2. ValueLetters(t, a, x)
            = {i \in a + 1 .. Len(s) : t[i] \in Letters /\ Opened(t, a, i)}
        BY <1>2 DEF ValueLetters
    <2> QED BY <1>2, <1>3, <1>4, <2>1, <2>2 DEF c
<1>8. ValueLetters(t, a, x) \in SUBSET (a + 1 .. Len(s))
    BY <1>2 DEF ValueLetters
<1>9. ASSUME NEW l \in a + 1 .. Len(s)
      PROVE  /\ l + 1 .. x = (l + 1 .. x - 1) \cup {x}
             /\ x \notin l + 1 .. x - 1
    BY <1>0
<1>10. x + 1 .. x = {}
    BY <1>0
<1>11. Piece(t, a, x + 1)
         = IF c = " " THEN {} ELSE Piece(s, a, x) \cup (IF c \in Letters /\ o THEN {x} ELSE {})
    <2>1. Piece(t, a, x + 1)
            = {l \in ValueLetters(t, a, x + 1) : \A j \in l + 1 .. x : t[j] # " "}
        BY <1>0, <1>2 DEF Piece
    <2>2. ASSUME NEW l \in ValueLetters(t, a, x)
          PROVE  (\A j \in l + 1 .. x : t[j] # " ")
                   <=> (\A j \in l + 1 .. x - 1 : t[j] # " ") /\ c # " "
        BY <1>8, <1>9 DEF c
    <2>3. \A j \in x + 1 .. x : t[j] # " "
        BY <1>10
    <2>4. Piece(s, a, x) = {l \in ValueLetters(t, a, x) : \A j \in l + 1 .. x - 1 : t[j] # " "}
        BY <1>5 DEF Piece
    <2>5. CASE c = " "
        <3>1. (IF c \in Letters /\ o THEN {x} ELSE {}) = {}
            BY <1>4, <2>5
        <3> QED BY <1>7, <2>1, <2>2, <2>5, <3>1
    <2>6. CASE c # " "
        BY <1>7, <2>1, <2>2, <2>3, <2>4, <2>6
    <2> QED BY <2>5, <2>6
<1>12. Cuts(t, a, x + 1) = Cuts(s, a, x) \cup (IF c = " " /\ Piece(s, a, x) # {} THEN {x} ELSE {})
    <2>1. Cuts(t, a, x + 1)
            = {i \in a + 1 .. x : t[i] = " " /\ Piece(t, a, i) # {}}
        BY <1>0, <1>2 DEF Cuts
    <2>2. Cuts(t, a, x)
            = {i \in a + 1 .. Len(s) : t[i] = " " /\ Piece(t, a, i) # {}}
        BY <1>2 DEF Cuts
    <2> QED BY <1>2, <1>5, <2>1, <2>2 DEF c
<1> QED BY <1>3, <1>6, <1>11, <1>12 DEF c, o, x

(***************************************************************************)
(* Whole items.                                                            *)
(***************************************************************************)
LEMMA EndsIn ==
    ASSUME NEW s \in Seq(Chars)
    PROVE  /\ Ends(s) = {i \in 1 .. Len(s) : s[i] = "]"}
           /\ Ends(s) \in SUBSET Nat /\ IsFiniteSet(Ends(s)) /\ Len(s) \in Nat
<1>1. DOMAIN s = 1 .. Len(s) /\ Len(s) \in Nat
    BY LenProperties
<1>2. Ends(s) = {i \in 1 .. Len(s) : s[i] = "]"}
    BY <1>1 DEF Ends
<1>3. Ends(s) \in SUBSET (1 .. Len(s))
    BY <1>2
<1> QED BY <1>1, <1>2, <1>3, Positions

LEMMA EndsGrown ==
    ASSUME NEW s, NEW t, Longer(s, t)
    PROVE  Ends(t) = Ends(s) \cup {i \in {Len(t)} : t[Len(t)] = "]"}
<1>1. Ends(t) = {i \in 1 .. Len(t) : t[i] = "]"}
    BY EndsIn DEF Longer
<1>2. Ends(s) = {i \in 1 .. Len(s) : s[i] = "]"}
    BY EndsIn DEF Longer
<1>3. 1 .. Len(t) = (1 .. Len(s)) \cup {Len(t)}
    BY DEF Longer
<1>4. \A i \in 1 .. Len(s) : t[i] = s[i]
    BY DEF Longer
<1> QED BY <1>1, <1>2, <1>3, <1>4

LEMMA BeforeIn ==
    ASSUME NEW s \in Seq(Chars), NEW e \in 1 .. Len(s)
    PROVE  Before(s, e) \in 0 .. e - 1
<1> DEFINE B == {0} \cup {i \in Ends(s) : i < e}
<1>1. Len(s) \in Nat /\ Ends(s) \in SUBSET Nat
    BY EndsIn
<1>2. ASSUME NEW i \in B PROVE i \in 0 .. e - 1
    BY <1>1
<1>3. B \in SUBSET (0 .. e - 1)
    BY <1>2
<1>4. IsFiniteSet(0 .. e - 1) /\ 0 .. e - 1 \in SUBSET Nat
    BY <1>1, FS_Interval
<1>5. IsFiniteSet(B) /\ B \in SUBSET Nat /\ 0 \in B
    <2>1. IsFiniteSet(B)
        BY <1>3, <1>4, FS_Subset
    <2>2. B \in SUBSET Nat
        BY <1>3, <1>4
    <2> QED BY <2>1, <2>2
<1>6. Before(s, e) = Max(B)
    BY DEF Before
<1> HIDE DEF B
<1>7. Max(B) \in B
    BY <1>5, MaxIn
<1> QED BY <1>3, <1>6, <1>7

LEMMA ItemSame ==
    ASSUME NEW s, NEW t, Longer(s, t), NEW e \in Ends(s)
    PROVE  KeyOf(t, e) = KeyOf(s, e) /\ ValuesOf(t, e) = ValuesOf(s, e)
<1>0. s \in Seq(Chars) /\ Len(s) \in Nat /\ Len(t) = Len(s) + 1
    BY DEF Longer
<1>1. e \in 1 .. Len(s)
    BY <1>0, EndsIn
<1>2. Before(t, e) = Before(s, e)
    <2>1. {i \in Ends(t) : i < e} = {i \in Ends(s) : i < e}
        <3>1. Ends(t) = Ends(s) \cup {i \in {Len(t)} : t[Len(t)] = "]"}
            BY EndsGrown
        <3>2. ~(Len(t) < e)
            BY <1>0, <1>1
        <3> QED BY <3>1, <3>2
    <2> QED BY <2>1 DEF Before
<1> DEFINE a == Before(s, e)
<1>3. a \in Nat
    <2>1. a \in 0 .. e - 1
        BY <1>0, <1>1, BeforeIn
    <2> QED BY <2>1
<1>4. e \in 1 .. Len(t) /\ e \in 1 .. Len(s) + 1
    BY <1>0, <1>1
<1> HIDE DEF a
<1>5. KeyLetters(t, a, e) = KeyLetters(s, a, e) /\ Cuts(t, a, e) = Cuts(s, a, e)
    BY <1>3, <1>4, LettersSame
<1>6. KeyLetters(s, a, e) \in SUBSET (1 .. Len(s)) /\ Cuts(s, a, e) \in SUBSET (1 .. Len(s))
    BY <1>0, <1>3, <1>4, LettersIn
<1>7. At(t, KeyLetters(s, a, e)) = At(s, KeyLetters(s, a, e))
    BY <1>6, AtSame
<1>8. Cuts(s, a, e) \cup {e} \in SUBSET (1 .. Len(t))
    <2>1. 1 .. Len(s) \in SUBSET (1 .. Len(t))
        BY <1>0
    <2> QED BY <1>4, <1>6, <2>1
<1>9. Pieces(t, a, Cuts(s, a, e) \cup {e}) = Pieces(s, a, Cuts(s, a, e) \cup {e})
    BY <1>3, <1>8, PiecesSame
<1> QED BY <1>2, <1>5, <1>7, <1>9 DEF KeyOf, ValuesOf, a

\* The items of one key, and the last of them.
EndsOf(s, k) == {e \in Ends(s) : KeyOf(s, e) = k}

LEMMA LastOf ==
    ASSUME NEW s \in Seq(Chars), NEW k, EndsOf(s, k) # {}
    PROVE  Max(EndsOf(s, k)) \in Ends(s)
<1>1. Ends(s) \in SUBSET Nat /\ IsFiniteSet(Ends(s))
    BY EndsIn
<1>2. EndsOf(s, k) \in SUBSET Ends(s)
    BY DEF EndsOf
<1>3. IsFiniteSet(EndsOf(s, k)) /\ EndsOf(s, k) \in SUBSET Nat
    <2>1. IsFiniteSet(EndsOf(s, k))
        BY <1>1, <1>2, FS_Subset
    <2> QED BY <1>1, <1>2, <2>1
<1>4. Max(EndsOf(s, k)) \in EndsOf(s, k)
    BY <1>3, MaxIn
<1> QED BY <1>2, <1>4

LEMMA ReferenceIs ==
    ASSUME NEW s
    PROVE  /\ DOMAIN Reference(s) = {KeyOf(s, e) : e \in Ends(s)}
           /\ Reference(s) = [k \in DOMAIN Reference(s) |-> ValuesOf(s, Max(EndsOf(s, k)))]
           /\ \A k \in DOMAIN Reference(s) :
                 EndsOf(s, k) # {} /\ Reference(s)[k] = ValuesOf(s, Max(EndsOf(s, k)))
<1>1. Reference(s) = [k \in {KeyOf(s, e) : e \in Ends(s)} |-> ValuesOf(s, Max(EndsOf(s, k)))]
    BY DEF Reference, EndsOf
<1>2. \A k \in {KeyOf(s, e) : e \in Ends(s)} : EndsOf(s, k) # {}
    BY DEF EndsOf
<1> QED BY <1>1, <1>2

LEMMA EndsOfSame ==
    ASSUME NEW s, NEW t, Longer(s, t), NEW k
    PROVE  EndsOf(t, k) = EndsOf(s, k)
              \cup {i \in {Len(t)} : t[Len(t)] = "]" /\ KeyOf(t, Len(t)) = k}
<1>1. Ends(t) = Ends(s) \cup {i \in {Len(t)} : t[Len(t)] = "]"}
    BY EndsGrown
<1>2. \A e \in Ends(s) : KeyOf(t, e) = KeyOf(s, e)
    BY ItemSame
<1> QED BY <1>1, <1>2 DEF EndsOf

\* A character that ends no item changes nothing of those before it.
LEMMA ReferenceSame ==
    ASSUME NEW s, NEW t, Longer(s, t), t[Len(t)] # "]"
    PROVE  Reference(t) = Reference(s)
<1>1. Ends(t) = Ends(s)
    BY EndsGrown
<1>2. \A e \in Ends(s) : KeyOf(t, e) = KeyOf(s, e)
    BY ItemSame
<1>3. DOMAIN Reference(t) = DOMAIN Reference(s)
    <2>1. {KeyOf(t, e) : e \in Ends(t)} = {KeyOf(s, e) : e \in Ends(s)}
        BY <1>1, <1>2
    <2> QED BY <2>1, ReferenceIs
<1>4. ASSUME NEW k \in DOMAIN Reference(s)
      PROVE  ValuesOf(t, Max(EndsOf(t, k))) = ValuesOf(s, Max(EndsOf(s, k)))
    <2>1. EndsOf(t, k) = EndsOf(s, k)
        <3>1. EndsOf(t, k) = EndsOf(s, k)
                \cup {i \in {Len(t)} : t[Len(t)] = "]" /\ KeyOf(t, Len(t)) = k}
            BY EndsOfSame
        <3> QED BY <3>1
    <2>2. Max(EndsOf(s, k)) \in Ends(s)
        BY ReferenceIs, LastOf DEF Longer
    <2> QED BY <2>1, <2>2, ItemSame
<1>5. /\ Reference(t) = [k \in DOMAIN Reference(t) |-> ValuesOf(t, Max(EndsOf(t, k)))]
      /\ Reference(s) = [k \in DOMAIN Reference(s) |-> ValuesOf(s, Max(EndsOf(s, k)))]
    BY ReferenceIs
<1> QED BY <1>3, <1>4, <1>5

With(r, key1, vs) == [k \in DOMAIN r \cup {key1} |-> IF k = key1 THEN vs ELSE r[k]]

\* An item that ends replaces the one of its key.
LEMMA ReferenceGrown ==
    ASSUME NEW s, NEW t, Longer(s, t), t[Len(t)] = "]"
    PROVE  Reference(t) = With(Reference(s), KeyOf(t, Len(t)), ValuesOf(t, Len(t)))
<1> DEFINE x == Len(t)
           q == KeyOf(t, x)
<1>0. s \in Seq(Chars) /\ t \in Seq(Chars) /\ Len(s) \in Nat /\ x = Len(s) + 1
    BY DEF Longer
<1>1. Ends(t) = Ends(s) \cup {x}
    BY EndsGrown
<1>2. \A e \in Ends(s) : KeyOf(t, e) = KeyOf(s, e)
    BY ItemSame
<1>3. DOMAIN Reference(t) = DOMAIN Reference(s) \cup {q}
    <2>1. {KeyOf(t, e) : e \in Ends(t)} = {KeyOf(s, e) : e \in Ends(s)} \cup {q}
        BY <1>1, <1>2
    <2> QED BY <2>1, ReferenceIs
<1>4. ASSUME NEW k \in DOMAIN Reference(s), k # q
      PROVE  ValuesOf(t, Max(EndsOf(t, k))) = Reference(s)[k]
    <2>1. EndsOf(t, k) = EndsOf(s, k)
        <3>1. EndsOf(t, k) = EndsOf(s, k) \cup (IF t[x] = "]" /\ q = k THEN {x} ELSE {})
            BY EndsOfSame
        <3>2. (IF t[x] = "]" /\ q = k THEN {x} ELSE {}) = {}
            BY <1>4
        <3> QED BY <3>1, <3>2
    <2>2. Max(EndsOf(s, k)) \in Ends(s)
        BY <1>0, ReferenceIs, LastOf
    <2>3. Reference(s)[k] = ValuesOf(s, Max(EndsOf(s, k)))
        BY ReferenceIs
    <2> QED BY <2>1, <2>2, <2>3, ItemSame
<1>5. Max(EndsOf(t, q)) = x
    <2>1. EndsOf(t, q) = EndsOf(s, q) \cup {x}
        BY EndsOfSame
    <2>2. EndsOf(s, q) \in SUBSET (1 .. Len(s))
        BY <1>0, EndsIn DEF EndsOf
    <2>3. IsFiniteSet(EndsOf(s, q)) /\ EndsOf(s, q) \in SUBSET Nat
        BY <1>0, <2>2, Positions
    <2>4. IsFiniteSet(EndsOf(t, q)) /\ EndsOf(t, q) \in SUBSET Nat
        <3>1. IsFiniteSet(EndsOf(s, q) \cup {x})
            BY <2>3, FS_AddElement
        <3>2. x \in Nat
            BY <1>0
        <3> QED BY <2>1, <2>3, <3>1, <3>2
    <2>5. Max(EndsOf(t, q)) \in EndsOf(t, q) /\ x <= Max(EndsOf(t, q))
        BY <2>1, <2>4, MaxIn
    <2>6. ~(Max(EndsOf(t, q)) \in 1 .. Len(s))
        BY <1>0, <2>5
    <2> QED BY <2>1, <2>2, <2>5, <2>6
<1>6. Reference(t) = [k \in DOMAIN Reference(t) |-> ValuesOf(t, Max(EndsOf(t, k)))]
    BY ReferenceIs
<1> QED BY <1>3, <1>4, <1>5, <1>6 DEF With

\* a is where the last whole item ends.
LEMMA NewItem ==
    ASSUME NEW s, NEW t, Longer(s, t), t[Len(t)] = "]",
           NEW a \in {0} \cup Ends(s), \A i \in Ends(s) : i <= a
    PROVE  /\ KeyOf(t, Len(t)) = At(s, KeyLetters(s, a, Len(t)))
           /\ ValuesOf(t, Len(t))
                = Append(Pieces(s, a, Cuts(s, a, Len(t))), At(s, Piece(s, a, Len(t))))
<1> DEFINE x == Len(t)
<1>0. s \in Seq(Chars) /\ t \in Seq(Chars) /\ Len(s) \in Nat /\ x = Len(s) + 1
    BY DEF Longer
<1>1. Ends(s) = {i \in 1 .. Len(s) : s[i] = "]"} /\ Ends(s) \in SUBSET Nat
         /\ IsFiniteSet(Ends(s))
    BY <1>0, EndsIn
<1>2. a \in Nat /\ x \in 1 .. Len(s) + 1 /\ x \in 1 .. Len(t)
    BY <1>0, <1>1
<1>3. Before(t, x) = a
    <2> DEFINE B == Ends(s) \cup {0}
    <2>1. Ends(t) = Ends(s) \cup {x}
        BY EndsGrown
    <2>2. ASSUME NEW i \in Ends(s) PROVE i < x
        BY <1>0, <1>1
    <2>3. ~(x < x)
        BY <1>0
    <2>4. {0} \cup {i \in Ends(t) : i < x} = B
        BY <2>1, <2>2, <2>3
    <2>5. Before(t, x) = Max(B)
        BY <2>4 DEF Before
    <2>6. IsFiniteSet(B)
        BY <1>1, FS_AddElement
    <2>7. B \in SUBSET Nat /\ a \in B /\ \A i \in B : i <= a
        BY <1>1, <1>2
    <2> HIDE DEF B
    <2>8. Max(B) \in B /\ a <= Max(B)
        BY <2>6, <2>7, MaxIn
    <2>9. Max(B) = a
        <3>1. Max(B) \in Nat /\ Max(B) <= a /\ a <= Max(B)
            BY <2>7, <2>8
        <3> QED BY <1>2, <3>1
    <2> QED BY <2>5, <2>9
<1>4. KeyLetters(t, a, x) = KeyLetters(s, a, x) /\ Cuts(t, a, x) = Cuts(s, a, x)
    BY <1>2, LettersSame
<1>5. KeyLetters(s, a, x) \in SUBSET (1 .. Len(s)) /\ Cuts(s, a, x) \in SUBSET (1 .. Len(s))
    BY <1>0, <1>2, LettersIn
<1>6. At(t, KeyLetters(s, a, x)) = At(s, KeyLetters(s, a, x))
    BY <1>5, AtSame
<1>7. Pieces(t, a, Cuts(s, a, x) \cup {x})
         = Append(Pieces(s, a, Cuts(s, a, x)), At(s, Piece(s, a, x)))
    BY <1>2, <1>5, PiecesAdd
<1> QED BY <1>3, <1>4, <1>6, <1>7 DEF KeyOf, ValuesOf

(***************************************************************************)
(* What the buffers hold: the letters read since a, where the last whole item *)
(* ended.                                                                  *)
(***************************************************************************)
ReadSo(s, a, st, k, v, vs) ==
    /\ \A i \in Ends(s) : i <= a
    /\ st = IF Opened(s, a, Len(s)) THEN "value" ELSE "key"
    /\ k = At(s, KeyLetters(s, a, Len(s) + 1))
    /\ v = At(s, Piece(s, a, Len(s) + 1))
    /\ vs = Pieces(s, a, Cuts(s, a, Len(s) + 1))

BuffersOK == \E a \in {0} \cup Ends(text) : ReadSo(text, a, state, key, value, values)

ParserInv == text \in Seq(Chars) /\ ret = Reference(text) /\ BuffersOK

\* How the parts of an item are read on.
LEMMA PartsGrown ==
    ASSUME NEW s, NEW t, Longer(s, t), NEW a \in 0 .. Len(s)
    PROVE  LET x == Len(t)
               K == KeyLetters(s, a, x)
               V == Piece(s, a, x)
               C == Cuts(s, a, x)
           IN  /\ At(t, K) = At(s, K) /\ At(t, V) = At(s, V)
               /\ Pieces(t, a, C) = Pieces(s, a, C)
               /\ t[x] \in Letters => /\ At(t, K \cup {x}) = Append(At(s, K), t[x])
                                      /\ At(t, V \cup {x}) = Append(At(s, V), t[x])
               /\ Pieces(t, a, C \cup {x}) = Append(Pieces(s, a, C), At(s, V))
               /\ At(s, V) = <<>> <=> V = {}
<1> DEFINE x == Len(t)
           K == KeyLetters(s, a, x)
           V == Piece(s, a, x)
           C == Cuts(s, a, x)
<1>0. s \in Seq(Chars) /\ Len(s) \in Nat /\ x = Len(s) + 1 /\ a \in Nat
    BY DEF Longer
<1>1. x \in 1 .. Len(s) + 1
    BY <1>0
<1>2. /\ K \in SUBSET (1 .. Len(s)) /\ V \in SUBSET (1 .. Len(s)) /\ C \in SUBSET (1 .. Len(s))
      /\ \A i \in K \cup V : s[i] \in Letters
    BY <1>0, <1>1, LettersIn
<1> HIDE DEF x, K, V, C
<1>3. At(t, K) = At(s, K) /\ At(t, V) = At(s, V)
    BY <1>2, AtSame
<1>4. C \in SUBSET (1 .. Len(t))
    <2>1. 1 .. Len(s) \in SUBSET (1 .. Len(t))
        BY <1>0 DEF x
    <2> QED BY <1>2, <2>1
<1>5. Pieces(t, a, C) = Pieces(s, a, C)
    BY <1>0, <1>4, PiecesSame
<1>6. ASSUME t[x] \in Letters, NEW P \in SUBSET (1 .. Len(s)), \A i \in P : s[i] \in Letters
      PROVE  At(t, P \cup {x}) = Append(At(s, P), t[x])
    <2>1. \A i \in 1 .. Len(s) : t[i] = s[i]
        BY DEF Longer
    <2>2. \A i \in P \cup {x} : t[i] \in Letters
        BY <1>6, <2>1
    <2> QED BY <2>2, AtAdd DEF x
<1>7. Pieces(t, a, C \cup {x}) = Append(Pieces(s, a, C), At(s, V))
    BY <1>0, <1>2, PiecesAdd DEF x, V
<1>8. At(s, V) = <<>> <=> V = {}
    BY <1>0, <1>2, AtIsText
<1> QED BY <1>2, <1>3, <1>5, <1>6, <1>7, <1>8 DEF x, K, V, C

\* No value is read before a "[".
LEMMA ClosedIsEmpty ==
    ASSUME NEW s \in Seq(Chars), NEW a \in Nat, ~Opened(s, a, Len(s))
    PROVE  Piece(s, a, Len(s) + 1) = {}
<1>1. Len(s) \in Nat
    BY LenProperties
<1>2. ASSUME NEW i \in a + 1 .. Len(s) PROVE ~Opened(s, a, i)
    <2>1. a + 1 .. i \in SUBSET (a + 1 .. Len(s))
        BY <1>1
    <2> QED BY <2>1 DEF Opened
<1>3. Len(s) + 1 - 1 = Len(s)
    BY <1>1
<1>4. ValueLetters(s, a, Len(s) + 1) = {}
    BY <1>1, <1>2, <1>3 DEF ValueLetters
<1> QED BY <1>4 DEF Piece

\* What a letter, a blank, a "%" or a "[" makes of the buffers.
TakesChar(c, st, k, v, vs, st1, k1, v1, vs1) ==
    /\ st1 = IF c = "[" THEN "value" ELSE st
    /\ k1 = IF c \in Letters /\ st = "key" THEN Append(k, c) ELSE k
    /\ v1 = IF c \in Letters /\ st = "value" THEN Append(v, c)
            ELSE IF c = " " /\ st = "value" /\ v # <<>> THEN <<>> ELSE v
    /\ vs1 = IF c = " " /\ st = "value" /\ v # <<>> THEN Append(vs, v) ELSE vs

\* Such a character is read into the item that began after a.
LEMMA ReadOn ==
    ASSUME NEW s, NEW t, Longer(s, t), NEW a \in {0} \cup Ends(s), t[Len(t)] # "]",
           NEW st, NEW k, NEW v, NEW vs, ReadSo(s, a, st, k, v, vs),
           NEW st1, NEW k1, NEW v1, NEW vs1,
           TakesChar(t[Len(t)], st, k, v, vs, st1, k1, v1, vs1)
    PROVE  ReadSo(t, a, st1, k1, v1, vs1)
<1> DEFINE x == Len(t)
           c == t[x]
           o == Opened(s, a, Len(s))
           K == KeyLetters(s, a, x)
           V == Piece(s, a, x)
           C == Cuts(s, a, x)
<1>0. s \in Seq(Chars) /\ t \in Seq(Chars) /\ Len(s) \in Nat /\ x = Len(s) + 1
    BY DEF Longer
<1>1. a \in 0 .. Len(s) /\ a \in Nat
    <2>1. Ends(s) = {i \in 1 .. Len(s) : s[i] = "]"}
        BY <1>0, EndsIn
    <2>2. CASE a = 0
        BY <1>0, <2>2
    <2>3. CASE a \in Ends(s)
        BY <1>0, <2>1, <2>3
    <2> QED BY <2>2, <2>3
<1>2. /\ \A i \in Ends(s) : i <= a
      /\ st = IF o THEN "value" ELSE "key"
      /\ k = At(s, K) /\ v = At(s, V) /\ vs = Pieces(s, a, C)
    BY <1>0 DEF ReadSo
<1>3. ~o => V = {}
    BY <1>0, <1>1, ClosedIsEmpty
<1>4. Opened(t, a, x) <=> o \/ c = "["
    BY <1>1, Grown
<1>5. KeyLetters(t, a, x + 1) = K \cup (IF c \in Letters /\ ~o THEN {x} ELSE {})
    BY <1>1, Grown
<1>6. Piece(t, a, x + 1) = IF c = " " THEN {} ELSE V \cup (IF c \in Letters /\ o THEN {x} ELSE {})
    BY <1>1, Grown
<1>7. Cuts(t, a, x + 1) = C \cup (IF c = " " /\ V # {} THEN {x} ELSE {})
    BY <1>1, Grown
<1>8. At(t, K) = At(s, K) /\ At(t, V) = At(s, V) /\ Pieces(t, a, C) = Pieces(s, a, C)
    BY <1>1, PartsGrown
<1>9. c \in Letters => At(t, K \cup {x}) = Append(At(s, K), c)
                       /\ At(t, V \cup {x}) = Append(At(s, V), c)
    BY <1>1, PartsGrown
<1>10. Pieces(t, a, C \cup {x}) = Append(Pieces(s, a, C), At(s, V))
    BY <1>1, PartsGrown
<1>11. At(s, V) = <<>> <=> V = {}
    BY <1>1, PartsGrown
<1>12. At(t, {}) = <<>>
    BY <1>0, AtIsText
<1>13. Ends(t) = Ends(s)
    BY EndsGrown
<1>14. c \in Letters => c # "[" /\ c # " "
    BY LettersAssumption
<1> HIDE DEF x, c, o, K, V, C
<1>15. st1 = IF Opened(t, a, x) THEN "value" ELSE "key"
    BY <1>2, <1>4 DEF TakesChar, x, c
<1>t. /\ k1 = IF c \in Letters /\ st = "key" THEN Append(k, c) ELSE k
      /\ v1 = IF c \in Letters /\ st = "value" THEN Append(v, c)
              ELSE IF c = " " /\ st = "value" /\ v # <<>> THEN <<>> ELSE v
      /\ vs1 = IF c = " " /\ st = "value" /\ v # <<>> THEN Append(vs, v) ELSE vs
    BY DEF TakesChar, c, x
<1>16. k1 = At(t, KeyLetters(t, a, x + 1))
    <2>1. CASE c \in Letters /\ ~o
        BY <1>2, <1>5, <1>9, <1>t, <2>1
    <2>2. CASE ~(c \in Letters /\ ~o)
        <3>1. KeyLetters(t, a, x + 1) = K
            BY <1>5, <2>2
        <3> QED BY <1>2, <1>8, <1>t, <2>2, <3>1
    <2> QED BY <2>1, <2>2
<1>17. v1 = At(t, Piece(t, a, x + 1))
    <2>1. CASE c \in Letters /\ o
        BY <1>2, <1>6, <1>9, <1>14, <1>t, <2>1
    <2>2. CASE c = " "
        <3>1. Piece(t, a, x + 1) = {}
            BY <1>6, <2>2
        <3>2. CASE o
            BY <1>2, <1>12, <1>14, <1>t, <2>2, <3>1, <3>2
        <3>3. CASE ~o
            BY <1>2, <1>3, <1>11, <1>12, <1>14, <1>t, <2>2, <3>1, <3>3
        <3> QED BY <3>2, <3>3
    <2>3. CASE c # " " /\ ~(c \in Letters /\ o)
        <3>1. Piece(t, a, x + 1) = V
            BY <1>6, <2>3
        <3> QED BY <1>2, <1>8, <1>t, <2>3, <3>1
    <2> QED BY <2>1, <2>2, <2>3
<1>18. vs1 = Pieces(t, a, Cuts(t, a, x + 1))
    <2>1. CASE c = " " /\ V # {}
        <3>1. Cuts(t, a, x + 1) = C \cup {x}
            BY <1>7, <2>1
        <3>2. o /\ v # <<>>
            BY <1>2, <1>3, <1>11, <2>1
        <3> QED BY <1>2, <1>10, <1>t, <2>1, <3>1, <3>2
    <2>2. CASE ~(c = " " /\ V # {})
        <3>1. Cuts(t, a, x + 1) = C
            BY <1>7, <2>2
        <3> QED BY <1>2, <1>8, <1>11, <1>t, <2>2, <3>1
    <2> QED BY <2>1, <2>2
<1>19. Len(t) = x
    BY DEF x
<1> QED BY <1>2, <1>13, <1>15, <1>16, <1>17, <1>18, <1>19 DEF ReadSo

\* A "]" leaves the buffers empty for the next item.
LEMMA ReadAnew ==
    ASSUME NEW t \in Seq(Chars), NEW e \in Ends(t), e = Len(t)
    PROVE  ReadSo(t, e, "key", <<>>, <<>>, <<>>)
<1>1. Ends(t) = {i \in 1 .. Len(t) : t[i] = "]"} /\ Len(t) \in Nat
    BY EndsIn
<1>2. \A i \in Ends(t) : i <= e
    BY <1>1
<1>3. e + 1 .. e = {} /\ e + 1 - 1 = e
    BY <1>1
<1>4. ~Opened(t, e, Len(t))
    BY <1>3 DEF Opened
<1>5. KeyLetters(t, e, Len(t) + 1) = {} /\ Cuts(t, e, Len(t) + 1) = {}
    <2>1. e + 1 .. (Len(t) + 1) - 1 = {}
        BY <1>1
    <2>2. KeyLetters(t, e, Len(t) + 1) = {}
        BY <2>1 DEF KeyLetters
    <2>3. Cuts(t, e, Len(t) + 1) = {}
        BY <2>1 DEF Cuts
    <2> QED BY <2>2, <2>3
<1>6. Piece(t, e, Len(t) + 1) = {}
    BY <1>1, <1>4, ClosedIsEmpty
<1>7. At(t, {}) = <<>>
    BY <1>1, AtIsText
<1>8. Pieces(t, e, {}) = <<>>
    <2>1. Cardinality({}) = 0
        BY FS_EmptySet
    <2>2. Pieces(t, e, {}) = [n \in 1 .. 0 |-> At(t, Piece(t, e, Nth({}, n)))]
        BY <2>1 DEF Pieces
    <2>3. 1 .. 0 = {}
        OBVIOUS
    <2> QED BY <2>2, <2>3
<1> QED BY <1>2, <1>4, <1>5, <1>6, <1>7, <1>8 DEF ReadSo

LEMMA InitParses == Init => ParserInv
<1> SUFFICES ASSUME Init PROVE ParserInv
    OBVIOUS
<1>1. text = <<>> /\ state = "key" /\ key = <<>> /\ value = <<>> /\ values = <<>> /\ ret = <<>>
    BY DEF Init
<1>2. <<>> \in Seq(Chars) /\ Len(<<>>) = 0
    BY EmptySeq
<1>3. Ends(<<>>) = {}
    <2>1. DOMAIN <<>> = {}
        OBVIOUS
    <2> QED BY <2>1 DEF Ends
<1>4. Reference(<<>>) = <<>>
    <2>1. DOMAIN Reference(<<>>) = {}
        BY <1>3, ReferenceIs
    <2>2. Reference(<<>>) = [k \in {} |-> ValuesOf(<<>>, Max(EndsOf(<<>>, k)))]
        BY <2>1, ReferenceIs
    <2> QED BY <2>2
<1>5. ReadSo(<<>>, 0, "key", <<>>, <<>>, <<>>)
    <2>1. 1 .. 0 = {} /\ 0 + 1 = 1 /\ 1 - 1 = 0
        OBVIOUS
    <2>2. ~Opened(<<>>, 0, 0)
        BY <2>1 DEF Opened
    <2>3. KeyLetters(<<>>, 0, 1) = {} /\ Cuts(<<>>, 0, 1) = {}
        BY <2>1 DEF KeyLetters, Cuts
    <2>4. Piece(<<>>, 0, 1) = {}
        BY <2>1 DEF Piece, ValueLetters
    <2>5. Cardinality({}) = 0
        BY FS_EmptySet
    <2>6. At(<<>>, {}) = <<>>
        BY <2>1, <2>5 DEF At
    <2>7. Pieces(<<>>, 0, {}) = <<>>
        BY <2>1, <2>5 DEF Pieces
    <2> QED BY <1>2, <1>3, <2>1, <2>2, <2>3, <2>4, <2>6, <2>7 DEF ReadSo
<1>6. BuffersOK
    BY <1>1, <1>5 DEF BuffersOK
<1> QED BY <1>1, <1>2, <1>4, <1>6 DEF ParserInv

\* The cases of the parser's switch but for "]" are those of TakesChar.
Takes(c) ==
    \/ Blank /\ c = " "
    \/ Percent /\ c = "%"
    \/ OpenBracket /\ c = "["
    \/ c \in Letters /\ Letter(c)

LEMMA StepTakesChar ==
    ASSUME ParserTypeOK, NEW c \in Chars, c # "]", Takes(c)
    PROVE  /\ text' = Append(text, c) /\ ret' = ret
           /\ TakesChar(c, state, key, value, values, state', key', value', values')
<1>1. state \in {"key", "value"}
    BY DEF ParserTypeOK
<1>2. \A d \in Letters : d # " " /\ d # "%" /\ d # "["
    BY LettersAssumption
<1>3. CASE Blank /\ c = " "
    BY <1>2, <1>3 DEF Blank, Read, EndsValue, TakesChar
<1>4. CASE Percent /\ c = "%"
    BY <1>2, <1>4 DEF Percent, Read, TakesChar
<1>5. CASE OpenBracket /\ c = "["
    BY <1>2, <1>5 DEF OpenBracket, Read, TakesChar
<1>6. CASE c \in Letters /\ Letter(c)
    BY <1>1, <1>2, <1>6 DEF Letter, Read, TakesChar
<1> QED BY <1>3, <1>4, <1>5, <1>6 DEF Takes

LEMMA CharKeeps ==
    ASSUME ParserInv, ParserTypeOK, NEW c \in Chars, c # "]",
           text' = Append(text, c), ret' = ret,
           TakesChar(c, state, key, value, values, state', key', value', values')
    PROVE  ParserInv'
<1>1. text \in Seq(Chars) /\ ret = Reference(text) /\ BuffersOK
    BY DEF ParserInv
<1> DEFINE t == text'
<1>2. Longer(text, t) /\ t[Len(text) + 1] = c
    BY <1>1, AppendIsLonger
<1>3. t \in Seq(Chars) /\ Len(t) = Len(text) + 1
    BY <1>2 DEF Longer
<1>4. t[Len(t)] = c
    BY <1>2, <1>3
<1> HIDE DEF t
<1>5. Reference(t) = Reference(text)
    BY <1>2, <1>4, ReferenceSame
<1>6. PICK a \in {0} \cup Ends(text) : ReadSo(text, a, state, key, value, values)
    BY <1>1 DEF BuffersOK
<1>7. ReadSo(t, a, state', key', value', values')
    BY <1>2, <1>4, <1>6, ReadOn
<1>8. a \in {0} \cup Ends(t)
    BY <1>2, EndsGrown
<1>9. \E b \in {0} \cup Ends(t) : ReadSo(t, b, state', key', value', values')
    BY <1>7, <1>8
<1>10. ret' = Reference(t)
    BY <1>1, <1>5
<1> QED BY <1>3, <1>9, <1>10 DEF ParserInv, BuffersOK, t

LEMMA CloseKeeps ==
    ASSUME ParserInv, CloseBracket
    PROVE  ParserInv'
<1>1. text \in Seq(Chars) /\ ret = Reference(text) /\ BuffersOK
    BY DEF ParserInv
<1>2. /\ text' = Append(text, "]")
      /\ ret' = With(ret, key, Append(values, value))
      /\ values' = <<>> /\ key' = <<>> /\ value' = <<>> /\ state' = "key"
    BY DEF CloseBracket, Read, AllValues, With
<1> DEFINE t == text'
           x == Len(t)
<1>3. Longer(text, t) /\ t[Len(text) + 1] = "]"
    BY <1>1, <1>2, AppendIsLonger DEF Chars
<1>4. t \in Seq(Chars) /\ Len(t) = Len(text) + 1
    BY <1>3 DEF Longer
<1>5. t[Len(t)] = "]"
    BY <1>3, <1>4
<1>6. Len(text) \in Nat
    BY <1>3 DEF Longer
<1> HIDE DEF t
<1>7. x \in Ends(t)
    <2>1. Ends(t) = Ends(text) \cup {i \in {Len(t)} : t[Len(t)] = "]"}
        BY <1>3, EndsGrown
    <2> QED BY <1>5, <2>1
<1>8. PICK a \in {0} \cup Ends(text) : ReadSo(text, a, state, key, value, values)
    BY <1>1 DEF BuffersOK
<1>9. /\ \A i \in Ends(text) : i <= a
      /\ key = At(text, KeyLetters(text, a, x))
      /\ value = At(text, Piece(text, a, x))
      /\ values = Pieces(text, a, Cuts(text, a, x))
    BY <1>4, <1>8 DEF ReadSo
<1>10. KeyOf(t, x) = key /\ ValuesOf(t, x) = Append(values, value)
    BY <1>3, <1>5, <1>9, NewItem
<1>11. Reference(t) = With(Reference(text), KeyOf(t, x), ValuesOf(t, x))
    BY <1>3, <1>5, ReferenceGrown
<1>12. ret' = Reference(t)
    BY <1>1, <1>2, <1>10, <1>11
<1>13. ReadSo(t, x, state', key', value', values')
    BY <1>2, <1>4, <1>7, ReadAnew
<1>14. \E b \in {0} \cup Ends(t) : ReadSo(t, b, state', key', value', values')
    BY <1>7, <1>13
<1> QED BY <1>4, <1>12, <1>14 DEF ParserInv, BuffersOK, t

\* Whatever the letters of a text and wherever it ends, the columns returned are
\* the items that were whole (ParseCrap of CrapNemesis.cpp).
THEOREM ParsesWhatItSays == Spec => []ParsesItems
<1>1. Init => ParserInv
    BY InitParses
<1>2. ASSUME ParserInv, ParserTypeOK, [Next]_vars PROVE ParserInv'
    <2>1. CASE UNCHANGED vars
        BY <1>2, <2>1 DEF vars, ParserInv, BuffersOK
    <2>2. CASE CloseBracket
        BY <1>2, <2>2, CloseKeeps
    <2>3. ASSUME NEW c \in Chars, c # "]", Takes(c) PROVE ParserInv'
        BY <1>2, <2>3, StepTakesChar, CharKeeps
    <2>4. Blank => Takes(" ")
        BY DEF Takes
    <2>5. Percent => Takes("%")
        BY DEF Takes
    <2>6. OpenBracket => Takes("[")
        BY DEF Takes
    <2>7. {" ", "%", "["} \in SUBSET Chars
        BY DEF Chars
    <2>8. CASE \E c \in Letters : Letter(c)
        <3>1. PICK c \in Letters : Letter(c)
            BY <2>8
        <3>2. c \in Chars /\ c # "]" /\ Takes(c)
            BY <3>1, LettersAssumption DEF Chars, Takes
        <3> QED BY <2>3, <3>2
    <2> QED BY <1>2, <2>1, <2>2, <2>3, <2>4, <2>5, <2>6, <2>7, <2>8 DEF Next
<1>3. ParserInv => ParsesItems
    BY DEF ParserInv, ParsesItems
<1> QED BY <1>1, <1>2, <1>3, TypeCorrect, PTL DEF Spec
=============================================================================
