------------------------- MODULE SignatureAnswerProofs -------------------------
(***************************************************************************)
(* What SignatureAnswer answers for components and keys of any bytes, any  *)
(* heads and any lengths of line.                                          *)
(*                                                                         *)
(* The functions of the model that recurse run over the bytes of a         *)
(* sequence.  That they exist, and what they compute, is shown by          *)
(* induction in the form in which it is about a set, not about a           *)
(* predicate: a set of numbers with a least counterexample (Least).        *)
(***************************************************************************)
EXTENDS SignatureAnswer, SequenceTheorems, WellFoundedInduction, TLAPS

-----------------------------------------------------------------------------
(* Induction.                                                              *)

\* A set of numbers that is not empty has a least element.
LEMMA Least ==
  ASSUME NEW T, T \subseteq Nat, T # {}
  PROVE  \E n \in T : \A m \in T : n <= m
<1> DEFINE Less == {p \in Nat \X Nat : p[1] < p[2]}
<1>1. OpToRel(<, Nat) = Less
  BY DEF OpToRel
<1>2. IsWellFoundedOn(Less, Nat)
  BY NatLessThanWellFounded, <1>1
<1>3. PICK n \in T : \A m \in T : <<m, n>> \notin Less
  <2> HIDE DEF Less
  <2>1. QED
    BY <1>2, WFMin
<1>4. ASSUME NEW m \in T
      PROVE  n <= m
  <2>1. m \in Nat /\ n \in Nat /\ <<m, n>> \in Nat \X Nat
    OBVIOUS
  <2>2. ~(m < n)
    BY <1>3, <2>1
  <2>3. QED
    BY <2>1, <2>2
<1>5. QED
  BY <1>4

\* A set of numbers that holds 0 and with each number the next holds them all.
LEMMA Induction ==
  ASSUME NEW T, 0 \in T, \A n \in Nat : n \in T => n + 1 \in T
  PROVE  Nat \subseteq T
<1> SUFFICES ASSUME Nat \ T # {}
             PROVE  FALSE
  OBVIOUS
<1>1. PICK n \in Nat \ T : \A m \in Nat \ T : n <= m
  BY Least
<1>2. n - 1 \in Nat /\ (n - 1) + 1 = n
  BY <1>1
<1>3. n - 1 \in T
  BY <1>1, <1>2
<1>4. QED
  BY <1>1, <1>2, <1>3

\* f begins with v and goes from each value to the next by g.
Iterates(f, V, v, g, n) ==
  f \in [0..n -> V] /\ f[0] = v /\ \A i \in 1..n : f[i] = g[<<i, f[i - 1]>>]

\* There is such an f.
LEMMA Iteration ==
  ASSUME NEW V, NEW v \in V, NEW g, g \in [Nat \X V -> V], NEW n \in Nat
  PROVE  \E f : Iterates(f, V, v, g, n)
<1> DEFINE T == {k \in Nat : \E f : Iterates(f, V, v, g, k)}
<1>1. 0 \in T
  <2> DEFINE f == [i \in 0..0 |-> v]
  <2>1. f \in [0..0 -> V] /\ f[0] = v /\ 1..0 = {}
    OBVIOUS
  <2>2. Iterates(f, V, v, g, 0)
    BY <2>1 DEF Iterates
  <2>3. QED
    BY <2>2
<1>2. ASSUME NEW k \in Nat, k \in T
      PROVE  k + 1 \in T
  <2>1. PICK f : Iterates(f, V, v, g, k)
    BY <1>2
  <2> DEFINE h == [i \in 0..(k + 1) |-> IF i <= k THEN f[i] ELSE g[<<i, f[k]>>]]
  <2>2. h \in [0..(k + 1) -> V]
    BY <2>1 DEF Iterates
  <2>3. h[0] = v
    BY <2>1 DEF Iterates
  <2>4. ASSUME NEW i \in 1..(k + 1)
        PROVE  h[i] = g[<<i, h[i - 1]>>]
    <3>1. CASE i \in 1..k
      <4>1. i - 1 \in 0..k /\ i \in 0..k /\ f[i] = g[<<i, f[i - 1]>>]
        BY <2>1, <3>1 DEF Iterates
      <4>2. h[i - 1] = f[i - 1] /\ h[i] = f[i]
        BY <4>1
      <4> HIDE DEF h
      <4>3. QED
        BY <4>1, <4>2
    <3>2. CASE i = k + 1
      <4>1. k \in 0..(k + 1) /\ k + 1 \in 0..(k + 1) /\ ~(k + 1 <= k)
        OBVIOUS
      <4>2. h[k] = f[k] /\ h[k + 1] = g[<<k + 1, f[k]>>]
        BY <4>1
      <4>3. i - 1 = k
        BY <3>2
      <4> HIDE DEF h
      <4>4. QED
        BY <3>2, <4>2, <4>3
    <3>3. QED
      BY <3>1, <3>2
  <2>5. Iterates(h, V, v, g, k + 1)
    <3> HIDE DEF h
    <3>1. QED
      BY <2>2, <2>3, <2>4 DEF Iterates
  <2>6. k + 1 \in Nat
    OBVIOUS
  <2> HIDE DEF h
  <2>7. QED
    BY <2>5, <2>6
<1>3. Nat \subseteq T
  <2> HIDE DEF T
  <2>1. QED
    BY <1>1, <1>2, Induction
<1>4. QED
  BY <1>3

-----------------------------------------------------------------------------
(* Escaping.                                                               *)

\* The digits of the escapes.
LEMMA HexFacts ==
  /\ {48, 50, 53, 65, 68} \subseteq DOMAIN HexadecimalValue
  /\ HexadecimalValue[48] = 0 /\ HexadecimalValue[50] = 2 /\ HexadecimalValue[53] = 5
  /\ HexadecimalValue[65] = 10 /\ HexadecimalValue[68] = 13
BY DEF HexadecimalValue, Digits

\* What the bytes of an escape are.
LEMMA EscapeFacts ==
  ASSUME NEW b \in Byte
  PROVE  /\ Escape(b) \in Seq(Byte)
         /\ Len(Escape(b)) \in Nat /\ Len(Escape(b)) >= 1
         /\ \A i \in 1..Len(Escape(b)) : Escape(b)[i] \notin {CR, LF}
         /\ b \notin {LF, CR, Percent} => Escape(b) = <<b>>
         /\ b \in {LF, CR, Percent} =>
              /\ Len(Escape(b)) = 3
              /\ Escape(b)[1] = Percent
              /\ Escape(b)[2] \in DOMAIN HexadecimalValue
              /\ Escape(b)[3] \in DOMAIN HexadecimalValue
              /\ 16 * HexadecimalValue[Escape(b)[2]] + HexadecimalValue[Escape(b)[3]] = b
<1>1. CASE b \notin {LF, CR, Percent}
  BY <1>1 DEF Escape, Byte, LF, CR, Percent
<1>2. CASE b = LF
  <2>1. Escape(b) = <<37, 48, 65>>
    BY <1>2 DEF Escape, LF, CR, Percent, HexDigit
  <2>2. /\ Len(Escape(b)) = 3 /\ Escape(b) \in Seq(Byte)
        /\ Escape(b)[1] = 37 /\ Escape(b)[2] = 48 /\ Escape(b)[3] = 65
    BY <2>1 DEF Byte
  <2>3. QED
    BY <1>2, <2>2, HexFacts DEF LF, CR, Percent
<1>3. CASE b = CR
  <2>1. Escape(b) = <<37, 48, 68>>
    BY <1>3 DEF Escape, LF, CR, Percent, HexDigit
  <2>2. /\ Len(Escape(b)) = 3 /\ Escape(b) \in Seq(Byte)
        /\ Escape(b)[1] = 37 /\ Escape(b)[2] = 48 /\ Escape(b)[3] = 68
    BY <2>1 DEF Byte
  <2>3. QED
    BY <1>3, <2>2, HexFacts DEF LF, CR, Percent
<1>4. CASE b = Percent
  <2>1. Escape(b) = <<37, 50, 53>>
    BY <1>4 DEF Escape, LF, CR, Percent, HexDigit
  <2>2. /\ Len(Escape(b)) = 3 /\ Escape(b) \in Seq(Byte)
        /\ Escape(b)[1] = 37 /\ Escape(b)[2] = 50 /\ Escape(b)[3] = 53
    BY <2>1 DEF Byte
  <2>3. QED
    BY <1>4, <2>2, HexFacts DEF LF, CR, Percent
<1>5. QED
  BY <1>1, <1>2, <1>3, <1>4

\* A function whose values stay in V from each to the next has all of them there.
LEMMA Typed ==
  ASSUME NEW V, NEW n \in Nat, NEW f, f = [i \in 0..n |-> f[i]], f[0] \in V,
         \A i \in 1..n : f[i - 1] \in V => f[i] \in V
  PROVE  f \in [0..n -> V]
<1> DEFINE T == {i \in Nat : i <= n => f[i] \in V}
<1>1. 0 \in T
  OBVIOUS
<1>2. ASSUME NEW i \in Nat, i \in T
      PROVE  i + 1 \in T
  <2>1. CASE i + 1 <= n
    <3>1. i + 1 \in 1..n /\ (i + 1) - 1 = i /\ f[i] \in V
      BY <1>2, <2>1
    <3>2. f[i + 1] \in V
      BY <3>1
    <3>3. QED
      BY <3>2
  <2>2. QED
    BY <2>1
<1>3. Nat \subseteq T
  <2> HIDE DEF T
  <2>1. QED
    BY <1>1, <1>2, Induction
<1>4. \A i \in 0..n : f[i] \in V
  BY <1>3
<1>5. QED
  BY <1>4

\* The recursion of Escaped.
LEMMA EscapedRecursion ==
  ASSUME NEW b \in Seq(Byte)
  PROVE  \E up \in [0..Len(b) -> Seq(Byte)] :
           /\ Escaped(b) = up[Len(b)]
           /\ up[0] = <<>>
           /\ \A n \in 1..Len(b) : up[n] = up[n - 1] \o Escape(b[n])
<1> DEFINE V == Seq(Byte)
           g == [x \in Nat \X V |->
                  IF x[1] \in 1..Len(b) THEN x[2] \o Escape(b[x[1]]) ELSE x[2]]
           up == CHOOSE f :
                   f = [n \in 0..Len(b) |-> IF n = 0 THEN <<>> ELSE f[n - 1] \o Escape(b[n])]
<1>1. <<>> \in V /\ Len(b) \in Nat /\ \A n \in 1..Len(b) : b[n] \in Byte
  BY ElementOfSeq
<1>2. g \in [Nat \X V -> V]
  BY <1>1, EscapeFacts, ConcatProperties
<1>3. \A i \in 1..Len(b), s \in V : g[<<i, s>>] = s \o Escape(b[i])
  <2>1. ASSUME NEW i \in 1..Len(b), NEW s \in V
        PROVE  g[<<i, s>>] = s \o Escape(b[i])
    <3>1. <<i, s>> \in Nat \X V /\ <<i, s>>[1] = i /\ <<i, s>>[2] = s
      OBVIOUS
    <3> HIDE DEF V
    <3>2. QED
      BY <3>1
  <2>2. QED
    BY <2>1
<1>4. PICK f : Iterates(f, V, <<>>, g, Len(b))
  <2> HIDE DEF V, g
  <2>1. QED
    BY <1>1, <1>2, Iteration
<1>5. f = [n \in 0..Len(b) |-> IF n = 0 THEN <<>> ELSE f[n - 1] \o Escape(b[n])]
  <2>1. ASSUME NEW i \in 0..Len(b), i # 0
        PROVE  f[i] = f[i - 1] \o Escape(b[i])
    <3>1. f[i - 1] \in V /\ i \in 1..Len(b)
      BY <1>1, <1>4, <2>1 DEF Iterates
    <3> HIDE DEF V, g
    <3>2. QED
      BY <1>3, <1>4, <3>1 DEF Iterates
  <2> HIDE DEF V, g
  <2>2. QED
    BY <1>4, <2>1 DEF Iterates
<1>6. up = [n \in 0..Len(b) |-> IF n = 0 THEN <<>> ELSE up[n - 1] \o Escape(b[n])]
  BY <1>5
<1>7. Escaped(b) = up[Len(b)]
  BY DEF Escaped
<1> HIDE DEF up, g
<1>8. /\ up[0] = <<>>
      /\ \A n \in 1..Len(b) : up[n] = up[n - 1] \o Escape(b[n])
  <2>1. 0 \in 0..Len(b)
    BY <1>1
  <2>2. up[0] = <<>>
    BY <1>6, <2>1
  <2>3. ASSUME NEW n \in 1..Len(b)
        PROVE  up[n] = up[n - 1] \o Escape(b[n])
    <3>1. n \in 0..Len(b) /\ n # 0
      BY <1>1
    <3>2. QED
      BY <1>6, <3>1
  <2>4. QED
    BY <2>2, <2>3
<1>9. up \in [0..Len(b) -> V]
  <2>1. up = [n \in 0..Len(b) |-> up[n]]
    BY <1>6
  <2>2. ASSUME NEW n \in 1..Len(b), up[n - 1] \in V
        PROVE  up[n] \in V
    <3>1. Escape(b[n]) \in V
      BY <1>1, EscapeFacts
    <3>2. QED
      BY <1>8, <2>2, <3>1, ConcatProperties
  <2> HIDE DEF V
  <2>3. QED
    BY <1>1, <1>8, <2>1, <2>2, Typed
<1>10. QED
  BY <1>7, <1>8, <1>9

\* The escapes of b are at these places: that of b[n] from at[n - 1] + 1 to
\* at[n] of the escaped bytes.
Cuts(at, b) ==
  /\ at \in [0..Len(b) -> Nat] /\ at[0] = 0 /\ at[Len(b)] = Len(Escaped(b))
  /\ \A n \in 1..Len(b) :
       /\ at[n] = at[n - 1] + Len(Escape(b[n])) /\ at[n] <= Len(Escaped(b))
       /\ \A i \in 1..Len(Escape(b[n])) : Escaped(b)[at[n - 1] + i] = Escape(b[n])[i]

\* The places of two sequences in the one they make.
LEMMA Joined ==
  ASSUME NEW s \in Seq(Byte), NEW t \in Seq(Byte)
  PROVE  /\ s \o t \in Seq(Byte) /\ Len(s) \in Nat /\ Len(t) \in Nat /\ Len(s \o t) \in Nat
         /\ Len(s \o t) = Len(s) + Len(t) /\ Len(s) <= Len(s \o t)
         /\ \A i \in Nat : i <= Len(s) /\ Len(t) >= 1 => i + 1 <= Len(s \o t)
         /\ \A i \in 1..Len(t) : Len(s) + i \in 1..Len(s \o t)
         /\ \A i \in 1..Len(s) : (s \o t)[i] = s[i]
         /\ \A i \in 1..Len(t) : (s \o t)[Len(s) + i] = t[i]
         /\ \A i \in 1..Len(s \o t) : i \in 1..Len(s) \/ \E j \in 1..Len(t) : i = Len(s) + j
<1> DEFINE l == Len(s)
           w == Len(t)
           u == s \o t
<1>1. /\ l \in Nat /\ w \in Nat /\ u \in Seq(Byte) /\ Len(u) = l + w
      /\ \A i \in 1..l + w : u[i] = IF i <= l THEN s[i] ELSE t[i - l]
  BY ConcatProperties, LenProperties
<1> HIDE DEF l, w, u
<1>2. \A i \in 1..l : u[i] = s[i]
  BY <1>1
<1>3. \A i \in 1..w : u[l + i] = t[i]
  <2>1. \A i \in 1..w : l + i \in 1..l + w /\ ~(l + i <= l) /\ (l + i) - l = i
    BY <1>1
  <2>2. QED
    BY <1>1, <2>1
<1>4. ASSUME NEW i \in 1..l + w
      PROVE  i \in 1..l \/ \E j \in 1..w : i = l + j
  <2>1. CASE i > l
    <3>1. i - l \in 1..w /\ i = l + (i - l)
      BY <1>1, <2>1
    <3>2. QED
      BY <3>1
  <2>2. QED
    BY <1>1, <2>1
<1>5. /\ l + w \in Nat /\ l <= l + w /\ \A i \in Nat : i <= l /\ w >= 1 => i + 1 <= l + w
      /\ \A i \in 1..w : l + i \in 1..l + w
  BY <1>1
<1>6. QED
  BY <1>1, <1>2, <1>3, <1>4, <1>5 DEF l, w, u

\* What is appended leaves what was there in its place.
LEMMA AppendsKeep ==
  ASSUME NEW b \in Seq(Byte), NEW up \in [0..Len(b) -> Seq(Byte)],
         \A n \in 1..Len(b) : up[n] = up[n - 1] \o Escape(b[n]),
         NEW m \in 0..Len(b)
  PROVE  \A n \in m..Len(b) :
           Len(up[m]) <= Len(up[n]) /\ \A i \in 1..Len(up[m]) : up[n][i] = up[m][i]
<1> DEFINE Kept(n) ==
             Len(up[m]) <= Len(up[n]) /\ \A i \in 1..Len(up[m]) : up[n][i] = up[m][i]
           T == {k \in Nat : m + k <= Len(b) => Kept(m + k)}
<1>1. Len(b) \in Nat /\ m \in Nat /\ \A n \in 0..Len(b) : up[n] \in Seq(Byte) /\ Len(up[n]) \in Nat
  BY LenProperties
<1>2. 0 \in T
  <2>1. m + 0 = m /\ Kept(m)
    BY <1>1
  <2> HIDE DEF Kept
  <2>2. QED
    BY <2>1
<1>3. ASSUME NEW k \in Nat, k \in T
      PROVE  k + 1 \in T
  <2>1. CASE m + (k + 1) <= Len(b)
    <3> DEFINE n == m + (k + 1)
    <3>1. n \in 1..Len(b) /\ n - 1 = m + k /\ n - 1 \in 0..Len(b) /\ m + k <= Len(b)
      BY <1>1, <2>1
    <3> HIDE DEF n
    <3>2. Kept(n - 1)
      BY <1>3, <3>1
    <3>3. up[n - 1] \in Seq(Byte) /\ Escape(b[n]) \in Seq(Byte) /\ up[n] = up[n - 1] \o Escape(b[n])
      BY <3>1, EscapeFacts, ElementOfSeq
    <3>4. /\ Len(up[n - 1]) \in Nat /\ Len(up[n]) \in Nat
          /\ Len(up[n - 1]) <= Len(up[n])
          /\ \A i \in 1..Len(up[n - 1]) : up[n][i] = up[n - 1][i]
      <4>1. up[n - 1] \o Escape(b[n]) = up[n]
        BY <3>3
      <4>2. /\ Len(up[n - 1]) \in Nat /\ Len(up[n - 1] \o Escape(b[n])) \in Nat
            /\ Len(up[n - 1]) <= Len(up[n - 1] \o Escape(b[n]))
            /\ \A i \in 1..Len(up[n - 1]) : (up[n - 1] \o Escape(b[n]))[i] = up[n - 1][i]
        BY <3>3, Joined
      <4>3. QED
        BY <4>1, <4>2
    <3>5. Kept(n)
      <4>1. \A i \in 1..Len(up[m]) : i \in 1..Len(up[n - 1])
        BY <1>1, <3>2, <3>4
      <4>2. QED
        BY <1>1, <3>2, <3>4, <4>1
    <3> HIDE DEF Kept
    <3>6. QED
      BY <3>5 DEF n
  <2>2. QED
    BY <2>1
<1>4. Nat \subseteq T
  <2> HIDE DEF T
  <2>1. QED
    BY <1>2, <1>3, Induction
<1>5. ASSUME NEW n \in m..Len(b)
      PROVE  Kept(n)
  <2>1. n - m \in Nat /\ m + (n - m) = n /\ n <= Len(b)
    BY <1>1
  <2>2. n - m \in T
    BY <1>4, <2>1
  <2> HIDE DEF Kept
  <2>3. QED
    BY <2>1, <2>2
<1>6. QED
  BY <1>5

\* Escaped bytes are bytes, none of them ends a line, and there are at least as
\* many as before.
LEMMA EscapedFacts ==
  ASSUME NEW b \in Seq(Byte)
  PROVE  /\ Escaped(b) \in Seq(Byte) /\ Len(b) <= Len(Escaped(b))
         /\ \A i \in 1..Len(Escaped(b)) : Escaped(b)[i] \notin {CR, LF}
         /\ \E at : Cuts(at, b)
<1>1. PICK up \in [0..Len(b) -> Seq(Byte)] :
        /\ Escaped(b) = up[Len(b)]
        /\ up[0] = <<>>
        /\ \A n \in 1..Len(b) : up[n] = up[n - 1] \o Escape(b[n])
  BY EscapedRecursion
<1>2. Len(b) \in Nat /\ \A n \in 0..Len(b) : up[n] \in Seq(Byte) /\ Len(up[n]) \in Nat
  BY LenProperties
<1>3. ASSUME NEW n \in 1..Len(b)
      PROVE  /\ n \in 0..Len(b) /\ n - 1 \in 0..Len(b) /\ b[n] \in Byte
             /\ Len(Escape(b[n])) \in Nat /\ Len(Escape(b[n])) >= 1
             /\ Len(up[n]) = Len(up[n - 1]) + Len(Escape(b[n]))
             /\ \A i \in Nat : i <= Len(up[n - 1]) => i + 1 <= Len(up[n])
             /\ \A i \in 1..Len(Escape(b[n])) : Len(up[n - 1]) + i \in 1..Len(up[n])
             /\ \A i \in 1..Len(up[n - 1]) : up[n][i] = up[n - 1][i]
             /\ \A i \in 1..Len(Escape(b[n])) : up[n][Len(up[n - 1]) + i] = Escape(b[n])[i]
             /\ \A i \in 1..Len(up[n]) :
                  \/ i \in 1..Len(up[n - 1])
                  \/ \E j \in 1..Len(Escape(b[n])) : i = Len(up[n - 1]) + j
  <2>1. n \in 0..Len(b) /\ n - 1 \in 0..Len(b) /\ up[n - 1] \in Seq(Byte) /\ b[n] \in Byte
    BY <1>2, ElementOfSeq
  <2>2. Escape(b[n]) \in Seq(Byte) /\ Len(Escape(b[n])) \in Nat /\ Len(Escape(b[n])) >= 1
    BY <2>1, EscapeFacts
  <2>3. up[n] = up[n - 1] \o Escape(b[n])
    BY <1>1
  <2> DEFINE s == up[n - 1]
             t == Escape(b[n])
             u == up[n]
  <2>4. s \in Seq(Byte) /\ t \in Seq(Byte) /\ Len(t) >= 1 /\ u = s \o t
    BY <2>1, <2>2, <2>3
  <2> HIDE DEF s, t, u
  <2>5. /\ Len(u) = Len(s) + Len(t)
        /\ \A i \in Nat : i <= Len(s) => i + 1 <= Len(u)
        /\ \A i \in 1..Len(t) : Len(s) + i \in 1..Len(u)
        /\ \A i \in 1..Len(s) : u[i] = s[i]
        /\ \A i \in 1..Len(t) : u[Len(s) + i] = t[i]
        /\ \A i \in 1..Len(u) : i \in 1..Len(s) \/ \E j \in 1..Len(t) : i = Len(s) + j
    BY <2>4, Joined
  <2>6. QED
    BY <2>1, <2>2, <2>5 DEF s, t, u
<1> DEFINE Plain(n) == n <= Len(up[n]) /\ \A i \in 1..Len(up[n]) : up[n][i] \notin {CR, LF}
           T == {n \in Nat : n <= Len(b) => Plain(n)}
<1>4. 0 \in T
  BY <1>1, <1>2
<1>5. ASSUME NEW k \in Nat, k \in T
      PROVE  k + 1 \in T
  <2>1. CASE k + 1 <= Len(b)
    <3> DEFINE n == k + 1
    <3>1. n \in 1..Len(b) /\ n - 1 = k /\ k <= Len(b) /\ k \in 0..Len(b)
      BY <1>2, <2>1
    <3>2. Plain(k)
      BY <1>5, <3>1
    <3> HIDE DEF n
    <3>3. \A i \in 1..Len(Escape(b[n])) : Escape(b[n])[i] \notin {CR, LF}
      BY <1>3, <3>1, EscapeFacts
    <3>4. ASSUME NEW i \in 1..Len(up[n])
          PROVE  up[n][i] \notin {CR, LF}
      <4>1. CASE i \in 1..Len(up[k])
        BY <1>3, <3>1, <3>2, <4>1
      <4>2. CASE \E j \in 1..Len(Escape(b[n])) : i = Len(up[k]) + j
        BY <1>3, <3>1, <3>3, <4>2
      <4>3. QED
        BY <1>3, <3>1, <4>1, <4>2
    <3>5. n <= Len(up[n])
      <4>1. k + 1 <= Len(up[n])
        BY <1>3, <3>1, <3>2
      <4>2. QED
        BY <4>1 DEF n
    <3>6. QED
      BY <3>4, <3>5 DEF n
  <2>2. QED
    BY <2>1
<1>6. Nat \subseteq T
  <2> HIDE DEF T
  <2>1. QED
    BY <1>4, <1>5, Induction
<1>7. Len(b) <= Len(Escaped(b)) /\ \A i \in 1..Len(Escaped(b)) : Escaped(b)[i] \notin {CR, LF}
  BY <1>1, <1>2, <1>6
<1> DEFINE at == [n \in 0..Len(b) |-> Len(up[n])]
<1>8. Cuts(at, b)
  <2>1. at \in [0..Len(b) -> Nat] /\ at[0] = 0 /\ at[Len(b)] = Len(Escaped(b))
    BY <1>1, <1>2
  <2>2. ASSUME NEW n \in 1..Len(b)
        PROVE  /\ at[n] = at[n - 1] + Len(Escape(b[n])) /\ at[n] <= Len(Escaped(b))
               /\ \A i \in 1..Len(Escape(b[n])) : Escaped(b)[at[n - 1] + i] = Escape(b[n])[i]
    <3>1. /\ n \in 0..Len(b) /\ n - 1 \in 0..Len(b) /\ Len(b) \in n..Len(b)
          /\ at[n] = Len(up[n]) /\ at[n - 1] = Len(up[n - 1])
      BY <1>2
    <3>2. Len(up[n]) <= Len(up[Len(b)]) /\ \A i \in 1..Len(up[n]) : up[Len(b)][i] = up[n][i]
      BY <1>1, <3>1, AppendsKeep
    <3>3. \A i \in 1..Len(Escape(b[n])) : Len(up[n - 1]) + i \in 1..Len(up[n])
      BY <1>3
    <3> HIDE DEF at
    <3>4. QED
      BY <1>1, <1>3, <3>1, <3>2, <3>3
  <2> HIDE DEF at
  <2>3. QED
    BY <2>1, <2>2 DEF Cuts
<1>9. Escaped(b) \in Seq(Byte)
  BY <1>1, <1>2
<1> HIDE DEF at
<1>10. QED
  BY <1>7, <1>8, <1>9

-----------------------------------------------------------------------------
(* Decoding.                                                               *)

\* The states of the loop of decoded_bytes.
Loops == [index : Nat \ {0}, result : Seq(Byte)]

\* The values of the hexadecimal digits.
LEMMA HexRange ==
  \A h \in DOMAIN HexadecimalValue : HexadecimalValue[h] \in 0..15
BY DEF HexadecimalValue, Digits

\* A turn leads from a state of the loop to a state of the loop.
LEMMA TurnType ==
  ASSUME NEW e \in Seq(Byte), NEW x \in Loops
  PROVE  Turn(e, x) \in Loops
<1> DEFINE i == x.index
           s == x.result
<1>1. i \in Nat /\ i >= 1 /\ s \in Seq(Byte) /\ Len(e) \in Nat
  BY DEF Loops
<1>2. CASE i > Len(e)
  BY <1>2 DEF Turn
<1>3. CASE i <= Len(e) /\ IsEscape(e, i)
  <2> DEFINE h == HexadecimalValue[e[i + 1]]
             l == HexadecimalValue[e[i + 2]]
  <2>1. h \in 0..15 /\ l \in 0..15
    BY <1>3, HexRange DEF IsEscape
  <2>2. Turn(e, x) = [index |-> i + 3, result |-> s \o <<16 * h + l>>]
    BY <1>1, <1>3 DEF Turn
  <2> HIDE DEF h, l, i, s
  <2>3. 16 * h + l \in Byte /\ i + 3 \in Nat \ {0}
    BY <1>1, <2>1 DEF Byte
  <2>4. s \o <<16 * h + l>> \in Seq(Byte)
    BY <1>1, <2>3, ConcatProperties
  <2>5. QED
    BY <2>2, <2>3, <2>4 DEF Loops
<1>4. CASE i <= Len(e) /\ ~IsEscape(e, i)
  <2>1. Turn(e, x) = [index |-> i + 1, result |-> s \o <<e[i]>>]
    BY <1>1, <1>4 DEF Turn
  <2>2. e[i] \in Byte /\ i + 1 \in Nat \ {0}
    BY <1>1, <1>4, ElementOfSeq
  <2>3. s \o <<e[i]>> \in Seq(Byte)
    BY <1>1, <2>2, ConcatProperties
  <2>4. QED
    BY <2>1, <2>2, <2>3 DEF Loops
<1>5. QED
  BY <1>1, <1>2, <1>3, <1>4

\* The recursion of DecodedBytes.
LEMMA DecodedRecursion ==
  ASSUME NEW e \in Seq(Byte)
  PROVE  \E after \in [0..Len(e) -> Loops] :
           /\ DecodedBytes(e) = after[Len(e)].result
           /\ after[0] = [index |-> 1, result |-> <<>>]
           /\ \A n \in 1..Len(e) : after[n] = Turn(e, after[n - 1])
<1> DEFINE v == [index |-> 1, result |-> <<>>]
           g == [x \in Nat \X Loops |-> Turn(e, x[2])]
           after == CHOOSE f :
                      f = [n \in 0..Len(e) |-> IF n = 0 THEN v ELSE Turn(e, f[n - 1])]
<1>1. v \in Loops /\ Len(e) \in Nat
  BY DEF Loops
<1>2. g \in [Nat \X Loops -> Loops]
  BY TurnType
<1>3. ASSUME NEW i \in Nat, NEW x \in Loops
      PROVE  g[<<i, x>>] = Turn(e, x)
  <2>1. <<i, x>> \in Nat \X Loops /\ <<i, x>>[2] = x
    OBVIOUS
  <2>2. QED
    BY <2>1
<1>4. PICK f : Iterates(f, Loops, v, g, Len(e))
  <2> HIDE DEF g, v
  <2>1. QED
    BY <1>1, <1>2, Iteration
<1>5. f = [n \in 0..Len(e) |-> IF n = 0 THEN v ELSE Turn(e, f[n - 1])]
  <2>1. ASSUME NEW i \in 0..Len(e), i # 0
        PROVE  f[i] = Turn(e, f[i - 1])
    <3>1. f[i - 1] \in Loops /\ i \in 1..Len(e) /\ i \in Nat
      BY <1>1, <1>4, <2>1 DEF Iterates
    <3> HIDE DEF g, v
    <3>2. QED
      BY <1>3, <1>4, <3>1 DEF Iterates
  <2> HIDE DEF g, v
  <2>2. QED
    BY <1>4, <2>1 DEF Iterates
<1> HIDE DEF g
<1>6. after = [n \in 0..Len(e) |-> IF n = 0 THEN v ELSE Turn(e, after[n - 1])]
  BY <1>5
<1>7. DecodedBytes(e) = after[Len(e)].result
  BY DEF DecodedBytes
<1> HIDE DEF after
<1>8. /\ after[0] = v
      /\ \A n \in 1..Len(e) : after[n] = Turn(e, after[n - 1])
  <2>1. 0 \in 0..Len(e)
    BY <1>1
  <2>2. after[0] = v
    BY <1>6, <2>1
  <2>3. ASSUME NEW n \in 1..Len(e)
        PROVE  after[n] = Turn(e, after[n - 1])
    <3>1. n \in 0..Len(e) /\ n # 0
      BY <1>1
    <3>2. QED
      BY <1>6, <3>1
  <2>4. QED
    BY <2>2, <2>3
<1>9. after \in [0..Len(e) -> Loops]
  <2>1. after = [n \in 0..Len(e) |-> after[n]]
    BY <1>6
  <2>2. \A n \in 1..Len(e) : after[n - 1] \in Loops => after[n] \in Loops
    BY <1>8, TurnType
  <2> HIDE DEF v
  <2>3. QED
    BY <1>1, <1>8, <2>1, <2>2, Typed
<1>10. QED
  BY <1>7, <1>8, <1>9

\* A turn at the escape of byte c appends c and goes on after the escape.
LEMMA TurnDecodes ==
  ASSUME NEW e \in Seq(Byte), NEW p \in Nat, NEW s \in Seq(Byte), NEW c \in Byte,
         p + Len(Escape(c)) <= Len(e),
         \A i \in 1..Len(Escape(c)) : e[p + i] = Escape(c)[i]
  PROVE  Turn(e, [index |-> p + 1, result |-> s])
           = [index |-> p + Len(Escape(c)) + 1, result |-> s \o <<c>>]
<1>1. CASE c \notin {LF, CR, Percent}
  <2>1. Escape(c) = <<c>> /\ Len(Escape(c)) = 1
    BY <1>1, EscapeFacts
  <2>2. e[p + 1] = c /\ ~IsEscape(e, p + 1)
    BY <1>1, <2>1 DEF IsEscape
  <2>3. ~(p + 1 > Len(e)) /\ p + 1 + 1 = p + Len(Escape(c)) + 1
    BY <2>1
  <2>4. QED
    BY <2>2, <2>3 DEF Turn
<1>2. CASE c \in {LF, CR, Percent}
  <2>1. Len(Escape(c)) = 3
    BY <1>2, EscapeFacts
  <2>2. p + 1 + 1 = p + 2 /\ p + 1 + 2 = p + 3 /\ p + 3 <= Len(e) /\ ~(p + 1 > Len(e))
    BY <2>1
  <2>3. e[p + 1] = Escape(c)[1] /\ e[p + 2] = Escape(c)[2] /\ e[p + 3] = Escape(c)[3]
    BY <2>1
  <2>4. IsEscape(e, p + 1)
    BY <1>2, <2>2, <2>3, EscapeFacts DEF IsEscape
  <2>5. 16 * HexadecimalValue[e[p + 2]] + HexadecimalValue[e[p + 3]] = c
    BY <1>2, <2>3, EscapeFacts
  <2>6. Turn(e, [index |-> p + 1, result |-> s])
          = [index |-> p + 1 + 3,
             result |-> s \o <<16 * HexadecimalValue[e[p + 1 + 1]]
                                 + HexadecimalValue[e[p + 1 + 2]]>>]
    BY <2>2, <2>4 DEF Turn
  <2>7. p + 1 + 3 = p + Len(Escape(c)) + 1
    BY <2>1
  <2>8. QED
    BY <2>2, <2>5, <2>6, <2>7
<1>3. QED
  BY <1>1, <1>2

\* What was escaped is decoded, whatever its bytes.
LEMMA DecodesEscaped ==
  ASSUME NEW b \in Seq(Byte)
  PROVE  DecodedBytes(Escaped(b)) = b
<1> DEFINE e == Escaped(b)
<1>1. e \in Seq(Byte) /\ Len(e) \in Nat /\ Len(b) \in Nat /\ Len(b) <= Len(e)
  BY EscapedFacts
<1>2. PICK at : Cuts(at, b)
  BY EscapedFacts
<1>3. PICK after \in [0..Len(e) -> Loops] :
        /\ DecodedBytes(e) = after[Len(e)].result
        /\ after[0] = [index |-> 1, result |-> <<>>]
        /\ \A n \in 1..Len(e) : after[n] = Turn(e, after[n - 1])
  BY <1>1, DecodedRecursion
<1> DEFINE State(n) == [index |-> at[n] + 1, result |-> SubSeq(b, 1, n)]
           T == {n \in Nat : n <= Len(b) => after[n] = State(n)}
<1>4. 0 \in T
  <2>1. at[0] = 0 /\ SubSeq(b, 1, 0) = <<>>
    BY <1>2, SubSeqEmpty DEF Cuts
  <2>2. QED
    BY <1>3, <2>1
<1>5. ASSUME NEW k \in Nat, k \in T
      PROVE  k + 1 \in T
  <2>1. CASE k + 1 <= Len(b)
    <3> DEFINE n == k + 1
               c == b[n]
               p == at[k]
               s == SubSeq(b, 1, k)
    <3>1. n \in 1..Len(b) /\ n - 1 = k /\ n \in 1..Len(e) /\ k \in 0..Len(b) /\ k <= Len(b)
      BY <1>1, <2>1
    <3>2. after[k] = [index |-> p + 1, result |-> s]
      BY <1>5, <3>1
    <3>3. c \in Byte /\ s \in Seq(Byte)
      BY <1>1, <3>1, ElementOfSeq, SubSeqProperties
    <3>4. SubSeq(b, 1, n) = s \o <<c>>
      BY <3>1, SubSeqRecursiveSecond
    <3> HIDE DEF n, e
    <3>5. /\ p \in Nat /\ at[n] = p + Len(Escape(c)) /\ at[n] <= Len(e)
          /\ \A i \in 1..Len(Escape(c)) : e[p + i] = Escape(c)[i]
      BY <1>2, <3>1 DEF Cuts, e
    <3> HIDE DEF c, p, s
    <3>6. Turn(e, [index |-> p + 1, result |-> s])
            = [index |-> p + Len(Escape(c)) + 1, result |-> s \o <<c>>]
      BY <1>1, <3>3, <3>5, TurnDecodes
    <3>7. after[n] = State(n)
      BY <1>3, <3>1, <3>2, <3>4, <3>5, <3>6
    <3>8. QED
      BY <3>7 DEF n
  <2>2. QED
    BY <2>1
<1>6. Nat \subseteq T
  <2> HIDE DEF T
  <2>1. QED
    BY <1>4, <1>5, Induction
<1> DEFINE full == after[Len(b)]
<1>7. full.index = Len(e) + 1 /\ full.result = b
  <2>1. full = State(Len(b))
    <3>1. Len(b) \in T
      BY <1>1, <1>6
    <3> HIDE DEF State
    <3>2. QED
      BY <1>1, <3>1
  <2>2. at[Len(b)] = Len(e) /\ SubSeq(b, 1, Len(b)) = b
    BY <1>2, SubSeqFull DEF Cuts
  <2>3. QED
    BY <2>1, <2>2
<1> DEFINE U == {k \in Nat : Len(b) + k <= Len(e) => after[Len(b) + k] = full}
<1>8. 0 \in U
  BY <1>1
<1> HIDE DEF e
<1>9. ASSUME NEW k \in Nat, k \in U
      PROVE  k + 1 \in U
  <2>1. CASE Len(b) + (k + 1) <= Len(e)
    <3> DEFINE n == Len(b) + (k + 1)
    <3>1. n \in 1..Len(e) /\ n - 1 = Len(b) + k /\ Len(b) + k <= Len(e)
      BY <1>1, <2>1
    <3> HIDE DEF n
    <3>2. after[n - 1] = full
      BY <1>9, <3>1
    <3> HIDE DEF full
    <3>3. Turn(e, full) = full
      BY <1>1, <1>7 DEF Turn
    <3>4. after[n] = full
      BY <1>3, <3>1, <3>2, <3>3
    <3>5. QED
      BY <3>4 DEF n
  <2>2. QED
    BY <2>1
<1>10. Nat \subseteq U
  <2> HIDE DEF U
  <2>1. QED
    BY <1>8, <1>9, Induction
<1>11. after[Len(e)] = full
  <2>1. Len(e) - Len(b) \in Nat /\ Len(b) + (Len(e) - Len(b)) = Len(e)
    BY <1>1
  <2>2. Len(e) - Len(b) \in U
    BY <1>10, <2>1
  <2> HIDE DEF full
  <2>3. QED
    BY <1>1, <2>1, <2>2
<1>12. QED
  <2> HIDE DEF full
  <2>1. QED
    BY <1>3, <1>7, <1>11 DEF e

\* The end of a line goes, and nothing else does.
LEMMA StripsEnd ==
  ASSUME NEW e \in Seq(Byte), \A i \in 1..Len(e) : e[i] \notin {CR, LF}
  PROVE  Stripped(e \o <<LF>>) = e
<1> DEFINE l == Len(e)
           u == e \o <<LF>>
           Kept == {0} \union {i \in DOMAIN u : u[i] \notin {CR, LF}}
<1>1. <<LF>> \in Seq(Byte) /\ Len(<<LF>>) = 1 /\ <<LF>>[1] = LF /\ l \in Nat
  BY LenProperties DEF LF, Byte
<1>2. /\ u \in Seq(Byte) /\ Len(u) = l + 1 /\ \A i \in 1..l : u[i] = e[i]
      /\ \A i \in 1..Len(<<LF>>) : u[l + i] = <<LF>>[i]
  BY <1>1, Joined
<1>3. u[l + 1] = LF /\ DOMAIN u = 1..l + 1
  BY <1>1, <1>2, LenProperties
<1> HIDE DEF u
<1>4. l \in Kept /\ \A i \in Kept : l >= i
  <2>1. CASE l = 0
    BY <1>1, <1>3, <2>1
  <2>2. CASE l # 0
    <3>1. l \in 1..l /\ l \in 1..l + 1
      BY <1>1, <2>2
    <3>2. l \in Kept
      BY <1>2, <1>3, <3>1
    <3>3. \A i \in 1..l + 1 : i # l + 1 => l >= i
      BY <1>1
    <3>4. \A i \in Kept : l >= i
      BY <1>1, <1>3, <3>3
    <3>5. QED
      BY <3>2, <3>4
  <2>3. QED
    BY <2>1, <2>2
<1>5. \A i \in Kept : i \in Int
  BY <1>1, <1>3
<1>6. Max(Kept) = l
  <2> HIDE DEF Kept, l
  <2>1. Max(Kept) \in Kept /\ \A i \in Kept : Max(Kept) >= i
    BY <1>4 DEF Max
  <2>2. QED
    BY <1>4, <1>5, <2>1
<1>7. SubSeq(u, 1, l) = e
  <2>1. \A i \in 1..l : u[i] \in Byte
    BY <1>2, ElementOfSeq
  <2>2. /\ SubSeq(u, 1, l) \in Seq(Byte)
        /\ Len(SubSeq(u, 1, l)) = IF 1 <= l THEN l - 1 + 1 ELSE 0
        /\ \A i \in 1..l - 1 + 1 : SubSeq(u, 1, l)[i] = u[1 + i - 1]
    BY <1>1, <2>1, SubSeqProperties
  <2>3. Len(SubSeq(u, 1, l)) = l /\ \A i \in 1..l : SubSeq(u, 1, l)[i] = u[i]
    BY <1>1, <2>2
  <2> HIDE DEF l
  <2>4. QED
    BY <1>2, <2>2, <2>3, SeqEqual DEF l
<1>8. QED
  BY <1>6, <1>7 DEF Stripped, u

\* A line is read as the bytes it encodes.
LEMMA LineRead ==
  ASSUME NEW b \in Seq(Byte)
  PROVE  DecodedBytes(Stripped(Escaped(b) \o <<LF>>)) = b
BY EscapedFacts, StripsEnd, DecodesEscaped

-----------------------------------------------------------------------------
(* Fields.                                                                 *)

\* One or two digits are read as the number they mean.
LEMMA DecimalFacts ==
  /\ \A a \in Int : Decimal(<<a>>) = a - 48
  /\ \A a, b \in Int : Decimal(<<a, b>>) = 10 * (a - 48) + (b - 48)
<1>1. ASSUME NEW a \in Int
      PROVE  Decimal(<<a>>) = a - 48
  <2> DEFINE d == <<a>>
             up == CHOOSE f : f = [n \in 0..Len(d) |->
                     IF n = 0 THEN 0 ELSE 10 * f[n - 1] + (d[n] - 48)]
             h == [n \in 0..1 |-> IF n = 0 THEN 0 ELSE a - 48]
  <2>1. Len(d) = 1 /\ d[1] = a
    OBVIOUS
  <2>2. h = [n \in 0..1 |-> IF n = 0 THEN 0 ELSE 10 * h[n - 1] + (d[n] - 48)]
    <3>1. h[0] = 0 /\ \A n \in 0..1 : n # 0 => n = 1 /\ n - 1 = 0
      OBVIOUS
    <3>2. \A n \in 0..1 : n # 0 => a - 48 = 10 * h[n - 1] + (d[n] - 48)
      BY <2>1, <3>1
    <3>3. QED
      BY <3>2
  <2>3. up = [n \in 0..1 |-> IF n = 0 THEN 0 ELSE 10 * up[n - 1] + (d[n] - 48)]
    <3> HIDE DEF h
    <3>1. QED
      BY <2>1, <2>2
  <2>4. Decimal(d) = up[1]
    BY <2>1 DEF Decimal
  <2> HIDE DEF up
  <2>5. up[0] = 0 /\ up[1] = 10 * up[0] + (a - 48)
    <3>1. 0 \in 0..1 /\ 1 \in 0..1 /\ 1 - 1 = 0
      OBVIOUS
    <3>2. QED
      BY <2>1, <2>3, <3>1
  <2>6. QED
    BY <2>4, <2>5
<1>2. ASSUME NEW a \in Int, NEW b \in Int
      PROVE  Decimal(<<a, b>>) = 10 * (a - 48) + (b - 48)
  <2> DEFINE d == <<a, b>>
             up == CHOOSE f : f = [n \in 0..Len(d) |->
                     IF n = 0 THEN 0 ELSE 10 * f[n - 1] + (d[n] - 48)]
             h == [n \in 0..2 |-> IF n = 0 THEN 0 ELSE IF n = 1 THEN a - 48
                                  ELSE 10 * (a - 48) + (b - 48)]
  <2>1. Len(d) = 2 /\ d[1] = a /\ d[2] = b
    OBVIOUS
  <2>2. h = [n \in 0..2 |-> IF n = 0 THEN 0 ELSE 10 * h[n - 1] + (d[n] - 48)]
    <3>1. /\ h[0] = 0 /\ h[1] = a - 48
          /\ \A n \in 0..2 : n # 0 => (n = 1 /\ n - 1 = 0) \/ (n = 2 /\ n - 1 = 1)
      OBVIOUS
    <3>2. \A n \in 0..2 : n # 0 => h[n] = 10 * h[n - 1] + (d[n] - 48)
      BY <2>1, <3>1
    <3>3. \A n \in 0..2 : h[n] = IF n = 0 THEN 0 ELSE 10 * h[n - 1] + (d[n] - 48)
      BY <3>1, <3>2
    <3>4. h = [n \in 0..2 |-> h[n]]
      OBVIOUS
    <3> HIDE DEF h
    <3>5. QED
      BY <3>3, <3>4
  <2>3. up = [n \in 0..2 |-> IF n = 0 THEN 0 ELSE 10 * up[n - 1] + (d[n] - 48)]
    <3> HIDE DEF h
    <3>1. QED
      BY <2>1, <2>2
  <2>4. Decimal(d) = up[2]
    BY <2>1 DEF Decimal
  <2> HIDE DEF up
  <2>5. up[0] = 0 /\ up[1] = 10 * up[0] + (a - 48) /\ up[2] = 10 * up[1] + (b - 48)
    <3>1. 0 \in 0..2 /\ 1 \in 0..2 /\ 2 \in 0..2 /\ 1 - 1 = 0 /\ 2 - 1 = 1
      OBVIOUS
    <3>2. QED
      BY <2>1, <2>3, <3>1
  <2>6. QED
    BY <2>4, <2>5
<1>3. QED
  BY <1>1, <1>2

\* A numeral has one digit or two, and is read as its number.
LEMMA NumeralFacts ==
  ASSUME NEW n \in Nat, n < 100
  PROVE  /\ Numeral(n) \in Seq(Byte) /\ Len(Numeral(n)) \in Nat /\ Len(Numeral(n)) >= 1
         /\ \A i \in 1..Len(Numeral(n)) : Numeral(n)[i] \in Digits
         /\ Decimal(Numeral(n)) = n
<1>1. CASE n < 10
  <2>1. Numeral(n) = <<48 + n>> /\ 48 + n \in Digits /\ 48 + n \in Byte /\ (48 + n) - 48 = n
    BY <1>1 DEF Numeral, Digits, Byte
  <2>2. QED
    BY <2>1, DecimalFacts
<1>2. CASE n >= 10
  <2> DEFINE a == 48 + (n \div 10)
             b == 48 + (n % 10)
  <2>1. Numeral(n) = <<a, b>>
    BY <1>2 DEF Numeral
  <2>2. a \in Digits /\ b \in Digits /\ 10 * (a - 48) + (b - 48) = n
    BY <1>2 DEF Digits
  <2>3. a \in Byte /\ b \in Byte
    BY <2>2 DEF Digits, Byte
  <2> HIDE DEF a, b
  <2>4. QED
    BY <2>1, <2>2, <2>3, DecimalFacts DEF Digits
<1>3. QED
  BY <1>1, <1>2

\* What is where in a field f of the m bytes c, whose length has w digits.
LaidOut(f, tag, c, w, m) ==
  /\ f \in Seq(Byte) /\ Len(f) = 6 + w + m
  /\ f[1] = Open /\ f[2] = One /\ f[3] = Colon /\ f[4] = tag
  /\ \A i \in 1..w : f[4 + i] = Numeral(m)[i]
  /\ f[5 + w] = Colon
  /\ \A i \in 1..m : f[5 + w + i] = c[i]
  /\ f[6 + w + m] = Close

LEMMA FieldFacts ==
  ASSUME NEW tag \in Byte, NEW c \in Seq(Byte), Len(c) < 100,
         NEW w, w = Len(Numeral(Len(c))), NEW m, m = Len(c)
  PROVE  /\ m \in 0..99 /\ w \in Nat /\ w >= 1
         /\ LaidOut(Field(tag, c), tag, c, w, m)
<1> DEFINE t == <<Open, One, Colon, tag>>
           n == Numeral(m)
           tn == t \o n
           tnc == tn \o <<Colon>>
           tncc == tnc \o c
           f == tncc \o <<Close>>
<1>1. m \in Nat /\ m < 100
  BY LenProperties
<1>2. n \in Seq(Byte) /\ Len(n) = w /\ w \in Nat /\ w >= 1
  BY <1>1, NumeralFacts
<1>3. /\ t \in Seq(Byte) /\ Len(t) = 4 /\ t[1] = Open /\ t[2] = One /\ t[3] = Colon /\ t[4] = tag
      /\ <<Colon>> \in Seq(Byte) /\ Len(<<Colon>>) = 1 /\ <<Colon>>[1] = Colon
      /\ <<Close>> \in Seq(Byte) /\ Len(<<Close>>) = 1 /\ <<Close>>[1] = Close
  BY DEF Byte, Open, One, Colon, Close
<1>4. f = Field(tag, c)
  BY DEF Field
<1> HIDE DEF t, n
<1>5. /\ tn \in Seq(Byte) /\ Len(tn) = 4 + w
      /\ \A i \in 1..4 : tn[i] = t[i]
      /\ \A i \in 1..w : tn[4 + i] = n[i]
  <2>1. /\ tn \in Seq(Byte) /\ Len(tn) = Len(t) + Len(n)
        /\ \A i \in 1..Len(t) : tn[i] = t[i]
        /\ \A i \in 1..Len(n) : tn[Len(t) + i] = n[i]
    BY <1>2, <1>3, Joined
  <2>2. 4 + w = 4 + w /\ 4 + 1 \in Int /\ 1 \in 1..1
    BY <1>1, <1>2
  <2> HIDE DEF tn
  <2>3. QED
    BY <1>2, <1>3, <2>1, <2>2
<1> HIDE DEF tn
<1>6. /\ tnc \in Seq(Byte) /\ Len(tnc) = 5 + w
      /\ \A i \in 1..4 + w : tnc[i] = tn[i]
      /\ tnc[5 + w] = Colon
  <2>1. /\ tnc \in Seq(Byte) /\ Len(tnc) = Len(tn) + Len(<<Colon>>)
        /\ \A i \in 1..Len(tn) : tnc[i] = tn[i]
        /\ \A i \in 1..Len(<<Colon>>) : tnc[Len(tn) + i] = <<Colon>>[i]
    BY <1>3, <1>5, Joined
  <2>2. 4 + w + 1 = 5 + w /\ 4 + w + 1 \in Int /\ 1 \in 1..1
    BY <1>1, <1>2
  <2> HIDE DEF tnc
  <2>3. QED
    BY <1>3, <1>5, <2>1, <2>2
<1> HIDE DEF tnc
<1>7. /\ tncc \in Seq(Byte) /\ Len(tncc) = 5 + w + m
      /\ \A i \in 1..5 + w : tncc[i] = tnc[i]
      /\ \A i \in 1..m : tncc[5 + w + i] = c[i]
  <2>1. /\ tncc \in Seq(Byte) /\ Len(tncc) = Len(tnc) + Len(c)
        /\ \A i \in 1..Len(tnc) : tncc[i] = tnc[i]
        /\ \A i \in 1..Len(c) : tncc[Len(tnc) + i] = c[i]
    BY <1>1, <1>6, Joined
  <2>2. 5 + w + m = 5 + w + m /\ 5 + w + 1 \in Int /\ 1 \in 1..1
    BY <1>1, <1>2
  <2> HIDE DEF tncc
  <2>3. QED
    BY <1>1, <1>6, <2>1, <2>2
<1> HIDE DEF tncc
<1>8. /\ f \in Seq(Byte) /\ Len(f) = 6 + w + m
      /\ \A i \in 1..5 + w + m : f[i] = tncc[i]
      /\ f[6 + w + m] = Close
  <2>1. /\ f \in Seq(Byte) /\ Len(f) = Len(tncc) + Len(<<Close>>)
        /\ \A i \in 1..Len(tncc) : f[i] = tncc[i]
        /\ \A i \in 1..Len(<<Close>>) : f[Len(tncc) + i] = <<Close>>[i]
    BY <1>3, <1>7, Joined
  <2>2. 5 + w + m + 1 = 6 + w + m /\ 5 + w + m + 1 \in Int /\ 1 \in 1..1
    BY <1>1, <1>2
  <2> HIDE DEF f
  <2>3. QED
    BY <1>3, <1>7, <2>1, <2>2
<1> HIDE DEF f
<1>9. \A i \in 1..5 + w : f[i] = tnc[i]
  BY <1>1, <1>2, <1>7, <1>8
<1>10. \A i \in 1..4 + w : f[i] = tn[i]
  BY <1>1, <1>2, <1>6, <1>9
<1>11. \A i \in 1..4 : f[i] = t[i]
  BY <1>1, <1>2, <1>5, <1>10
<1>12. \A i \in 1..w : f[4 + i] = n[i]
  <2>1. \A i \in 1..w : 4 + i \in 1..4 + w
    BY <1>2
  <2>2. QED
    BY <1>5, <1>10, <2>1
<1>13. f[5 + w] = Colon
  BY <1>2, <1>6, <1>9
<1>14. \A i \in 1..m : f[5 + w + i] = c[i]
  <2>1. \A i \in 1..m : 5 + w + i \in 1..5 + w + m
    BY <1>1, <1>2
  <2>2. QED
    BY <1>7, <1>8, <2>1
<1>15. f[1] = Open /\ f[2] = One /\ f[3] = Colon /\ f[4] = tag
  BY <1>3, <1>11
<1>16. LaidOut(f, tag, c, w, m)
  <2>1. \A i \in 1..w : f[4 + i] = Numeral(m)[i]
    BY <1>12 DEF n
  <2>2. QED
    BY <1>8, <2>1, <1>13, <1>14, <1>15 DEF LaidOut
<1>17. LaidOut(Field(tag, c), tag, c, w, m)
  BY <1>4, <1>16
<1>18. m \in 0..99
  <2>1. \A x \in Nat : x < 100 => x \in 0..99
    OBVIOUS
  <2>2. QED
    BY <1>1, <2>1
<1>19. w \in Nat /\ w >= 1
  BY <1>2
<1> HIDE DEF f
<1>20. QED
  BY <1>17, <1>18, <1>19

\* The places of a tag, byte by byte.
LEMMA PlacesFacts ==
  ASSUME NEW d \in Seq(Byte), NEW tag \in Byte, NEW p \in Int
  PROVE  p \in Places(d, tag) <=>
           /\ p \in 1..Len(d) - 3
           /\ d[p] = Open /\ d[p + 1] = One /\ d[p + 2] = Colon /\ d[p + 3] = tag
<1> SUFFICES ASSUME p \in 1..Len(d) - 3
             PROVE  SubSeq(d, p, p + 3) = <<Open, One, Colon, tag>> <=>
                      d[p] = Open /\ d[p + 1] = One /\ d[p + 2] = Colon /\ d[p + 3] = tag
  BY DEF Places
<1> DEFINE s == SubSeq(d, p, p + 3)
           t == <<Open, One, Colon, tag>>
<1>1. Len(d) \in Nat /\ \A i \in p..p + 3 : d[i] \in Byte
  <2>1. Len(d) \in Nat
    BY LenProperties
  <2>2. \A i \in p..p + 3 : i \in 1..Len(d)
    BY <2>1
  <2>3. QED
    BY <2>1, <2>2, ElementOfSeq
<1>2. /\ s \in Seq(Byte) /\ Len(s) = 4
      /\ s[1] = d[p] /\ s[2] = d[p + 1] /\ s[3] = d[p + 2] /\ s[4] = d[p + 3]
  <2>1. /\ s \in Seq(Byte) /\ Len(s) = IF p <= p + 3 THEN p + 3 - p + 1 ELSE 0
        /\ \A i \in 1..p + 3 - p + 1 : s[i] = d[p + i - 1]
    BY <1>1, SubSeqProperties
  <2>2. p <= p + 3 /\ p + 3 - p + 1 = 4
    OBVIOUS
  <2>3. p + 1 - 1 = p /\ p + 2 - 1 = p + 1 /\ p + 3 - 1 = p + 2 /\ p + 4 - 1 = p + 3
    OBVIOUS
  <2>4. 1 \in 1..4 /\ 2 \in 1..4 /\ 3 \in 1..4 /\ 4 \in 1..4
    OBVIOUS
  <2> HIDE DEF s
  <2>5. QED
    BY <2>1, <2>2, <2>3, <2>4
<1>3. /\ t \in Seq(Byte) /\ Len(t) = 4
      /\ t[1] = Open /\ t[2] = One /\ t[3] = Colon /\ t[4] = tag
  BY DEF Byte, Open, One, Colon
<1> HIDE DEF s, t
<1>4. (\A i \in 1..4 : s[i] = t[i]) => s = t
  BY <1>2, <1>3, SeqEqual
<1>5. \A i \in 1..4 : i \in {1, 2, 3, 4}
  OBVIOUS
<1>6. s = t <=> d[p] = Open /\ d[p + 1] = One /\ d[p + 2] = Colon /\ d[p + 3] = tag
  BY <1>2, <1>3, <1>4, <1>5
<1>7. QED
  BY <1>6 DEF s, t

-----------------------------------------------------------------------------
(* The client cuts out what a field holds.                                 *)

LEMMA Smallest ==
  ASSUME NEW T, T \subseteq Int, NEW x \in T, \A y \in T : x <= y
  PROVE  Min(T) = x
<1>1. Min(T) \in T /\ \A y \in T : Min(T) <= y
  BY DEF Min
<1> DEFINE n == Min(T)
<1>2. n \in T /\ n <= x /\ n \in Int /\ x \in Int
  BY <1>1
<1>3. x <= n
  BY <1>2
<1> HIDE DEF n
<1>4. n = x
  BY <1>2, <1>3
<1>5. QED
  BY <1>4 DEF n

LEMMA Found ==
  ASSUME NEW d \in Seq(Byte), NEW k \in Nat, NEW c \in Seq(Byte), NEW m, m = Len(c),
         k + m <= Len(d), \A i \in 1..m : d[k + i] = c[i]
  PROVE  SubSeq(d, k + 1, k + m) = c
<1> DEFINE s == SubSeq(d, k + 1, k + m)
<1>1. m \in Nat /\ Len(d) \in Nat
  BY LenProperties
<1>2. \A i \in k + 1..k + m : d[i] \in Byte
  <2>1. \A i \in k + 1..k + m : i \in 1..Len(d)
    BY <1>1
  <2>2. QED
    BY <2>1, ElementOfSeq
<1>3. /\ s \in Seq(Byte) /\ Len(s) = IF k + 1 <= k + m THEN k + m - (k + 1) + 1 ELSE 0
      /\ \A i \in 1..k + m - (k + 1) + 1 : s[i] = d[k + 1 + i - 1]
  BY <1>1, <1>2, SubSeqProperties
<1> HIDE DEF s
<1>4. k + m - (k + 1) + 1 = m /\ (~(k + 1 <= k + m) => m = 0)
      /\ \A i \in 1..m : k + 1 + i - 1 = k + i
  BY <1>1
<1>5. Len(s) = m /\ \A i \in 1..m : s[i] = c[i]
  BY <1>1, <1>3, <1>4
<1>6. s = c
  BY <1>3, <1>5, SeqEqual
<1>7. QED
  BY <1>6 DEF s

\* The field of c, of m bytes and with a length of w digits, after k bytes of d.
FieldAt(d, k, tag, c, w, m) ==
  /\ k + 6 + w + m <= Len(d)
  /\ d[k + 1] = Open /\ d[k + 2] = One /\ d[k + 3] = Colon /\ d[k + 4] = tag
  /\ \A i \in 1..w : d[k + 4 + i] = Numeral(m)[i]
  /\ d[k + 5 + w] = Colon
  /\ \A i \in 1..m : d[k + 5 + w + i] = c[i]
  /\ d[k + 6 + w + m] = Close

LEMMA Extracts ==
  ASSUME NEW d \in Seq(Byte), NEW k \in Nat, NEW tag \in Byte, NEW c \in Seq(Byte),
         Len(c) < 100, NEW w, w = Len(Numeral(Len(c))), NEW m, m = Len(c),
         FieldAt(d, k, tag, c, w, m), \A p \in Places(d, tag) : p > k
  PROVE  ExtractSexpValue(d, tag) = {c}
<1> DEFINE l == Len(d)
           places == Places(d, tag)
           first == Min(places) + 4
           ends == {i \in first..l + 1 : i > l \/ d[i] \notin Digits}
           colon == Min(ends)
           numeral == SubSeq(d, first, colon - 1)
           length == Decimal(numeral)
<1>1. l \in Nat /\ m \in Nat /\ m < 100
  BY LenProperties
<1>2. /\ Numeral(m) \in Seq(Byte) /\ w \in Nat /\ w >= 1 /\ w = Len(Numeral(m))
      /\ \A i \in 1..w : Numeral(m)[i] \in Digits
      /\ Decimal(Numeral(m)) = m
  BY <1>1, NumeralFacts
<1>3. /\ k + 6 + w + m <= l
      /\ d[k + 1] = Open /\ d[k + 2] = One /\ d[k + 3] = Colon /\ d[k + 4] = tag
      /\ \A i \in 1..w : d[k + 4 + i] = Numeral(m)[i]
      /\ d[k + 5 + w] = Colon
      /\ \A i \in 1..m : d[k + 5 + w + i] = c[i]
  BY DEF FieldAt
<1>3a. l = Len(d) /\ k + 6 + w + m <= l /\ k + 4 \in Nat
  <2>1. k + 6 + w + m <= l
    BY DEF FieldAt
  <2>2. k + 4 \in Nat
    OBVIOUS
  <2>3. QED
    BY <2>1, <2>2
<1>4. k + 1 \in places
  <2>1. k + 1 \in Int /\ k + 1 + 1 = k + 2 /\ k + 1 + 2 = k + 3 /\ k + 1 + 3 = k + 4
    OBVIOUS
  <2>2. k + 1 \in 1..Len(d) - 3
    <3> HIDE DEF l
    <3>1. k + 1 <= l - 3
      BY <1>1, <1>2, <1>3a
    <3>2. QED
      BY <1>1, <1>3a, <3>1
  <2>3. QED
    BY <1>3, <2>1, <2>2, PlacesFacts
<1>5. Min(places) = k + 1
  <2>1. places \subseteq Int /\ \A p \in places : p > k
    BY DEF Places
  <2>2. \A p \in places : k + 1 <= p
    BY <2>1
  <2> HIDE DEF places
  <2>3. QED
    BY <1>4, <2>1, <2>2, Smallest
<1>6. first = k + 5
  <2> HIDE DEF places
  <2>1. QED
    BY <1>5
<1> HIDE DEF first
<1>7. colon = k + 5 + w
  <2>1. k + 5 + w \in ends
    <3>1. k + 5 + w \in first..l + 1
      BY <1>1, <1>2, <1>3, <1>6
    <3>2. d[k + 5 + w] \notin Digits
      BY <1>3 DEF Colon, Digits
    <3>3. QED
      BY <3>1, <3>2
  <2>2. \A i \in ends : k + 5 + w <= i
    <3>1. SUFFICES ASSUME NEW i \in first..l + 1, i > l \/ d[i] \notin Digits, i < k + 5 + w
                   PROVE  FALSE
      BY <1>1, <1>2, <1>6
    <3>2. i - (k + 4) \in 1..w /\ i = k + 4 + (i - (k + 4)) /\ ~(i > l)
      BY <1>1, <1>2, <1>3, <1>6, <3>1
    <3>3. d[i] = Numeral(m)[i - (k + 4)]
      BY <1>3, <3>2
    <3>4. QED
      BY <1>2, <3>1, <3>2, <3>3
  <2>3. ends \subseteq Int
    BY <1>1, <1>6
  <2> HIDE DEF ends
  <2>4. QED
    BY <2>1, <2>2, <2>3, Smallest
<1> HIDE DEF colon
<1>8. numeral = Numeral(m)
  <2>1. k + 4 + w <= l /\ k + 4 + 1 = first /\ k + 4 + w = colon - 1
    <3> HIDE DEF l
    <3>1. QED
      BY <1>1, <1>2, <1>3a, <1>6, <1>7
  <2>2. SubSeq(d, k + 4 + 1, k + 4 + w) = Numeral(m)
    <3> DEFINE n == Numeral(m)
               k4 == k + 4
    <3>1. n \in Seq(Byte) /\ w = Len(n) /\ k4 \in Nat /\ k4 + w <= Len(d)
      BY <1>2, <1>3a, <2>1
    <3>2. \A i \in 1..w : d[k4 + i] = n[i]
      BY <1>3
    <3> HIDE DEF n, k4
    <3>3. SubSeq(d, k4 + 1, k4 + w) = n
      BY <3>1, <3>2, Found
    <3>4. QED
      BY <3>3 DEF n, k4
  <2>3. QED
    BY <2>1, <2>2
<1>9. length = m
  <2> HIDE DEF numeral
  <2>1. QED
    BY <1>2, <1>8
<1> HIDE DEF length
<1>10. SubSeq(d, colon + 1, colon + length) = c
  <2>1. k + 5 + w \in Nat /\ k + 5 + w + m <= l
    BY <1>1, <1>2, <1>3
  <2>2. SubSeq(d, k + 5 + w + 1, k + 5 + w + m) = c
    BY <1>3, <2>1, Found
  <2>3. QED
    BY <1>7, <1>9, <2>2
<1>11. /\ places # {} /\ colon <= l /\ d[colon] = Colon /\ colon # first /\ colon + length <= l
  <2>1. places # {}
    BY <1>4
  <2> HIDE DEF places
  <2>2. QED
    BY <1>1, <1>2, <1>3, <1>6, <1>7, <1>9, <2>1
<1>12. ~(\/ places = {} \/ colon > l \/ d[colon] # Colon \/ colon = first \/ colon + length > l)
  <2> HIDE DEF places
  <2>1. QED
    BY <1>1, <1>2, <1>7, <1>9, <1>11
<1>13. ExtractSexpValue(d, tag)
         = IF \/ places = {} \/ colon > l \/ d[colon] # Colon \/ colon = first
              \/ colon + length > l
           THEN {}
           ELSE {SubSeq(d, colon + 1, colon + length)}
  BY DEF ExtractSexpValue, first, ends, colon, numeral, length
<1>14. QED
  BY <1>10, <1>12, <1>13

\* A tag that b does not spell is not spelled across the end of b where an
\* expression opens.
LEMMA NoneBefore ==
  ASSUME NEW d \in Seq(Byte), NEW b \in Seq(Byte), NEW tag \in Byte, tag # Open,
         NEW h, h = Len(b), h < Len(d), \A i \in 1..h : d[i] = b[i], d[h + 1] = Open,
         Places(b, tag) = {}, NEW p \in Places(d, tag)
  PROVE  p > h
<1>1. h \in Nat /\ Len(d) \in Nat
  BY LenProperties
<1>2. p \in Int
  BY DEF Places
<1>3. /\ p \in 1..Len(d) - 3
      /\ d[p] = Open /\ d[p + 1] = One /\ d[p + 2] = Colon /\ d[p + 3] = tag
  BY <1>2, PlacesFacts
<1>4. CASE p + 3 <= h
  <2>1. p \in 1..Len(b) - 3 /\ p \in 1..h /\ p + 1 \in 1..h /\ p + 2 \in 1..h /\ p + 3 \in 1..h
    BY <1>1, <1>3, <1>4
  <2>2. b[p] = Open /\ b[p + 1] = One /\ b[p + 2] = Colon /\ b[p + 3] = tag
    BY <1>3, <2>1
  <2>3. p \in Places(b, tag)
    BY <1>2, <2>1, <2>2, PlacesFacts
  <2>4. QED
    BY <2>3
<1>5. CASE p + 3 > h
  <2>1. p > h \/ h + 1 = p + 1 \/ h + 1 = p + 2 \/ h + 1 = p + 3
    BY <1>1, <1>2, <1>5
  <2>2. h + 1 # p + 1 /\ h + 1 # p + 2 /\ h + 1 # p + 3
    BY <1>3 DEF Open, One, Colon
  <2>3. QED
    BY <2>1, <2>2
<1>6. QED
  BY <1>1, <1>2, <1>4, <1>5

\* The field of r spells no S when r does not.
LEMMA FieldPlaces ==
  ASSUME NEW r \in Seq(Byte), Len(r) < 100, Places(r, S) = {}
  PROVE  Places(Field(R, r), S) = {}
<1> DEFINE f == Field(R, r)
           w == Len(Numeral(Len(r)))
           m == Len(r)
<1>1. R \in Byte /\ S \in Byte
  BY DEF R, S, Byte
<1>2. m \in 0..99 /\ w \in Nat /\ w >= 1 /\ LaidOut(f, R, r, w, m)
  BY <1>1, FieldFacts
<1>3. \A i \in 1..w : Numeral(m)[i] \in Digits
  BY <1>2, NumeralFacts
<1>m. m = Len(r)
  OBVIOUS
<1> HIDE DEF f, w, m
<1>4. /\ f \in Seq(Byte) /\ Len(f) = 6 + w + m
      /\ f[2] = One /\ f[3] = Colon /\ f[4] = R
      /\ \A i \in 1..w : f[4 + i] \in Digits
      /\ f[5 + w] = Colon
      /\ \A i \in 1..m : f[5 + w + i] = r[i]
      /\ f[6 + w + m] = Close
  BY <1>2, <1>3 DEF LaidOut
<1>5. ASSUME NEW p \in Places(f, S)
      PROVE  FALSE
  <2>1. p \in Int
    BY DEF Places
  <2>2. /\ p \in 1..Len(f) - 3
        /\ f[p] = Open /\ f[p + 1] = One /\ f[p + 2] = Colon /\ f[p + 3] = S
    BY <1>1, <1>4, <2>1, PlacesFacts
  <2>3. p >= 1 /\ p + 3 <= 6 + w + m
    BY <1>2, <1>4, <2>1, <2>2
  <2>4. p # 1 /\ p # 2 /\ p # 3 /\ p # 4 /\ p # 5 + w
    <3>1. f[2] # Open /\ f[3] # Open /\ f[4] # Open /\ f[5 + w] # Open /\ f[4] # S
      BY <1>4 DEF Open, One, Colon, R, S
    <3>2. p # 2 /\ p # 3 /\ p # 4 /\ p # 5 + w
      BY <2>2, <3>1
    <3>3. p = 1 => p + 3 = 4
      OBVIOUS
    <3>4. p # 1
      BY <2>2, <3>1, <3>3
    <3>5. QED
      BY <3>2, <3>4
  <2>5. ~(p >= 5 /\ p <= 4 + w)
    <3>1. SUFFICES ASSUME p >= 5 /\ p <= 4 + w
                   PROVE  FALSE
      OBVIOUS
    <3>2. p - 4 \in 1..w /\ p = 4 + (p - 4)
      BY <1>2, <2>1, <3>1
    <3>3. f[p] \in Digits
      BY <1>4, <3>2
    <3>4. QED
      BY <2>2, <3>3 DEF Digits, Open
  <2>6. p >= 6 + w
    BY <1>2, <2>1, <2>3, <2>4, <2>5
  <2> DEFINE i == p - (5 + w)
  <2>7. /\ i \in Int /\ i >= 1 /\ p = 5 + w + i /\ p + 1 = 5 + w + (i + 1)
        /\ p + 2 = 5 + w + (i + 2) /\ p + 3 = 5 + w + (i + 3)
    BY <1>2, <2>1, <2>6
  <2>8. p + 1 # 6 + w + m /\ p + 2 # 6 + w + m /\ p + 3 # 6 + w + m
    BY <1>4, <2>2 DEF One, Colon, S, Close
  <2>9. i + 3 <= m
    BY <1>2, <2>1, <2>3, <2>8
  <2> HIDE DEF i
  <2>10. /\ i \in 1..Len(r) - 3
         /\ i \in 1..m /\ i + 1 \in 1..m /\ i + 2 \in 1..m /\ i + 3 \in 1..m
    BY <1>2, <1>m, <2>7, <2>9
  <2>11. r[i] = Open /\ r[i + 1] = One /\ r[i + 2] = Colon /\ r[i + 3] = S
    <3>1. /\ f[5 + w + i] = r[i] /\ f[5 + w + (i + 1)] = r[i + 1]
          /\ f[5 + w + (i + 2)] = r[i + 2] /\ f[5 + w + (i + 3)] = r[i + 3]
      BY <1>4, <2>10
    <3>2. /\ f[p] = r[i] /\ f[p + 1] = r[i + 1]
          /\ f[p + 2] = r[i + 2] /\ f[p + 3] = r[i + 3]
      BY <2>7, <3>1
    <3>3. QED
      BY <2>2, <3>2
  <2>12. i \in Places(r, S)
    BY <1>1, <2>7, <2>10, <2>11, PlacesFacts
  <2>13. QED
    BY <2>12
<1>6. QED
  BY <1>5 DEF f

\* What a head and the field of r spell, together.
LEMMA HeadPlaces ==
  ASSUME NEW b \in Seq(Byte), Places(b, S) = {},
         NEW r \in Seq(Byte), Len(r) < 100, Places(r, S) = {}
  PROVE  Places(b \o Field(R, r), S) = {}
<1> DEFINE f == Field(R, r)
           h == Len(b)
           d == b \o f
           w == Len(Numeral(Len(r)))
           m == Len(r)
<1>1. R \in Byte /\ S \in Byte /\ S # Open
  BY DEF R, S, Byte, Open
<1>2. m \in 0..99 /\ w \in Nat /\ w >= 1 /\ LaidOut(f, R, r, w, m)
  BY <1>1, FieldFacts
<1>3. Places(f, S) = {}
  BY FieldPlaces
<1> HIDE DEF f, w, m
<1>4. f \in Seq(Byte) /\ Len(f) = 6 + w + m /\ f[1] = Open
  BY <1>2 DEF LaidOut
<1>5. /\ d \in Seq(Byte) /\ h \in Nat /\ Len(d) = h + Len(f)
      /\ \A i \in 1..h : d[i] = b[i]
      /\ \A i \in 1..Len(f) : d[h + i] = f[i]
  BY <1>4, Joined
<1>h. h = Len(b)
  OBVIOUS
<1> HIDE DEF d, h
<1>6. h < Len(d) /\ d[h + 1] = Open
  <2>1. 1 \in 1..Len(f) /\ h < h + (6 + w + m)
    BY <1>2, <1>4, <1>5
  <2>2. d[h + 1] = f[1]
    BY <1>5, <2>1
  <2>3. QED
    BY <1>4, <1>5, <2>1, <2>2
<1>7. ASSUME NEW p \in Places(d, S)
      PROVE  FALSE
  <2>1. p \in Int
    BY DEF Places
  <2>2. p > h
    BY <1>1, <1>5, <1>6, <1>h, NoneBefore
  <2>3. /\ p \in 1..Len(d) - 3
        /\ d[p] = Open /\ d[p + 1] = One /\ d[p + 2] = Colon /\ d[p + 3] = S
    BY <1>1, <1>5, <2>1, PlacesFacts
  <2> DEFINE j == p - h
             e == Len(f)
  <2>4. /\ j \in Int /\ p = h + j /\ p + 1 = h + (j + 1) /\ p + 2 = h + (j + 2)
        /\ p + 3 = h + (j + 3)
    BY <1>5, <2>1
  <2>5. e \in Nat /\ Len(d) = h + e
    BY <1>2, <1>4, <1>5
  <2>6. /\ j \in 1..e - 3 /\ j \in 1..e /\ j + 1 \in 1..e /\ j + 2 \in 1..e
        /\ j + 3 \in 1..e
    <3> HIDE DEF e
    <3>1. QED
      BY <1>5, <2>1, <2>2, <2>3, <2>5
  <2> HIDE DEF j
  <2>7. /\ d[h + j] = f[j] /\ d[h + (j + 1)] = f[j + 1]
        /\ d[h + (j + 2)] = f[j + 2] /\ d[h + (j + 3)] = f[j + 3]
    BY <1>5, <2>6
  <2>8. f[j] = Open /\ f[j + 1] = One /\ f[j + 2] = Colon /\ f[j + 3] = S
    BY <2>3, <2>4, <2>7
  <2>9. j \in Places(f, S)
    BY <1>1, <1>4, <2>4, <2>6, <2>8, PlacesFacts
  <2>10. QED
    BY <1>3, <2>9
<1>8. QED
  BY <1>7 DEF d, f

\* What the client finds of a field, behind bytes that do not spell its tag.
LEMMA ExtractsField ==
  ASSUME NEW b \in Seq(Byte), NEW e \in Seq(Byte), NEW tag \in Byte, tag # Open,
         NEW c \in Seq(Byte), Len(c) < 100, Places(b, tag) = {}
  PROVE  /\ (b \o Field(tag, c)) \o e \in Seq(Byte)
         /\ ExtractSexpValue((b \o Field(tag, c)) \o e, tag) = {c}
<1> DEFINE f == Field(tag, c)
           h == Len(b)
           u == b \o f
           d == u \o e
           w == Len(Numeral(Len(c)))
           m == Len(c)
           v == Len(f)
<1>1. m \in 0..99 /\ w \in Nat /\ w >= 1 /\ LaidOut(f, tag, c, w, m)
  BY FieldFacts
<1>2. w = Len(Numeral(Len(c))) /\ m = Len(c) /\ v = Len(f) /\ h = Len(b)
  OBVIOUS
<1> HIDE DEF f, w, m
<1>3. /\ f \in Seq(Byte) /\ v = 6 + w + m
      /\ f[1] = Open /\ f[2] = One /\ f[3] = Colon /\ f[4] = tag
      /\ \A i \in 1..w : f[4 + i] = Numeral(m)[i]
      /\ f[5 + w] = Colon
      /\ \A i \in 1..m : f[5 + w + i] = c[i]
      /\ f[6 + w + m] = Close
  BY <1>1 DEF LaidOut
<1>4. /\ u \in Seq(Byte) /\ h \in Nat /\ Len(u) = h + v
      /\ \A i \in 1..h : u[i] = b[i]
      /\ \A i \in 1..v : u[h + i] = f[i]
  BY <1>3, Joined
<1> HIDE DEF u
<1>5. /\ d \in Seq(Byte) /\ Len(d) = Len(u) + Len(e) /\ Len(e) \in Nat
      /\ \A i \in 1..Len(u) : d[i] = u[i]
  BY <1>4, Joined
<1> HIDE DEF d, h, v
<1>6. /\ h + v <= Len(d) /\ h < Len(d)
      /\ \A i \in 1..h : i \in 1..h + v
      /\ \A i \in 1..v : h + i \in 1..h + v
  <2>1. v \in Nat /\ v >= 1 /\ h \in Nat
    BY <1>1, <1>3, <1>4
  <2>2. Len(d) = h + v + Len(e) /\ Len(e) \in Nat
    BY <1>4, <1>5
  <2> DEFINE l == Len(d)
             le == Len(e)
  <2>3. l = h + v + le /\ le \in Nat
    BY <2>2
  <2> HIDE DEF l, le
  <2>4. h + v <= l /\ h < l
    BY <2>1, <2>3
  <2>5. (\A i \in 1..h : i \in 1..h + v) /\ \A i \in 1..v : h + i \in 1..h + v
    BY <2>1
  <2>6. QED
    BY <2>4, <2>5 DEF l
<1>7. /\ \A i \in 1..h : d[i] = b[i]
      /\ \A i \in 1..v : d[h + i] = f[i]
  BY <1>4, <1>5, <1>6
<1>8. FieldAt(d, h, tag, c, w, m)
  <2>1. /\ 1 \in 1..v /\ 2 \in 1..v /\ 3 \in 1..v /\ 4 \in 1..v /\ 5 + w \in 1..v
        /\ 6 + w + m \in 1..v /\ h + 6 + w + m <= Len(d)
        /\ \A i \in 1..w : 4 + i \in 1..v /\ h + 4 + i = h + (4 + i)
        /\ \A i \in 1..m : 5 + w + i \in 1..v /\ h + 5 + w + i = h + (5 + w + i)
        /\ h + 5 + w = h + (5 + w) /\ h + 6 + w + m = h + (6 + w + m)
    <3>1. v = 6 + w + m /\ w \in Nat /\ w >= 1 /\ m \in Nat /\ h \in Nat
      <4>1. w \in Nat /\ w >= 1 /\ m \in Nat
        BY <1>1
      <4>2. QED
        BY <1>3, <1>4, <4>1
    <3>2. h + 6 + w + m <= Len(d)
      <4> DEFINE l == Len(d)
      <4>1. h + v <= l
        BY <1>6
      <4> HIDE DEF l
      <4>2. h + v = h + 6 + w + m
        BY <3>1
      <4>3. QED
        BY <4>1, <4>2 DEF l
    <3>3. /\ 1 \in 1..v /\ 2 \in 1..v /\ 3 \in 1..v /\ 4 \in 1..v /\ 5 + w \in 1..v
          /\ 6 + w + m \in 1..v
          /\ h + 5 + w = h + (5 + w) /\ h + 6 + w + m = h + (6 + w + m)
      BY <3>1
    <3>4. \A i \in 1..w : 4 + i \in 1..v /\ h + 4 + i = h + (4 + i)
      BY <3>1
    <3>5. \A i \in 1..m : 5 + w + i \in 1..v /\ h + 5 + w + i = h + (5 + w + i)
      BY <3>1
    <3>6. QED
      BY <3>2, <3>3, <3>4, <3>5
  <2>2. d[h + 1] = Open /\ d[h + 2] = One /\ d[h + 3] = Colon /\ d[h + 4] = tag
    BY <1>3, <1>7, <2>1
  <2>3. \A i \in 1..w : d[h + 4 + i] = Numeral(m)[i]
    BY <1>3, <1>7, <2>1
  <2>4. \A i \in 1..m : d[h + 5 + w + i] = c[i]
    <3>1. SUFFICES ASSUME NEW i \in 1..m
                   PROVE  d[h + 5 + w + i] = c[i]
      OBVIOUS
    <3> DEFINE k == 5 + w + i
    <3>2. k \in 1..v /\ h + 5 + w + i = h + k
      BY <2>1
    <3>3. f[k] = c[i]
      BY <1>3
    <3> HIDE DEF k
    <3>4. d[h + k] = f[k]
      BY <1>7, <3>2
    <3>5. QED
      BY <3>2, <3>3, <3>4
  <2>5. d[h + 5 + w] = Colon /\ d[h + 6 + w + m] = Close
    BY <1>3, <1>7, <2>1
  <2>6. QED
    BY <2>1, <2>2, <2>3, <2>4, <2>5 DEF FieldAt
<1>9. \A p \in Places(d, tag) : p > h
  <2>1. d[h + 1] = Open
    BY <1>8 DEF FieldAt
  <2>2. QED
    BY <1>2, <1>5, <1>6, <1>7, <2>1, NoneBefore
<1>10. ExtractSexpValue(d, tag) = {c}
  BY <1>2, <1>4, <1>5, <1>8, <1>9, Extracts
<1>11. QED
  BY <1>5, <1>10 DEF d, u, f

\* The field of a component is a sequence of bytes.
LEMMA FieldBytes ==
  ASSUME NEW tag \in Byte, NEW c \in Seq(Byte), Len(c) < 100
  PROVE  Field(tag, c) \in Seq(Byte)
<1> DEFINE w == Len(Numeral(Len(c)))
           m == Len(c)
<1>1. LaidOut(Field(tag, c), tag, c, w, m)
  BY FieldFacts
<1> HIDE DEF w, m
<1>2. QED
  BY <1>1 DEF LaidOut

\* The answers, by kind.
LEMMA AnswerKinds ==
  ASSUME NEW a \in Answers
  PROVE  \/ /\ a.kind = "signature"
            /\ a.r \in Seq(Byte) /\ Len(a.r) < 100
            /\ a.s \in Seq(Byte) /\ Len(a.s) < 100
         \/ /\ a.kind # "signature"
            /\ a.point \in Seq(Byte) /\ Len(a.point) = KeyLength
            /\ a.q = a.point \/ a.q = <<At>> \o a.point
<1>1. CASE a \in Signatures
  <2>1. a.kind = "signature" /\ a.r \in Firsts /\ a.s \in Seconds
    BY <1>1 DEF Signatures
  <2>2. QED
    BY <2>1, ComponentsAssumption
<1>2. CASE a \notin Signatures
  <2>1. \/ a \in {[kind |-> "key", q |-> p, point |-> p] : p \in Points}
        \/ a \in {[kind |-> "key", q |-> <<At>> \o p, point |-> p] : p \in Points}
    BY <1>2 DEF Answers
  <2>2. PICK p \in Points : \/ a = [kind |-> "key", q |-> p, point |-> p]
                            \/ a = [kind |-> "key", q |-> <<At>> \o p, point |-> p]
    BY <2>1
  <2>3. a.kind = "key" /\ a.point = p /\ (a.q = p \/ a.q = <<At>> \o p)
    BY <2>2
  <2>4. p \in Seq(Byte) /\ Len(p) = KeyLength
    BY PointsAssumption
  <2>5. QED
    BY <2>3, <2>4
<1>3. QED
  BY <1>1, <1>2

\* A key with the byte before it, and without.
LEMMA KeyForms ==
  ASSUME NEW p \in Seq(Byte), Len(p) = KeyLength, NEW q, q = p \/ q = <<At>> \o p
  PROVE  /\ q \in Seq(Byte) /\ Len(q) < 100
         /\ (IF Len(q) = KeyLength + 1 /\ q[1] = At THEN Tail(q) ELSE q) = p
<1>1. KeyLength \in 1..98 /\ At \in Byte
  BY PointsAssumption DEF At, Byte
<1>2. CASE q = p
  <2>1. Len(q) = KeyLength /\ Len(q) # KeyLength + 1 /\ Len(q) < 100
    BY <1>1, <1>2
  <2>2. QED
    BY <1>2, <2>1
<1>3. CASE q = <<At>> \o p
  <2> DEFINE t == <<At>>
             u == t \o p
  <2>1. t \in Seq(Byte) /\ Len(t) = 1 /\ t[1] = At
    BY <1>1
  <2> HIDE DEF t
  <2>2. /\ u \in Seq(Byte) /\ Len(u) = Len(t) + Len(p)
        /\ \A i \in 1..Len(t) : u[i] = t[i]
        /\ \A i \in 1..Len(p) : u[Len(t) + i] = p[i]
    BY <2>1, Joined
  <2>3. q = u
    BY <1>3 DEF t
  <2> HIDE DEF u
  <2>4. /\ u \in Seq(Byte) /\ Len(u) = 1 + KeyLength /\ u[1] = At
        /\ \A i \in 1..KeyLength : u[1 + i] = p[i]
    BY <2>1, <2>2
  <2>5. Tail(u) = p
    <3>1. u # <<>>
      BY <1>1, <2>4
    <3> DEFINE v == Tail(u)
    <3>2. v \in Seq(Byte) /\ Len(v) = Len(u) - 1 /\ \A i \in 1..Len(u) - 1 : v[i] = u[i + 1]
      BY <2>4, <3>1, HeadTailProperties
    <3> HIDE DEF v
    <3>3. Len(v) = KeyLength /\ \A i \in 1..KeyLength : v[i] = u[i + 1] /\ i + 1 = 1 + i
      BY <1>1, <2>4, <3>2
    <3>4. \A i \in 1..Len(p) : v[i] = p[i]
      BY <2>4, <3>3
    <3>5. v = p
      BY <3>2, <3>3, <3>4, SeqEqual
    <3>6. QED
      BY <3>5 DEF v
  <2>6. Len(u) = KeyLength + 1 /\ Len(u) < 100
    BY <1>1, <2>4
  <2>7. QED
    BY <2>3, <2>4, <2>5, <2>6
<1>4. QED
  BY <1>2, <1>3

\* What the client extracts of an expression it has whole: what the agent meant.
LEMMA ExtractsMeant ==
  ASSUME NEW a \in Answers
  PROVE  /\ Expression(a) \in Seq(Byte)
         /\ a.kind = "signature" /\ Places(a.r, S) = {}
              => SignatureBytes(Expression(a)) = {a.r \o a.s}
         /\ a.kind # "signature" => ExtractSexpQValue(Expression(a)) = {a.point}
<1>1. /\ R \in Byte /\ S \in Byte /\ Q \in Byte
      /\ R # Open /\ S # Open /\ Q # Open
  BY DEF R, S, Q, Open, Byte
<1>2. /\ SignatureHead \in Seq(Byte) /\ KeyHead \in Seq(Byte) /\ Ending \in Seq(Byte)
      /\ Places(SignatureHead, R) = {} /\ Places(SignatureHead, S) = {}
      /\ Places(KeyHead, Q) = {}
  BY HeadsAssumption
<1>3. CASE a.kind = "signature"
  <2> DEFINE fr == Field(R, a.r)
             fs == Field(S, a.s)
             u == SignatureHead \o fr
             e == fs \o Ending
             d == Expression(a)
  <2>1. /\ a.r \in Seq(Byte) /\ Len(a.r) < 100
        /\ a.s \in Seq(Byte) /\ Len(a.s) < 100
    BY <1>3, AnswerKinds
  <2>2. fr \in Seq(Byte) /\ fs \in Seq(Byte)
    BY <1>1, <2>1, FieldBytes
  <2>3. d = (u \o fs) \o Ending
    BY <1>3 DEF Expression
  <2>4. u \in Seq(Byte) /\ e \in Seq(Byte)
    <3> HIDE DEF fr, fs
    <3>1. QED
      BY <1>2, <2>2, ConcatProperties
  <2>5. d = u \o e
    <3>1. (u \o fs) \o Ending = u \o (fs \o Ending)
      <4> HIDE DEF u, fs
      <4>1. QED
        BY <1>2, <2>2, <2>4, ConcatAssociative
    <3>2. QED
      BY <2>3, <3>1
  <2>6. d \in Seq(Byte) /\ ExtractSexpValue(d, R) = {a.r}
    <3> DEFINE r == a.r
               x == (SignatureHead \o Field(R, r)) \o e
    <3>1. r \in Seq(Byte) /\ Len(r) < 100 /\ d = x
      BY <2>1, <2>5
    <3> HIDE DEF e, d, r
    <3>2. /\ SignatureHead \in Seq(Byte) /\ e \in Seq(Byte) /\ R \in Byte /\ R # Open
          /\ r \in Seq(Byte) /\ Len(r) < 100 /\ Places(SignatureHead, R) = {}
      BY <1>1, <1>2, <2>4, <3>1
    <3>3. x \in Seq(Byte) /\ ExtractSexpValue(x, R) = {r}
      BY <3>2, ExtractsField
    <3>4. QED
      BY <3>1, <3>3 DEF r
  <2>7. ASSUME Places(a.r, S) = {}
        PROVE  SignatureBytes(d) = {a.r \o a.s}
    <3>1. Places(u, S) = {}
      BY <1>2, <2>1, <2>7, HeadPlaces
    <3>2. ExtractSexpValue((u \o fs) \o Ending, S) = {a.s}
      <4> DEFINE t == a.s
      <4>1. t \in Seq(Byte) /\ Len(t) < 100
        BY <2>1
      <4> HIDE DEF u, t
      <4>2. /\ (u \o Field(S, t)) \o Ending \in Seq(Byte)
            /\ ExtractSexpValue((u \o Field(S, t)) \o Ending, S) = {t}
        <5>1. /\ u \in Seq(Byte) /\ Ending \in Seq(Byte) /\ S \in Byte /\ S # Open
              /\ t \in Seq(Byte) /\ Len(t) < 100 /\ Places(u, S) = {}
          BY <1>1, <1>2, <2>4, <3>1, <4>1
        <5>2. QED
          BY <5>1, ExtractsField
      <4>3. QED
        BY <4>2 DEF t
    <3>3. ExtractSexpValue(d, S) = {a.s}
      BY <2>3, <3>2
    <3> HIDE DEF d
    <3>4. QED
      BY <2>6, <3>3 DEF SignatureBytes
  <2>8. QED
    BY <1>3, <2>6, <2>7
<1>4. CASE a.kind # "signature"
  <2> DEFINE d == Expression(a)
             v == IF Len(a.q) = KeyLength + 1 /\ a.q[1] = At THEN Tail(a.q) ELSE a.q
  <2>1. a.q \in Seq(Byte) /\ Len(a.q) < 100 /\ v = a.point
    BY <1>4, AnswerKinds, KeyForms
  <2>2. d = (KeyHead \o Field(Q, a.q)) \o Ending
    BY <1>4 DEF Expression
  <2>3. d \in Seq(Byte) /\ ExtractSexpValue(d, Q) = {a.q}
    <3> HIDE DEF d
    <3>1. QED
      BY <1>1, <1>2, <2>1, <2>2, ExtractsField
  <2> HIDE DEF d
  <2>4. ExtractSexpQValue(d) = {v}
    BY <2>3 DEF ExtractSexpQValue
  <2>5. ExtractSexpQValue(d) = {a.point}
    BY <2>1, <2>4
  <2>6. QED
    BY <1>4, <2>3, <2>5 DEF d
<1>5. QED
  BY <1>3, <1>4

-----------------------------------------------------------------------------
(* The invariant.                                                          *)

\* Of three sequences that make an expression the middle one is cut out of it.
LEMMA Middle ==
  ASSUME NEW a \in Seq(Byte), NEW b \in Seq(Byte), NEW c \in Seq(Byte),
         NEW d, d = (a \o b) \o c
  PROVE  SubSeq(d, Len(a) + 1, Len(d) - Len(c)) = b
<1> DEFINE u == a \o b
           v == u \o c
           la == Len(a)
           lb == Len(b)
           lc == Len(c)
<1>1. /\ u \in Seq(Byte) /\ Len(u) = la + lb /\ la \in Nat /\ lb \in Nat
      /\ \A i \in 1..lb : la + i \in 1..Len(u)
      /\ \A i \in 1..lb : u[la + i] = b[i]
  BY Joined
<1>l. lb = Len(b) /\ la = Len(a) /\ lc = Len(c)
  OBVIOUS
<1> HIDE DEF u
<1>2. /\ v \in Seq(Byte) /\ Len(v) = Len(u) + lc /\ lc \in Nat
      /\ \A i \in 1..Len(u) : v[i] = u[i]
  BY <1>1, Joined
<1>3. d = v
  BY DEF u
<1> HIDE DEF v, la, lb, lc
<1>4. \A i \in 1..lb : v[la + i] = b[i]
  BY <1>1, <1>2
<1>5. la + lb <= Len(v) /\ la + lb = Len(v) - lc
  BY <1>1, <1>2
<1>6. SubSeq(v, la + 1, la + lb) = b
  <2>1. v \in Seq(Byte) /\ la \in Nat /\ lb = Len(b) /\ la + lb <= Len(v)
    BY <1>1, <1>2, <1>5, <1>l
  <2>2. QED
    BY <1>4, <2>1, Found
<1>7. QED
  BY <1>3, <1>5, <1>6, <1>l

\* Where the agent cuts its line.
LEMMA CutFacts ==
  ASSUME NEW T, NEW l \in Nat, T \subseteq 1..l, T # {}
  PROVE  Min(T) \in 1..l
<1>1. \E n \in T : \A m \in T : n <= m
  <2>1. T \subseteq Nat
    OBVIOUS
  <2>2. QED
    BY <2>1, Least
<1>2. Min(T) \in T
  BY <1>1 DEF Min
<1>3. QED
  BY <1>2

LEMMA CutInTwo ==
  ASSUME NEW s \in Seq(Byte), NEW n \in 1..Len(s)
  PROVE  /\ SubSeq(s, 1, n) \in Seq(Byte) /\ SubSeq(s, 1, n) # <<>>
         /\ SubSeq(s, n + 1, Len(s)) \in Seq(Byte)
         /\ SubSeq(s, 1, n) \o SubSeq(s, n + 1, Len(s)) = s
<1> DEFINE a == SubSeq(s, 1, n)
           b == SubSeq(s, n + 1, Len(s))
           u == a \o b
           l == Len(s)
<1>1. l \in Nat /\ \A i \in 1..l : s[i] \in Byte
  BY LenProperties, ElementOfSeq
<1>2. /\ a \in Seq(Byte) /\ Len(a) = n /\ \A i \in 1..n : a[i] = s[i]
  <2>1. /\ a \in Seq(Byte) /\ Len(a) = IF 1 <= n THEN n - 1 + 1 ELSE 0
        /\ \A i \in 1..n - 1 + 1 : a[i] = s[1 + i - 1]
    <3>1. \A i \in 1..n : s[i] \in Byte
      BY <1>1
    <3>2. QED
      BY <1>1, <3>1, SubSeqProperties
  <2>2. 1 <= n /\ n - 1 + 1 = n /\ \A i \in 1..n : 1 + i - 1 = i
    BY <1>1
  <2> HIDE DEF a
  <2>3. QED
    BY <2>1, <2>2
<1>3. /\ b \in Seq(Byte) /\ Len(b) = l - n /\ \A i \in 1..l - n : b[i] = s[n + i]
  <2> HIDE DEF l
  <2> DEFINE c == SubSeq(s, n + 1, l)
  <2>1. /\ c \in Seq(Byte) /\ Len(c) = IF n + 1 <= l THEN l - (n + 1) + 1 ELSE 0
        /\ \A i \in 1..l - (n + 1) + 1 : c[i] = s[n + 1 + i - 1]
    <3>1. n \in 1..l
      BY DEF l
    <3>2. \A i \in n + 1..l : s[i] \in Byte
      BY <1>1, <3>1
    <3>3. QED
      BY <1>1, <3>1, <3>2, SubSeqProperties
  <2>2. /\ l - (n + 1) + 1 = l - n /\ (~(n + 1 <= l) => l - n = 0)
        /\ \A i \in 1..l - n : n + 1 + i - 1 = n + i
    <3>1. n \in 1..l
      BY DEF l
    <3>2. QED
      BY <1>1, <3>1
  <2>3. b = c
    BY DEF l
  <2> HIDE DEF b, c
  <2>4. QED
    BY <2>1, <2>2, <2>3
<1>4. n \in 1..l
  OBVIOUS
<1> HIDE DEF a, b, l
<1>5. /\ u \in Seq(Byte) /\ Len(u) = Len(a) + Len(b)
      /\ \A i \in 1..Len(a) : u[i] = a[i]
      /\ \A i \in 1..Len(b) : u[Len(a) + i] = b[i]
  BY <1>2, <1>3, Joined
<1> HIDE DEF u
<1>6. Len(u) = l
  BY <1>1, <1>2, <1>3, <1>4, <1>5
<1>7. ASSUME NEW i \in 1..l
      PROVE  u[i] = s[i]
  <2>1. CASE i <= n
    <3>1. i \in 1..n
      BY <1>1, <1>4, <2>1
    <3>2. QED
      BY <1>2, <1>5, <3>1
  <2>2. CASE i > n
    <3>1. i - n \in 1..l - n /\ n + (i - n) = i
      BY <1>1, <1>4, <2>2
    <3>2. QED
      BY <1>2, <1>3, <1>5, <3>1
  <2>3. QED
    BY <1>1, <1>4, <2>1, <2>2
<1>8. u = s
  <2>1. Len(s) = l
    BY DEF l
  <2>2. QED
    BY <1>5, <1>6, <1>7, <2>1, SeqEqual
<1>9. a # <<>>
  BY <1>2, <1>4
<1>10. QED
  BY <1>2, <1>3, <1>8, <1>9 DEF a, b, l, u

\* A line is never empty.
LEMMA LineNotEmpty ==
  ASSUME NEW b \in Seq(Byte)
  PROVE  Escaped(b) \o <<LF>> # <<>>
<1> DEFINE e == Escaped(b)
           t == <<LF>>
           u == e \o t
<1>1. e \in Seq(Byte)
  BY EscapedFacts
<1>2. t \in Seq(Byte) /\ Len(t) = 1
  BY DEF LF, Byte
<1> HIDE DEF e, t
<1>3. Len(t) = 1 /\ Len(e) + 1 \in 1..Len(u)
  <2>1. \A i \in 1..Len(t) : Len(e) + i \in 1..Len(u)
    BY <1>1, <1>2, Joined
  <2> HIDE DEF u
  <2>2. QED
    BY <1>2, <2>1
<1>4. u # <<>>
  <2> HIDE DEF u
  <2>1. SUFFICES ASSUME u = <<>>
                 PROVE  FALSE
    OBVIOUS
  <2>2. Len(u) = 0 /\ 1..0 = {}
    BY <2>1
  <2>3. Len(e) + 1 \in 1..0
    BY <1>3, <2>2
  <2>4. QED
    BY <2>2, <2>3
<1>5. QED
  BY <1>4 DEF u, e, t

\* What an IInv state is, in terms of the bytes underway.
LEMMA Parts ==
  ASSUME IInv
  PROVE  /\ Expression(answer) \in Seq(Byte) /\ Underway \in Seq(Byte)
         /\ line = <<>> => Underway = <<>>
         /\ line # <<>> => Underway # <<>> /\ line = Escaped(Underway) \o <<LF>>
<1>1. Expression(answer) \in Seq(Byte)
  BY ExtractsMeant DEF IInv
<1>2. Underway \in Seq(Byte)
  <2> DEFINE x == Expression(answer)
             m == Len(data) + 1
             n == Len(x) - Len(unsent)
  <2>1. Len(data) \in Nat /\ Len(unsent) \in Nat /\ Len(x) \in Nat
    BY <1>1, LenProperties DEF IInv
  <2>2. \A i \in m..n : x[i] \in Byte
    <3>1. \A i \in m..n : i \in 1..Len(x)
      BY <2>1
    <3>2. QED
      BY <1>1, <3>1, ElementOfSeq
  <2>3. m \in Int /\ n \in Int
    BY <2>1
  <2> HIDE DEF x, m, n
  <2>4. SubSeq(x, m, n) \in Seq(Byte)
    BY <2>2, <2>3, SubSeqProperties
  <2>5. QED
    BY <2>4 DEF Underway, x, m, n
<1>3. line = IF Underway = <<>> THEN <<>> ELSE Escaped(Underway) \o <<LF>>
  BY DEF IInv
<1>4. Escaped(Underway) \o <<LF>> # <<>>
  BY <1>2, LineNotEmpty
<1>5. QED
  BY <1>1, <1>2, <1>3, <1>4

\* The pieces of an expression, when b is underway.
LEMMA UnderwayIs ==
  ASSUME data \in Seq(Byte), unsent \in Seq(Byte), NEW b \in Seq(Byte),
         Expression(answer) = (data \o b) \o unsent
  PROVE  Underway = b
BY Middle DEF Underway

LEMMA UnderwayNext ==
  ASSUME data' \in Seq(Byte), unsent' \in Seq(Byte), NEW b \in Seq(Byte),
         Expression(answer)' = (data' \o b) \o unsent'
  PROVE  Underway' = b
BY Middle DEF Underway

LEMMA InitIInv ==
  ASSUME Init
  PROVE  IInv
<1>1. /\ answer \in Answers /\ limit \in Limits /\ unsent = Expression(answer) /\ line = <<>>
      /\ data = <<>> /\ done = FALSE
  BY DEF Init
<1>2. unsent \in Seq(Byte) /\ data \in Seq(Byte) /\ <<>> \in Seq(Byte)
  <2>1. Expression(answer) \in Seq(Byte)
    BY <1>1, ExtractsMeant
  <2>2. QED
    BY <1>1, <2>1
<1>3. Expression(answer) = (data \o <<>>) \o unsent
  BY <1>1, <1>2
<1>4. Underway = <<>>
  BY <1>2, <1>3, UnderwayIs
<1>5. QED
  BY <1>1, <1>2, <1>3, <1>4 DEF IInv

LEMMA SendLineIInv ==
  ASSUME IInv, SendLine
  PROVE  IInv'
<1> DEFINE T == {k \in 1..Len(unsent) :
                   k = Len(unsent) \/ Len(Escaped(SubSeq(unsent, 1, k))) >= limit}
           n == Min(T)
           b == SubSeq(unsent, 1, n)
           rest == SubSeq(unsent, n + 1, Len(unsent))
<1>1. /\ unsent # <<>> /\ line = <<>>
      /\ line' = Escaped(b) \o <<LF>>
      /\ unsent' = rest
      /\ answer' = answer /\ limit' = limit /\ data' = data /\ done' = done
      /\ result' = result
  BY DEF SendLine
<1>2. unsent \in Seq(Byte) /\ data \in Seq(Byte) /\ answer \in Answers
  BY DEF IInv
<1>3. n \in 1..Len(unsent)
  <2> DEFINE l == Len(unsent)
  <2>1. l \in Nat /\ l # 0
    BY <1>1, <1>2, EmptySeq, LenProperties
  <2>2. T \subseteq 1..l
    OBVIOUS
  <2>3. l \in T
    BY <2>1
  <2> HIDE DEF T, l
  <2>4. Min(T) \in 1..l
    BY <2>1, <2>2, <2>3, CutFacts
  <2>5. QED
    BY <2>4 DEF l
<1> HIDE DEF n
<1>4. b \in Seq(Byte) /\ b # <<>> /\ rest \in Seq(Byte) /\ b \o rest = unsent
  BY <1>2, <1>3, CutInTwo
<1> HIDE DEF b, rest
<1>5. Expression(answer) = data \o unsent
  <2>1. Underway = <<>>
    BY <1>1, Parts
  <2>2. Expression(answer) = (data \o Underway) \o unsent
    BY DEF IInv
  <2>3. data \o <<>> = data
    BY <1>2
  <2>4. QED
    BY <2>1, <2>2, <2>3
<1>6. Expression(answer)' = (data' \o b) \o unsent'
  <2>1. (data \o b) \o rest = data \o (b \o rest)
    <3>1. data \in Seq(Byte) /\ b \in Seq(Byte) /\ rest \in Seq(Byte)
      BY <1>2, <1>4
    <3>2. QED
      BY <3>1, ConcatAssociative
  <2>2. Expression(answer) = (data \o b) \o rest
    BY <1>4, <1>5, <2>1
  <2>3. Expression(answer)' = Expression(answer)
    BY <1>1 DEF Expression
  <2>4. QED
    BY <1>1, <2>2, <2>3
<1>7. Underway' = b
  BY <1>1, <1>2, <1>4, <1>6, UnderwayNext
<1>8. ~done
  BY <1>1 DEF IInv
<1>9. QED
  BY <1>1, <1>2, <1>4, <1>6, <1>7, <1>8 DEF IInv

LEMMA ReadLineIInv ==
  ASSUME IInv, ReadLine
  PROVE  IInv'
<1> DEFINE b == Underway
<1>1. /\ line # <<>>
      /\ data' = data \o DecodedBytes(Stripped(line))
      /\ line' = <<>> /\ answer' = answer /\ limit' = limit /\ unsent' = unsent
      /\ done' = done /\ result' = result
  BY DEF ReadLine
<1>2. unsent \in Seq(Byte) /\ data \in Seq(Byte) /\ <<>> \in Seq(Byte)
  BY DEF IInv
<1>3. b \in Seq(Byte) /\ line = Escaped(b) \o <<LF>>
  BY <1>1, Parts
<1>4. Expression(answer) = (data \o b) \o unsent
  BY DEF IInv
<1> HIDE DEF b
<1>5. data' = data \o b
  BY <1>1, <1>3, LineRead
<1>6. data' \in Seq(Byte)
  BY <1>2, <1>3, <1>5, ConcatProperties
<1>7. Expression(answer)' = (data' \o <<>>) \o unsent'
  <2>1. data' \o <<>> = data'
    BY <1>6
  <2>2. Expression(answer)' = Expression(answer)
    BY <1>1 DEF Expression
  <2>3. QED
    BY <1>1, <1>4, <1>5, <2>1, <2>2
<1>8. Underway' = <<>>
  BY <1>1, <1>2, <1>6, <1>7, UnderwayNext
<1>9. ~done
  BY <1>1 DEF IInv
<1>10. QED
  BY <1>1, <1>2, <1>6, <1>7, <1>8, <1>9 DEF IInv

LEMMA ReadOkIInv ==
  ASSUME IInv, ReadOk
  PROVE  IInv'
<1>1. /\ unsent = <<>> /\ line = <<>> /\ done' = TRUE /\ result' = Extracted
      /\ answer' = answer /\ limit' = limit /\ unsent' = unsent /\ line' = line
      /\ data' = data
  BY DEF ReadOk
<1>2. Underway' = Underway /\ Expression(answer)' = Expression(answer)
  BY <1>1 DEF Underway, Expression
<1>3. Extracted' = Extracted
  BY <1>1 DEF Extracted, SignatureBytes, ExtractSexpQValue
<1>4. QED
  BY <1>1, <1>2, <1>3 DEF IInv

LEMMA StutterIInv ==
  ASSUME IInv, UNCHANGED vars
  PROVE  IInv'
<1>1. /\ result' = result /\ done' = done
      /\ answer' = answer /\ limit' = limit /\ unsent' = unsent /\ line' = line
      /\ data' = data
  BY DEF vars
<1>2. Underway' = Underway /\ Expression(answer)' = Expression(answer)
  BY <1>1 DEF Underway, Expression
<1>3. Extracted' = Extracted
  BY <1>1 DEF Extracted, SignatureBytes, ExtractSexpQValue
<1>4. QED
  BY <1>1, <1>2, <1>3 DEF IInv

\* However the agent cuts and escapes an answer: what the client has decoded
\* (read_data_response), the line on the socket and what the agent has not sent
\* yet are its expression, in this order and byte for byte; and what sign and
\* readkey return is cut out of that.
THEOREM InvariantHolds == Spec => []IInv
<1>1. IInv /\ [Next]_vars => IInv'
  BY SendLineIInv, ReadLineIInv, ReadOkIInv, StutterIInv DEF Next
<1>2. QED
  BY <1>1, InitIInv, PTL DEF Spec

\* Every answer is read as it was meant: for components and keys of any bytes and
\* of any lengths under 100, for any heads that do not spell a tag, wherever the
\* lines are cut.  What is left out is an r that spells the tag of s.
THEOREM AnswersRead == Spec => []AnswerRead
<1>1. ASSUME IInv
      PROVE  AnswerRead
  <2>1. SUFFICES ASSUME done, ~(answer.kind = "signature" /\ Places(answer.r, S) # {})
                 PROVE  result = {Meant}
    BY DEF AnswerRead
  <2>2. unsent = <<>> /\ line = <<>> /\ result = Extracted /\ answer \in Answers
        /\ data \in Seq(Byte)
    BY <1>1, <2>1 DEF IInv
  <2>3. data = Expression(answer)
    <3>1. Underway = <<>>
      BY <1>1, <2>2, Parts
    <3>2. Expression(answer) = (data \o Underway) \o unsent
      BY <1>1 DEF IInv
    <3>3. (data \o <<>>) \o <<>> = data
      BY <2>2
    <3>4. QED
      BY <2>2, <3>1, <3>2, <3>3
  <2>4. CASE answer.kind = "signature"
    <3>1. SignatureBytes(Expression(answer)) = {answer.r \o answer.s}
      BY <2>1, <2>2, <2>4, ExtractsMeant
    <3>2. QED
      BY <2>2, <2>3, <2>4, <3>1 DEF Extracted, Meant
  <2>5. CASE answer.kind # "signature"
    <3>1. ExtractSexpQValue(Expression(answer)) = {answer.point}
      BY <2>2, <2>5, ExtractsMeant
    <3>2. QED
      BY <2>2, <2>3, <2>5, <3>1 DEF Extracted, Meant
  <2>6. QED
    BY <2>4, <2>5
<1>2. QED
  BY <1>1, InvariantHolds, PTL
=============================================================================
