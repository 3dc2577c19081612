------------------------- MODULE JobLifecycleProofs -------------------------
(***************************************************************************)
(* The safety of a job, from the request that brings it to its end:        *)
(* Documents, which makes a snapshot of its attachment, for every set of   *)
(* texts, profiles and releases and any limits, IntakeIdempotency, which   *)
(* creates it, for every set of requests, keys and contents, and           *)
(* JobLifecycle, which runs it, for every set of jobs and every retry      *)
(* limit.  DocumentInv, IntakeInv and IInv are inductive (PartsOfInv and   *)
(* one lemma per action, IntakeStep, TypeStep with SafetyStep), and each   *)
(* safety property follows.                                                *)
(***************************************************************************)
EXTENDS JobLifecycle, IntakeIdempotency, Documents, FiniteSetTheorems, SequenceTheorems,
        WellFoundedInduction, TLAPS

(***************************************************************************)
(* A document.  First what joining, normalizing and filtering texts gives, *)
(* for texts and pages of any length: FlattenSeq is unrolled into its      *)
(* beginnings (FlattenFrom), along which a set-based induction runs.       *)
(***************************************************************************)

\* NatSet: a set with 0 that has with a number also the next has all numbers.
LEMMA NatSet ==
    ASSUME NEW S, 0 \in S, \A n \in Nat : n \in S => n + 1 \in S
    PROVE  Nat \subseteq S
<1> DEFINE T == Nat \ S
<1>1. SUFFICES ASSUME T # {} PROVE FALSE
  OBVIOUS
<1>2. T \subseteq Nat
  OBVIOUS
<1>3. \E x \in T : \A y \in T : ~(<<y, x>> \in OpToRel(<, Nat))
  <2> HIDE DEF T
  <2>1. QED
    BY <1>1, <1>2, NatLessThanWellFounded, WFMin
<1>4. PICK x \in T : \A y \in T : ~(<<y, x>> \in OpToRel(<, Nat))
  BY <1>3
<1>5. \A y \in T : ~(y < x)
  BY <1>2, <1>4 DEF OpToRel
<1>6. x \in Nat /\ x # 0 /\ x - 1 \in Nat
  BY <1>2
<1>7. x - 1 \in S
  BY <1>5, <1>6
<1>8. (x - 1) + 1 \in S /\ (x - 1) + 1 = x
  BY <1>6, <1>7
<1>9. QED
  BY <1>8

\* FlattenSteps: the concatenation of sequences, one after another.
LEMMA FlattenSteps ==
    ASSUME NEW S, NEW ss \in Seq(S), Len(ss) # 0
    PROVE  \E f : /\ FlattenSeq(ss) = f[Len(ss)]
                  /\ f[1] = ss[1]
                  /\ \A i \in 2 .. Len(ss) : f[i] = f[i - 1] \o ss[i]
<1> DEFINE n == Len(ss)
           Rec(k, g) == g = [i \in 1 .. k |-> IF i = 1 THEN ss[i] ELSE g[i - 1] \o ss[i]]
           Ok == {k \in Nat : \E g : Rec(k, g)}
<1>1. n \in Nat \ {0}
  OBVIOUS
<1>2. 0 \in Ok
  <2> DEFINE g == [i \in 1 .. 0 |-> 0]
  <2>1. Rec(0, g)
    OBVIOUS
  <2>2. QED
    BY <2>1
<1>3. ASSUME NEW k \in Nat, k \in Ok PROVE k + 1 \in Ok
  <2>1. PICK h : Rec(k, h)
    BY <1>3
  <2> DEFINE m == k + 1
             g == [i \in 1 .. m |-> IF i = m THEN (IF m = 1 THEN ss[m] ELSE h[k] \o ss[m])
                                    ELSE h[i]]
             rhs == [i \in 1 .. m |-> IF i = 1 THEN ss[i] ELSE g[i - 1] \o ss[i]]
  <2>2. \A i \in 1 .. k : h[i] = IF i = 1 THEN ss[i] ELSE h[i - 1] \o ss[i]
    BY <2>1
  <2>3. ASSUME NEW i \in 1 .. m PROVE g[i] = rhs[i]
    <3>1. CASE i = m
      <4>1. g[i] = IF m = 1 THEN ss[m] ELSE h[k] \o ss[m]
        BY <3>1
      <4>2. m # 1 => k \in 1 .. m /\ k # m /\ g[k] = h[k]
        OBVIOUS
      <4>3. rhs[i] = IF m = 1 THEN ss[m] ELSE g[m - 1] \o ss[m]
        BY <3>1
      <4> HIDE DEF g, rhs
      <4>4. QED
        BY <4>1, <4>2, <4>3
    <3>2. CASE i # m
      <4>1. i \in 1 .. k /\ g[i] = h[i]
        BY <3>2
      <4>2. i # 1 => g[i - 1] = h[i - 1]
        BY <3>2
      <4>3. rhs[i] = IF i = 1 THEN ss[i] ELSE g[i - 1] \o ss[i]
        OBVIOUS
      <4> HIDE DEF g, rhs
      <4>4. QED
        BY <2>2, <4>1, <4>2, <4>3
    <3>3. QED
      BY <3>1, <3>2
  <2>4. g = rhs
    BY <2>3
  <2>5. Rec(m, g)
    BY <2>4
  <2> HIDE DEF g
  <2>6. \E x : Rec(m, x)
    <3> HIDE DEF Rec
    <3>1. QED
      BY <2>5, Zenon
  <2>7. m \in Nat
    OBVIOUS
  <2> HIDE DEF Rec, m
  <2>8. m \in Ok
    BY <2>6, <2>7
  <2>9. QED
    BY <2>8 DEF m
<1>4. n \in Ok
  <2> HIDE DEF Ok
  <2>1. QED
    BY <1>1, <1>2, <1>3, NatSet
<1>5. \E g : Rec(n, g)
  BY <1>4
<1> DEFINE f == CHOOSE g : Rec(n, g)
<1>6. Rec(n, f)
  <2> HIDE DEF Rec
  <2>1. QED
    BY <1>5, Zenon
<1>7. FlattenSeq(ss) = f[n]
  BY <1>1 DEF FlattenSeq
<1> HIDE DEF f
<1>8. \A i \in 1 .. n : f[i] = IF i = 1 THEN ss[i] ELSE f[i - 1] \o ss[i]
  BY <1>6
<1>9. f[1] = ss[1]
  BY <1>1, <1>8
<1>10. ASSUME NEW i \in 2 .. Len(ss) PROVE f[i] = f[i - 1] \o ss[i]
  <2>1. i \in 1 .. n /\ i # 1
    BY <1>1
  <2>2. QED
    BY <1>8, <2>1, Zenon
<1>11. QED
  BY <1>7, <1>9, <1>10, Zenon

\* UpTo: induction over 1 .. n.
LEMMA UpTo ==
    ASSUME NEW n \in Nat, NEW T, 1 \in T, \A k \in 1 .. n - 1 : k \in T => k + 1 \in T
    PROVE  \A k \in 1 .. n : k \in T
<1> DEFINE S == {k \in Nat : k + 1 <= n => k + 1 \in T}
<1>1. 0 \in S
  OBVIOUS
<1>2. \A k \in Nat : k \in S => k + 1 \in S
  OBVIOUS
<1>3. Nat \subseteq S
  <2> HIDE DEF S
  <2>1. QED
    BY <1>1, <1>2, NatSet
<1>4. ASSUME NEW k \in 1 .. n PROVE k \in T
  <2>1. k - 1 \in Nat /\ (k - 1) + 1 = k
    OBVIOUS
  <2>2. k - 1 \in S
    BY <1>3, <2>1
  <2>3. QED
    BY <2>1, <2>2
<1>5. QED
  BY <1>4

\* FlattenTyped: so are its beginnings, and they are sequences of the same kind.
LEMMA FlattenTyped ==
    ASSUME NEW S, NEW ss \in Seq(Seq(S)), Len(ss) # 0
    PROVE  \E f : /\ FlattenSeq(ss) = f[Len(ss)]
                  /\ f[1] = ss[1]
                  /\ \A i \in 2 .. Len(ss) : f[i] = f[i - 1] \o ss[i]
                  /\ \A i \in 1 .. Len(ss) : f[i] \in Seq(S)
<1> DEFINE n == Len(ss)
<1>1. PICK f : /\ FlattenSeq(ss) = f[Len(ss)]
               /\ f[1] = ss[1]
               /\ \A i \in 2 .. Len(ss) : f[i] = f[i - 1] \o ss[i]
  BY FlattenSteps
<1> DEFINE T == {k \in Nat : f[k] \in Seq(S)}
<1>2. n \in Nat /\ 1 \in T
  BY <1>1
<1>3. ASSUME NEW k \in 1 .. n - 1, k \in T PROVE k + 1 \in T
  <2>1. k + 1 \in 2 .. n /\ (k + 1) - 1 = k /\ k + 1 \in Nat
    BY <1>2
  <2>2. f[k + 1] = f[(k + 1) - 1] \o ss[k + 1]
    BY <1>1, <2>1, Zenon
  <2>3. ss[k + 1] \in Seq(S) /\ f[k] \in Seq(S)
    BY <1>3, <2>1
  <2>4. \A a, b \in Seq(S) : a \o b \in Seq(S)
    OBVIOUS
  <2>5. f[k + 1] \in Seq(S)
    BY <2>1, <2>2, <2>3, <2>4, Zenon
  <2>6. QED
    BY <2>1, <2>5
<1>4. \A k \in 1 .. n : k \in T
  <2> HIDE DEF T, n
  <2>1. QED
    BY <1>2, <1>3, UpTo
<1>5. \A k \in 1 .. n : f[k] \in Seq(S)
  BY <1>4
<1>6. QED
  BY <1>1, <1>5, Zenon

\* FlattenType: the concatenation of sequences over S is one.
LEMMA FlattenType ==
    ASSUME NEW S, NEW ss \in Seq(Seq(S)) PROVE FlattenSeq(ss) \in Seq(S)
<1>1. CASE Len(ss) = 0
  BY <1>1 DEF FlattenSeq
<1>2. CASE Len(ss) # 0
  <2>1. Len(ss) \in 1 .. Len(ss)
    BY <1>2
  <2>2. QED
    BY <1>2, <2>1, FlattenTyped
<1>3. QED
  BY <1>1, <1>2

\* FlattenAppend: a further sequence comes at the end.
LEMMA FlattenAppend ==
    ASSUME NEW S, NEW ss \in Seq(Seq(S)), NEW x \in Seq(S)
    PROVE  FlattenSeq(Append(ss, x)) = FlattenSeq(ss) \o x
<1> DEFINE n == Len(ss)
           app == Append(ss, x)
<1>1. /\ app \in Seq(Seq(S)) /\ Len(app) = n + 1 /\ app[n + 1] = x /\ n \in Nat
      /\ \A i \in 1 .. n : app[i] = ss[i]
  OBVIOUS
<1> HIDE DEF app
<1>2. PICK g : /\ FlattenSeq(app) = g[n + 1]
               /\ g[1] = app[1]
               /\ \A i \in 2 .. n + 1 : g[i] = g[i - 1] \o app[i]
  <2>1. Len(app) # 0
    BY <1>1
  <2>2. PICK g : /\ FlattenSeq(app) = g[Len(app)]
                 /\ g[1] = app[1]
                 /\ \A i \in 2 .. Len(app) : g[i] = g[i - 1] \o app[i]
    BY <1>1, <2>1, FlattenSteps
  <2>3. QED
    BY <1>1, <2>2, Zenon
<1>3. CASE n = 0
  <2>1. FlattenSeq(ss) = << >>
    BY <1>3 DEF FlattenSeq
  <2>2. FlattenSeq(app) = x
    BY <1>1, <1>2, <1>3
  <2>3. QED
    BY <2>1, <2>2 DEF app
<1>4. CASE n # 0
  <2>1. PICK f : /\ FlattenSeq(ss) = f[n]
                 /\ f[1] = ss[1]
                 /\ \A i \in 2 .. n : f[i] = f[i - 1] \o ss[i]
    BY <1>4, FlattenSteps
  <2> DEFINE T == {k \in Nat : g[k] = f[k]}
  <2>2. 1 \in T
    BY <1>1, <1>2, <1>4, <2>1
  <2>3. ASSUME NEW k \in 1 .. n - 1, k \in T PROVE k + 1 \in T
    <3>1. k + 1 \in 2 .. n /\ k + 1 \in 2 .. n + 1 /\ k + 1 \in 1 .. n /\ (k + 1) - 1 = k
      BY <1>1
    <3>2. g[k + 1] = g[(k + 1) - 1] \o app[k + 1] /\ f[k + 1] = f[(k + 1) - 1] \o ss[k + 1]
      BY <1>2, <2>1, <3>1, Zenon
    <3>3. app[k + 1] = ss[k + 1] /\ g[k] = f[k]
      BY <1>1, <2>3, <3>1
    <3>4. g[k + 1] = f[k + 1]
      BY <3>1, <3>2, <3>3, Zenon
    <3>5. QED
      BY <3>1, <3>4
  <2>4. \A k \in 1 .. n : k \in T
    <3> HIDE DEF T, n
    <3>1. QED
      BY <1>1, <2>2, <2>3, UpTo
  <2>5. n \in 1 .. n /\ n + 1 \in 2 .. n + 1 /\ (n + 1) - 1 = n
    BY <1>1, <1>4
  <2>6. g[n] = f[n]
    BY <2>4, <2>5
  <2>7. g[n + 1] = g[n] \o x
    BY <1>1, <1>2, <2>5
  <2>8. QED
    BY <1>2, <2>1, <2>6, <2>7 DEF app
<1>5. QED
  BY <1>3, <1>4

\* Shown: what a character contributes to the visible text.
Shown(c) == IF Visible(c) THEN <<c>> ELSE <<>>

\* SeenAppend: a further character is seen at the end, if it is visible.
LEMMA SeenAppend ==
    ASSUME NEW t \in Seq(Chars), NEW c \in Chars
    PROVE  Seen(Append(t, c)) = Seen(t) \o Shown(c) /\ Seen(t) \in Seq(Chars)
<1> DEFINE a == [i \in DOMAIN t |-> Shown(t[i])]
           u == Append(t, c)
           b == [i \in DOMAIN u |-> Shown(u[i])]
<1>1. \A x \in Chars : Shown(x) \in Seq(Chars)
  BY DEF Shown
<1>2. DOMAIN t = 1 .. Len(t) /\ Len(t) \in Nat /\ \A i \in 1 .. Len(t) : t[i] \in Chars
  OBVIOUS
<1>3. a \in Seq(Seq(Chars)) /\ Len(a) = Len(t)
  BY <1>1, <1>2
<1>4. b = Append(a, Shown(c))
  <2>1. u \in Seq(Chars) /\ Len(u) = Len(t) + 1 /\ DOMAIN u = 1 .. Len(t) + 1
    OBVIOUS
  <2>2. u[Len(t) + 1] = c /\ \A i \in 1 .. Len(t) : u[i] = t[i]
    OBVIOUS
  <2>3. b \in Seq(Seq(Chars)) /\ Len(b) = Len(t) + 1
    BY <1>1, <2>1
  <2>4. Append(a, Shown(c)) \in Seq(Seq(Chars)) /\ Len(Append(a, Shown(c))) = Len(t) + 1
    BY <1>1, <1>3
  <2>5. \A i \in 1 .. Len(t) + 1 : b[i] = Append(a, Shown(c))[i]
    BY <1>2, <1>3, <2>1, <2>2
  <2> HIDE DEF a, b
  <2>6. QED
    BY <2>3, <2>4, <2>5, SeqEqual
<1>5. Seen(t) = FlattenSeq(a) /\ Seen(u) = FlattenSeq(b)
  BY DEF Seen, Shown
<1> HIDE DEF a, b, u
<1>6. FlattenSeq(Append(a, Shown(c))) = FlattenSeq(a) \o Shown(c)
  BY <1>1, <1>3, FlattenAppend
<1>7. FlattenSeq(a) \in Seq(Chars)
  BY <1>3, FlattenType
<1>8. QED
  BY <1>4, <1>5, <1>6, <1>7 DEF u

\* FlattenFrom: the beginnings of a concatenation, the empty one first.
LEMMA FlattenFrom ==
    ASSUME NEW S, NEW ss \in Seq(Seq(S))
    PROVE  \E f : /\ f[0] = <<>> /\ f[Len(ss)] = FlattenSeq(ss)
                  /\ \A i \in 1 .. Len(ss) : f[i] = f[i - 1] \o ss[i]
                  /\ \A i \in 0 .. Len(ss) : f[i] \in Seq(S)
<1> DEFINE n == Len(ss)
<1>1. CASE n = 0
  <2> DEFINE g == [i \in {0} |-> <<>>]
  <2>1. FlattenSeq(ss) = <<>>
    BY <1>1 DEF FlattenSeq
  <2>2. g[0] = <<>> /\ <<>> \in Seq(S) /\ \A i \in 0 .. n : i = 0
    BY <1>1
  <2>3. \A i \in 1 .. n : FALSE
    BY <1>1
  <2> HIDE DEF g
  <2>4. QED
    BY <1>1, <2>1, <2>2, <2>3
<1>2. CASE n # 0
  <2>1. PICK f : /\ FlattenSeq(ss) = f[n]
                 /\ f[1] = ss[1]
                 /\ \A i \in 2 .. n : f[i] = f[i - 1] \o ss[i]
                 /\ \A i \in 1 .. n : f[i] \in Seq(S)
    BY <1>2, FlattenTyped
  <2> DEFINE g == [i \in 0 .. n |-> IF i = 0 THEN <<>> ELSE f[i]]
  <2>2. n \in Nat /\ g[0] = <<>> /\ \A i \in 1 .. n : g[i] = f[i]
    OBVIOUS
  <2>3. \A i \in 0 .. n : g[i] \in Seq(S)
    BY <2>1, <2>2
  <2> HIDE DEF g
  <2>4. ASSUME NEW i \in 1 .. n PROVE g[i] = g[i - 1] \o ss[i]
    <3>1. CASE i = 1
      <4>1. ss[1] \in Seq(S)
        BY <1>2
      <4>2. <<>> \o ss[1] = ss[1]
        BY <4>1
      <4>3. i - 1 = 0 /\ g[i] = ss[1]
        BY <2>1, <2>2, <3>1
      <4>4. g[i] = <<>> \o ss[i]
        BY <3>1, <4>2, <4>3
      <4>5. QED
        BY <2>2, <4>3, <4>4, Zenon
    <3>2. CASE i # 1
      <4>1. i \in 2 .. n /\ i - 1 \in 1 .. n
        BY <2>2, <3>2
      <4>2. QED
        BY <2>1, <2>2, <4>1, Zenon
    <3>3. QED
      BY <3>1, <3>2
  <2>5. g[n] = FlattenSeq(ss)
    BY <1>2, <2>1, <2>2
  <2>6. QED
    BY <2>2, <2>3, <2>4, <2>5, Zenon
<1>3. QED
  BY <1>1, <1>2

\* Below: induction over 0 .. n.
LEMMA Below ==
    ASSUME NEW n \in Nat, NEW T, 0 \in T, \A k \in Nat : k < n /\ k \in T => k + 1 \in T
    PROVE  \A k \in 0 .. n : k \in T
<1> DEFINE S == {k \in Nat : k <= n => k \in T}
<1>1. 0 \in S
  OBVIOUS
<1>2. \A k \in Nat : k \in S => k + 1 \in S
  OBVIOUS
<1>3. Nat \subseteq S
  <2> HIDE DEF S
  <2>1. QED
    BY <1>1, <1>2, NatSet
<1>4. QED
  BY <1>3

\* What a text and the beginning of it that is already normalized, u, have in common.
Alike(t, k, u, s) ==
    /\ u \in Seq(Chars \ {"cr"}) /\ Len(u) <= k
    /\ Seen(u) = s
    /\ (\A i \in DOMAIN u : ~Visible(u[i])) <=> (\A i \in 1 .. k : ~Visible(t[i]))
    /\ IsFiniteSet({i \in DOMAIN u : u[i] = "lf"})
    /\ IsFiniteSet({i \in LineEnds(t) : i <= k})
    /\ Cardinality({i \in DOMAIN u : u[i] = "lf"}) = Cardinality({i \in LineEnds(t) : i <= k})

\* SeenEmpty: nothing is seen of nothing.
LEMMA SeenEmpty == Seen(<<>>) = <<>> /\ Seen(<<>>) \in Seq(Chars)
<1>1. [i \in DOMAIN <<>> |-> IF Visible(<<>>[i]) THEN << <<>>[i] >> ELSE <<>>] = <<>>
  OBVIOUS
<1>2. Len(<<>>) = 0
  OBVIOUS
<1>3. QED
  BY <1>1, <1>2 DEF Seen, FlattenSeq

\* SeenFrom: the beginnings of what is seen of a text.
LEMMA SeenFrom ==
    ASSUME NEW t \in Seq(Chars)
    PROVE  \E s : /\ s[0] = <<>> /\ s[Len(t)] = Seen(t)
                  /\ \A i \in 1 .. Len(t) : s[i] = s[i - 1] \o Shown(t[i])
                  /\ \A i \in 0 .. Len(t) : s[i] \in Seq(Chars)
<1> DEFINE a == [i \in DOMAIN t |-> Shown(t[i])]
<1>1. \A x \in Chars : Shown(x) \in Seq(Chars)
  BY DEF Shown
<1>2. DOMAIN t = 1 .. Len(t) /\ Len(t) \in Nat /\ \A i \in 1 .. Len(t) : t[i] \in Chars
  OBVIOUS
<1>3. a \in Seq(Seq(Chars)) /\ Len(a) = Len(t) /\ \A i \in 1 .. Len(t) : a[i] = Shown(t[i])
  BY <1>1, <1>2
<1>4. Seen(t) = FlattenSeq(a)
  BY DEF Seen, Shown
<1> HIDE DEF a
<1>5. PICK s : /\ s[0] = <<>> /\ s[Len(a)] = FlattenSeq(a)
               /\ \A i \in 1 .. Len(a) : s[i] = s[i - 1] \o a[i]
               /\ \A i \in 0 .. Len(a) : s[i] \in Seq(Chars)
  BY <1>3, FlattenFrom
<1>6. /\ s[0] = <<>> /\ s[Len(t)] = Seen(t)
      /\ \A i \in 1 .. Len(t) : s[i] = s[i - 1] \o Shown(t[i])
      /\ \A i \in 0 .. Len(t) : s[i] \in Seq(Chars)
  BY <1>3, <1>4, <1>5, Zenon
<1>7. QED
  BY <1>6, Zenon

\* NormalizedPiece: a character becomes nothing or one character, no "cr".
LEMMA NormalizedPiece ==
    ASSUME NEW t \in Seq(Chars), NEW k \in 1 .. Len(t)
    PROVE  /\ Normalized(t, k) \in Seq(Chars)
           /\ \/ /\ Normalized(t, k) = <<>> /\ ~Visible(t[k]) /\ k \notin LineEnds(t)
              \/ /\ Normalized(t, k) = <<"lf">> /\ ~Visible(t[k]) /\ k \in LineEnds(t)
              \/ /\ Normalized(t, k) = <<t[k]>> /\ Visible(t[k]) /\ k \notin LineEnds(t)
<1>1. t[k] \in Chars /\ k \in DOMAIN t
  OBVIOUS
<1>2. "lf" \in Chars
  BY DEF Chars
<1>3. QED
  BY <1>1, <1>2 DEF Normalized, Visible, LineEnds

\* AlikeStep: a further character keeps them alike.
LEMMA AlikeStep ==
    ASSUME NEW t \in Seq(Chars), NEW k \in Nat, k < Len(t), NEW u, NEW s, Alike(t, k, u, s)
    PROVE  Alike(t, k + 1, u \o Normalized(t, k + 1), s \o Shown(t[k + 1]))
<1> DEFINE m == k + 1
           Ends1(v) == {i \in DOMAIN v : v[i] = "lf"}
           Upto(j) == {i \in LineEnds(t) : i <= j}
<1>1. m \in 1 .. Len(t) /\ t[m] \in Chars /\ Len(t) \in Nat
  OBVIOUS
<1>2. /\ u \in Seq(Chars \ {"cr"}) /\ u \in Seq(Chars) /\ Len(u) \in Nat /\ DOMAIN u = 1 .. Len(u)
      /\ Len(u) <= k /\ Seen(u) = s
  BY DEF Alike
<1>3. Seen(u) \in Seq(Chars)
  BY <1>1, <1>2, SeenAppend
<1>4. LineEnds(t) \subseteq 1 .. Len(t)
  BY DEF LineEnds
<1>5. /\ m \notin LineEnds(t) => Upto(m) = Upto(k)
      /\ m \in LineEnds(t) => Upto(m) = Upto(k) \cup {m} /\ m \notin Upto(k)
  BY <1>4
<1>6. (\A i \in 1 .. m : ~Visible(t[i])) <=> (\A i \in 1 .. k : ~Visible(t[i])) /\ ~Visible(t[m])
  <2>1. \A i \in 1 .. m : i \in 1 .. k \/ i = m
    OBVIOUS
  <2>2. m \in 1 .. m /\ \A i \in 1 .. k : i \in 1 .. m
    OBVIOUS
  <2> HIDE DEF m
  <2>3. QED
    BY <2>1, <2>2, Zenon
<1>7. CASE Normalized(t, m) = <<>> /\ ~Visible(t[m]) /\ m \notin LineEnds(t)
  <2>1. u \o Normalized(t, m) = u /\ s \o Shown(t[m]) = s
    <3>1. Shown(t[m]) = <<>> /\ s \in Seq(Chars)
      BY <1>2, <1>3, <1>7 DEF Shown
    <3>2. \A x \in Seq(Chars) : x \o <<>> = x
      OBVIOUS
    <3> HIDE DEF m
    <3>3. QED
      BY <1>2, <1>7, <3>1, <3>2
  <2>2. Len(u) <= m
    BY <1>2
  <2> HIDE DEF m
  <2>3. Alike(t, m, u, s)
    BY <1>2, <1>5, <1>6, <1>7, <2>2 DEF Alike
  <2>4. QED
    BY <2>1, <2>3 DEF m
<1>8. ASSUME NEW c \in Chars \ {"cr"}, Normalized(t, m) = <<c>>,
             Visible(c) <=> Visible(t[m]), Visible(c) => c = t[m],
             m \in LineEnds(t) <=> c = "lf"
      PROVE  Alike(t, m, u \o Normalized(t, m), s \o Shown(t[m]))
  <2> DEFINE v == Append(u, c)
  <2>1. /\ u \o <<c>> = v /\ v \in Seq(Chars \ {"cr"}) /\ Len(v) = Len(u) + 1
        /\ DOMAIN v = 1 .. Len(u) + 1 /\ v[Len(u) + 1] = c
        /\ \A i \in 1 .. Len(u) : v[i] = u[i]
    BY <1>2
  <2>2. Seen(v) = s \o Shown(t[m])
    <3>1. Seen(v) = s \o Shown(c)
      BY <1>2, SeenAppend
    <3>2. Shown(c) = Shown(t[m])
      BY <1>8 DEF Shown
    <3>3. QED
      BY <3>1, <3>2
  <2>3. Len(v) <= m
    BY <1>2, <2>1
  <2>4. (\A i \in DOMAIN v : ~Visible(v[i])) <=> (\A i \in 1 .. m : ~Visible(t[i]))
    <3>1. (\A i \in DOMAIN u : ~Visible(u[i])) <=> (\A i \in 1 .. k : ~Visible(t[i]))
      BY DEF Alike
    <3>2. /\ \A i \in DOMAIN v : i \in DOMAIN u \/ i = Len(u) + 1
          /\ Len(u) + 1 \in DOMAIN v /\ \A i \in DOMAIN u : i \in DOMAIN v
      BY <1>2, <2>1
    <3> HIDE DEF v, m
    <3>3. (\A i \in DOMAIN v : ~Visible(v[i])) <=>
             (\A i \in DOMAIN u : ~Visible(u[i])) /\ ~Visible(c)
      BY <1>2, <2>1, <3>2, Zenon
    <3>4. QED
      BY <1>6, <1>8, <3>1, <3>3, Zenon
  <2>5. /\ c # "lf" => Ends1(v) = Ends1(u)
        /\ c = "lf" => Ends1(v) = Ends1(u) \cup {Len(u) + 1} /\ Len(u) + 1 \notin Ends1(u)
    <3> HIDE DEF v
    <3>1. QED
      BY <1>2, <2>1
  <2>6. /\ IsFiniteSet(Ends1(u)) /\ IsFiniteSet(Upto(k))
        /\ Cardinality(Ends1(u)) = Cardinality(Upto(k))
    BY DEF Alike
  <2>7. /\ IsFiniteSet(Ends1(v)) /\ IsFiniteSet(Upto(m))
        /\ Cardinality(Ends1(v)) = Cardinality(Upto(m))
    <3> HIDE DEF v, m, Ends1, Upto
    <3>1. CASE c = "lf"
      <4>1. /\ Ends1(v) = Ends1(u) \cup {Len(u) + 1} /\ Len(u) + 1 \notin Ends1(u)
            /\ Upto(m) = Upto(k) \cup {m} /\ m \notin Upto(k)
        BY <1>5, <1>8, <2>5, <3>1, Zenon
      <4>2. /\ IsFiniteSet(Ends1(u) \cup {Len(u) + 1}) /\ IsFiniteSet(Upto(k) \cup {m})
            /\ Cardinality(Ends1(u) \cup {Len(u) + 1}) = Cardinality(Upto(k) \cup {m})
        <5> DEFINE n == Len(u) + 1
                   A == Ends1(u)
                   B == Upto(k)
        <5>1. IsFiniteSet(A) /\ IsFiniteSet(B) /\ Cardinality(A) = Cardinality(B)
              /\ n \notin A /\ m \notin B
          BY <2>6, <4>1
        <5> HIDE DEF n, A, B
        <5>2. /\ IsFiniteSet(A \cup {n}) /\ IsFiniteSet(B \cup {m})
              /\ Cardinality(A \cup {n}) = Cardinality(B \cup {m})
          <6>1. IsFiniteSet(A \cup {n}) /\ Cardinality(A \cup {n}) = Cardinality(A) + 1
            BY <5>1, FS_AddElement, Zenon
          <6>2. IsFiniteSet(B \cup {m}) /\ Cardinality(B \cup {m}) = Cardinality(B) + 1
            BY <5>1, FS_AddElement, Zenon
          <6>3. QED
            BY <5>1, <6>1, <6>2, Zenon
        <5>3. QED
          BY <5>2 DEF n, A, B
      <4>3. QED
        BY <4>1, <4>2, Zenon
    <3>2. CASE c # "lf"
      BY <1>5, <1>8, <2>5, <2>6, <3>2, Zenon
    <3>3. QED
      BY <3>1, <3>2
  <2> HIDE DEF v
  <2>8. u \o Normalized(t, m) = v
    BY <1>8, <2>1
  <2>9. Alike(t, m, v, s \o Shown(t[m]))
    <3> HIDE DEF m
    <3>1. QED
      BY <2>1, <2>2, <2>3, <2>4, <2>7, Zenon DEF Alike
  <2>10. QED
    <3> HIDE DEF m
    <3>1. QED
      BY <2>8, <2>9, Zenon
<1>9. \/ Normalized(t, m) = <<>> /\ ~Visible(t[m]) /\ m \notin LineEnds(t)
      \/ Normalized(t, m) = <<"lf">> /\ ~Visible(t[m]) /\ m \in LineEnds(t)
      \/ Normalized(t, m) = <<t[m]>> /\ Visible(t[m]) /\ m \notin LineEnds(t)
  BY <1>1, NormalizedPiece
<1>10. /\ "lf" \in Chars \ {"cr"} /\ ~Visible("lf")
       /\ Visible(t[m]) => t[m] \in Chars \ {"cr"} /\ t[m] # "lf"
  <2>1. "lf" \in Chars
    BY DEF Chars
  <2>2. QED
    BY <1>1, <2>1 DEF Visible
<1>11. Alike(t, m, u \o Normalized(t, m), s \o Shown(t[m]))
  <2> HIDE DEF m
  <2>1. CASE Normalized(t, m) = <<"lf">> /\ ~Visible(t[m]) /\ m \in LineEnds(t)
    BY <1>8, <1>10, <2>1, Zenon
  <2>2. CASE Normalized(t, m) = <<t[m]>> /\ Visible(t[m]) /\ m \notin LineEnds(t)
    BY <1>8, <1>10, <2>2, Zenon
  <2>3. CASE Normalized(t, m) = <<>> /\ ~Visible(t[m]) /\ m \notin LineEnds(t)
    BY <1>7, <2>3 DEF m
  <2>4. QED
    BY <1>9, <2>1, <2>2, <2>3
<1>12. QED
  BY <1>11

\* NormalizeAlike: the normalized text has what the text has.
LEMMA NormalizeAlike ==
    ASSUME NEW t \in Seq(Chars) PROVE Alike(t, Len(t), NormalizeText(t), Seen(t))
<1> DEFINE a == [i \in DOMAIN t |-> Normalized(t, i)]
<1>1. Len(t) \in Nat /\ DOMAIN t = 1 .. Len(t)
  OBVIOUS
<1>2. a \in Seq(Seq(Chars)) /\ Len(a) = Len(t) /\ \A i \in 1 .. Len(t) : a[i] = Normalized(t, i)
  BY <1>1, NormalizedPiece
<1>3. NormalizeText(t) = FlattenSeq(a)
  BY DEF NormalizeText
<1> HIDE DEF a
<1>4. PICK f : /\ f[0] = <<>> /\ f[Len(a)] = FlattenSeq(a)
               /\ \A i \in 1 .. Len(a) : f[i] = f[i - 1] \o a[i]
               /\ \A i \in 0 .. Len(a) : f[i] \in Seq(Chars)
  BY <1>2, FlattenFrom
<1>5. PICK s : /\ s[0] = <<>> /\ s[Len(t)] = Seen(t)
               /\ \A i \in 1 .. Len(t) : s[i] = s[i - 1] \o Shown(t[i])
               /\ \A i \in 0 .. Len(t) : s[i] \in Seq(Chars)
  BY SeenFrom
<1> DEFINE T == {k \in Nat : Alike(t, k, f[k], s[k])}
<1>6. 0 \in T
  <2>1. /\ <<>> \in Seq(Chars \ {"cr"}) /\ Len(<<>>) <= 0 /\ DOMAIN <<>> = {}
        /\ {i \in DOMAIN <<>> : <<>>[i] = "lf"} = {}
        /\ \A i \in 1 .. 0 : FALSE
    OBVIOUS
  <2>2. {i \in LineEnds(t) : i <= 0} = {}
    BY <1>1 DEF LineEnds
  <2>3. IsFiniteSet({})
    BY FS_EmptySet
  <2>4. Alike(t, 0, <<>>, <<>>)
    BY <2>1, <2>2, <2>3, SeenEmpty DEF Alike
  <2>5. QED
    BY <1>4, <1>5, <2>4
<1>7. ASSUME NEW k \in Nat, k < Len(t), k \in T PROVE k + 1 \in T
  <2>1. k + 1 \in 1 .. Len(t) /\ (k + 1) - 1 = k /\ k + 1 \in Nat
    BY <1>1, <1>7
  <2>2. f[k + 1] = f[(k + 1) - 1] \o Normalized(t, k + 1)
        /\ s[k + 1] = s[(k + 1) - 1] \o Shown(t[k + 1])
    BY <1>2, <1>4, <1>5, <2>1, Zenon
  <2>3. f[k + 1] = f[k] \o Normalized(t, k + 1) /\ s[k + 1] = s[k] \o Shown(t[k + 1])
    BY <2>1, <2>2, Zenon
  <2>4. Alike(t, k + 1, f[k] \o Normalized(t, k + 1), s[k] \o Shown(t[k + 1]))
    BY <1>7, AlikeStep
  <2>5. Alike(t, k + 1, f[k + 1], s[k + 1])
    BY <2>3, <2>4, Zenon
  <2>6. QED
    BY <2>1, <2>5
<1>8. \A k \in 0 .. Len(t) : k \in T
  <2> HIDE DEF T
  <2>1. QED
    BY <1>1, <1>6, <1>7, Below
<1>9. Len(t) \in T
  BY <1>1, <1>8
<1>10. Alike(t, Len(t), f[Len(t)], s[Len(t)])
  BY <1>9
<1>11. QED
  BY <1>2, <1>3, <1>4, <1>5, <1>10, Zenon

\* What a page's text contributes to the joined text.
Joined(first, x) == IF first THEN x ELSE <<"lf">> \o x

\* JoinedType: it is a text, longer by the line break.
LEMMA JoinedType ==
    ASSUME NEW first \in BOOLEAN, NEW x \in Seq(Chars)
    PROVE  Joined(first, x) \in Seq(Chars)
           /\ Len(Joined(first, x)) = Len(x) + (IF first THEN 0 ELSE 1)
<1>1. "lf" \in Chars
  BY DEF Chars
<1>2. <<"lf">> \in Seq(Chars) /\ Len(<<"lf">>) = 1
  BY <1>1
<1>3. QED
  BY <1>2 DEF Joined

\* JoinEmpty: no pages, no text.
LEMMA JoinEmpty == Join(<<>>) = <<>>
<1>1. [i \in DOMAIN <<>> |-> IF i = 1 THEN <<>>[i] ELSE <<"lf">> \o <<>>[i]] = <<>>
  OBVIOUS
<1>2. Len(<<>>) = 0
  OBVIOUS
<1>3. QED
  BY <1>1, <1>2 DEF Join, FlattenSeq

\* JoinAppend: a further page comes at the end, after a line break.
LEMMA JoinAppend ==
    ASSUME NEW ps \in Seq(Seq(Chars)), NEW x \in Seq(Chars)
    PROVE  /\ Join(ps) \in Seq(Chars)
           /\ Join(Append(ps, x)) = Join(ps) \o Joined(ps = <<>>, x)
           /\ Len(Join(Append(ps, x))) = Len(Join(ps)) + Len(x) + (IF ps = <<>> THEN 0 ELSE 1)
<1> DEFINE n == Len(ps)
           qs == Append(ps, x)
           a == [i \in DOMAIN ps |-> Joined(i = 1, ps[i])]
           b == [i \in DOMAIN qs |-> Joined(i = 1, qs[i])]
           y == Joined(ps = <<>>, x)
<1>1. n \in Nat /\ DOMAIN ps = 1 .. n /\ (\A i \in 1 .. n : ps[i] \in Seq(Chars))
      /\ (ps = <<>> <=> n + 1 = 1)
  OBVIOUS
<1>2. /\ qs \in Seq(Seq(Chars)) /\ Len(qs) = n + 1 /\ DOMAIN qs = 1 .. n + 1
      /\ qs[n + 1] = x /\ \A i \in 1 .. n : qs[i] = ps[i]
  OBVIOUS
<1>3. Join(ps) = FlattenSeq(a) /\ Join(qs) = FlattenSeq(b)
  BY DEF Join, Joined
<1>4. /\ y \in Seq(Chars) /\ Len(y) = Len(x) + (IF ps = <<>> THEN 0 ELSE 1)
      /\ \A i \in 1 .. n : Joined(i = 1, ps[i]) \in Seq(Chars)
  BY <1>1, JoinedType
<1> HIDE DEF y
<1>5. a \in Seq(Seq(Chars)) /\ Len(a) = n
  BY <1>1, <1>4
<1> HIDE DEF qs
<1>6. b = Append(a, y)
  <2>1. \A i \in 1 .. n : b[i] = a[i]
    BY <1>1, <1>2
  <2>2. b[n + 1] = y
    BY <1>1, <1>2 DEF y
  <2>3. a[n + 1] = a[n + 1] /\ DOMAIN b = 1 .. n + 1 /\ \A i \in 1 .. n : a[i] \in Seq(Chars)
    BY <1>1, <1>2, <1>4
  <2> HIDE DEF a
  <2>4. \A i \in 1 .. n + 1 : b[i] \in Seq(Chars)
    <3>1. \A i \in 1 .. n + 1 : i \in 1 .. n \/ i = n + 1
      BY <1>1
    <3> HIDE DEF b, n
    <3>2. QED
      BY <1>4, <2>1, <2>2, <2>3, <3>1
  <2>5. b \in Seq(Seq(Chars)) /\ Len(b) = n + 1
    BY <1>1, <1>2, <2>4
  <2> HIDE DEF b
  <2>6. Append(a, y) \in Seq(Seq(Chars)) /\ Len(Append(a, y)) = n + 1
    BY <1>4, <1>5
  <2>7. \A i \in 1 .. n + 1 : b[i] = Append(a, y)[i]
    BY <1>1, <1>4, <1>5, <2>1, <2>2
  <2>8. QED
    BY <2>5, <2>6, <2>7, SeqEqual
<1> HIDE DEF a, b
<1>7. FlattenSeq(Append(a, y)) = FlattenSeq(a) \o y
  BY <1>4, <1>5, FlattenAppend
<1>8. FlattenSeq(a) \in Seq(Chars)
  BY <1>5, FlattenType
<1>9. Join(qs) = Join(ps) \o y /\ Join(ps) \in Seq(Chars)
  BY <1>3, <1>6, <1>7, <1>8
<1>10. Len(Join(ps) \o y) = Len(Join(ps)) + Len(y) /\ Len(x) \in Nat /\ Len(Join(ps)) \in Nat
  BY <1>4, <1>9
<1>11. Len(Join(qs)) = Len(Join(ps)) + Len(x) + (IF ps = <<>> THEN 0 ELSE 1)
  <2>1. Len(Join(qs)) = Len(Join(ps)) + Len(y)
    BY <1>9, <1>10
  <2>2. CASE ps = <<>>
    BY <1>4, <1>10, <2>1, <2>2
  <2>3. CASE ps # <<>>
    BY <1>4, <1>10, <2>1, <2>3
  <2>4. QED
    BY <2>2, <2>3
<1>12. QED
  BY <1>9, <1>11 DEF qs, y

\* JoinOne: one page is the text.
LEMMA JoinOne ==
    ASSUME NEW x \in Seq(Chars) PROVE Join(<<x>>) = x
<1>1. <<>> \in Seq(Seq(Chars)) /\ Append(<<>>, x) = <<x>>
  OBVIOUS
<1>2. Join(Append(<<>>, x)) = Join(<<>>) \o Joined(TRUE, x)
  <2>1. (<<>> = <<>>) = TRUE
    OBVIOUS
  <2>2. QED
    BY <1>1, <2>1, JoinAppend
<1>3. Joined(TRUE, x) = x /\ <<>> \o x = x
  BY DEF Joined
<1>4. QED
  BY <1>1, <1>2, <1>3, JoinEmpty

\* JoinPrefix: fewer pages never give a longer text.
LEMMA JoinPrefix ==
    ASSUME NEW ps \in Seq(Seq(Chars)), NEW k \in 0 .. Len(ps)
    PROVE  Len(Join(SubSeq(ps, 1, k))) <= Len(Join(ps))
<1> DEFINE n == Len(ps)
           f(j) == Len(Join(SubSeq(ps, 1, j)))
           T == {j \in Nat : j <= n => f(n - j) <= f(n)}
<1>1. n \in Nat /\ \A i \in 1 .. n : ps[i] \in Seq(Chars)
  OBVIOUS
<1>2. ASSUME NEW j \in 0 .. n PROVE SubSeq(ps, 1, j) \in Seq(Seq(Chars))
      /\ Len(SubSeq(ps, 1, j)) = j
  BY <1>1
<1>3. ASSUME NEW j \in 0 .. n PROVE f(j) \in Nat
  <2>1. Join(SubSeq(ps, 1, j)) \in Seq(Chars)
    <3>1. <<>> \in Seq(Chars)
      OBVIOUS
    <3>2. QED
      BY <1>2, <3>1, JoinAppend
  <2>2. QED
    BY <2>1
<1>4. ASSUME NEW j \in Nat, j < n PROVE f(j) <= f(j + 1)
  <2> DEFINE a == SubSeq(ps, 1, j)
             b == SubSeq(ps, 1, j + 1)
             x == ps[j + 1]
  <2>1. a \in Seq(Seq(Chars)) /\ x \in Seq(Chars) /\ Len(a) = j
    BY <1>1, <1>4
  <2>2. b = Append(a, x)
    <3>1. b \in Seq(Seq(Chars)) /\ Len(b) = j + 1 /\ \A i \in 1 .. j + 1 : b[i] = ps[i]
      BY <1>1, <1>4
    <3>2. (\A i \in 1 .. j : a[i] = ps[i]) /\ x = ps[j + 1]
      BY <1>1, <1>4
    <3> HIDE DEF a, b, x
    <3>3. Append(a, x) \in Seq(Seq(Chars)) /\ Len(Append(a, x)) = j + 1
      BY <2>1
    <3>4. \A i \in 1 .. j + 1 : Append(a, x)[i] = b[i]
      <4>1. (\A i \in 1 .. j : Append(a, x)[i] = a[i]) /\ Append(a, x)[j + 1] = x
        BY <2>1, AppendProperties
      <4>2. \A i \in 1 .. j + 1 : i \in 1 .. j \/ i = j + 1
        OBVIOUS
      <4> HIDE DEF n
      <4>3. QED
        BY <3>1, <3>2, <4>1, <4>2, Zenon
    <3>5. QED
      BY <3>1, <3>3, <3>4, SeqEqual
  <2> HIDE DEF a, b, x
  <2>3. Len(Join(Append(a, x))) = Len(Join(a)) + Len(x) + (IF a = <<>> THEN 0 ELSE 1)
    BY <2>1, JoinAppend
  <2>4. Len(Join(a)) \in Nat /\ Len(x) \in Nat
    <3>1. Join(a) \in Seq(Chars)
      BY <2>1, JoinAppend
    <3>2. QED
      BY <2>1, <3>1
  <2>5. Len(Join(a)) <= Len(Join(b))
    BY <2>2, <2>3, <2>4
  <2>6. QED
    BY <2>5 DEF a, b
<1>5. 0 \in T
  <2>1. n - 0 = n /\ f(n) \in Nat
    BY <1>1, <1>3
  <2> HIDE DEF f
  <2>2. QED
    BY <2>1
<1>6. ASSUME NEW j \in Nat, j \in T PROVE j + 1 \in T
  <2>1. CASE j + 1 <= n
    <3>1. n - (j + 1) \in Nat /\ n - (j + 1) < n /\ (n - (j + 1)) + 1 = n - j /\ j <= n
          /\ n - (j + 1) \in 0 .. n /\ n - j \in 0 .. n
      BY <1>1, <2>1
    <3>2. f(n - (j + 1)) <= f((n - (j + 1)) + 1)
      BY <1>4, <3>1
    <3>3. f(n - j) <= f(n)
      BY <1>6, <3>1
    <3>4. f(n - (j + 1)) \in Nat /\ f(n - j) \in Nat /\ f(n) \in Nat
      BY <1>1, <1>3, <3>1
    <3> HIDE DEF f
    <3>5. f(n - (j + 1)) <= f(n)
      BY <3>1, <3>2, <3>3, <3>4
    <3>6. QED
      BY <3>5
  <2>2. CASE ~(j + 1 <= n)
    BY <2>2
  <2>3. QED
    BY <2>1, <2>2
<1>7. Nat \subseteq T
  <2> HIDE DEF T
  <2>1. QED
    BY <1>5, <1>6, NatSet
<1>8. n - k \in Nat /\ n - (n - k) = k /\ n - k <= n
  BY <1>1
<1>9. f(n - (n - k)) <= f(n)
  <2> HIDE DEF f
  <2>1. QED
    BY <1>7, <1>8
<1>10. SubSeq(ps, 1, n) = ps
  BY <1>1
<1>11. QED
  BY <1>8, <1>9, <1>10

(***************************************************************************)
(* The document and what it says.                                          *)
(***************************************************************************)

PageTexts == [i \in DOMAIN doc.pages |-> doc.pages[i].text]

\* What every attachment has.
Attachment ==
    /\ doc.pages \in Seq(Pages) /\ Len(doc.pages) <= MaxPages + 1
    /\ doc.media \in Media /\ doc.reader \in {"fine", "malformed", "encrypted"}
    /\ doc.media = "text/plain" => /\ doc.reader = "fine" /\ Len(doc.pages) = 1
                                   /\ ~doc.pages[1].fails /\ ~IsBlank(doc.pages[1].text)

\* AttachmentShape: the attachments are what the inputs say.
LEMMA AttachmentShape == ASSUME doc \in DocumentInputs PROVE Attachment
<1>1. MaxPages \in Nat \ {0}
  BY DocumentAssumption DEF DocumentAssumption
<1>2. CASE doc \in Plain
  <2>1. PICK l \in BOOLEAN, t \in {x \in Texts : ~IsBlank(x)} :
           doc = [media |-> "text/plain", large |-> l, reader |-> "fine",
                  pages |-> <<[fails |-> FALSE, text |-> t]>>]
    BY <1>2 DEF Plain
  <2> DEFINE q == [fails |-> FALSE, text |-> t]
  <2>2. q \in Pages /\ ~q.fails /\ q.text = t
    BY DEF Pages
  <2> HIDE DEF q
  <2>3. doc.media = "text/plain" /\ doc.reader = "fine" /\ doc.pages = <<q>>
    BY <2>1 DEF q
  <2>4. <<q>> \in Seq(Pages) /\ Len(<<q>>) = 1 /\ <<q>>[1] = q
    BY <2>2
  <2>5. QED
    BY <1>1, <2>2, <2>3, <2>4 DEF Attachment, Media
<1>3. CASE doc \in Pdf
  <2>1. PICK l \in BOOLEAN, r \in {"fine", "malformed", "encrypted"},
             p \in BoundedSeq(Pages, MaxPages + 1) :
           doc = [media |-> "application/pdf", large |-> l, reader |-> r, pages |-> p]
    BY <1>3 DEF Pdf
  <2>2. PICK n \in 0 .. MaxPages + 1 : p \in [1 .. n -> Pages]
    BY DEF BoundedSeq, SeqOf
  <2>3. p \in Seq(Pages) /\ Len(p) = n
    BY <1>1, <2>2
  <2>4. doc.media = "application/pdf" /\ doc.reader = r /\ doc.pages = p
    BY <2>1
  <2>5. n <= MaxPages + 1
    BY <1>1
  <2>6. QED
    BY <2>3, <2>4, <2>5 DEF Attachment, Media
<1>4. QED
  BY <1>2, <1>3 DEF DocumentInputs

\* WholeText: the whole text is one, of the page if there is one page.
LEMMA WholeText ==
    ASSUME Attachment
    PROVE  /\ PageTexts \in Seq(Seq(Chars)) /\ Len(PageTexts) = Len(doc.pages)
           /\ \A i \in 1 .. Len(doc.pages) : PageTexts[i] = doc.pages[i].text
                                             /\ doc.pages[i].text \in Seq(Chars)
                                             /\ doc.pages[i].text \in Texts
                                             /\ doc.pages[i].fails \in BOOLEAN
           /\ Whole = Join(PageTexts) /\ Whole \in Seq(Chars)
           /\ doc.media = "text/plain" => Whole = doc.pages[1].text
<1>1. Texts \subseteq Seq(Chars)
  BY DocumentAssumption DEF DocumentAssumption
<1>2. Len(doc.pages) \in Nat /\ DOMAIN doc.pages = 1 .. Len(doc.pages)
      /\ \A i \in 1 .. Len(doc.pages) : doc.pages[i] \in Pages
  BY DEF Attachment
<1>3. \A q \in Pages : q.text \in Texts /\ q.fails \in BOOLEAN
  BY DEF Pages
<1>4. \A i \in 1 .. Len(doc.pages) : doc.pages[i].text \in Texts /\ doc.pages[i].fails \in BOOLEAN
                                     /\ doc.pages[i].text \in Seq(Chars)
  BY <1>1, <1>2, <1>3
<1>5. PageTexts \in Seq(Seq(Chars)) /\ Len(PageTexts) = Len(doc.pages)
      /\ \A i \in 1 .. Len(doc.pages) : PageTexts[i] = doc.pages[i].text
  BY <1>2, <1>4 DEF PageTexts
<1>6. Whole = Join(PageTexts)
  BY DEF Whole, PageTexts
<1>7. Join(PageTexts) \in Seq(Chars)
  <2>1. <<>> \in Seq(Chars)
    OBVIOUS
  <2>2. QED
    BY <1>5, <2>1, JoinAppend
<1>8. ASSUME doc.media = "text/plain" PROVE Whole = doc.pages[1].text
  <2>1. Len(PageTexts) = 1 /\ PageTexts[1] = doc.pages[1].text /\ doc.pages[1].text \in Seq(Chars)
    BY <1>2, <1>4, <1>5, <1>8 DEF Attachment
  <2>2. PageTexts = <<doc.pages[1].text>>
    BY <1>5, <2>1
  <2>3. QED
    BY <1>6, <2>1, <2>2, JoinOne
<1>9. QED
  BY <1>4, <1>5, <1>6, <1>7, <1>8

\* NormalizedText: a normalized text is a text, no longer, blank if and only if the
\* text is, with its visible characters and its line ends.
LEMMA NormalizedText ==
    ASSUME NEW t \in Seq(Chars)
    PROVE  /\ NormalizeText(t) # NoText /\ NormalizeText(t) \in Seq(Chars)
           /\ Len(NormalizeText(t)) <= Len(t)
           /\ IsBlank(NormalizeText(t)) <=> IsBlank(t)
           /\ Seen(NormalizeText(t)) = Seen(t)
           /\ \A i \in DOMAIN NormalizeText(t) : NormalizeText(t)[i] # "cr"
           /\ Cardinality(LineEnds(NormalizeText(t))) = Cardinality(LineEnds(t))
<1> DEFINE u == NormalizeText(t)
<1>1. Alike(t, Len(t), u, Seen(t))
  BY NormalizeAlike
<1> HIDE DEF u
<1>2. u \in Seq(Chars \ {"cr"}) /\ Len(u) <= Len(t) /\ Seen(u) = Seen(t)
  BY <1>1 DEF Alike
<1>3. u \in Seq(Chars) /\ \A i \in DOMAIN u : u[i] # "cr"
  BY <1>2
<1>4. u # NoText
  <2>1. "none" \notin Chars
    BY DocumentAssumption DEF DocumentAssumption
  <2>2. NoText[1] = "none" /\ 1 \in DOMAIN NoText
    BY DEF NoText
  <2>3. QED
    BY <1>3, <2>1, <2>2
<1>5. IsBlank(u) <=> IsBlank(t)
  <2>1. DOMAIN t = 1 .. Len(t)
    OBVIOUS
  <2>2. QED
    BY <1>1, <2>1 DEF Alike, IsBlank
<1>6. LineEnds(u) = {i \in DOMAIN u : u[i] = "lf"}
  BY <1>3 DEF LineEnds
<1>7. LineEnds(t) = {i \in LineEnds(t) : i <= Len(t)}
  BY DEF LineEnds
<1>8. Cardinality(LineEnds(u)) = Cardinality(LineEnds(t))
  <2>1. Cardinality({i \in DOMAIN u : u[i] = "lf"}) = Cardinality({i \in LineEnds(t) : i <= Len(t)})
    BY <1>1 DEF Alike
  <2>2. QED
    BY <1>6, <1>7, <2>1, Zenon
<1>9. QED
  BY <1>2, <1>3, <1>4, <1>5, <1>8 DEF u

(***************************************************************************)
(* The invariant of a document.                                            *)
(***************************************************************************)

\* SameDocument: what the document deserves depends on the document alone.
LEMMA SameDocument ==
    ASSUME doc' = doc
    PROVE  /\ Whole' = Whole /\ (TooManyPages' <=> TooManyPages) /\ LegacyRows' = LegacyRows
           /\ \A e : Deserves(e)' <=> Deserves(e)
<1>1. Whole' = Whole /\ (TooManyPages' <=> TooManyPages)
  BY DEF Whole, TooManyPages
<1>2. LegacyRows' = LegacyRows
  BY DEF LegacyRows
<1>3. ASSUME NEW e PROVE Deserves(e)' <=> Deserves(e)
  BY <1>1 DEF Deserves
<1>4. QED
  BY <1>1, <1>2, <1>3

\* SameTruth: and what is true of it on the binding alone.
LEMMA SameTruth ==
    ASSUME doc' = doc, bound' = bound
    PROVE  \A s : TrueOf(s)' <=> TrueOf(s)
BY SameDocument DEF TrueOf

\* TruthTyped: what is true of the document has its type.
LEMMA TruthTyped ==
    ASSUME NEW s, TrueOf(s), Default(bound) # {}
    PROVE  /\ (s.text = NoText) = (s.error # "none")
           /\ s.error \in Errors \cup {"none"}
           /\ s.kind \in Default(bound) /\ s.normalizer = Binding(bound).normalizer
<1>1. Kind(bound) \in Default(bound)
  BY DEF Kind
<1>2. QED
  BY <1>1 DEF TrueOf, Deserves

\* The rest of the types, and the parts of the invariant one by one.
Sorted ==
    /\ request \in {"new", "parsing", "storing", "answered", "refused"}
    /\ thread \in {"idle", "opening", "reading", "ended"}
    /\ page \in 1 .. MaxPages + 1 /\ parts \in Seq(Texts) /\ chars \in Nat
    /\ bound \in Profiles \cup {Absent}
    /\ run.result \in {"none", "continue", "document_unreadable",
                      "snapshot_incompatible", "capability_unavailable"}

Counted ==
    /\ Len(Join(parts)) \leq MaxChars
    /\ thread = "reading" => chars = Len(Join(parts))
    /\ made # Absent /\ made.error = "document_text_too_large" /\ doc.media = "application/pdf" =>
          chars = Len(Join(Append(parts, doc.pages[page].text)))

Parts == Sorted /\ Counted /\ Resolved /\ Looping /\ Truthful /\ RowKept

\* PartsOfInv: these are the parts.
LEMMA PartsOfInv == Parts <=> DocumentInv
<1>1. DocumentInv => Parts
  BY DEF DocumentInv, WorkIsBounded, DocumentTypeOK, Parts, Sorted, Counted
<1>2. ASSUME Parts PROVE DocumentInv
  <2>1. ASSUME NEW s \in {made, snap} \ {Absent}
        PROVE  /\ (s.text = NoText) = (s.error # "none")
               /\ s.error \in Errors \cup {"none"}
               /\ s.kind \in Default(bound) /\ s.normalizer = Binding(bound).normalizer
    <3>1. TrueOf(s)
      BY <1>2 DEF Parts, Truthful
    <3>2. Default(bound) # {}
      BY <1>2 DEF Parts, Resolved
    <3>3. QED
      BY <3>1, <3>2, TruthTyped
  <2>2. QED
    BY <1>2, <2>1 DEF DocumentInv, WorkIsBounded, DocumentTypeOK, Parts, Sorted, Counted
<1>3. QED
  BY <1>1, <1>2

\* InitParts: at the start.
LEMMA InitParts == ASSUME DocumentInit PROVE Parts
<1>1. MaxPages \in Nat \ {0} /\ MaxChars \in Nat
  BY DocumentAssumption DEF DocumentAssumption
<1>2. Sorted
  BY <1>1 DEF DocumentInit, Sorted, NotRun
<1>3. Counted
  <2>1. Len(<<>>) = 0
    OBVIOUS
  <2>2. QED
    BY <1>1, <2>1, JoinEmpty DEF DocumentInit, Counted
<1>4. Resolved
  BY DEF DocumentInit, Resolved
<1>5. Looping
  <2>1. Attachment
    BY AttachmentShape DEF DocumentInit
  <2>2. Len(doc.pages) \in Nat
    BY <2>1 DEF Attachment
  <2>3. QED
    BY <2>2 DEF DocumentInit, Looping
<1>6. Truthful
  BY DEF DocumentInit, Truthful
<1>7. RowKept
  BY DEF DocumentInit, RowKept, NotRun
<1>8. QED
  BY <1>2, <1>3, <1>4, <1>5, <1>6, <1>7 DEF Parts

\* RefuseParts: a request that ends without a job keeps the invariant.
LEMMA RefuseParts == ASSUME Parts, Refuse \/ StoreFails PROVE Parts'
<1>1. /\ request' = "refused" /\ request \in {"new", "storing"}
      /\ UNCHANGED <<doc, file, release, bound, snap, thread, page, parts, chars, made, row, run>>
  BY DEF Refuse, StoreFails, ThreadVars
<1>2. doc' = doc /\ bound' = bound
  BY <1>1
<1>3. Sorted' /\ Counted' /\ Looping'
  BY <1>1, <1>2, SameDocument DEF Parts, Sorted, Counted, Looping
<1>4. Resolved'
  BY <1>1 DEF Parts, Resolved
<1>5. Truthful'
  BY <1>1, <1>2, SameTruth DEF Parts, Truthful
<1>6. RowKept'
  BY <1>1, <1>2, SameDocument DEF Parts, RowKept
<1>7. QED
  BY <1>3, <1>4, <1>5, <1>6 DEF Parts

\* ReceiveParts: the resolved profile binds the document.
LEMMA ReceiveParts == ASSUME Parts, Receive PROVE Parts'
<1>1. /\ request = "new" /\ request' = "parsing" /\ bound' = file /\ thread' = "opening"
      /\ UNCHANGED <<doc, file, release, snap, page, parts, chars, made, row, run>>
  BY DEF Receive
<1>2. doc' = doc
  BY <1>1
<1>3. /\ thread = "idle" /\ made = Absent /\ snap = Absent /\ row = Absent /\ file \in Profiles
  BY <1>1 DEF Parts, Resolved
<1>4. file # Absent
  BY <1>3, DocumentAssumption DEF DocumentAssumption, Absent
<1>5. ValidProfile(file) /\ Default(file) # {} /\ ~doc.large
  BY DEF Receive, Accepted
<1>6. Sorted' /\ Counted' /\ Looping'
  BY <1>1, <1>2, <1>3, SameDocument DEF Parts, Sorted, Counted, Looping
<1>7. Resolved'
  BY <1>1, <1>2, <1>3, <1>4, <1>5 DEF Parts, Resolved
<1>8. Truthful'
  BY <1>1, <1>3 DEF Truthful
<1>9. RowKept'
  BY <1>1, <1>2, <1>3, SameDocument DEF Parts, RowKept
<1>10. QED
  BY <1>6, <1>7, <1>8, <1>9 DEF Parts

\* MadeIsTrue: what is made under the resolved binding is true of the document if
\* the error is deserved and the text is the document's.
LEMMA MadeIsTrue ==
    ASSUME NEW text, NEW error, Deserves(error), (text = NoText) = (error # "none"),
           error = "none" => text = NormalizeText(Whole) /\ Len(text) <= MaxChars
    PROVE  TrueOf(Make(text, error)) /\ Make(text, error) # Absent
           /\ Make(text, error).error = error
<1> DEFINE s == Make(text, error)
<1>1. /\ s.version = 2 /\ s.kind = Kind(bound) /\ s.intake = Binding(bound).intake
      /\ s.normalizer = Binding(bound).normalizer /\ s.media = doc.media
      /\ s.text = text /\ s.error = error
  BY DEF Make, Snapshot
<1> HIDE DEF s
<1>2. s # Absent
  BY <1>1 DEF Absent
<1>3. TrueOf(s)
  BY <1>1 DEF TrueOf
<1>4. QED
  BY <1>1, <1>2, <1>3 DEF s

\* GotParts: the request gets something true.
LEMMA GotParts ==
    ASSUME Parts, request = "parsing", request' = "storing", snap' # Absent, TrueOf(snap'),
           UNCHANGED <<doc, file, release, bound, thread, page, parts, chars, made, row, run>>
    PROVE  Parts'
<1>1. doc' = doc /\ bound' = bound
  OBVIOUS
<1>2. bound # Absent /\ row = Absent
  BY DEF Parts, Resolved, RowKept
<1>3. Sorted' /\ Counted' /\ Looping'
  BY <1>1, SameDocument DEF Parts, Sorted, Counted, Looping
<1>4. Resolved'
  BY <1>1, <1>2 DEF Parts, Resolved
<1>5. Truthful'
  <2>1. ASSUME NEW s \in {made', snap'} \ {Absent} PROVE TrueOf(s)'
    <3>1. TrueOf(s)
      <4>1. CASE s = snap'
        BY <4>1
      <4>2. CASE s = made'
        BY <2>1, <4>2 DEF Parts, Truthful
      <4>3. QED
        BY <2>1, <4>1, <4>2
    <3>2. QED
      BY <1>1, <3>1, SameTruth
  <2>2. QED
    BY <2>1 DEF Truthful
<1>6. RowKept'
  BY <1>1, <1>2, SameDocument DEF Parts, RowKept
<1>7. QED
  BY <1>3, <1>4, <1>5, <1>6 DEF Parts

\* TimesOutParts: the timeout's error needs no cause.
LEMMA TimesOutParts == ASSUME Parts, TimesOut PROVE Parts'
<1>1. /\ request = "parsing" /\ request' = "storing"
      /\ snap' = Make(NoText, "document_processing_timeout")
      /\ UNCHANGED <<doc, file, release, bound, thread, page, parts, chars, made, row, run>>
  BY DEF TimesOut, Make, ThreadVars
<1>2. Deserves("document_processing_timeout")
  BY DEF Deserves, Errors
<1>3. TrueOf(Make(NoText, "document_processing_timeout"))
      /\ Make(NoText, "document_processing_timeout") # Absent
  BY <1>2, MadeIsTrue
<1>4. QED
  BY <1>1, <1>3, GotParts

\* CollectParts: what the thread made is true.
LEMMA CollectParts == ASSUME Parts, Collect PROVE Parts'
<1>1. /\ request = "parsing" /\ request' = "storing" /\ snap' = made /\ thread = "ended"
      /\ UNCHANGED <<doc, file, release, bound, thread, page, parts, chars, made, row, run>>
  BY DEF Collect, ThreadVars
<1>2. made # Absent
  BY <1>1 DEF Parts, Resolved
<1>3. TrueOf(made)
  BY <1>2 DEF Parts, Truthful
<1>4. QED
  BY <1>1, <1>2, <1>3, GotParts

\* StoreParts: the row gets what the request has got.
LEMMA StoreParts == ASSUME Parts, Store PROVE Parts'
<1>1. /\ request = "storing" /\ request' = "answered"
      /\ row' = [document |-> snap, profile |-> bound]
      /\ UNCHANGED <<doc, file, release, bound, snap, thread, page, parts, chars, made, run>>
  BY DEF Store, Stored, ThreadVars
<1>2. doc' = doc /\ bound' = bound
  BY <1>1
<1>3. snap # Absent /\ row = Absent
  BY <1>1 DEF Parts, Resolved, RowKept
<1>4. Sorted' /\ Counted' /\ Looping'
  BY <1>1, <1>2, SameDocument DEF Parts, Sorted, Counted, Looping
<1>5. Resolved'
  BY <1>1 DEF Parts, Resolved
<1>6. Truthful'
  BY <1>1, <1>2, SameTruth DEF Parts, Truthful
<1>7. RowKept'
  BY <1>1, <1>3 DEF Parts, RowKept
<1>8. QED
  BY <1>4, <1>5, <1>6, <1>7 DEF Parts

\* EndsParts: the thread ends with something true.
LEMMA EndsParts ==
    ASSUME Parts, thread \in {"opening", "reading"}, thread' = "ended", chars' \in Nat,
           made' # Absent, TrueOf(made'),
           made'.error = "document_text_too_large" /\ doc.media = "application/pdf" =>
               chars' = Len(Join(Append(parts, doc.pages[page].text))),
           UNCHANGED <<doc, file, release, request, bound, snap, page, parts, row, run>>
    PROVE  Parts'
<1>1. doc' = doc /\ bound' = bound /\ thread' # "reading" /\ thread' # "idle"
      /\ thread' # "opening"
  OBVIOUS
<1>2. bound # Absent /\ request # "new"
  BY DEF Parts, Resolved
<1>3. Sorted' /\ Looping'
  BY <1>1, SameDocument DEF Parts, Sorted, Looping
<1>4. Counted'
  BY <1>1 DEF Parts, Counted
<1>5. Resolved'
  BY <1>1, <1>2 DEF Parts, Resolved
<1>6. Truthful'
  <2>1. ASSUME NEW s \in {made', snap'} \ {Absent} PROVE TrueOf(s)'
    <3>1. TrueOf(s)
      <4>1. CASE s = made'
        BY <4>1
      <4>2. CASE s = snap'
        BY <2>1, <4>2 DEF Parts, Truthful
      <4>3. QED
        BY <2>1, <4>1, <4>2
    <3>2. QED
      BY <1>1, <3>1, SameTruth
  <2>2. QED
    BY <2>1 DEF Truthful
<1>7. RowKept'
  BY <1>1, SameDocument DEF Parts, RowKept
<1>8. QED
  BY <1>3, <1>4, <1>5, <1>6, <1>7 DEF Parts

\* ErrorParts: the thread ends with a deserved error, other than of the page loop's count.
LEMMA ErrorParts ==
    ASSUME Parts, thread \in {"opening", "reading"}, NEW error \in Errors, Ends(NoText, error),
           Deserves(error), error = "document_text_too_large" => doc.media = "text/plain",
           UNCHANGED <<doc, file, release, request, bound, snap, row, run>>
    PROVE  Parts'
<1>1. error # "none"
  BY DEF Errors
<1>2. TrueOf(Make(NoText, error)) /\ Make(NoText, error) # Absent
      /\ Make(NoText, error).error = error
  BY <1>1, MadeIsTrue
<1>3. /\ thread' = "ended" /\ made' = Make(NoText, error) /\ chars' = chars
      /\ UNCHANGED <<doc, file, release, request, bound, snap, page, parts, row, run>>
  BY DEF Ends
<1>4. chars' \in Nat
  BY <1>3 DEF Parts, Sorted
<1>5. made' # Absent /\ TrueOf(made')
      /\ ~(made'.error = "document_text_too_large" /\ doc.media = "application/pdf")
  BY <1>2, <1>3
<1>6. QED
  BY <1>3, <1>4, <1>5, EndsParts

\* CheckedParts: the last checks, on the whole text.
LEMMA CheckedParts ==
    ASSUME Parts, thread \in {"opening", "reading"},
           NEW empty \in Errors \ {"document_text_too_large"},
           Checked(NormalizeText(Whole), empty),
           IsBlank(Whole) => Deserves(empty),
           Len(Whole) > MaxChars => Deserves("document_text_too_large")
             /\ doc.media = "text/plain",
           ~IsBlank(Whole) => Deserves("none"),
           UNCHANGED <<doc, file, release, request, bound, snap, row, run>>
    PROVE  Parts'
<1> DEFINE t == NormalizeText(Whole)
<1>1. Attachment
  BY AttachmentShape DEF Parts, Resolved
<1>2. Whole \in Seq(Chars)
  BY <1>1, WholeText
<1>3. t # NoText /\ Len(t) <= Len(Whole) /\ t \in Seq(Chars) /\ (IsBlank(t) <=> IsBlank(Whole))
  BY <1>2, NormalizedText
<1>4. Len(t) \in Nat /\ Len(Whole) \in Nat /\ MaxChars \in Nat
  BY <1>2, <1>3, DocumentAssumption DEF DocumentAssumption
<1>5. CASE IsBlank(t)
  <2>1. Ends(NoText, empty)
    BY <1>5 DEF Checked
  <2>2. QED
    BY <1>3, <1>5, <2>1, ErrorParts
<1>6. CASE ~IsBlank(t) /\ Len(t) > MaxChars
  <2>1. Ends(NoText, "document_text_too_large")
    BY <1>6 DEF Checked
  <2>2. Len(Whole) > MaxChars
    BY <1>3, <1>4, <1>6
  <2>3. "document_text_too_large" \in Errors
    BY DEF Errors
  <2>4. QED
    BY <2>1, <2>2, <2>3, ErrorParts
<1>7. CASE ~IsBlank(t) /\ ~(Len(t) > MaxChars)
  <2>1. Ends(t, "none")
    BY <1>7 DEF Checked
  <2>2. Len(t) <= MaxChars
    BY <1>4, <1>7
  <2>3. Deserves("none")
    BY <1>3, <1>7
  <2>4. TrueOf(Make(t, "none")) /\ Make(t, "none") # Absent /\ Make(t, "none").error = "none"
    BY <1>3, <2>2, <2>3, MadeIsTrue
  <2> HIDE DEF t
  <2>5. /\ thread' = "ended" /\ made' = Make(t, "none") /\ chars' = chars
        /\ UNCHANGED <<doc, file, release, request, bound, snap, page, parts, row, run>>
    BY <2>1 DEF Ends
  <2>6. chars' \in Nat
    BY <2>5 DEF Parts, Sorted
  <2>7. made' # Absent /\ TrueOf(made')
        /\ ~(made'.error = "document_text_too_large" /\ doc.media = "application/pdf")
    BY <2>4, <2>5
  <2>8. QED
    BY <2>5, <2>6, <2>7, EndsParts
<1>8. QED
  BY <1>5, <1>6, <1>7

\* OpenParts: the first checks; a text is checked at once.
LEMMA OpenParts == ASSUME Parts, Open PROVE Parts'
<1>1. /\ thread = "opening"
      /\ UNCHANGED <<doc, file, release, request, bound, snap, row, run>>
  BY DEF Open, RequestVars
<1>2. doc' = doc
  BY <1>1
<1>3. Attachment
  BY AttachmentShape DEF Parts, Resolved
<1>4. ~doc.large
  BY <1>1 DEF Parts, Resolved
<1>5. MaxPages \in Nat \ {0} /\ MaxChars \in Nat
  BY DocumentAssumption DEF DocumentAssumption
<1>6. CASE doc.media = "text/plain"
  <2>1. Checked(NormalizeText(doc.pages[1].text), "document_text_empty")
    BY <1>4, <1>6 DEF Open
  <2>2. Whole = doc.pages[1].text
    BY <1>3, <1>6, WholeText
  <2>3. ~IsBlank(Whole) /\ doc.reader = "fine" /\ Len(doc.pages) = 1 /\ ~doc.pages[1].fails
    BY <1>3, <1>6, <2>2 DEF Attachment
  <2>4. ~TooManyPages /\ \A i \in DOMAIN doc.pages : ~doc.pages[i].fails
    <3>1. DOMAIN doc.pages = 1 .. 1
      BY <1>3, <2>3 DEF Attachment
    <3>2. QED
      BY <1>5, <2>3, <3>1 DEF TooManyPages
  <2>5. Deserves("none")
    BY <1>6, <2>3, <2>4 DEF Deserves
  <2>6. Len(Whole) > MaxChars => Deserves("document_text_too_large")
    BY DEF Deserves, Errors
  <2>7. "document_text_empty" \in Errors \ {"document_text_too_large"}
    BY DEF Errors
  <2>8. QED
    BY <1>1, <1>6, <2>1, <2>2, <2>3, <2>5, <2>6, <2>7, CheckedParts
<1>7. CASE doc.media # "text/plain" /\ doc.reader = "malformed"
  <2>1. Ends(NoText, "pdf_malformed")
    BY <1>4, <1>7 DEF Open
  <2>2. Deserves("pdf_malformed") /\ "pdf_malformed" \in Errors
    BY <1>7 DEF Deserves, Errors
  <2>3. QED
    BY <1>1, <2>1, <2>2, ErrorParts
<1>8. CASE doc.media # "text/plain" /\ doc.reader = "encrypted"
  <2>1. Ends(NoText, "pdf_encrypted")
    BY <1>4, <1>8 DEF Open
  <2>2. Deserves("pdf_encrypted") /\ "pdf_encrypted" \in Errors
    BY <1>8 DEF Deserves, Errors
  <2>3. QED
    BY <1>1, <2>1, <2>2, ErrorParts
<1>9. CASE doc.media # "text/plain" /\ doc.reader = "fine" /\ TooManyPages
  <2>1. Ends(NoText, "document_too_large")
    BY <1>4, <1>9 DEF Open
  <2>2. Deserves("document_too_large") /\ "document_too_large" \in Errors
    BY <1>9 DEF Deserves, Errors
  <2>3. QED
    BY <1>1, <2>1, <2>2, ErrorParts
<1>10. CASE doc.media # "text/plain" /\ doc.reader = "fine" /\ ~TooManyPages
  <2>1. thread' = "reading" /\ UNCHANGED <<page, parts, chars, made>>
    BY <1>4, <1>10 DEF Open
  <2>2. bound' = bound /\ doc.media = "application/pdf"
    BY <1>1, <1>3, <1>10 DEF Attachment, Media
  <2>3. parts = <<>> /\ chars = 0 /\ made = Absent /\ bound # Absent /\ request # "new"
    BY <1>1 DEF Parts, Looping, Resolved
  <2>4. Len(Join(parts)) = 0
    <3>1. Len(<<>>) = 0
      OBVIOUS
    <3>2. QED
      BY <2>3, <3>1, JoinEmpty
  <2>5. Sorted' /\ Counted'
    BY <1>1, <2>1, <2>3, <2>4 DEF Parts, Sorted, Counted
  <2>6. Looping'
    BY <1>1, <1>2, <1>10, <2>1, <2>2, SameDocument DEF Parts, Looping
  <2>7. Resolved'
    BY <1>1, <2>1, <2>3 DEF Parts, Resolved
  <2>8. Truthful'
    BY <1>1, <1>2, <2>1, <2>2, SameTruth DEF Parts, Truthful
  <2>9. RowKept'
    BY <1>1, <1>2, SameDocument DEF Parts, RowKept
  <2>10. QED
    BY <2>5, <2>6, <2>7, <2>8, <2>9 DEF Parts
<1>11. QED
  BY <1>3, <1>6, <1>7, <1>8, <1>9, <1>10 DEF Attachment

\* ReadSoFar: the texts read, and with the next page's, are those of the first pages.
LEMMA ReadSoFar ==
    ASSUME Parts
    PROVE  /\ Attachment /\ parts \in Seq(Seq(Chars)) /\ Len(parts) \in Nat
           /\ Join(parts) \in Seq(Chars)
           /\ Len(parts) = Len(doc.pages) => Join(parts) = Whole
           /\ page <= Len(doc.pages) =>
                 /\ page \in 1 .. Len(doc.pages)
                 /\ doc.pages[page].text \in Seq(Chars) /\ doc.pages[page].text \in Texts
                 /\ doc.pages[page].fails \in BOOLEAN
                 /\ Len(Join(Append(parts, doc.pages[page].text))) =
                      Len(Join(parts)) + Added(doc.pages[page].text)
                 /\ Len(Join(Append(parts, doc.pages[page].text))) <= Len(Whole)
<1>1. Attachment
  BY AttachmentShape DEF Parts, Resolved
<1>2. Texts \subseteq Seq(Chars)
  BY DocumentAssumption DEF DocumentAssumption
<1>3. /\ parts \in Seq(Texts) /\ page = Len(parts) + 1 /\ Len(parts) <= Len(doc.pages)
      /\ \A i \in 1 .. Len(parts) : parts[i] = doc.pages[i].text
  BY DEF Parts, Sorted, Looping
<1>4. parts \in Seq(Seq(Chars)) /\ Len(parts) \in Nat
  BY <1>2, <1>3
<1>5. /\ PageTexts \in Seq(Seq(Chars)) /\ Len(PageTexts) = Len(doc.pages)
      /\ Len(doc.pages) \in Nat
      /\ \A i \in 1 .. Len(doc.pages) : /\ PageTexts[i] = doc.pages[i].text
                                        /\ doc.pages[i].text \in Seq(Chars)
                                        /\ doc.pages[i].text \in Texts
                                        /\ doc.pages[i].fails \in BOOLEAN
      /\ Whole = Join(PageTexts) /\ Whole \in Seq(Chars)
  <2>1. Len(doc.pages) \in Nat
    BY <1>1 DEF Attachment
  <2>2. QED
    BY <1>1, <2>1, WholeText
<1>6. Join(parts) \in Seq(Chars)
  <2>1. <<>> \in Seq(Chars)
    OBVIOUS
  <2>2. QED
    BY <1>4, <2>1, JoinAppend
<1>7. ASSUME Len(parts) = Len(doc.pages) PROVE Join(parts) = Whole
  <2>1. \A i \in 1 .. Len(parts) : parts[i] = PageTexts[i]
    BY <1>3, <1>5, <1>7
  <2>2. parts = PageTexts
    BY <1>4, <1>5, <1>7, <2>1, SeqEqual
  <2>3. QED
    BY <1>5, <2>2
<1>8. ASSUME page <= Len(doc.pages)
      PROVE  /\ page \in 1 .. Len(doc.pages)
             /\ doc.pages[page].text \in Seq(Chars) /\ doc.pages[page].text \in Texts
             /\ doc.pages[page].fails \in BOOLEAN
             /\ Len(Join(Append(parts, doc.pages[page].text))) =
                  Len(Join(parts)) + Added(doc.pages[page].text)
             /\ Len(Join(Append(parts, doc.pages[page].text))) <= Len(Whole)
  <2> DEFINE x == doc.pages[page].text
             qs == Append(parts, x)
             pre == SubSeq(PageTexts, 1, page)
  <2>1. page \in 1 .. Len(doc.pages) /\ page \in Nat
    BY <1>3, <1>4, <1>5, <1>8
  <2>2. x \in Seq(Chars) /\ x \in Texts /\ doc.pages[page].fails \in BOOLEAN
        /\ PageTexts[page] = x
    BY <1>5, <2>1
  <2> HIDE DEF x
  <2>3. Len(Join(qs)) = Len(Join(parts)) + Len(x) + (IF parts = <<>> THEN 0 ELSE 1)
    BY <1>4, <2>2, JoinAppend
  <2>4. Len(Join(parts)) \in Nat /\ Len(x) \in Nat
    BY <1>6, <2>2
  <2>5. Len(Join(qs)) = Len(Join(parts)) + Added(x)
    <3>1. CASE parts = <<>>
      BY <2>3, <2>4, <3>1 DEF Added
    <3>2. CASE parts # <<>>
      BY <2>3, <2>4, <3>2 DEF Added
    <3>3. QED
      BY <3>1, <3>2
  <2>6. qs = pre
    <3>1. /\ qs \in Seq(Seq(Chars)) /\ Len(qs) = page /\ qs[page] = x
          /\ \A i \in 1 .. Len(parts) : qs[i] = parts[i]
      BY <1>3, <1>4, <2>2, AppendProperties
    <3>2. /\ pre \in Seq(Seq(Chars)) /\ Len(pre) = page
          /\ \A i \in 1 .. page : pre[i] = PageTexts[i]
      BY <1>5, <2>1
    <3>3. \A i \in 1 .. page : i \in 1 .. Len(parts) \/ i = page
      BY <1>3, <1>4
    <3>4. \A i \in 1 .. Len(parts) : parts[i] = PageTexts[i]
      BY <1>3, <1>4, <1>5
    <3> HIDE DEF qs, pre
    <3>5. \A i \in 1 .. page : qs[i] = pre[i]
      BY <2>2, <3>1, <3>2, <3>3, <3>4, Zenon
    <3>6. QED
      BY <3>1, <3>2, <3>5, SeqEqual
  <2>7. Len(Join(pre)) <= Len(Join(PageTexts))
    <3>1. page \in 0 .. Len(PageTexts)
      BY <1>5, <2>1
    <3>2. QED
      BY <1>5, <3>1, JoinPrefix
  <2> HIDE DEF qs, pre
  <2>8. Len(Join(qs)) <= Len(Whole)
    BY <1>5, <2>6, <2>7
  <2>9. QED
    BY <2>1, <2>2, <2>5, <2>8 DEF x, qs
<1>9. QED
  BY <1>1, <1>4, <1>6, <1>7, <1>8

\* ReadPageParts: a page that fails, one too much, or one more.
LEMMA ReadPageParts == ASSUME Parts, ReadPage PROVE Parts'
<1> DEFINE p == doc.pages[page]
           x == p.text
<1>1. /\ thread = "reading" /\ page <= Len(doc.pages)
      /\ UNCHANGED <<doc, file, release, request, bound, snap, row, run>>
  BY DEF ReadPage, RequestVars
<1>2. doc' = doc /\ bound' = bound
  BY <1>1
<1>3. /\ Attachment /\ parts \in Seq(Seq(Chars)) /\ Len(parts) \in Nat
      /\ Join(parts) \in Seq(Chars)
      /\ page \in 1 .. Len(doc.pages) /\ x \in Seq(Chars) /\ x \in Texts /\ p.fails \in BOOLEAN
      /\ Len(Join(Append(parts, x))) = Len(Join(parts)) + Added(x)
      /\ Len(Join(Append(parts, x))) <= Len(Whole)
  BY <1>1, ReadSoFar
<1>4. chars = Len(Join(parts)) /\ Len(Join(parts)) \in Nat /\ Added(x) \in Nat
  <2>1. chars = Len(Join(parts))
    BY <1>1 DEF Parts, Counted
  <2>2. Len(Join(parts)) \in Nat /\ Len(x) \in Nat
    <3> HIDE DEF x
    <3>1. QED
      BY <1>3
  <2>3. Added(x) = Len(x) \/ Added(x) = Len(x) + 1
    <3> HIDE DEF x
    <3>1. CASE parts = <<>>
      BY <2>2, <3>1 DEF Added
    <3>2. CASE parts # <<>>
      BY <2>2, <3>2 DEF Added
    <3>3. QED
      BY <3>1, <3>2
  <2>4. QED
    BY <2>1, <2>2, <2>3
<1>5. MaxPages \in Nat \ {0} /\ MaxChars \in Nat
  BY DocumentAssumption DEF DocumentAssumption
<1>6. /\ doc.media = "application/pdf" /\ doc.reader = "fine" /\ ~TooManyPages
      /\ page = Len(parts) + 1 /\ Len(parts) <= Len(doc.pages)
      /\ \A i \in 1 .. Len(parts) : parts[i] = doc.pages[i].text /\ ~doc.pages[i].fails
  BY <1>1 DEF Parts, Looping
<1>7. Len(doc.pages) \in Nat /\ Len(Whole) \in Nat /\ DOMAIN doc.pages = 1 .. Len(doc.pages)
  <2>1. Whole \in Seq(Chars)
    BY <1>3, WholeText
  <2>2. QED
    BY <1>3, <2>1 DEF Attachment
<1>8. CASE p.fails
  <2>1. Ends(NoText, "pdf_malformed")
    BY <1>8 DEF ReadPage
  <2>2. Deserves("pdf_malformed") /\ "pdf_malformed" \in Errors
    BY <1>3, <1>7, <1>8 DEF Deserves, Errors
  <2>3. QED
    BY <1>1, <2>1, <2>2, ErrorParts
<1>9. CASE ~p.fails /\ chars + Added(x) > MaxChars
  <2>1. /\ chars' = chars + Added(x) /\ thread' = "ended"
        /\ made' = Make(NoText, "document_text_too_large") /\ UNCHANGED <<page, parts>>
    BY <1>9 DEF ReadPage
  <2>2. chars' = Len(Join(Append(parts, x))) /\ chars' \in Nat
    BY <1>3, <1>4, <2>1
  <2>3. Len(Whole) > MaxChars
    BY <1>3, <1>4, <1>5, <1>7, <1>9
  <2>4. Deserves("document_text_too_large")
    BY <2>3 DEF Deserves, Errors
  <2>5. TrueOf(Make(NoText, "document_text_too_large"))
        /\ Make(NoText, "document_text_too_large") # Absent
    BY <2>4, MadeIsTrue
  <2>6. made' # Absent /\ TrueOf(made')
    BY <2>1, <2>5
  <2>7. QED
    BY <1>1, <2>1, <2>2, <2>6, EndsParts
<1>10. CASE ~p.fails /\ ~(chars + Added(x) > MaxChars)
  <2>1. /\ chars' = chars + Added(x) /\ parts' = Append(parts, x) /\ page' = page + 1
        /\ UNCHANGED <<thread, made>>
    BY <1>10 DEF ReadPage
  <2>2. made = Absent
    BY <1>1 DEF Parts, Resolved
  <2>3. chars' = Len(Join(parts')) /\ chars' \in Nat /\ chars' <= MaxChars
    BY <1>3, <1>4, <1>5, <1>10, <2>1
  <2>4. page' \in 1 .. MaxPages + 1 /\ parts' \in Seq(Texts)
    <3>1. Len(doc.pages) <= MaxPages
      BY <1>5, <1>6, <1>7 DEF TooManyPages
    <3>2. page' \in 1 .. MaxPages + 1
      BY <1>3, <1>5, <1>7, <2>1, <3>1
    <3>3. parts' \in Seq(Texts)
      <4> HIDE DEF x
      <4>1. QED
        BY <1>3, <2>1 DEF Parts, Sorted
    <3>4. QED
      BY <3>2, <3>3
  <2>5. Sorted'
    BY <1>1, <2>1, <2>3, <2>4 DEF Parts, Sorted
  <2>6. Counted'
    BY <1>1, <2>1, <2>2, <2>3 DEF Counted
  <2>7. Looping'
    <3>1. /\ Len(parts') = Len(parts) + 1 /\ parts'[Len(parts) + 1] = x
          /\ \A i \in 1 .. Len(parts) : parts'[i] = parts[i]
      BY <1>3, <2>1, AppendProperties
    <3>2. page' = Len(parts') + 1 /\ Len(parts') <= Len(doc.pages)
      BY <1>3, <1>6, <1>7, <2>1, <3>1
    <3>3. \A i \in 1 .. Len(parts') : parts'[i] = doc.pages[i].text /\ ~doc.pages[i].fails
      <4>1. \A i \in 1 .. Len(parts') : i \in 1 .. Len(parts) \/ i = Len(parts) + 1
        BY <1>3, <3>1
      <4>2. parts'[page] = doc.pages[page].text /\ ~doc.pages[page].fails
        BY <1>6, <1>10, <3>1
      <4>3. QED
        BY <1>6, <3>1, <4>1, <4>2
    <3>4. ~TooManyPages'
      BY <1>2, <1>6, SameDocument
    <3>5. QED
      BY <1>1, <1>2, <1>6, <2>1, <3>2, <3>3, <3>4 DEF Looping
  <2>8. Resolved'
    BY <1>1, <2>1 DEF Parts, Resolved
  <2>9. Truthful'
    BY <1>1, <1>2, <2>1, SameTruth DEF Parts, Truthful
  <2>10. RowKept'
    BY <1>1, <1>2, SameDocument DEF Parts, RowKept
  <2>11. QED
    BY <2>5, <2>6, <2>7, <2>8, <2>9, <2>10 DEF Parts
<1>11. QED
  BY <1>8, <1>9, <1>10

\* LastPageParts: after the last page, the whole text is checked.
LEMMA LastPageParts == ASSUME Parts, LastPage PROVE Parts'
<1>1. /\ thread = "reading" /\ page > Len(doc.pages)
      /\ Checked(NormalizeText(Join(parts)), "pdf_empty")
      /\ UNCHANGED <<doc, file, release, request, bound, snap, row, run>>
  BY DEF LastPage, RequestVars
<1>2. /\ Attachment /\ Len(parts) \in Nat
      /\ Len(parts) = Len(doc.pages) => Join(parts) = Whole
  BY ReadSoFar
<1>3. /\ doc.media = "application/pdf" /\ doc.reader = "fine" /\ ~TooManyPages
      /\ page = Len(parts) + 1 /\ Len(parts) <= Len(doc.pages)
      /\ \A i \in 1 .. Len(parts) : ~doc.pages[i].fails
  BY <1>1 DEF Parts, Looping
<1>4. Len(doc.pages) \in Nat /\ DOMAIN doc.pages = 1 .. Len(doc.pages)
  BY <1>2 DEF Attachment
<1>5. Len(parts) = Len(doc.pages)
  BY <1>1, <1>2, <1>3, <1>4
<1>6. Join(parts) = Whole /\ \A i \in DOMAIN doc.pages : ~doc.pages[i].fails
  BY <1>2, <1>3, <1>4, <1>5
<1>7. ~(Len(Whole) > MaxChars)
  <2>1. Len(Whole) \in Nat /\ MaxChars \in Nat
    <3>1. Whole \in Seq(Chars)
      BY <1>2, WholeText
    <3>2. QED
      BY <3>1, DocumentAssumption DEF DocumentAssumption
  <2>2. Len(Whole) <= MaxChars
    BY <1>6 DEF Parts, Counted
  <2>3. QED
    BY <2>1, <2>2
<1>8. IsBlank(Whole) => Deserves("pdf_empty")
  BY <1>3, <1>6 DEF Deserves, Errors
<1>9. ~IsBlank(Whole) => Deserves("none")
  BY <1>3, <1>6, <1>7 DEF Deserves
<1>10. "pdf_empty" \in Errors \ {"document_text_too_large"}
  BY DEF Errors
<1>11. QED
  BY <1>1, <1>6, <1>7, <1>8, <1>9, <1>10, CheckedParts

\* RunParts: a run that goes on has the row's text.
LEMMA RunParts == ASSUME Parts, Run PROVE Parts'
<1>1. /\ row # Absent
      /\ run' = [result |-> Preflight(row),
                 text |-> IF Preflight(row) = "continue" THEN row.document.text ELSE NoText]
      /\ UNCHANGED <<doc, file, release, request, bound, snap, thread, page, parts, chars, made, row>>
  BY DEF Run, RequestVars, ThreadVars
<1>2. doc' = doc /\ bound' = bound
  BY <1>1
<1>3. Preflight(row) \in {"continue", "document_unreadable", "snapshot_incompatible",
                          "capability_unavailable"}
  BY DEF Preflight
<1>4. run'.result = Preflight(row)
      /\ (Preflight(row) = "continue" => run'.text = row.document.text)
  BY <1>1
<1>5. Preflight(row) = "continue" => row.document.error = "none"
  <2>1. Decode(row.document).error = row.document.error
    BY DEF Decode, Snapshot
  <2>2. Preflight(row) = "continue" => Decode(row.document).error = "none"
    BY DEF Preflight
  <2>3. QED
    BY <2>1, <2>2
<1>6. Sorted' /\ Counted' /\ Looping'
  BY <1>1, <1>2, <1>3, <1>4, SameDocument DEF Parts, Sorted, Counted, Looping
<1>7. Resolved'
  BY <1>1 DEF Parts, Resolved
<1>8. Truthful'
  BY <1>1, <1>2, SameTruth DEF Parts, Truthful
<1>9. RowKept'
  BY <1>1, <1>2, <1>4, <1>5, SameDocument DEF Parts, RowKept
<1>10. QED
  BY <1>6, <1>7, <1>8, <1>9 DEF Parts

\* OutsideParts: edits and deployments change nothing the request has resolved.
LEMMA OutsideParts ==
    ASSUME Parts, EditProfile \/ Deploy \/ UNCHANGED documentVars PROVE Parts'
<1>1. /\ UNCHANGED <<doc, request, bound, snap, thread, page, parts, chars, made, row, run>>
      /\ file' = file \/ file' \in Profiles
  BY DEF EditProfile, Deploy, documentVars, RequestVars, ThreadVars
<1>2. doc' = doc /\ bound' = bound
  BY <1>1
<1>3. Sorted' /\ Counted' /\ Looping'
  BY <1>1, <1>2, SameDocument DEF Parts, Sorted, Counted, Looping
<1>4. Resolved'
  BY <1>1 DEF Parts, Resolved
<1>5. Truthful'
  BY <1>1, <1>2, SameTruth DEF Parts, Truthful
<1>6. RowKept'
  BY <1>1, <1>2, SameDocument DEF Parts, RowKept
<1>7. QED
  BY <1>3, <1>4, <1>5, <1>6 DEF Parts

\* DocumentInvariant: the request resolves one profile and binds the document once,
\* the page loop counts the text it holds, what it makes is what the document
\* deserves under that binding, and the row and the run keep it, through every order
\* of timeouts, edits and deployments.
THEOREM DocumentInvariant == DocumentSpec => []DocumentInv
<1>1. DocumentInit => DocumentInv
  BY InitParts, PartsOfInv
<1>2. ASSUME DocumentInv, [DocumentNext]_documentVars PROVE DocumentInv'
  <2>1. Parts
    BY <1>2, PartsOfInv
  <2>2. Parts'
    BY <1>2, <2>1, RefuseParts, ReceiveParts, TimesOutParts, CollectParts, StoreParts,
       OpenParts, ReadPageParts, LastPageParts, RunParts, OutsideParts DEF DocumentNext
  <2>3. (Parts <=> DocumentInv)'
    BY PartsOfInv, PTL
  <2>4. QED
    BY <2>2, <2>3
<1>3. QED
  BY <1>1, <1>2, PTL DEF DocumentSpec

\* WorkStaysBounded: the count of the page loop is the length of the joined text.
THEOREM WorkStaysBounded == DocumentSpec => []WorkIsBounded
<1>1. DocumentInv => WorkIsBounded
  BY DEF DocumentInv
<1>2. QED
  BY <1>1, DocumentInvariant, PTL

\* RowShape: what the invariant says of a row.
LEMMA RowShape ==
    ASSUME DocumentInv, row # Absent
    PROVE  \/ /\ row = [document |-> snap, profile |-> bound] /\ snap # Absent /\ TrueOf(snap)
              /\ bound # Absent /\ bound \in Profiles /\ ValidProfile(bound)
                 /\ Default(bound) # {}
           \/ \E p \in OldProfiles :
                 /\ doc.media = "text/plain" /\ Len(doc.pages[1].text) \leq MaxChars
                 /\ row.profile = p /\ row.document.version = 1 /\ row.document.media = doc.media
                 /\ \/ row.document.error = "none"
                       /\ row.document.text = NormalizeText(doc.pages[1].text)
                    \/ row.document.error = "pdf_malformed"
<1>1. CASE snap # Absent /\ row = [document |-> snap, profile |-> bound]
  BY <1>1 DEF DocumentInv, Resolved, Truthful
<1>2. CASE doc.media = "text/plain" /\ Len(doc.pages[1].text) \leq MaxChars /\ row \in LegacyRows
  <2> DEFINE w == NormalizeText(doc.pages[1].text)
  <2>1. PICK t \in {[text |-> w, error |-> "none"], [text |-> NoText, error |-> "pdf_malformed"]},
             p \in OldProfiles : row = [document |-> Legacy(doc.media, t.text, t.error), profile |-> p]
    BY <1>2 DEF LegacyRows
  <2>2. row.profile = p /\ row.document = Legacy(doc.media, t.text, t.error)
    BY <2>1
  <2>3. /\ row.document.version = 1 /\ row.document.media = doc.media
        /\ row.document.text = t.text /\ row.document.error = t.error
    BY <2>2 DEF Legacy
  <2>4. (t.error = "none" /\ t.text = w) \/ t.error = "pdf_malformed"
    OBVIOUS
  <2>5. QED
    BY <1>2, <2>2, <2>3, <2>4
<1>3. QED
  BY <1>1, <1>2 DEF DocumentInv, RowKept

\* SnapshotsAreTrue: what is kept of a document is true of it, and a run that goes on
\* to the model has its whole text.
THEOREM SnapshotsAreTrue == DocumentSpec => []SnapshotIsTrue
<1>1. ASSUME DocumentInv PROVE SnapshotIsTrue
  <2>1. Attachment
    BY <1>1, AttachmentShape DEF DocumentInv, Resolved
  <2>2. Whole \in Seq(Chars) /\ (doc.media = "text/plain" => Whole = doc.pages[1].text)
    BY <2>1, WholeText
  <2>3. VerdictIsRight
    <3>1. SUFFICES ASSUME row # Absent, row.document.version = 2 PROVE Deserves(row.document.error)
      BY DEF VerdictIsRight
    <3>2. row.document = snap /\ TrueOf(snap)
      BY <1>1, <3>1, RowShape
    <3>3. QED
      BY <3>2 DEF TrueOf
  <2>4. ASSUME run.result = "continue"
        PROVE  run.text = NormalizeText(Whole) /\ Len(run.text) \leq MaxChars
    <3>1. row # Absent /\ row.document.error = "none" /\ run.text = row.document.text
      BY <1>1, <2>4 DEF DocumentInv, RowKept
    <3>2. CASE row = [document |-> snap, profile |-> bound] /\ TrueOf(snap)
      <4>1. row.document = snap
        BY <3>2
      <4>2. QED
        BY <3>1, <3>2, <4>1 DEF TrueOf
    <3>3. CASE /\ doc.media = "text/plain" /\ Len(doc.pages[1].text) \leq MaxChars
               /\ row.document.text = NormalizeText(doc.pages[1].text)
      <4>1. run.text = NormalizeText(Whole) /\ Len(Whole) <= MaxChars
        BY <2>2, <3>1, <3>3
      <4>2. Len(NormalizeText(Whole)) <= Len(Whole) /\ NormalizeText(Whole) \in Seq(Chars)
        BY <2>2, NormalizedText
      <4>3. Len(NormalizeText(Whole)) \in Nat /\ Len(Whole) \in Nat /\ MaxChars \in Nat
        BY <2>2, <4>2, DocumentAssumption DEF DocumentAssumption
      <4>4. QED
        BY <4>1, <4>2, <4>3
    <3>4. QED
      BY <1>1, <3>1, <3>2, <3>3, RowShape
  <2>5. ModelSeesWholeText
    <3>1. /\ Seen(NormalizeText(Whole)) = Seen(Whole)
          /\ \A i \in DOMAIN NormalizeText(Whole) : NormalizeText(Whole)[i] # "cr"
          /\ Cardinality(LineEnds(NormalizeText(Whole))) = Cardinality(LineEnds(Whole))
      BY <2>2, NormalizedText
    <3>2. QED
      BY <2>4, <3>1, Zenon DEF ModelSeesWholeText
  <2>6. QED
    BY <2>3, <2>5 DEF SnapshotIsTrue
<1>2. QED
  BY <1>1, DocumentInvariant, PTL

\* NewRowReadable: a row of this release has the binding of the profile it carries.
LEMMA NewRowReadable ==
    ASSUME row = [document |-> snap, profile |-> bound], TrueOf(snap),
           bound \in Profiles, ValidProfile(bound), Default(bound) # {}
    PROVE  QueuedJobsStayReadable
<1>1. row.document = snap /\ row.profile = bound /\ snap.version = 2
  BY DEF TrueOf
<1> DEFINE needed == {snap.normalizer} \cup
                     {bound.documents[k].normalizer : k \in DOMAIN bound.documents}
<1>2. SUFFICES ASSUME \A n \in needed : /\ n \in DOMAIN release.normalizers
                                         /\ snap.media \in release.normalizers[n],
                      bound.actions \subseteq release.actions
               PROVE  Preflight(row) = IF snap.error = "none" THEN "continue" ELSE "document_unreadable"
  <2> HIDE DEF needed
  <2>1. row.document.version # 1
    BY <1>1
  <2>2. QED
    BY <1>1, <2>1 DEF QueuedJobsStayReadable, needed
<1>3. Decode(snap) = snap
  BY <1>1 DEF Decode
<1>4. Upgrade(bound, release) = bound
  BY DocumentAssumption DEF DocumentAssumption, Upgrade
<1>5. /\ Kind(bound) \in DOMAIN bound.documents /\ Binding(bound) = bound.documents[Kind(bound)]
  <2>1. Kind(bound) \in Default(bound)
    BY DEF Kind
  <2>2. QED
    BY <2>1 DEF Default, Binding, Kind
<1>6. /\ snap.kind = Kind(bound) /\ snap.intake = bound.documents[Kind(bound)].intake
      /\ snap.normalizer = bound.documents[Kind(bound)].normalizer
  BY <1>5 DEF TrueOf
<1>7. Compiles(bound, release)
  BY <1>2 DEF Compiles
<1>8. Compatible(snap, bound)
  BY <1>2, <1>5, <1>6 DEF Compatible
<1>9. snap.intake \in bound.intakes
  BY <1>5, <1>6 DEF ValidProfile
<1>10. QED
  BY <1>1, <1>3, <1>4, <1>7, <1>8, <1>9 DEF Preflight

\* OldRowReadable: a row of the earlier release is upgraded to the binding that its
\* document is decoded with.
LEMMA OldRowReadable ==
    ASSUME NEW p \in OldProfiles, row.profile = p, row.document.version = 1
    PROVE  QueuedJobsStayReadable
<1> DEFINE s == row.document
           n == <<"bounded_text_pdf", 1>>
           rc == "rate_confirmation"
           b == [intake |-> rc, default |-> TRUE, normalizer |-> n]
           docs == [k \in {rc} |-> b]
<1>1. SUFFICES ASSUME n \in DOMAIN release.normalizers, s.media \in release.normalizers[n],
                      rc \in p.intakes
               PROVE  Preflight(row) = IF s.error = "none" THEN "continue" ELSE "document_unreadable"
  BY DEF QueuedJobsStayReadable
<1> DEFINE d == Decode(s)
           q == Upgrade(p, release)
<1>2. /\ d.version = 2 /\ d.kind = rc /\ d.intake = rc /\ d.normalizer = n
      /\ d.media = s.media /\ d.error = s.error
  BY DEF Decode, Snapshot
<1>3. /\ p = [version |-> p.version, intakes |-> p.intakes, actions |-> p.actions,
               documents |-> p.documents]
      /\ p.version = 1 /\ DOMAIN p.documents = {}
  BY DocumentAssumption DEF DocumentAssumption, IsProfile
<1>4. q.intakes = p.intakes /\ q.documents = docs /\ q.actions \subseteq release.actions
  <2> DEFINE ds == WithLegacyBinding(p)
             acts == p.actions \cap release.actions
  <2>1. q = [p EXCEPT !.version = 2, !.actions = acts, !.documents = ds]
    BY <1>3 DEF Upgrade
  <2>2. ds = docs
    BY <1>1, <1>3 DEF WithLegacyBinding
  <2>3. acts \subseteq release.actions
    OBVIOUS
  <2> HIDE DEF ds, docs, q, acts
  <2>4. QED
    BY <1>3, <2>1, <2>2, <2>3
<1>5. DOMAIN docs = {rc} /\ docs[rc] = b /\ b.intake = rc /\ b.default /\ b.normalizer = n
  OBVIOUS
<1> HIDE DEF d, q, docs, b, s
<1>6. ValidProfile(q)
  <2>1. Default(q) = {rc}
    BY <1>4, <1>5 DEF Default
  <2>2. Cardinality({rc}) = 1
    BY FS_Singleton
  <2>3. QED
    BY <1>1, <1>4, <1>5, <2>1, <2>2 DEF ValidProfile
<1>7. Compiles(q, release)
  BY <1>1, <1>4, <1>5 DEF Compiles
<1>8. Compatible(d, q)
  BY <1>1, <1>2, <1>4, <1>5 DEF Compatible
<1>9. d.intake \in q.intakes
  BY <1>1, <1>2, <1>4
<1>10. Preflight(row) = IF d.error # "none" THEN "document_unreadable" ELSE "continue"
  BY <1>6, <1>7, <1>8, <1>9 DEF Preflight, d, q, s
<1>11. QED
  BY <1>2, <1>10

\* QueuedStayReadable: a queued job is refused only for want of a normalizer or, if it
\* was queued by this release, of an executable action.
THEOREM QueuedStayReadable == DocumentSpec => []QueuedJobsStayReadable
<1>1. ASSUME DocumentInv PROVE QueuedJobsStayReadable
  <2>1. CASE row = Absent
    BY <2>1 DEF QueuedJobsStayReadable
  <2>2. CASE row # Absent
    BY <1>1, <2>2, RowShape, NewRowReadable, OldRowReadable
  <2>3. QED
    BY <2>1, <2>2
<1>2. QED
  BY <1>1, DocumentInvariant, PTL

(***************************************************************************)
(* Creation.  IntakeInv says what handlers have reserved but not committed.*)
(***************************************************************************)

\* Invs: the parts of the invariant besides the types.
Invs == /\ OneJobPerKey /\ UncommittedIsAlone /\ RecordsAreTrue
        /\ ToldIsRecorded /\ ConflictIsRecorded /\ CollisionHasWinner

\* AnswerKeeps: an answer that changes no table keeps the invariant, provided
\* that the job it names, or the conflict it reports, is on record.
LEMMA AnswerKeeps ==
    ASSUME IntakeTypeOK, Invs, NEW r \in Requests, NEW kind \in Reply,
           NEW job \in SUBSET Requests, Answer(r, kind, job),
           \A j \in job : j \in jobs /\ req[j] = req[r],
           kind = "conflict" => \E x \in recs : /\ x.key = req[r].key
                                                /\ x.hash # RequestHash(r)
    PROVE  IntakeTypeOK' /\ Invs'
<1> USE DEF Answer, RequestHash, Existing
<1>1. IntakeTypeOK'
  BY DEF IntakeTypeOK, PC, Reply
<1>2. OneJobPerKey' /\ RecordsAreTrue'
  BY DEF Invs, OneJobPerKey, RecordsAreTrue
<1>3. UncommittedIsAlone' /\ CollisionHasWinner'
  BY DEF Invs, UncommittedIsAlone, CollisionHasWinner, IntakeTypeOK
<1>4. ToldIsRecorded'
  BY DEF Invs, ToldIsRecorded, IntakeTypeOK
<1>5. ConflictIsRecorded'
  BY DEF Invs, ConflictIsRecorded, IntakeTypeOK
<1>6. QED
  BY <1>1, <1>2, <1>3, <1>4, <1>5 DEF Invs

\* ExistingKeeps: answering from the committed record keeps the invariant.
LEMMA ExistingKeeps ==
    ASSUME IntakeTypeOK, Invs, NEW r \in Requests, AnswerExisting(r)
    PROVE  IntakeTypeOK' /\ Invs'
<1>1. PICK x \in Existing(r) : IF Reusable(r, x) THEN Answer(r, "reused", {x.job})
                               ELSE Answer(r, "conflict", {})
  BY DEF AnswerExisting
<1>2. x \in recs /\ x.key = req[r].key /\ x.job \in Requests
  BY DEF Existing, IntakeTypeOK
<1>3. CASE Reusable(r, x)
  <2>1. x.job \in jobs /\ req[x.job] = req[r]
    <3>1. x.job \in jobs
      BY <1>2 DEF Invs, OneJobPerKey
    <3>2. /\ req[x.job].key = req[r].key
          /\ <<req[x.job].doc, req[x.job].content>> = <<req[r].doc, req[r].content>>
      BY <1>2, <1>3 DEF Invs, RecordsAreTrue, Reusable, RequestHash
    <3>3. /\ req[x.job] \in [key : Keys, content : Contents, doc : BOOLEAN]
          /\ req[r] \in [key : Keys, content : Contents, doc : BOOLEAN]
      BY <1>2 DEF IntakeTypeOK
    <3>4. QED
      BY <3>1, <3>2, <3>3
  <2>2. "reused" \in Reply /\ {x.job} \in SUBSET Requests
    BY <1>2 DEF Reply
  <2>3. QED
    BY <1>1, <1>3, <2>1, <2>2, AnswerKeeps
<1>4. CASE ~Reusable(r, x)
  <2>1. "conflict" \in Reply /\ {} \in SUBSET Requests /\ x.hash # RequestHash(r)
    BY <1>4 DEF Reply, Reusable
  <2>2. QED
    BY <1>1, <1>2, <1>4, <2>1, AnswerKeeps
<1>5. QED
  BY <1>3, <1>4

\* ProceedKeeps: moving on without touching a table keeps the invariant; what
\* the next point of the handler relies on must hold.
LEMMA ProceedKeeps ==
    ASSUME IntakeTypeOK, Invs, NEW r \in Requests, NEW to \in PC, Proceed(r, to),
           to = "commit" => IndexFree(r), to = "reread" => Existing(r) # {}
    PROVE  IntakeTypeOK' /\ Invs'
<1> USE DEF Proceed, RequestHash, Existing
<1>1. IntakeTypeOK'
  BY DEF IntakeTypeOK
<1>2. OneJobPerKey' /\ RecordsAreTrue' /\ ToldIsRecorded' /\ ConflictIsRecorded'
  BY DEF Invs, OneJobPerKey, RecordsAreTrue, ToldIsRecorded, ConflictIsRecorded
<1>3. UncommittedIsAlone' /\ CollisionHasWinner'
  BY DEF Invs, UncommittedIsAlone, CollisionHasWinner, IndexFree, IntakeTypeOK
<1>4. QED
  BY <1>1, <1>2, <1>3 DEF Invs

\* CommitKeeps: publishing the job and its record keeps the invariant, because
\* no other handler can have the same key in hand.
LEMMA CommitKeeps ==
    ASSUME IntakeTypeOK, Invs, NEW r \in Requests, Commit(r)
    PROVE  IntakeTypeOK' /\ Invs'
<1> DEFINE new == [key |-> req[r].key, hash |-> RequestHash(r), job |-> r]
<1>1. /\ recs' = recs \cup {new} /\ jobs' = jobs \cup {r}
      /\ pc' = [pc EXCEPT ![r] = "done"] /\ pc[r] = "commit"
      /\ \/ /\ reply' = [reply EXCEPT ![r] = "created"]
            /\ told'  = [told EXCEPT ![r] = {r}]
         \/ /\ reply' = [reply EXCEPT ![r] = "error"]
            /\ told'  = told
      /\ UNCHANGED <<req, parsed, parsing>>
  BY DEF Commit
<1>2. /\ new \in [key : Keys, hash : BOOLEAN \X Contents, job : Requests]
      /\ new.key = req[r].key /\ new.hash = RequestHash(r) /\ new.job = r
  BY DEF IntakeTypeOK, RequestHash
<1> HIDE DEF new
<1>3. IntakeTypeOK'
  <2>1. /\ recs' \subseteq [key : Keys, hash : BOOLEAN \X Contents, job : Requests]
        /\ jobs' \subseteq Requests
    BY <1>1, <1>2 DEF IntakeTypeOK
  <2>2. pc' \in [Requests -> PC] /\ reply' \in [Requests -> Reply]
    BY <1>1 DEF IntakeTypeOK, PC, Reply
  <2>3. told' \in [Requests -> SUBSET Requests]
    BY <1>1 DEF IntakeTypeOK
  <2>4. QED
    BY <1>1, <2>1, <2>2, <2>3 DEF IntakeTypeOK
<1>4. \A x \in recs : x.key # req[r].key
  BY <1>1 DEF Invs, UncommittedIsAlone, Existing
<1>5. OneJobPerKey'
  <2>1. \A x, y \in recs' : x.key = y.key => x = y
    BY <1>1, <1>2, <1>4 DEF Invs, OneJobPerKey
  <2>2. jobs' = {x.job : x \in recs'}
    BY <1>1, <1>2 DEF Invs, OneJobPerKey
  <2>3. QED
    BY <2>1, <2>2 DEF OneJobPerKey
<1>6. UncommittedIsAlone'
  BY <1>1, <1>2 DEF Invs, UncommittedIsAlone, Existing, IntakeTypeOK
<1>7. RecordsAreTrue'
  BY <1>1, <1>2 DEF Invs, RecordsAreTrue, RequestHash
<1>8. ToldIsRecorded'
  <2>1. ASSUME NEW q \in Requests, NEW j \in told'[q]
        PROVE  j \in jobs' /\ req[j] = req[q]
    <3>1. j \in told[q] \/ (j = r /\ q = r)
      BY <1>1, <2>1 DEF IntakeTypeOK
    <3>2. QED
      BY <1>1, <3>1 DEF Invs, ToldIsRecorded
  <2>2. QED
    BY <1>1, <2>1 DEF ToldIsRecorded
<1>9. ConflictIsRecorded'
  BY <1>1 DEF Invs, ConflictIsRecorded, RequestHash, IntakeTypeOK
<1>10. CollisionHasWinner'
  BY <1>1 DEF Invs, CollisionHasWinner, Existing, IntakeTypeOK
<1>11. QED
  BY <1>3, <1>5, <1>6, <1>7, <1>8, <1>9, <1>10 DEF Invs

\* ParseKeeps: normalization touches no table and no caller.
LEMMA ParseKeeps ==
    ASSUME IntakeTypeOK, Invs, NEW r \in Requests,
           ParseStarts(r) \/ ParseEnds(r) \/ ParseTimeout(r)
    PROVE  IntakeTypeOK' /\ Invs'
<1>1. /\ UNCHANGED <<req, recs, jobs, reply, told>>
      /\ pc' = pc \/ \E to \in {"parsing", "enqueue"} : pc' = [pc EXCEPT ![r] = to]
  BY DEF ParseStarts, ParseEnds, ParseTimeout
<1>2. IntakeTypeOK'
  BY DEF IntakeTypeOK, PC, ParseStarts, ParseEnds, ParseTimeout
<1>3. Invs'
  BY <1>1 DEF IntakeTypeOK, Invs, OneJobPerKey, UncommittedIsAlone, RecordsAreTrue,
     ToldIsRecorded, ConflictIsRecorded, CollisionHasWinner, RequestHash, Existing
<1>4. QED
  BY <1>2, <1>3

\* IntakeStep: every step of every handler keeps the invariant.
LEMMA IntakeStep == IntakeTypeOK /\ Invs /\ [IntakeNext]_intakeVars => IntakeTypeOK' /\ Invs'
<1> SUFFICES ASSUME IntakeTypeOK, Invs, [IntakeNext]_intakeVars PROVE IntakeTypeOK' /\ Invs'
  OBVIOUS
<1>1. CASE UNCHANGED intakeVars
  BY <1>1 DEF intakeVars, IntakeTypeOK, Invs, OneJobPerKey, UncommittedIsAlone, RecordsAreTrue,
     ToldIsRecorded, ConflictIsRecorded, CollisionHasWinner, RequestHash, Existing
<1>2. ASSUME NEW r \in Requests, Step(r) \/ ParseEnds(r) \/ Fail(r)
      PROVE  IntakeTypeOK' /\ Invs'
  <2>1. CASE Probe(r)
    BY <2>1, ExistingKeeps, ProceedKeeps DEF Probe, PC
  <2>2. CASE ParseStarts(r) \/ ParseEnds(r) \/ ParseTimeout(r)
    BY <2>2, ParseKeeps
  <2>3. CASE Lookup(r)
    BY <2>3, ExistingKeeps, ProceedKeeps DEF Lookup, PC
  <2>4. CASE Insert(r)
    BY <2>4, ProceedKeeps DEF Insert, Collides, PC
  <2>5. CASE Reread(r)
    BY <2>5, ExistingKeeps, AnswerKeeps DEF Reread, Reply
  <2>6. CASE Commit(r)
    BY <2>6, CommitKeeps
  <2>7. CASE Fail(r)
    BY <2>7, AnswerKeeps DEF Fail, Reply
  <2>8. QED
    BY <1>2, <2>1, <2>2, <2>3, <2>4, <2>5, <2>6, <2>7 DEF Step
<1>3. QED
  BY <1>1, <1>2 DEF IntakeNext

\* IntakeInvariant: the inductive invariant of the intake handlers.
THEOREM IntakeInvariant == IntakeSpec => []IntakeInv
<1>1. IntakeInit => IntakeTypeOK /\ Invs
  BY DEF IntakeInit, IntakeTypeOK, PC, Reply, Invs, OneJobPerKey, UncommittedIsAlone,
     RecordsAreTrue, ToldIsRecorded, ConflictIsRecorded, CollisionHasWinner
<1>2. IntakeTypeOK /\ Invs => IntakeInv
  BY DEF Invs, IntakeInv
<1>3. QED
  BY <1>1, <1>2, IntakeStep, PTL DEF IntakeSpec

\* KeyMakesOneJob: one job per tenant and key, and no job without its record,
\* for any number of concurrent requests.
THEOREM KeyMakesOneJob == IntakeSpec => []OneJobPerKey
<1>1. IntakeInv => OneJobPerKey
  BY DEF IntakeInv
<1>2. QED
  BY <1>1, IntakeInvariant, PTL

\* CallersShareTheJob: everyone answered with a job under one key got the same
\* job, made from the content they sent.
THEOREM CallersShareTheJob == IntakeSpec => []SameJobForSameKey
<1>1. IntakeInv => SameJobForSameKey
  <2> SUFFICES ASSUME IntakeInv, NEW r \in Requests, NEW j \in told[r]
               PROVE  /\ j \in jobs /\ req[j] = req[r]
                      /\ \A q \in Requests : req[q].key = req[r].key =>
                             told[q] \subseteq {j}
    BY DEF SameJobForSameKey
  <2>1. j \in jobs /\ req[j] = req[r]
    BY DEF IntakeInv, ToldIsRecorded
  <2>2. ASSUME NEW q \in Requests, req[q].key = req[r].key, NEW i \in told[q]
        PROVE  i = j
    <3>1. i \in jobs /\ req[i] = req[q]
      BY <2>2 DEF IntakeInv, ToldIsRecorded
    <3>2. PICK x \in recs, y \in recs : x.job = i /\ y.job = j
      BY <2>1, <3>1 DEF IntakeInv, OneJobPerKey
    <3>3. x.key = y.key
      BY <2>1, <2>2, <3>1, <3>2 DEF IntakeInv, RecordsAreTrue
    <3>4. QED
      BY <3>2, <3>3 DEF IntakeInv, OneJobPerKey
  <2>3. QED
    BY <2>1, <2>2
<1>2. QED
  BY <1>1, IntakeInvariant, PTL

\* RetriesAccepted: a retry with the same key and content is never told 409.
THEOREM RetriesAccepted == IntakeSpec => []RetryNeverConflicts
<1>1. IntakeInv => RetryNeverConflicts
  <2> SUFFICES ASSUME IntakeInv, NEW r \in Requests, reply[r] = "conflict"
               PROVE  \E j \in jobs : req[j].key = req[r].key /\ req[j] # req[r]
    BY DEF RetryNeverConflicts
  <2>1. PICK x \in recs : x.key = req[r].key /\ x.hash # RequestHash(r)
    BY DEF IntakeInv, ConflictIsRecorded
  <2>2. x.job \in jobs /\ x.key = req[x.job].key /\ x.hash = RequestHash(x.job)
    BY DEF IntakeInv, OneJobPerKey, RecordsAreTrue
  <2>3. req[x.job] # req[r]
    BY <2>1, <2>2 DEF RequestHash
  <2>4. QED
    BY <2>1, <2>2, <2>3
<1>2. QED
  BY <1>1, IntakeInvariant, PTL

\* IntakeTypesHold: the handlers and the two tables keep their types.
THEOREM IntakeTypesHold == IntakeSpec => []IntakeTypeOK
<1>1. IntakeInv => IntakeTypeOK
  BY DEF IntakeInv
<1>2. QED
  BY <1>1, IntakeInvariant, PTL

\* CollisionIsWon: after an IntegrityError the winner's record is there to be
\* read, for any number of requests, so enqueue's last "raise" is never reached.
THEOREM CollisionIsWon == IntakeSpec => []CollisionHasWinner
<1>1. IntakeInv => CollisionHasWinner
  BY DEF IntakeInv
<1>2. QED
  BY <1>1, IntakeInvariant, PTL

\* KeysAreIdempotent: a key stands for one job, for any number of requests.
THEOREM KeysAreIdempotent == IntakeSpec => []KeyIsIdempotent
<1>1. OneJobPerKey /\ SameJobForSameKey => KeyIsIdempotent
  BY DEF KeyIsIdempotent
<1>2. QED
  BY <1>1, KeyMakesOneJob, CallersShareTheJob, PTL

USE RetriesAssumption DEF Attempts

(***************************************************************************)
(* Types.                                                                  *)
(***************************************************************************)

\* TypeStep: every action of the queue, the worker runs and the approvals
\* keeps every column and every run state in its type.
LEMMA TypeStep == TypeOK /\ [Next]_vars => TypeOK'
<1> SUFFICES ASSUME TypeOK, [Next]_vars PROVE TypeOK'
  OBVIOUS
<1> USE DEF TypeOK, JobStatus, Terminal, ApprStatus, SupState, ThrState, TxnState, Outcome, Write
<1>1. CASE UNCHANGED vars
  BY <1>1 DEF vars
<1>2. ASSUME NEW j \in Jobs, JobStep(j) PROVE TypeOK'
  <2>1. CASE Enqueue(j)
    BY <2>1 DEF Enqueue, apprVars, runVars
  <2>2. CASE DelayElapses(j)
    BY <2>2 DEF DelayElapses, apprVars, runVars
  <2>3. CASE Claim(j)
    <3> DEFINE b == attempt[j] + 1
    <3>1. /\ status'  = [status EXCEPT ![j] = "running"]
          /\ attempt' = [attempt EXCEPT ![j] = b]
          /\ lease'   = [lease EXCEPT ![j] = "live"]
          /\ sup'     = [sup EXCEPT ![j][b] = "run"]
          /\ thr'     = [thr EXCEPT ![j][b] = "start"]
          /\ UNCHANGED <<ready, marker, appr, due, author, txn, late>>
      BY <2>3 DEF Claim, apprVars
    <3>2. b \in Nat
      OBVIOUS
    <3> HIDE DEF b
    <3>3. QED
      BY <3>1, <3>2
  <2>4. CASE LeaseExpires(j)
    BY <2>4 DEF LeaseExpires, apprVars, runVars
  <2>5. CASE ApprovalFallsDue(j)
    BY <2>5 DEF ApprovalFallsDue, jobVars, runVars
  <2>6. ASSUME NEW d \in {"approved", "rejected"}, Decide(j, d) PROVE TypeOK'
    BY <2>6 DEF Decide, FinalStatus, runVars
  <2>7. QED
    BY <1>2, <2>1, <2>2, <2>3, <2>4, <2>5, <2>6 DEF JobStep
<1>3. ASSUME NEW j \in Jobs, NEW a \in Attempts, RunStep(j, a) PROVE TypeOK'
  <2> USE DEF jobVars, apprVars, runVars
  <2>1. CASE ThreadEnds(j, a)
    <3>1. PICK o \in Outcome : thr' = [thr EXCEPT ![j][a] = o]
      BY <2>1 DEF ThreadEnds, Inspected
    <3>2. QED
      BY <2>1, <3>1 DEF ThreadEnds
  <2>2. CASE ToolLocksRow(j, a)
    BY <2>2 DEF ToolLocksRow
  <2>3. CASE ApprovalLocksRow(j, a)
    BY <2>3 DEF ApprovalLocksRow
  <2>4. CASE TxnCommit(j, a)
    <3> DEFINE back(t) == IF thr[j][a] = "call" THEN t ELSE thr[j][a]
    <3>1. CASE txn[j][a] = "tool"
      <4>1. /\ txn'    = [txn EXCEPT ![j][a] = "none"]
            /\ marker' = [marker EXCEPT ![j] = TRUE]
            /\ late'   = IF sup[j][a] \in Write THEN [late EXCEPT ![j] = TRUE] ELSE late
            /\ thr'    = [thr EXCEPT ![j][a] = back("work")]
            /\ UNCHANGED <<status, attempt, ready, lease, sup, appr, due, author>>
        BY <2>4, <3>1 DEF TxnCommit
      <4>2. back("work") \in ThrState
        OBVIOUS
      <4> HIDE DEF back
      <4>3. QED
        BY <4>1, <4>2
    <3>2. CASE txn[j][a] = "approval"
      <4>1. /\ txn'    = [txn EXCEPT ![j][a] = "none"]
            /\ appr'   = [appr EXCEPT ![j] = "staged"]
            /\ due'    = [due EXCEPT ![j] = FALSE]
            /\ author' = [author EXCEPT ![j] = a]
            /\ thr'    = [thr EXCEPT ![j][a] = back("approval")]
            /\ UNCHANGED <<status, attempt, ready, lease, sup, marker, late>>
        BY <2>4, <3>2 DEF TxnCommit
      <4>2. back("approval") \in ThrState /\ a \in Nat
        OBVIOUS
      <4> HIDE DEF back
      <4>3. QED
        BY <4>1, <4>2
    <3>3. QED
      BY <2>4, <3>1, <3>2 DEF TxnCommit
  <2>5. CASE TxnAbort(j, a)
    BY <2>5 DEF TxnAbort
  <2>6. CASE GatewayTimeout(j, a)
    BY <2>6 DEF GatewayTimeout
  <2>7. CASE RenewLease(j, a)
    BY <2>7 DEF RenewLease
  <2>8. CASE HeartbeatLost(j, a)
    BY <2>8 DEF HeartbeatLost
  <2>9. CASE Finish(j, a)
    BY <2>9 DEF Finish
  <2>10. CASE Deadline(j, a)
    BY <2>10 DEF Deadline
  <2>11. CASE Inspect(j, a)
    BY <2>11 DEF Inspect, Decision, Inspected
  <2>12. CASE MarkTerminal(j, a)
    BY <2>12 DEF MarkTerminal, TerminalOf, WithoutStaged
  <2>13. CASE Park(j, a)
    BY <2>13 DEF Park
  <2>14. CASE ScheduleRetry(j, a)
    BY <2>14 DEF ScheduleRetry
  <2>15. CASE WriteRefused(j, a)
    BY <2>15 DEF WriteRefused
  <2>16. CASE Abandon(j, a)
    BY <2>16 DEF Abandon
  <2>17. CASE Crash(j, a)
    BY <2>17 DEF Crash
  <2>18. QED
    BY <1>3, <2>1, <2>2, <2>3, <2>4, <2>5, <2>6, <2>7, <2>8, <2>9, <2>10,
       <2>11, <2>12, <2>13, <2>14, <2>15, <2>16, <2>17 DEF RunStep
<1>4. CASE RecoverExpiredLeases
  BY <1>4 DEF RecoverExpiredLeases, Recovered, WithoutStaged, runVars
<1>5. CASE ExpireDue
  BY <1>5 DEF ExpireDue, FinalStatus, runVars
<1>6. QED
  BY <1>1, <1>2, <1>3, <1>4, <1>5 DEF Next

\* TypesHold: the type invariant of the rows and runs, for every constant.
THEOREM TypesHold == Spec => []TypeOK
<1>1. Init => TypeOK
  BY DEF Init, TypeOK, JobStatus, ApprStatus, SupState, ThrState, TxnState
<1>2. QED
  BY <1>1, TypeStep, PTL DEF Spec

(***************************************************************************)
(* The inductive invariant.                                                *)
(***************************************************************************)

\* The conjuncts of IInv other than the types.
Safety == /\ RetryBudget /\ ApprovalMatchesJob /\ PublishedByItsAttempt
          /\ OpenTxnOwnsJob /\ LeaseIffRunning /\ EffectReplayedOnlyIfLate
          /\ AbsentJobsBlank /\ FutureRunsIdle /\ RequeueHasBudget
          /\ ReportedApprovalStaged /\ OpenTxnThread /\ UnseenMarkerIsLate

\* RunKeepsSafety: a step of one worker run, its thread or its transaction
\* keeps every conjunct, for its own job and for the others.
LEMMA RunKeepsSafety ==
    ASSUME TypeOK, Safety, TypeOK', NEW j \in Jobs, NEW a \in Attempts,
           RunStep(j, a)
    PROVE  Safety'
<1> USE DEF TypeOK, Safety, Terminal, Outcome, Write, Inspected, Owns, RowFree,
        RetryBudget, ApprovalMatchesJob, PublishedByItsAttempt,
        OpenTxnOwnsJob, LeaseIffRunning, EffectReplayedOnlyIfLate,
        AbsentJobsBlank, FutureRunsIdle, RequeueHasBudget, ReportedApprovalStaged,
        OpenTxnThread, UnseenMarkerIsLate, jobVars, apprVars, runVars
<1>1. CASE ThreadEnds(j, a)
  <2>1. PICK o \in Outcome \ {"approval"} :
             /\ thr' = [thr EXCEPT ![j][a] = o]
             /\ thr[j][a] \in {"start", "work"}
             /\ o \in {"empty", "incapable"} => thr[j][a] = "start"
    BY <1>1 DEF ThreadEnds
  <2>2. UNCHANGED <<status, attempt, ready, lease, marker, appr, due, author,
                    sup, txn, late>>
    BY <1>1 DEF ThreadEnds
  <2>3. QED
    BY <2>1, <2>2
<1>2. CASE ToolLocksRow(j, a)
  BY <1>2 DEF ToolLocksRow
<1>3. CASE ApprovalLocksRow(j, a)
  BY <1>3 DEF ApprovalLocksRow
<1>4. CASE TxnCommit(j, a)
  <2> DEFINE back(t) == IF thr[j][a] = "call" THEN t ELSE thr[j][a]
  <2>1. Owns(j, a) /\ thr[j][a] \in {"call", "agent_failed", "retryable", "gone"}
    BY <1>4 DEF TxnCommit
  <2>2. CASE txn[j][a] = "tool"
    <3>1. /\ txn'    = [txn EXCEPT ![j][a] = "none"]
          /\ marker' = [marker EXCEPT ![j] = TRUE]
          /\ late'   = IF sup[j][a] \in Write THEN [late EXCEPT ![j] = TRUE] ELSE late
          /\ thr'    = [thr EXCEPT ![j][a] = back("work")]
          /\ UNCHANGED <<status, attempt, ready, lease, sup, appr, due, author>>
      BY <1>4, <2>2 DEF TxnCommit
    <3>2. QED
      BY <3>1, <2>1, <2>2
  <2>3. CASE txn[j][a] = "approval"
    <3>1. /\ txn'    = [txn EXCEPT ![j][a] = "none"]
          /\ appr'   = [appr EXCEPT ![j] = "staged"]
          /\ author' = [author EXCEPT ![j] = a]
          /\ thr'    = [thr EXCEPT ![j][a] = back("approval")]
          /\ UNCHANGED <<status, attempt, ready, lease, sup, marker, late>>
      BY <1>4, <2>3 DEF TxnCommit
    <3>2. QED
      BY <3>1, <2>1, <2>3
  <2>4. QED
    BY <1>4, <2>2, <2>3 DEF TxnCommit
<1>5. CASE TxnAbort(j, a)
  BY <1>5 DEF TxnAbort
<1>6. CASE GatewayTimeout(j, a)
  BY <1>6 DEF GatewayTimeout
<1>7. CASE RenewLease(j, a)
  BY <1>7 DEF RenewLease
<1>8. CASE HeartbeatLost(j, a)
  BY <1>8 DEF HeartbeatLost
<1>9. CASE Finish(j, a)
  BY <1>9 DEF Finish
<1>10. CASE Deadline(j, a)
  BY <1>10 DEF Deadline
<1>11. CASE Inspect(j, a)
  BY <1>11 DEF Inspect, Decision
<1>12. CASE MarkTerminal(j, a)
  BY <1>12 DEF MarkTerminal, TerminalOf, WithoutStaged
<1>13. CASE Park(j, a)
  BY <1>13 DEF Park
<1>14. CASE ScheduleRetry(j, a)
  <2>1. /\ sup[j][a] = "requeue" /\ Owns(j, a) /\ a <= MaxRetries
        /\ status' = [status EXCEPT ![j] = "queued"]
        /\ lease'  = [lease EXCEPT ![j] = "none"]
        /\ sup'    = [sup EXCEPT ![j][a] = "over"]
        /\ UNCHANGED <<attempt, marker, appr, due, author, thr, txn, late>>
    BY <1>14 DEF ScheduleRetry
  <2>2. RetryBudget' /\ ApprovalMatchesJob' /\ PublishedByItsAttempt'
    BY <2>1
  <2>3. OpenTxnOwnsJob'
    BY <1>14, <2>1 DEF ScheduleRetry
  <2>4. LeaseIffRunning' /\ AbsentJobsBlank' /\ RequeueHasBudget'
    BY <2>1
  <2>5. EffectReplayedOnlyIfLate'
    BY <2>1
  <2>6. FutureRunsIdle' /\ OpenTxnThread'
    BY <2>1
  <2>7. ReportedApprovalStaged' /\ UnseenMarkerIsLate'
    BY <2>1
  <2>8. QED
    BY <2>2, <2>3, <2>4, <2>5, <2>6, <2>7
<1>15. CASE WriteRefused(j, a)
  BY <1>15 DEF WriteRefused
<1>16. CASE Abandon(j, a)
  BY <1>16 DEF Abandon
<1>17. CASE Crash(j, a)
  BY <1>17 DEF Crash
<1>18. QED
  BY <1>1, <1>2, <1>3, <1>4, <1>5, <1>6, <1>7, <1>8, <1>9, <1>10, <1>11,
     <1>12, <1>13, <1>14, <1>15, <1>16, <1>17 DEF RunStep

\* JobKeepsSafety: the same for a step of the queue, of time or of an operator
\* on one job.
LEMMA JobKeepsSafety ==
    ASSUME TypeOK, Safety, TypeOK', NEW j \in Jobs, JobStep(j)
    PROVE  Safety'
<1> USE DEF TypeOK, Safety, Terminal, Outcome, Write, Inspected, Owns, RowFree,
        RetryBudget, ApprovalMatchesJob, PublishedByItsAttempt,
        OpenTxnOwnsJob, LeaseIffRunning, EffectReplayedOnlyIfLate,
        AbsentJobsBlank, FutureRunsIdle, RequeueHasBudget, ReportedApprovalStaged,
        OpenTxnThread, UnseenMarkerIsLate, jobVars, apprVars, runVars
<1>1. CASE Enqueue(j)
  BY <1>1 DEF Enqueue
<1>2. CASE DelayElapses(j)
  BY <1>2 DEF DelayElapses
<1>3. CASE Claim(j)
  <2> DEFINE b == attempt[j] + 1
  <2>1. b \in Attempts
    BY <1>3 DEF Claim
  <2>2. /\ status[j] = "queued" /\ RowFree(j)
        /\ status'  = [status EXCEPT ![j] = "running"]
        /\ attempt' = [attempt EXCEPT ![j] = b]
        /\ lease'   = [lease EXCEPT ![j] = "live"]
        /\ sup'     = [sup EXCEPT ![j][b] = "run"]
        /\ thr'     = [thr EXCEPT ![j][b] = "start"]
        /\ UNCHANGED <<ready, marker, appr, due, author, txn, late>>
    BY <1>3 DEF Claim
  <2>3. QED
    BY <2>1, <2>2
<1>4. CASE LeaseExpires(j)
  BY <1>4 DEF LeaseExpires
<1>5. CASE ApprovalFallsDue(j)
  BY <1>5 DEF ApprovalFallsDue
<1>6. ASSUME NEW d \in {"approved", "rejected"}, Decide(j, d) PROVE Safety'
  BY <1>6 DEF Decide, Decidable, FinalStatus
<1>7. QED
  BY <1>1, <1>2, <1>3, <1>4, <1>5, <1>6 DEF JobStep

\* SafetyStep: every step keeps Safety; the two batch transactions move each
\* selected job as a single-job step would.
LEMMA SafetyStep == TypeOK /\ Safety /\ TypeOK' /\ [Next]_vars => Safety'
<1> SUFFICES ASSUME TypeOK, Safety, TypeOK', [Next]_vars PROVE Safety'
  OBVIOUS
<1> USE DEF TypeOK, Safety, Terminal, Owns, RowFree,
        RetryBudget, ApprovalMatchesJob, PublishedByItsAttempt,
        OpenTxnOwnsJob, LeaseIffRunning, EffectReplayedOnlyIfLate,
        AbsentJobsBlank, FutureRunsIdle, RequeueHasBudget, ReportedApprovalStaged,
        OpenTxnThread, UnseenMarkerIsLate, runVars
<1>1. CASE UNCHANGED vars
  BY <1>1 DEF vars
<1>2. CASE \E j \in Jobs : JobStep(j)
  BY <1>2, JobKeepsSafety
<1>3. CASE \E j \in Jobs, a \in Attempts : RunStep(j, a)
  BY <1>3, RunKeepsSafety
<1>4. CASE RecoverExpiredLeases
  BY <1>4 DEF RecoverExpiredLeases, LeaseDue, Recovered, WithoutStaged
<1>5. CASE ExpireDue
  BY <1>5 DEF ExpireDue, Expirable, FinalStatus
<1>6. QED
  BY <1>1, <1>2, <1>3, <1>4, <1>5 DEF Next

\* InvariantHolds: the inductive invariant is an invariant of the specification.
THEOREM InvariantHolds == Spec => []IInv
<1>1. Init => IInv
  <2>1. Init => TypeOK
    BY DEF Init, TypeOK, JobStatus, ApprStatus, SupState, ThrState, TxnState
  <2>2. Init => Safety
    BY DEF Init, Safety, Terminal, Owns,
        RetryBudget, ApprovalMatchesJob, PublishedByItsAttempt,
        OpenTxnOwnsJob, LeaseIffRunning, EffectReplayedOnlyIfLate,
        AbsentJobsBlank, FutureRunsIdle, RequeueHasBudget,
        ReportedApprovalStaged, OpenTxnThread, UnseenMarkerIsLate
  <2>3. QED
    BY <2>1, <2>2 DEF IInv, Safety
<1>2. IInv /\ [Next]_vars => IInv'
  BY TypeStep, SafetyStep DEF IInv, Safety
<1>3. QED
  BY <1>1, <1>2, PTL DEF Spec

(***************************************************************************)
(* The safety properties.                                                  *)
(***************************************************************************)

\* BudgetHolds: no job is claimed more than MaxRetries + 1 times.
THEOREM BudgetHolds == Spec => []RetryBudget
<1>1. IInv => RetryBudget
  BY DEF IInv
<1>2. QED
  BY <1>1, InvariantHolds, PTL

\* ApprovalsMatch: the job row and its approval row agree in every state.
THEOREM ApprovalsMatch == Spec => []ApprovalMatchesJob
<1>1. IInv => ApprovalMatchesJob
  BY DEF IInv
<1>2. QED
  BY <1>1, InvariantHolds, PTL

\* PublishedIsOwn: a published approval holds the action of the attempt that
\* parked the job.
THEOREM PublishedIsOwn == Spec => []PublishedByItsAttempt
<1>1. IInv => PublishedByItsAttempt
  BY DEF IInv
<1>2. QED
  BY <1>1, InvariantHolds, PTL

\* LeasesMatch: a lease is set exactly while the job runs.
THEOREM LeasesMatch == Spec => []LeaseIffRunning
<1>1. IInv => LeaseIffRunning
  BY DEF IInv
<1>2. QED
  BY <1>1, InvariantHolds, PTL

\* OpenTxnFenced: a transaction that can still commit belongs to the current
\* running attempt.
THEOREM OpenTxnFenced == Spec => []OpenTxnOwnsJob
<1>1. IInv => OpenTxnOwnsJob
  BY DEF IInv
<1>2. QED
  BY <1>1, InvariantHolds, PTL

\* ReplayNeedsLateCommit: a committed side effect is replayed or reported as a
\* plain failure only after a late commit or an expired approval.
THEOREM ReplayNeedsLateCommit == Spec => []EffectReplayedOnlyIfLate
<1>1. IInv => EffectReplayedOnlyIfLate
  BY DEF IInv
<1>2. QED
  BY <1>1, InvariantHolds, PTL

(***************************************************************************)
(* What a step never does.                                                 *)
(***************************************************************************)

\* The rows of a job the workers do not own keep their state.
Kept(k) == /\ status[k] \in Terminal =>
                /\ status'[k] = status[k] /\ attempt'[k] = attempt[k]
                /\ marker'[k] = marker[k] /\ appr'[k] = appr[k]
           /\ status[k] = "queued" =>
                /\ marker'[k] = marker[k] /\ appr'[k] = appr[k]
                /\ status'[k] = "queued" => attempt'[k] = attempt[k]

\* UnownedKept: no step changes a finished job, nor, before its next claim, a
\* queued one: every writer is fenced on a running row or a parked approval.
LEMMA UnownedKept ==
    ASSUME IInv, [Next]_vars, NEW k \in Jobs
    PROVE  Kept(k)
<1> USE DEF IInv, TypeOK, Kept, Terminal, OpenTxnOwnsJob, ApprovalMatchesJob,
        Owns, jobVars, apprVars, runVars
<1>1. CASE UNCHANGED vars
  BY <1>1 DEF vars
<1>2. ASSUME NEW j \in Jobs, JobStep(j) PROVE Kept(k)
  BY <1>2 DEF JobStep, Enqueue, DelayElapses, Claim, LeaseExpires,
              ApprovalFallsDue, Decide, Decidable
<1>3. ASSUME NEW j \in Jobs, NEW a \in Attempts, RunStep(j, a) PROVE Kept(k)
  <2>1. CASE TxnCommit(j, a)
    BY <2>1 DEF TxnCommit
  <2>2. CASE MarkTerminal(j, a) \/ Park(j, a) \/ ScheduleRetry(j, a)
    BY <2>2 DEF MarkTerminal, Park, ScheduleRetry
  <2>3. CASE UNCHANGED <<status, attempt, marker, appr>>
    BY <2>3
  <2>4. QED
    BY <1>3, <2>1, <2>2, <2>3 DEF RunStep, ThreadEnds, ToolLocksRow,
       ApprovalLocksRow, TxnAbort, GatewayTimeout, RenewLease, HeartbeatLost,
       Finish, Deadline, Inspect, WriteRefused, Abandon, Crash
<1>4. CASE RecoverExpiredLeases
  BY <1>4 DEF RecoverExpiredLeases, LeaseDue
<1>5. CASE ExpireDue
  BY <1>5 DEF ExpireDue, Expirable
<1>6. QED
  BY <1>1, <1>2, <1>3, <1>4, <1>5 DEF Next

\* FinishedJobsFinal: a terminal job never changes again.
THEOREM FinishedJobsFinal == Spec => TerminalIsFinal
<1>1. IInv /\ [Next]_vars =>
        [\A j \in Jobs : status[j] \in Terminal =>
            /\ status'[j] = status[j] /\ attempt'[j] = attempt[j]
            /\ marker'[j] = marker[j] /\ appr'[j] = appr[j]]_vars
  BY UnownedKept DEF Kept
<1>2. QED
  BY <1>1, InvariantHolds, PTL DEF Spec, TerminalIsFinal

\* QueuedJobsKept: no late writer touches a job that waits for its next claim.
THEOREM QueuedJobsKept == Spec => QueuedIsUntouched
<1>1. IInv /\ [Next]_vars =>
        [\A j \in Jobs : status[j] = "queued" =>
            /\ marker'[j] = marker[j] /\ appr'[j] = appr[j]
            /\ status'[j] = "queued" => attempt'[j] = attempt[j]]_vars
  BY UnownedKept DEF Kept
<1>2. QED
  BY <1>1, InvariantHolds, PTL DEF Spec, QueuedIsUntouched

(***************************************************************************)
(* Refinement.                                                             *)
(***************************************************************************)

\* A step the client may see as a move: each job's view stays or moves, and no
\* attempt starts.
ViewMoves == /\ \A k \in Jobs : \/ JobView(k)' = JobView(k)
                                \/ <<JobView(k), JobView(k)'>> \in Contract!Moves
             /\ attempt' = attempt

\* ViewStep: every step other than a claim is a move of the client's view.
LEMMA ViewStep ==
    ASSUME IInv, Next, ~ \E j \in Jobs : Claim(j)
    PROVE  ViewMoves
<1> USE DEF IInv, TypeOK, Terminal, OpenTxnOwnsJob, ApprovalMatchesJob, Owns,
        jobVars, apprVars, runVars, ViewMoves, JobView, Contract!Moves
<1>1. ASSUME NEW j \in Jobs, JobStep(j) PROVE ViewMoves
  <2>1. CASE Enqueue(j)
    BY <2>1 DEF Enqueue
  <2>2. CASE DelayElapses(j) \/ LeaseExpires(j) \/ ApprovalFallsDue(j)
    BY <2>2 DEF DelayElapses, LeaseExpires, ApprovalFallsDue
  <2>3. ASSUME NEW d \in {"approved", "rejected"}, Decide(j, d) PROVE ViewMoves
    BY <2>3 DEF Decide, Decidable, FinalStatus
  <2>4. QED
    BY <1>1, <2>1, <2>2, <2>3 DEF JobStep
<1>2. ASSUME NEW j \in Jobs, NEW a \in Attempts, RunStep(j, a) PROVE ViewMoves
  <2>1. CASE TxnCommit(j, a)
    BY <2>1 DEF TxnCommit
  <2>2. CASE MarkTerminal(j, a)
    BY <2>2 DEF MarkTerminal, TerminalOf, WithoutStaged
  <2>3. CASE Park(j, a)
    BY <2>3 DEF Park
  <2>4. CASE ScheduleRetry(j, a)
    BY <2>4 DEF ScheduleRetry
  <2>5. CASE UNCHANGED <<status, attempt, appr>>
    BY <2>5
  <2>6. QED
    BY <1>2, <2>1, <2>2, <2>3, <2>4, <2>5 DEF RunStep, ThreadEnds, ToolLocksRow,
       ApprovalLocksRow, TxnAbort, GatewayTimeout, RenewLease, HeartbeatLost,
       Finish, Deadline, Inspect, WriteRefused, Abandon, Crash
<1>3. CASE RecoverExpiredLeases
  BY <1>3 DEF RecoverExpiredLeases, LeaseDue, Recovered, WithoutStaged
<1>4. CASE ExpireDue
  BY <1>4 DEF ExpireDue, Expirable, FinalStatus
<1>5. QED
  BY <1>1, <1>2, <1>3, <1>4 DEF Next

\* ContractRefined: the specification of the rows, runs, threads and operators
\* implements what a polling client may rely on.
THEOREM ContractRefined == Spec => ImplementsContract
<1>1. Init => Contract!Init
  BY DEF Init, Contract!Init, JobView
<1>2. IInv /\ [Next]_vars => [Contract!Next]_<<[j \in Jobs |-> JobView(j)], attempt>>
  <2> SUFFICES ASSUME IInv, [Next]_vars
               PROVE  [Contract!Next]_<<[j \in Jobs |-> JobView(j)], attempt>>
    OBVIOUS
  <2>1. CASE UNCHANGED vars
    BY <2>1 DEF vars, JobView
  <2>2. ASSUME NEW j \in Jobs, Claim(j) PROVE Contract!Start(j)
    BY <2>2 DEF Claim, Contract!Start, JobView, IInv, TypeOK, RetryBudget,
                ApprovalMatchesJob, apprVars, Terminal
  <2>3. CASE Next /\ ~ \E j \in Jobs : Claim(j)
    BY <2>3, ViewStep DEF ViewMoves, Contract!Next, Contract!Move
  <2>4. QED
    BY <2>1, <2>2, <2>3 DEF Contract!Next
<1>3. QED
  BY <1>1, <1>2, InvariantHolds, PTL DEF Spec, ImplementsContract, Contract!Spec

\* RowsStayConsistent: budget, approval and lease hold together, for every number
\* of jobs and retries.
THEOREM RowsStayConsistent == Spec => []RowsConsistent
<1>1. RetryBudget /\ ApprovalMatchesJob /\ LeaseIffRunning => RowsConsistent
  BY DEF RowsConsistent
<1>2. QED
  BY <1>1, BudgetHolds, ApprovalsMatch, LeasesMatch, PTL

=============================================================================
