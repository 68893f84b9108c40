----------------------------- MODULE Ubench_proofs -----------------------------
(***************************************************************************)
(* Proofs about Args and Ubench, for all characters and slots of argv, and   *)
(* for all that programs may be given.                                      *)
(*                                                                         *)
(*   - What recursion computes is had from the equations of the functions by  *)
(*     a set of natural numbers that holds 0 and with k also k + 1: Pack and  *)
(*     Unpack, getopt, and the scan of a boot line.                          *)
(*   - StringToArgvMeans: every step of string_to_argv keeps in memory the    *)
(*     words that the quoting rules have read so far (Follows), and what is    *)
(*     left to do (ToDo) gets less with every step.                          *)
(*   - The driver's inductive invariant IInv: what is published is right and   *)
(*     all there before a command line is looked at (Publishing), which node  *)
(*     is where (Places), and what it has parsed, run and shown (AtNode).      *)
(***************************************************************************)
EXTENDS Ubench, SequenceTheorems, WellFoundedInduction, TLAPS

USE DEF Texts, Strings

LEMMA Least ==
  ASSUME NEW T \in SUBSET Nat, T # {}
  PROVE  \E x \in T : \A y \in T : x <= y
<1> DEFINE R == OpToRel(<, Nat)
<1>1. IsWellFoundedOn(R, Nat)
  BY NatLessThanWellFounded
<1>2. \A x, y \in Nat : x < y => <<x, y>> \in R
  BY DEF OpToRel
<1> HIDE DEF R
<1>3. PICK x \in T : \A y \in T : ~ (<<y, x>> \in R)
  BY <1>1, WFMin
<1>4. ASSUME NEW y \in T PROVE x <= y
  <2>1. ~(y < x)
    BY <1>2, <1>3
  <2>2. x \in Nat /\ y \in Nat
    OBVIOUS
  <2> QED BY <2>1, <2>2
<1> QED BY <1>4

(* A set that a count enters and never leaves holds all of it.              *)
LEMMA Induction ==
  ASSUME NEW lo \in Nat, NEW hi \in Nat, NEW T, lo \in T,
         \A k \in lo .. hi : k \in T /\ k < hi => k + 1 \in T
  PROVE  lo .. hi \subseteq T
<1> DEFINE M == {k \in lo .. hi : k \notin T}
<1>1. SUFFICES ASSUME M # {} PROVE FALSE
  OBVIOUS
<1>2. M \in SUBSET Nat
  OBVIOUS
<1>3. PICK x \in M : \A y \in M : x <= y
  BY <1>1, <1>2, Least
<1>4. x \in lo .. hi /\ x # lo
  BY <1>3
<1>5. x - 1 \in lo .. hi /\ x - 1 \notin M
  BY <1>3, <1>4
<1>6. x - 1 \in T /\ x - 1 < hi
  BY <1>4, <1>5
<1>7. x \in T
  BY <1>4, <1>5, <1>6
<1> QED BY <1>3, <1>7

(* A function that is defined by recursion on its argument exists: the       *)
(* initial segments of it are extended one by one.                          *)
Recurs(f, lo, hi, S, s0, step) ==
  /\ f \in [lo .. hi -> S]
  /\ f[lo] = s0
  /\ \A k \in lo .. hi : k # lo => f[k] = step[<<k, f[k - 1]>>]

LEMMA Recursion ==
  ASSUME NEW lo \in Nat, NEW hi \in Nat, lo <= hi, NEW S, NEW s0 \in S,
         NEW step \in [(lo .. hi) \X S -> S]
  PROVE  \E f : Recurs(f, lo, hi, S, s0, step)
<1> DEFINE Upto(f, n) == f[lo] = s0 /\ \A k \in lo .. n : k # lo => f[k] = step[<<k, f[k - 1]>>]
           T == {n \in Nat : \E f \in [lo .. n -> S] : Upto(f, n)}
<1>1. lo \in T
  <2> DEFINE g == [k \in lo .. lo |-> s0]
  <2>1. g \in [lo .. lo -> S] /\ g[lo] = s0
    OBVIOUS
  <2>2. Upto(g, lo)
    BY <2>1
  <2> QED BY <2>1, <2>2
<1>2. ASSUME NEW n \in lo .. hi, n \in T, n < hi PROVE n + 1 \in T
  <2>1. PICK f \in [lo .. n -> S] : Upto(f, n)
    BY <1>2
  <2> DEFINE next0 == step[<<n + 1, f[n]>>]
             g == [k \in lo .. n + 1 |-> IF k = n + 1 THEN next0 ELSE f[k]]
  <2>2. next0 \in S
    <3>1. <<n + 1, f[n]>> \in (lo .. hi) \X S
      BY <1>2, <2>1
    <3> QED BY <3>1
  <2>3. g \in [lo .. n + 1 -> S]
    BY <2>1, <2>2
  <2>4. \A k \in lo .. n : g[k] = f[k]
    OBVIOUS
  <2>5. g[n + 1] = next0 /\ g[n] = f[n]
    BY <1>2
  <2> HIDE DEF g, next0
  <2>6. g[lo] = s0
    BY <2>1, <2>4
  <2>7. ASSUME NEW k \in lo .. n + 1, k # lo PROVE g[k] = step[<<k, g[k - 1]>>]
    <3>1. CASE k = n + 1
      BY <3>1, <2>5 DEF next0
    <3>2. CASE k \in lo .. n
      BY <3>2, <2>1, <2>4, <2>7
    <3> QED BY <3>1, <3>2, <2>7
  <2> QED BY <2>3, <2>6, <2>7
<1> HIDE DEF T
<1>3. \A k \in lo .. hi : k \in T /\ k < hi => k + 1 \in T
  BY <1>2
<1>4. lo .. hi \subseteq T
  BY <1>1, <1>3, Induction
<1>5. hi \in T
  BY <1>4
<1>6. PICK f \in [lo .. hi -> S] : Upto(f, hi)
  BY <1>5 DEF T
<1> QED BY <1>6 DEF Recurs

(* ... and its values stay in a set that every step of the recursion keeps.  *)
LEMMA RecursionTyped ==
  ASSUME NEW lo \in Nat, NEW hi \in Nat, NEW S, NEW v, v[lo] \in S,
         \A k \in lo .. hi : k # lo /\ v[k - 1] \in S => v[k] \in S
  PROVE  \A k \in lo .. hi : v[k] \in S
<1> DEFINE T == {k \in Nat : v[k] \in S}
<1>1. lo \in T
  OBVIOUS
<1>2. ASSUME NEW k \in lo .. hi, k \in T, k < hi PROVE k + 1 \in T
  <2>1. k + 1 \in lo .. hi /\ (k + 1) - 1 = k /\ k + 1 # lo
    BY <1>2
  <2> QED BY <1>2, <2>1
<1>3. \A k \in T : k \in Nat /\ v[k] \in S
  OBVIOUS
<1> HIDE DEF T
<1>4. \A k \in lo .. hi : k \in T /\ k < hi => k + 1 \in T
  BY <1>2
<1>5. lo .. hi \subseteq T
  BY <1>1, <1>4, Induction
<1> QED BY <1>3, <1>5

----------------------------------------------------------------------------
(* Sequences that are selected from others.                                 *)
KeepingStep(f, seq, S) ==
  \A k \in 1 .. Len(seq) :
    f[k] = IF seq[k] \in S THEN Append(f[k - 1], seq[k]) ELSE f[k - 1]

LEMMA KeepingIs ==
  ASSUME NEW X, NEW seq \in Seq(X), NEW S
  PROVE  /\ Keeping(seq, S) \in [0 .. Len(seq) -> Seq(X)]
         /\ Keeping(seq, S)[0] = << >>
         /\ KeepingStep(Keeping(seq, S), seq, S)
<1> DEFINE n == Len(seq)
           step == [p \in (0 .. n) \X Seq(X) |->
                      IF p[1] # 0 /\ seq[p[1]] \in S THEN Append(p[2], seq[p[1]]) ELSE p[2]]
           P(u) == u = [i \in 0 .. n |->
                          IF i = 0 THEN << >>
                          ELSE IF seq[i] \in S THEN Append(u[i - 1], seq[i]) ELSE u[i - 1]]
           v == CHOOSE u : P(u)
<1>1. n \in Nat /\ << >> \in Seq(X) /\ 0 \in Nat /\ 0 <= n
  BY LenProperties, EmptySeq
<1>2. step \in [(0 .. n) \X Seq(X) -> Seq(X)]
  <2>1. ASSUME NEW k \in 0 .. n, NEW t \in Seq(X), k # 0 PROVE Append(t, seq[k]) \in Seq(X)
    BY <2>1, ElementOfSeq, AppendProperties
  <2> QED BY <2>1
<1>3. \A k \in 1 .. n, t \in Seq(X) :
        step[<<k, t>>] = IF seq[k] \in S THEN Append(t, seq[k]) ELSE t
  OBVIOUS
<1> HIDE DEF step
<1> HIDE DEF n
<1>4. PICK f : Recurs(f, 0, n, Seq(X), << >>, step)
  BY <1>1, <1>2, Recursion
<1>5. \A k \in 1 .. n : f[k] = IF seq[k] \in S THEN Append(f[k - 1], seq[k]) ELSE f[k - 1]
  <2>1. TAKE k \in 1 .. n
  <2>2. k \in 0 .. n /\ k # 0 /\ k - 1 \in 0 .. n
    BY <1>1
  <2>3. f[k - 1] \in Seq(X) /\ f[k] = step[<<k, f[k - 1]>>]
    BY <1>4, <2>2 DEF Recurs
  <2> QED BY <1>3, <2>3
<1>6. P(f)
  <2>1. \A i \in 0 .. n : i # 0 => i \in 1 .. n
    BY <1>1
  <2>2. \A i \in 0 .. n :
          f[i] = IF i = 0 THEN << >>
                 ELSE IF seq[i] \in S THEN Append(f[i - 1], seq[i]) ELSE f[i - 1]
    BY <1>4, <1>5, <2>1 DEF Recurs
  <2>3. f = [i \in 0 .. n |-> f[i]]
    BY <1>4 DEF Recurs
  <2> QED BY <2>2, <2>3
<1>7. P(v)
  BY <1>6
<1>8. Keeping(seq, S) = v
  BY DEF Keeping, n
<1> HIDE DEF v
<1>9. v = [i \in 0 .. n |->
             IF i = 0 THEN << >>
             ELSE IF seq[i] \in S THEN Append(v[i - 1], seq[i]) ELSE v[i - 1]]
  BY <1>7
<1> HIDE DEF P
<1>10. v = [k \in 0 .. n |-> v[k]]
  BY <1>9
<1>11. v[0] = << >>
  BY <1>1, <1>9
<1>12. \A k \in 1 .. n :
         v[k] = IF seq[k] \in S THEN Append(v[k - 1], seq[k]) ELSE v[k - 1]
  <2>1. \A k \in 1 .. n : k \in 0 .. n /\ k # 0
    BY <1>1
  <2> QED BY <1>9, <2>1
<1>13. ASSUME NEW k \in 0 .. n, k # 0, v[k - 1] \in Seq(X) PROVE v[k] \in Seq(X)
  <2>1. k \in 1 .. n /\ seq[k] \in X
    BY <1>1, <1>13, ElementOfSeq DEF n
  <2>2. Append(v[k - 1], seq[k]) \in Seq(X)
    BY <1>13, <2>1, AppendProperties
  <2> QED BY <1>12, <1>13, <2>1, <2>2
<1>14. \A k \in 0 .. n : v[k] \in Seq(X)
  BY <1>1, <1>11, <1>13, RecursionTyped
<1>15. v \in [0 .. n -> Seq(X)]
  BY <1>10, <1>14
<1> QED BY <1>8, <1>11, <1>12, <1>15 DEF KeepingStep, n

(* What is kept of a sequence is kept of every longer one.                  *)
LEMMA KeepingGrows ==
  ASSUME NEW X, NEW seq \in Seq(X), NEW S, NEW i \in 0 .. Len(seq)
  PROVE  IsPrefix(Keeping(seq, S)[i], Kept(seq, S))
<1> DEFINE n == Len(seq)
           f == Keeping(seq, S)
           T == {k \in Nat : f[i] = SubSeq(f[k], 1, Len(f[i])) /\ Len(f[i]) <= Len(f[k])}
<1>1. n \in Nat /\ i \in Nat /\ n \in i .. n
  BY LenProperties
<1>2. f \in [0 .. n -> Seq(X)] /\ KeepingStep(f, seq, S)
  BY KeepingIs
<1> HIDE DEF f
<1>3. \A k \in 0 .. n : f[k] \in Seq(X)
  BY <1>2
<1>4. i \in T
  <2>1. SubSeq(f[i], 1, Len(f[i])) = f[i]
    BY <1>3, SubSeqFull
  <2> QED BY <1>1, <1>3, <2>1, LenProperties
<1>5. ASSUME NEW k \in i .. n, k \in T, k < n PROVE k + 1 \in T
  <2>1. k + 1 \in 1 .. n /\ k \in 0 .. n /\ (k + 1) - 1 = k /\ k + 1 \in Nat
    BY <1>1, <1>5
  <2>2. seq[k + 1] \in X
    BY <2>1, ElementOfSeq
  <2>3. f[k] \in Seq(X) /\ f[i] \in Seq(X) /\ f[k + 1] \in Seq(X)
    BY <1>3, <2>1
  <2>4. f[k + 1] = f[k] \/ f[k + 1] = Append(f[k], seq[k + 1])
    BY <1>2, <2>1 DEF KeepingStep
  <2>5. CASE f[k + 1] = f[k]
    BY <1>5, <2>1, <2>5
  <2>6. CASE f[k + 1] = Append(f[k], seq[k + 1])
    <3>1. /\ Len(f[k + 1]) = Len(f[k]) + 1
          /\ \A j \in 1 .. Len(f[k]) : f[k + 1][j] = f[k][j]
      BY <2>2, <2>3, <2>6, AppendProperties
    <3>2. Len(f[i]) \in Nat /\ Len(f[k]) \in Nat /\ Len(f[i]) <= Len(f[k])
      BY <1>5, <2>3, LenProperties
    <3>3. SubSeq(f[k + 1], 1, Len(f[i])) = SubSeq(f[k], 1, Len(f[i]))
      BY <2>3, <3>1, <3>2
    <3> QED BY <1>5, <2>1, <3>1, <3>2, <3>3
  <2> QED BY <2>4, <2>5, <2>6
<1>6. \A k \in T : f[i] = SubSeq(f[k], 1, Len(f[i])) /\ Len(f[i]) <= Len(f[k])
  OBVIOUS
<1> HIDE DEF T
<1>7. i .. n \subseteq T
  BY <1>1, <1>4, <1>5, Induction
<1>8. f[i] = SubSeq(f[n], 1, Len(f[i])) /\ Len(f[i]) <= Len(f[n])
  BY <1>1, <1>6, <1>7
<1>9. SubSeq(f[i], 1, Len(f[i])) = f[i]
  BY <1>3, SubSeqFull
<1> QED BY <1>8, <1>9 DEF IsPrefix, Kept, f

----------------------------------------------------------------------------
(* C strings in the memory.                                                 *)
LEMMA CStringIs ==
  ASSUME NEW mem \in Texts, mem[Len(mem)] = NUL, NEW i \in 1 .. Len(mem)
  PROVE  \E end \in i .. Len(mem) :
           /\ mem[end] = NUL /\ \A k \in i .. end - 1 : mem[k] # NUL
           /\ CString(mem, i) = SubSeq(mem, i, end - 1)
<1> DEFINE Ends(j) == mem[j] = NUL /\ \A k \in i .. j - 1 : mem[k] # NUL
           T == {j \in i .. Len(mem) : mem[j] = NUL}
           v == CHOOSE j \in i .. Len(mem) : Ends(j)
<1>1. Len(mem) \in Nat
  BY LenProperties
<1>2. T \in SUBSET Nat /\ T # {}
  BY <1>1
<1>3. PICK x \in T : \A y \in T : x <= y
  BY <1>2, Least
<1>4. x \in i .. Len(mem) /\ Ends(x)
  BY <1>1, <1>3
<1>5. v \in i .. Len(mem) /\ Ends(v)
  BY <1>4
<1>6. CString(mem, i) = SubSeq(mem, i, v - 1)
  BY DEF CString
<1> HIDE DEF v
<1> QED BY <1>5, <1>6

(* The string at a place where a word lies begins with that word, and is the *)
(* word if a NUL follows it.                                                *)
Lies(mem, i, word) ==
  /\ i \in 1 .. Len(mem) /\ i + Len(word) <= Len(mem)
  /\ \A k \in 1 .. Len(word) : mem[i + k - 1] = word[k]

LEMMA CStringOfWord ==
  ASSUME NEW mem \in Texts, mem[Len(mem)] = NUL, NEW i, NEW word \in Strings,
         Lies(mem, i, word)
  PROVE  /\ CString(mem, i) \in Strings
         /\ IsPrefix(word, CString(mem, i))
         /\ mem[i + Len(word)] = NUL => CString(mem, i) = word
<1> DEFINE n == Len(mem)
           l == Len(word)
           c == CString(mem, i)
<1>1. n \in Nat /\ l \in Nat /\ i \in 1 .. n /\ i + l <= n
  BY LenProperties DEF Lies
<1>2. PICK end \in i .. n :
        /\ mem[end] = NUL /\ \A k \in i .. end - 1 : mem[k] # NUL
        /\ c = SubSeq(mem, i, end - 1)
  BY <1>1, CStringIs
<1>3. \A k \in 1 .. l : word[k] # NUL /\ word[k] \in Characters \ {NUL}
  BY ElementOfSeq
<1>4. ~(end < i + l)
  <2> SUFFICES ASSUME end < i + l PROVE FALSE
    OBVIOUS
  <2> DEFINE k == end - i + 1
  <2>1. k \in 1 .. l /\ i + k - 1 = end
    BY <1>1, <1>2
  <2> HIDE DEF k
  <2>2. mem[end] = word[k]
    BY <2>1 DEF Lies
  <2> QED BY <1>2, <1>3, <2>1, <2>2
<1>5. mem[i + l] = NUL => end = i + l
  <2> SUFFICES ASSUME mem[i + l] = NUL, i + l < end PROVE FALSE
    BY <1>1, <1>2, <1>4
  <2>1. i + l \in i .. end - 1
    BY <1>1, <1>2
  <2> QED BY <1>2, <2>1
<1> HIDE DEF c
<1>6. /\ Len(c) = end - i
      /\ \A k \in 1 .. end - i : c[k] = mem[i + k - 1]
  <2>1. i \in 1 .. n + 1 /\ end - 1 \in i - 1 .. n
    BY <1>1, <1>2
  <2> QED BY <1>1, <1>2, <2>1, SubSeqProperties
<1>7. c \in Strings
  <2>1. c \in Texts
    BY <1>1, <1>2, SubSeqProperties
  <2>2. \A k \in 1 .. Len(c) : c[k] \in Characters \ {NUL}
    <3> TAKE k \in 1 .. Len(c)
    <3>1. i + k - 1 \in i .. end - 1 /\ i + k - 1 \in 1 .. n /\ k \in 1 .. end - i
      BY <1>1, <1>2, <1>6
    <3>2. mem[i + k - 1] \in Characters
      BY <3>1, ElementOfSeq
    <3> QED BY <1>2, <1>6, <3>1, <3>2
  <2>3. c = [k \in 1 .. Len(c) |-> c[k]] /\ Len(c) \in Nat
    BY <2>1, LenProperties
  <2> QED BY <2>2, <2>3, IsASeq
<1>8. IsPrefix(word, c)
  <2>1. l <= Len(c)
    BY <1>1, <1>2, <1>4, <1>6
  <2>2. \A k \in 1 .. l : c[k] = word[k]
    <3> TAKE k \in 1 .. l
    <3>1. k \in 1 .. end - i
      BY <1>1, <1>2, <1>4
    <3> QED BY <1>6, <3>1 DEF Lies
  <2>3. SubSeq(c, 1, l) = SubSeq(word, 1, l)
    BY <1>1, <1>7, <2>1, <2>2
  <2> QED BY <2>1, <2>3 DEF IsPrefix
<1>9. ASSUME mem[i + l] = NUL PROVE c = word
  <2>1. Len(c) = l
    BY <1>1, <1>2, <1>5, <1>6, <1>9
  <2>2. \A k \in 1 .. l : c[k] = word[k]
    BY <1>1, <1>2, <1>5, <1>6, <1>9 DEF Lies
  <2> QED BY <1>7, <2>1, <2>2, SeqEqual
<1> QED BY <1>7, <1>8, <1>9 DEF c

----------------------------------------------------------------------------
(* What one node packs another unpacks.                                     *)
Joins(u, s, t) ==
  /\ Len(s) \in Nat /\ Len(t) \in Nat /\ Len(u) = Len(s) + Len(t)
  /\ \A i \in 1 .. Len(s) : u[i] = s[i]
  /\ \A i \in 1 .. Len(t) : u[Len(s) + i] = t[i]

LEMMA Concatenation ==
  ASSUME NEW X, NEW s \in Seq(X), NEW t \in Seq(X)
  PROVE  s \o t \in Seq(X) /\ Joins(s \o t, s, t)
  BY ConcatProperties, LenProperties DEF Joins

Flattens(flat, seqs, X) ==
  /\ flat \in [1 .. Len(seqs) -> Seq(X)]
  /\ flat[1] = seqs[1]
  /\ \A k \in 1 .. Len(seqs) : k # 1 => flat[k] = flat[k - 1] \o seqs[k]
  /\ FlattenSeq(seqs) = flat[Len(seqs)]

LEMMA Flattening ==
  ASSUME NEW X, NEW seqs \in Seq(Seq(X)), Len(seqs) # 0
  PROVE  \E flat : Flattens(flat, seqs, X)
<1> DEFINE m == Len(seqs)
           step == [p \in (1 .. m) \X Seq(X) |-> p[2] \o seqs[p[1]]]
           P(u) == u = [i \in 1 .. m |-> IF i = 1 THEN seqs[i] ELSE u[i - 1] \o seqs[i]]
           v == CHOOSE u : P(u)
<1>1. m \in Nat /\ 1 \in Nat /\ 1 <= m
  BY LenProperties
<1>2. \A k \in 1 .. m : seqs[k] \in Seq(X)
  BY ElementOfSeq
<1>3. step \in [(1 .. m) \X Seq(X) -> Seq(X)]
  BY <1>2, ConcatProperties
<1>4. \A k \in 1 .. m, t \in Seq(X) : step[<<k, t>>] = t \o seqs[k]
  OBVIOUS
<1> HIDE DEF step, m
<1>5. seqs[1] \in Seq(X)
  BY <1>1, <1>2
<1>6. PICK f : Recurs(f, 1, m, Seq(X), seqs[1], step)
  BY <1>1, <1>3, <1>5, Recursion
<1>7. \A k \in 1 .. m : k # 1 => f[k] = f[k - 1] \o seqs[k]
  <2>1. TAKE k \in 1 .. m
  <2>2. HAVE k # 1
  <2>3. k - 1 \in 1 .. m
    BY <1>1, <2>2
  <2>4. f[k - 1] \in Seq(X) /\ f[k] = step[<<k, f[k - 1]>>]
    BY <1>6, <2>2, <2>3 DEF Recurs
  <2> QED BY <1>4, <2>4
<1>8. P(f)
  <2>1. \A i \in 1 .. m : f[i] = IF i = 1 THEN seqs[i] ELSE f[i - 1] \o seqs[i]
    BY <1>6, <1>7 DEF Recurs
  <2>2. f = [i \in 1 .. m |-> f[i]]
    BY <1>6 DEF Recurs
  <2> QED BY <2>1, <2>2
<1>9. P(v)
  BY <1>8
<1>10. FlattenSeq(seqs) = v[m]
  BY DEF FlattenSeq, m
<1> HIDE DEF v
<1>11. v = [i \in 1 .. m |-> IF i = 1 THEN seqs[i] ELSE v[i - 1] \o seqs[i]]
  BY <1>9
<1> HIDE DEF P
<1>12. v = [k \in 1 .. m |-> v[k]]
  BY <1>11
<1>13. v[1] = seqs[1] /\ \A k \in 1 .. m : k # 1 => v[k] = v[k - 1] \o seqs[k]
  <2>1. \A k \in 1 .. m : v[k] = IF k = 1 THEN seqs[k] ELSE v[k - 1] \o seqs[k]
    BY <1>11
  <2>2. 1 \in 1 .. m
    BY <1>1
  <2> QED BY <2>1, <2>2
<1>14. ASSUME NEW k \in 1 .. m, k # 1, v[k - 1] \in Seq(X) PROVE v[k] \in Seq(X)
  <2>1. v[k] = v[k - 1] \o seqs[k] /\ seqs[k] \in Seq(X)
    BY <1>2, <1>13, <1>14
  <2> QED BY <1>14, <2>1, ConcatProperties
<1>15. \A k \in 1 .. m : v[k] \in Seq(X)
  BY <1>1, <1>5, <1>13, <1>14, RecursionTyped
<1>16. v \in [1 .. m -> Seq(X)]
  BY <1>12, <1>15
<1> QED BY <1>10, <1>13, <1>16 DEF m, Flattens

(* Where the elements of a packed text lie: off[k] is the place of the NUL   *)
(* behind element k.                                                        *)
Layout(off, text, strings) ==
  /\ off \in [0 .. Len(strings) -> Nat]
  /\ text \in Texts
  /\ off[0] = 0 /\ off[Len(strings)] = Len(text)
  /\ \A k \in 1 .. Len(strings) :
       /\ off[k] = off[k - 1] + Len(strings[k]) + 1
       /\ off[k] <= Len(text)
       /\ text[off[k]] = NUL
       /\ \A j \in 1 .. Len(strings[k]) : text[off[k - 1] + j] = strings[k][j]

LEMMA PackLayout ==
  ASSUME NEW strings \in Seq(Strings)
  PROVE  \E off : Layout(off, Pack(strings), strings)
<1> DEFINE m == Len(strings)
           seqs == [i \in 1 .. m |-> Append(strings[i], NUL)]
           text == Pack(strings)
<1>1. m \in Nat
  BY LenProperties
<1>2. \A k \in 1 .. m : strings[k] \in Strings /\ strings[k] \in Texts
  <2>1. \A k \in 1 .. m : strings[k] \in Strings
    BY ElementOfSeq
  <2>2. Strings \subseteq Texts
    BY SeqMonotonic
  <2> QED BY <2>1, <2>2
<1>3. NUL \in Characters
  BY CharactersAssumption
<1>4. \A k \in 1 .. m :
        /\ Append(strings[k], NUL) \in Texts
        /\ Len(Append(strings[k], NUL)) = Len(strings[k]) + 1
        /\ Append(strings[k], NUL)[Len(strings[k]) + 1] = NUL
        /\ \A j \in 1 .. Len(strings[k]) : Append(strings[k], NUL)[j] = strings[k][j]
  <2> TAKE k \in 1 .. m
  <2>1. strings[k] \in Seq(Characters)
    BY <1>2
  <2> HIDE DEF m
  <2> QED BY <1>3, <2>1, AppendProperties
<1>5. seqs \in Seq(Texts) /\ Len(seqs) = m
  BY <1>1, <1>4, IsASeq
<1>6. text = FlattenSeq(seqs)
  BY DEF Pack
<1>7. \A k \in 1 .. m : seqs[k] = Append(strings[k], NUL)
  OBVIOUS
<1>8. \A k \in 1 .. m : Len(strings[k]) \in Nat
  BY <1>2, LenProperties
<1>9. CASE m = 0
  <2>1. seqs = << >>
    BY <1>5, <1>9
  <2>2. text = << >>
    BY <1>5, <1>6, <1>9, <2>1 DEF FlattenSeq
  <2>3. Layout([k \in 0 .. m |-> 0], text, strings)
    BY <1>9, <2>2 DEF Layout
  <2> QED BY <2>3
<1>10. CASE m # 0
  <2> HIDE DEF seqs, text
  <2>0. PICK flat : Flattens(flat, seqs, Characters)
    BY <1>5, <1>10, Flattening
  <2>1. /\ flat \in [1 .. m -> Texts]
        /\ flat[1] = seqs[1]
        /\ \A k \in 1 .. m : k # 1 => flat[k] = flat[k - 1] \o seqs[k]
        /\ text = flat[m]
    BY <1>5, <1>6, <2>0 DEF Flattens
  <2> DEFINE off == [k \in 0 .. m |-> IF k = 0 THEN 0 ELSE Len(flat[k])]
             Prefix(i, k) == Len(flat[i]) <= Len(flat[k])
                               /\ \A j \in 1 .. Len(flat[i]) : flat[k][j] = flat[i][j]
  <2>2. \A k \in 1 .. m : flat[k] \in Texts /\ Len(flat[k]) \in Nat
    BY <2>1, LenProperties
  <2>3. \A k \in 1 .. m : seqs[k] \in Texts /\ Len(seqs[k]) = Len(strings[k]) + 1
    BY <1>4, <1>7
  <2>4. /\ off \in [0 .. m -> Nat] /\ off[0] = 0 /\ off[m] = Len(text)
        /\ \A k \in 1 .. m : off[k] = Len(flat[k])
    <3>1. \A k \in 0 .. m : k # 0 => k \in 1 .. m
      BY <1>1
    <3>2. m \in 1 .. m /\ 0 \in 0 .. m /\ \A k \in 1 .. m : k # 0 /\ k \in 0 .. m
      BY <1>1, <1>10
    <3> QED BY <2>1, <2>2, <3>1, <3>2
  <2> HIDE DEF off, m
  <2>5. ASSUME NEW k \in 1 .. m
        PROVE  /\ off[k] = off[k - 1] + Len(strings[k]) + 1
               /\ flat[k][off[k]] = NUL
               /\ \A j \in 1 .. Len(strings[k]) : flat[k][off[k - 1] + j] = strings[k][j]
    <3>1. CASE k = 1
      <4>1. flat[k] = Append(strings[k], NUL)
        BY <1>7, <2>1, <3>1
      <4>2. off[k] = Len(strings[k]) + 1 /\ off[k - 1] = 0
        BY <1>4, <2>4, <3>1, <4>1
      <4> QED BY <1>4, <1>8, <4>1, <4>2
    <3>2. CASE k # 1
      <4>1. k - 1 \in 1 .. m /\ k \in Nat
        BY <1>1, <3>2
      <4>2. flat[k] = flat[k - 1] \o seqs[k]
        BY <2>1, <3>2
      <4>3. off[k - 1] = Len(flat[k - 1]) /\ off[k] = Len(flat[k])
        BY <2>4, <4>1
      <4>4. flat[k - 1] \in Seq(Characters) /\ seqs[k] \in Seq(Characters)
        BY <2>2, <2>3, <4>1
      <4>5. /\ Len(flat[k - 1]) \in Nat /\ Len(flat[k]) = Len(flat[k - 1]) + Len(seqs[k])
            /\ \A j \in 1 .. Len(seqs[k]) : flat[k][Len(flat[k - 1]) + j] = seqs[k][j]
        <5>1. Joins(flat[k], flat[k - 1], seqs[k])
          BY <4>2, <4>4, Concatenation
        <5> QED BY <5>1 DEF Joins
      <4>6. off[k] = off[k - 1] + (Len(strings[k]) + 1)
        BY <2>3, <4>3, <4>5
      <4>7. flat[k][off[k]] = seqs[k][Len(strings[k]) + 1]
        <5>1. Len(strings[k]) + 1 \in 1 .. Len(seqs[k])
          BY <1>8, <2>3
        <5> QED BY <4>3, <4>5, <4>6, <5>1
      <4>9. \A j \in 1 .. Len(strings[k]) : flat[k][off[k - 1] + j] = seqs[k][j]
        <5>1. \A j \in 1 .. Len(strings[k]) : j \in 1 .. Len(seqs[k])
          BY <1>8, <2>3
        <5> QED BY <4>3, <4>5, <5>1
      <4>10. off[k] = off[k - 1] + Len(strings[k]) + 1
        <5>1. \A a, b, c \in Nat : a = b + (c + 1) => a = b + c + 1
          OBVIOUS
        <5>2. off[k] \in Nat /\ off[k - 1] \in Nat /\ Len(strings[k]) \in Nat
          BY <1>1, <1>8, <2>4
        <5> QED BY <4>6, <5>1, <5>2
      <4> QED BY <1>4, <1>7, <4>7, <4>9, <4>10
    <3> QED BY <3>1, <3>2
  <2>6. ASSUME NEW i \in 1 .. m PROVE Prefix(i, m)
    <3> DEFINE T == {k \in Nat : Prefix(i, k)}
    <3>1. i \in T
      BY <1>1, <2>2
    <3>2. ASSUME NEW k \in i .. m, k \in T, k < m PROVE k + 1 \in T
      <4>1. k \in 1 .. m /\ k + 1 \in 1 .. m /\ k + 1 # 1 /\ (k + 1) - 1 = k /\ k + 1 \in Nat
        BY <1>1, <3>2
      <4>2. flat[k + 1] = flat[k] \o seqs[k + 1]
        BY <2>1, <4>1
      <4>3. flat[k] \in Seq(Characters) /\ seqs[k + 1] \in Seq(Characters)
        BY <2>2, <2>3, <4>1
      <4>4. /\ Len(flat[k]) \in Nat /\ Len(seqs[k + 1]) \in Nat
            /\ Len(flat[k + 1]) = Len(flat[k]) + Len(seqs[k + 1])
            /\ \A j \in 1 .. Len(flat[k]) : flat[k + 1][j] = flat[k][j]
        <5>1. Joins(flat[k + 1], flat[k], seqs[k + 1])
          BY <4>2, <4>3, Concatenation
        <5> QED BY <5>1 DEF Joins
      <4>5. Len(flat[i]) \in Nat /\ Len(flat[i]) <= Len(flat[k])
        BY <2>2, <3>2
      <4>6. Len(flat[i]) <= Len(flat[k + 1])
        <5>1. \A a, b, c \in Nat : a <= b => a <= b + c
          OBVIOUS
        <5> QED BY <4>4, <4>5, <5>1
      <4>7. \A j \in 1 .. Len(flat[i]) : flat[k + 1][j] = flat[i][j]
        BY <3>2, <4>4, <4>5
      <4> QED BY <4>1, <4>6, <4>7
    <3>3. \A k \in T : Prefix(i, k)
      OBVIOUS
    <3>4. m \in i .. m /\ i \in Nat
      BY <1>1
    <3> HIDE DEF T
    <3>5. i .. m \subseteq T
      BY <1>1, <3>1, <3>2, <3>4, Induction
    <3> QED BY <3>3, <3>4, <3>5
  <2>7. ASSUME NEW k \in 1 .. m
        PROVE  /\ off[k] <= Len(text) /\ text[off[k]] = NUL
               /\ \A j \in 1 .. Len(strings[k]) : text[off[k - 1] + j] = strings[k][j]
    <3>1. off[k - 1] \in Nat /\ off[k] \in Nat /\ Len(strings[k]) \in Nat
      BY <1>1, <1>8, <2>4
    <3>2. off[k] = off[k - 1] + Len(strings[k]) + 1 /\ off[k] = Len(flat[k])
      BY <2>4, <2>5
    <3>3. off[k] \in 1 .. Len(flat[k])
      BY <3>1, <3>2
    <3>4. \A j \in 1 .. Len(strings[k]) : off[k - 1] + j \in 1 .. Len(flat[k])
      BY <3>1, <3>2
    <3>5. Len(flat[k]) <= Len(text) /\ \A j \in 1 .. Len(flat[k]) : text[j] = flat[k][j]
      BY <2>1, <2>6
    <3> QED BY <2>5, <3>2, <3>3, <3>4, <3>5
  <2>8. text \in Texts
    BY <1>1, <1>10, <2>1
  <2>9. Layout(off, text, strings)
    BY <2>4, <2>5, <2>7, <2>8 DEF Layout, m
  <2> QED BY <2>9 DEF text
<1> QED BY <1>9, <1>10

(* The NULs of a packed text are the ends of its elements ...               *)
LEMMA PackedNULs ==
  ASSUME NEW strings \in Seq(Strings), NEW off, NEW text, Layout(off, text, strings)
  PROVE  NULs(text) = [k \in 1 .. Len(strings) |-> off[k]]
<1> DEFINE m == Len(strings)
           n == Len(text)
           idx == [i \in 1 .. n |-> i]
           S == {i \in 1 .. n : text[i] = NUL}
           f == Keeping(idx, S)
           Ends(k) == [i \in 1 .. k |-> off[i]]
           T == {k \in Nat : f[off[k]] = Ends(k)}
<1>1. m \in Nat /\ n \in Nat
  BY LenProperties DEF Layout
<1>2. idx \in Seq(Nat) /\ Len(idx) = n
  BY <1>1, IsASeq
<1>3. f[0] = << >> /\ KeepingStep(f, idx, S)
  BY <1>2, KeepingIs
<1>4. \A p \in 1 .. n :
        f[p] = IF text[p] = NUL THEN Append(f[p - 1], p) ELSE f[p - 1]
  BY <1>2, <1>3 DEF KeepingStep
<1>5. NULs(text) = f[n]
  BY <1>2 DEF NULs, Kept
<1> HIDE DEF f, m, n
<1>6. 0 \in T
  <2>1. Ends(0) = << >>
    OBVIOUS
  <2>2. off[0] = 0
    BY DEF Layout
  <2> QED BY <1>3, <2>1, <2>2
<1>7. ASSUME NEW k \in 0 .. m, k \in T, k < m PROVE k + 1 \in T
  <2> DEFINE lo == off[k]
             l == Len(strings[k + 1])
             Q == {p \in Nat : f[p] = f[lo]}
  <2>1. k + 1 \in 1 .. m /\ (k + 1) - 1 = k /\ k \in Nat /\ k + 1 \in Nat
    BY <1>1, <1>7
  <2>2. strings[k + 1] \in Strings /\ l \in Nat
    BY <2>1, ElementOfSeq, LenProperties DEF m
  <2>3. lo \in Nat /\ off[k + 1] \in Nat
    BY <1>1, <1>7, <2>1 DEF Layout, m
  <2>4. /\ off[k + 1] = lo + l + 1 /\ off[k + 1] <= n /\ text[off[k + 1]] = NUL
        /\ \A j \in 1 .. l : text[lo + j] = strings[k + 1][j]
    BY <2>1 DEF Layout, m, n
  <2> HIDE DEF lo, l
  <2>5. \A j \in 1 .. l : text[lo + j] # NUL
    <3> TAKE j \in 1 .. l
    <3>1. strings[k + 1][j] \in Characters \ {NUL}
      BY <2>2, ElementOfSeq DEF l
    <3> QED BY <2>4, <3>1
  <2>6. lo \in Q
    BY <2>3
  <2>7. ASSUME NEW p \in lo .. lo + l, p \in Q, p < lo + l PROVE p + 1 \in Q
    <3>1. p + 1 \in 1 .. n /\ (p + 1) - 1 = p /\ p + 1 \in Nat
      BY <1>1, <2>2, <2>3, <2>4, <2>7
    <3>2. p + 1 - lo \in 1 .. l /\ lo + (p + 1 - lo) = p + 1
      BY <2>2, <2>3, <2>7
    <3>3. text[p + 1] # NUL
      BY <2>5, <3>2
    <3> QED BY <1>4, <2>7, <3>1, <3>3
  <2>8. \A p \in Q : f[p] = f[lo]
    OBVIOUS
  <2> HIDE DEF Q
  <2>9. lo .. lo + l \subseteq Q
    <3>1. lo + l \in Nat
      BY <2>2, <2>3
    <3>2. \A p \in lo .. lo + l : p \in Q /\ p < lo + l => p + 1 \in Q
      BY <2>7
    <3> QED BY <2>3, <2>6, <3>1, <3>2, Induction
  <2>10. f[lo + l] = Ends(k)
    <3>1. lo + l \in lo .. lo + l
      BY <2>2, <2>3
    <3> QED BY <1>7, <2>8, <2>9, <3>1 DEF lo
  <2>11. f[off[k + 1]] = Append(Ends(k), off[k + 1])
    <3> DEFINE p == off[k + 1]
    <3>1. p \in 1 .. n /\ p - 1 = lo + l /\ text[p] = NUL
      BY <1>1, <2>2, <2>3, <2>4
    <3> HIDE DEF p
    <3>2. f[p] = Append(f[p - 1], p)
      BY <1>4, <3>1
    <3>3. f[p] = Append(Ends(k), p)
      BY <2>10, <3>1, <3>2
    <3> QED BY <3>3 DEF p
  <2>12. Append(Ends(k), off[k + 1]) = Ends(k + 1)
    <3>1. \A i \in 1 .. k + 1 : off[i] \in Nat
      <4>1. \A i \in 1 .. k + 1 : i \in 0 .. m
        BY <1>1, <1>7
      <4>2. off \in [0 .. m -> Nat]
        BY DEF Layout, m
      <4> QED BY <4>1, <4>2
    <3>2. Ends(k) \in Seq(Nat) /\ Len(Ends(k)) = k
      BY <2>1, <3>1, IsASeq
    <3>3. Ends(k + 1) \in Seq(Nat) /\ Len(Ends(k + 1)) = k + 1
      BY <2>1, <3>1, IsASeq
    <3> DEFINE a == Append(Ends(k), off[k + 1])
    <3>4. /\ a \in Seq(Nat) /\ Len(a) = k + 1 /\ a[k + 1] = off[k + 1]
          /\ \A i \in 1 .. k : a[i] = off[i]
      BY <2>3, <3>2, AppendProperties
    <3> HIDE DEF a
    <3>5. \A i \in 1 .. k + 1 : a[i] = Ends(k + 1)[i]
      BY <2>1, <3>4
    <3>6. a = Ends(k + 1)
      BY <3>3, <3>4, <3>5, SeqEqual
    <3> QED BY <3>6 DEF a
  <2> QED BY <2>1, <2>11, <2>12
<1>8. \A k \in T : f[off[k]] = Ends(k)
  OBVIOUS
<1> HIDE DEF T
<1>9. 0 .. m \subseteq T
  <2>1. 0 \in Nat /\ \A k \in 0 .. m : k \in T /\ k < m => k + 1 \in T
    BY <1>7
  <2> QED BY <1>1, <1>6, <2>1, Induction
<1>10. f[off[m]] = Ends(m)
  <2>1. m \in 0 .. m
    BY <1>1
  <2>2. m \in T
    BY <1>9, <2>1
  <2> QED BY <1>8, <2>2
<1>11. off[m] = n
  BY DEF Layout, m, n
<1> QED BY <1>5, <1>10, <1>11 DEF m

(* UnpackPack: what the constructors of CmdLineArgs and Environment unpack is  *)
(* what their Inits packed, for every vector of strings, empty ones included. *)
THEOREM UnpackPack ==
  ASSUME NEW strings \in Seq(Strings)
  PROVE  Unpack(Pack(strings)) = strings
<1> DEFINE m == Len(strings)
           text == Pack(strings)
           nuls == NULs(text)
           rest == [j \in 1 .. m - 1 |-> nuls[j] + 1]
<1>1. PICK off : Layout(off, text, strings)
  BY PackLayout
<1>2. nuls = [k \in 1 .. m |-> off[k]]
  BY <1>1, PackedNULs
<1>3. m \in Nat
  BY LenProperties
<1>4. \A k \in 0 .. m : off[k] \in Nat
  BY <1>1 DEF Layout
<1>5. nuls \in Seq(Nat) /\ Len(nuls) = m
  BY <1>2, <1>3, <1>4, IsASeq
<1>6. Pointers(text) = <<1>> \o rest
  BY <1>5 DEF Pointers
<1> HIDE DEF m, text, nuls
<1>7. ASSUME NEW j \in 1 .. m PROVE Pointers(text)[j] = off[j - 1] + 1
  <2>1. <<1>> \in Seq(Nat) /\ Len(<<1>>) = 1 /\ <<1>>[1] = 1
    OBVIOUS
  <2>2. rest \in Seq(Nat) /\ Len(rest) = m - 1
    <3>1. m - 1 \in Nat /\ \A i \in 1 .. m - 1 : nuls[i] + 1 \in Nat
      BY <1>2, <1>3, <1>4
    <3> QED BY <3>1, IsASeq
  <2>3. Joins(Pointers(text), <<1>>, rest)
    BY <1>6, <2>1, <2>2, Concatenation
  <2>4. CASE j = 1
    <3>1. Pointers(text)[1] = 1
      BY <2>1, <2>3 DEF Joins
    <3>2. off[0] = 0
      BY <1>1 DEF Layout
    <3> QED BY <2>4, <3>1, <3>2
  <2>5. CASE j # 1
    <3>1. j - 1 \in 1 .. m - 1 /\ 1 + (j - 1) = j /\ j - 1 \in 1 .. m
      BY <1>3, <2>5
    <3>2. Pointers(text)[1 + (j - 1)] = rest[j - 1]
      BY <2>1, <2>2, <2>3, <3>1 DEF Joins
    <3>3. rest[j - 1] = off[j - 1] + 1
      BY <1>2, <3>1
    <3> QED BY <3>1, <3>2, <3>3
  <2> QED BY <2>4, <2>5
<1>8. ASSUME NEW j \in 1 .. m PROVE CString(text, Pointers(text)[j]) = strings[j]
  <2> DEFINE w == strings[j]
             i == off[j - 1] + 1
  <2>1. w \in Strings /\ Len(w) \in Nat
    BY ElementOfSeq, LenProperties DEF m
  <2>2. off[j - 1] \in Nat /\ off[j] \in Nat /\ i \in Nat
    BY <1>3, <1>4
  <2>3. /\ text \in Texts /\ Len(text) = off[m]
        /\ off[j] = off[j - 1] + Len(w) + 1 /\ off[j] <= Len(text)
        /\ text[off[j]] = NUL /\ \A k \in 1 .. Len(w) : text[off[j - 1] + k] = w[k]
    BY <1>1 DEF Layout, m
  <2>4. text[Len(text)] = NUL
    <3>1. m \in 1 .. m
      BY <1>3
    <3> QED BY <1>1, <2>3, <3>1 DEF Layout, m
  <2>5. Len(text) \in Nat
    BY <2>3, LenProperties
  <2>6. i + Len(w) = off[j]
    <3>1. \A a, b \in Nat : a + 1 + b = a + b + 1
      OBVIOUS
    <3> QED BY <2>1, <2>2, <2>3, <3>1
  <2>7. i \in 1 .. Len(text) /\ i + Len(w) <= Len(text)
    <3>1. \A a, b, c, d \in Nat : c = a + b + 1 /\ c <= d => a + 1 \in 1 .. d /\ a + 1 + b <= d
      OBVIOUS
    <3> QED BY <2>1, <2>2, <2>3, <2>5, <3>1
  <2>8. \A k \in 1 .. Len(w) : text[i + k - 1] = w[k]
    <3> TAKE k \in 1 .. Len(w)
    <3>1. i + k - 1 = off[j - 1] + k
      BY <2>2
    <3> QED BY <2>3, <3>1
  <2> HIDE DEF w, i
  <2>9. Lies(text, i, w)
    BY <2>7, <2>8 DEF Lies
  <2>10. CString(text, i) = w
    BY <2>1, <2>3, <2>4, <2>6, <2>9, CStringOfWord
  <2> QED BY <1>7, <2>10 DEF w, i
<1>9. Unpack(text) = [j \in 1 .. m |-> strings[j]]
  BY <1>5, <1>8 DEF Unpack, nuls
<1> QED BY <1>9 DEF m, text

----------------------------------------------------------------------------
(* Whatever the arguments, getopt returns options.                          *)
Wants == Valued \cup {""}
GetoptState == [opts : Seq(Options), wants : Wants, over : BOOLEAN]

LEMMA ClusterTyped ==
  ASSUME NEW chars \in Strings
  PROVE  Cluster(chars).opts \in Seq(Options) /\ Cluster(chars).wants \in Wants
<1> DEFINE valued == {i \in 1 .. Len(chars) : chars[i] \in Valued}
           last == IF valued = {} THEN 0 ELSE Min(valued)
           upTo == IF last = 0 THEN chars ELSE SubSeq(chars, 1, last)
           opts == [i \in 1 .. Len(upTo) |-> IF upTo[i] \in Flags \cup Valued THEN upTo[i] ELSE "?"]
<1>1. Len(chars) \in Nat
  BY LenProperties
<1>2. last # 0 => last \in valued
  <2> SUFFICES ASSUME valued # {} PROVE Min(valued) \in valued
    OBVIOUS
  <2>1. valued \in SUBSET Nat
    BY <1>1
  <2>2. \E x \in valued : \A y \in valued : x <= y
    BY <2>1, Least
  <2> HIDE DEF valued
  <2> QED BY <2>2 DEF Min
<1>3. upTo \in Strings
  <2>1. CASE last = 0
    BY <2>1
  <2>2. CASE last # 0
    <3>1. last \in 1 .. Len(chars)
      BY <1>2, <2>2
    <3> HIDE DEF last
    <3>2. \A i \in 1 .. last : chars[i] \in Characters \ {NUL}
      <4>1. \A i \in 1 .. last : i \in 1 .. Len(chars)
        BY <1>1, <3>1
      <4> QED BY <4>1, ElementOfSeq
    <3>3. 1 \in Int /\ last \in Int
      BY <1>1, <3>1
    <3>4. SubSeq(chars, 1, last) \in Strings
      BY <3>2, <3>3, SubSeqProperties
    <3> QED BY <2>2, <3>4
  <2> QED BY <2>1, <2>2
<1> HIDE DEF upTo
<1>4. opts \in Seq(Options)
  <2>1. Len(upTo) \in Nat
    BY <1>3, LenProperties
  <2>2. \A i \in 1 .. Len(upTo) :
          (IF upTo[i] \in Flags \cup Valued THEN upTo[i] ELSE "?") \in Options
    BY DEF Options
  <2> QED BY <2>1, <2>2, IsASeq
<1> HIDE DEF opts
<1>5. Front(opts) \in Seq(Options)
  <2>1. Len(opts) \in Nat
    BY <1>4, LenProperties
  <2>2. \A i \in 1 .. Len(opts) - 1 : opts[i] \in Options
    <3>1. \A i \in 1 .. Len(opts) - 1 : i \in 1 .. Len(opts)
      BY <2>1
    <3> QED BY <1>4, <3>1, ElementOfSeq
  <2>3. 1 \in Int /\ Len(opts) - 1 \in Int
    BY <2>1
  <2> QED BY <2>2, <2>3, SubSeqProperties DEF Front
<1>6. last # 0 /\ last = Len(chars) => Last(chars) \in Valued
  BY <1>2 DEF Last
<1>7. Cluster(chars) = IF last # 0 /\ last = Len(chars)
                         THEN [opts |-> Front(opts), wants |-> Last(chars)]
                         ELSE [opts |-> opts, wants |-> ""]
  BY DEF Cluster, opts, upTo
<1> HIDE DEF last
<1>8. CASE last # 0 /\ last = Len(chars)
  <2>1. Cluster(chars) = [opts |-> Front(opts), wants |-> Last(chars)]
    BY <1>7, <1>8
  <2>2. Cluster(chars).opts = Front(opts) /\ Cluster(chars).wants = Last(chars)
    BY <2>1
  <2>3. Last(chars) \in Valued
    BY <1>6, <1>8
  <2> QED BY <1>5, <2>2, <2>3 DEF Wants
<1>9. CASE ~(last # 0 /\ last = Len(chars))
  <2>1. Cluster(chars) = [opts |-> opts, wants |-> ""]
    BY <1>7, <1>9
  <2>2. \A k, o, w : k = [opts |-> o, wants |-> w] => k.opts = o /\ k.wants = w
    OBVIOUS
  <2>3. Cluster(chars).opts = opts /\ Cluster(chars).wants = ""
    BY <2>1, <2>2
  <2> QED BY <1>4, <2>3 DEF Wants
<1> QED BY <1>8, <1>9

LEMMA GetoptElementTyped ==
  ASSUME NEW g \in GetoptState, NEW element \in Strings
  PROVE  GetoptElement(g, element) \in GetoptState
<1> DEFINE k == Cluster(Tail(element))
<1>1. g.opts \in Seq(Options) /\ g.wants \in Wants
  BY DEF GetoptState
<1>2. CASE g.over
  BY <1>2 DEF GetoptElement
<1>3. CASE ~g.over /\ g.wants # ""
  <2>1. g.wants \in Options
    BY <1>1, <1>3 DEF Wants, Options
  <2>2. Append(g.opts, g.wants) \in Seq(Options)
    BY <1>1, <2>1, AppendProperties
  <2>3. GetoptElement(g, element) = [g EXCEPT !.opts = Append(g.opts, g.wants), !.wants = ""]
    BY <1>3 DEF GetoptElement
  <2> QED BY <2>2, <2>3 DEF GetoptState, Wants
<1>4. CASE ~g.over /\ g.wants = "" /\ element = <<"-", "-">>
  <2>1. GetoptElement(g, element) = [g EXCEPT !.over = TRUE]
    BY <1>4 DEF GetoptElement
  <2> QED BY <2>1 DEF GetoptState
<1>5. CASE /\ ~g.over /\ g.wants = "" /\ element # <<"-", "-">>
           /\ Len(element) > 1 /\ Head(element) = "-"
  <2>1. element # << >>
    <3>1. Len(<< >>) = 0
      OBVIOUS
    <3>2. Len(element) > 1
      BY <1>5
    <3> QED BY <3>1, <3>2
  <2>2. Tail(element) \in Strings
    BY <2>1, HeadTailProperties
  <2>3. k.opts \in Seq(Options) /\ k.wants \in Wants
    BY <2>2, ClusterTyped
  <2>4. g.opts \o k.opts \in Seq(Options)
    BY <1>1, <2>3, ConcatProperties
  <2>5. GetoptElement(g, element) = [g EXCEPT !.opts = g.opts \o k.opts, !.wants = k.wants]
    BY <1>5 DEF GetoptElement
  <2> HIDE DEF k
  <2> QED BY <2>3, <2>4, <2>5 DEF GetoptState
<1>6. CASE /\ ~g.over /\ g.wants = "" /\ element # <<"-", "-">>
           /\ ~(Len(element) > 1 /\ Head(element) = "-")
  BY <1>6 DEF GetoptElement
<1> QED BY <1>2, <1>3, <1>4, <1>5, <1>6

(* Whatever the elements are, getopt returns options.                        *)
LEMMA GetoptTyped ==
  ASSUME NEW argv \in Seq(Strings)
  PROVE  Getopt(argv) \in Seq(Options)
<1> DEFINE n == Len(argv)
           step == [p \in (0 .. n) \X GetoptState |->
                      IF p[1] <= 1 THEN GetoptStart ELSE GetoptElement(p[2], argv[p[1]])]
           P(u) == u = [i \in 0 .. n |->
                          IF i <= 1 THEN GetoptStart ELSE GetoptElement(u[i - 1], argv[i])]
           v == CHOOSE u : P(u)
<1>1. n \in Nat /\ 0 \in Nat /\ 0 <= n
  BY LenProperties
<1>2. GetoptStart \in GetoptState
  BY EmptySeq DEF GetoptStart, GetoptState, Wants
<1>3. \A k \in 0 .. n, g \in GetoptState : ~(k <= 1) => GetoptElement(g, argv[k]) \in GetoptState
  <2>1. \A k \in 0 .. n : ~(k <= 1) => argv[k] \in Strings
    <3>1. \A k \in 0 .. n : ~(k <= 1) => k \in 1 .. n
      BY <1>1
    <3> QED BY <3>1, ElementOfSeq
  <2> QED BY <2>1, GetoptElementTyped
<1> HIDE DEF n
<1>4. step \in [(0 .. n) \X GetoptState -> GetoptState]
  BY <1>2, <1>3
<1>5. \A k \in 0 .. n, g \in GetoptState :
        step[<<k, g>>] = IF k <= 1 THEN GetoptStart ELSE GetoptElement(g, argv[k])
  OBVIOUS
<1> HIDE DEF step
<1>6. PICK f : Recurs(f, 0, n, GetoptState, GetoptStart, step)
  BY <1>1, <1>2, <1>4, Recursion
<1>7. P(f)
  <2>1. ASSUME NEW i \in 0 .. n
        PROVE  f[i] = IF i <= 1 THEN GetoptStart ELSE GetoptElement(f[i - 1], argv[i])
    <3>1. CASE i = 0
      BY <1>6, <3>1 DEF Recurs
    <3>2. CASE i # 0
      <4>1. i - 1 \in 0 .. n
        BY <1>1, <3>2
      <4>2. f[i - 1] \in GetoptState /\ f[i] = step[<<i, f[i - 1]>>]
        BY <1>6, <3>2, <4>1 DEF Recurs
      <4> QED BY <1>5, <4>2
    <3> QED BY <3>1, <3>2
  <2>2. f = [i \in 0 .. n |-> f[i]]
    BY <1>6 DEF Recurs
  <2> QED BY <2>1, <2>2
<1>8. P(v)
  BY <1>7
<1>9. GetoptTo(argv) = v
  BY DEF GetoptTo, n
<1> HIDE DEF v
<1>10. v = [i \in 0 .. n |->
              IF i <= 1 THEN GetoptStart ELSE GetoptElement(v[i - 1], argv[i])]
  BY <1>8
<1> HIDE DEF P
<1>11. \A i \in 0 .. n : v[i] = IF i <= 1 THEN GetoptStart ELSE GetoptElement(v[i - 1], argv[i])
  BY <1>10
<1>12. v[0] \in GetoptState
  <2>1. 0 \in 0 .. n
    BY <1>1
  <2> QED BY <1>2, <1>11, <2>1
<1>13. ASSUME NEW k \in 0 .. n, k # 0, v[k - 1] \in GetoptState PROVE v[k] \in GetoptState
  BY <1>2, <1>3, <1>11, <1>13
<1>14. \A k \in 0 .. n : v[k] \in GetoptState
  BY <1>1, <1>12, <1>13, RecursionTyped
<1> DEFINE g == v[n]
<1>15. g \in GetoptState
  BY <1>1, <1>14
<1>16. Getopt(argv) = IF g.wants = "" THEN g.opts ELSE Append(g.opts, "?")
  BY <1>9 DEF Getopt, n
<1> HIDE DEF g
<1>17. g.opts \in Seq(Options) /\ "?" \in Options
  BY <1>15 DEF GetoptState, Options
<1>18. Append(g.opts, "?") \in Seq(Options)
  BY <1>17, AppendProperties
<1> QED BY <1>16, <1>17, <1>18

----------------------------------------------------------------------------
(* What a line means, character by character.                               *)
ReadState ==
  [words : Seq(Strings), word : Strings, inside : BOOLEAN, escaped : BOOLEAN,
   mode : {"plain", "raw", "cooked"}, shrunk : BOOLEAN]

Symbols == Characters \ {NUL}

LEMMA SymbolsAre ==
  /\ {Quote, DQuote, Escape} \cup Separators \subseteq Symbols
  /\ \A c \in Symbols : EscapeConvt(c) \in Symbols
<1>1. {NUL, Quote, DQuote, Escape} \cup Separators \subseteq Characters
  BY CharactersAssumption
<1>2. Quote # NUL /\ DQuote # NUL /\ Escape # NUL /\ NUL \notin Separators
  BY DEF Quote, DQuote, Escape, NUL, Separators, Spaces
<1>3. ASSUME NEW c \in Symbols PROVE EscapeConvt(c) \in Symbols
  <2>1. EscapeConvt(c) \in {c} \cup Separators
    BY DEF EscapeConvt, Separators, Spaces
  <2> QED BY <1>1, <1>2, <2>1 DEF Symbols
<1> QED BY <1>1, <1>2, <1>3 DEF Symbols

LEMMA OneSymbol ==
  ASSUME NEW c \in Symbols
  PROVE  /\ <<c>> \in Strings /\ Len(<<c>>) = 1 /\ <<c>>[1] = c
         /\ \A d \in Symbols :
              <<d, c>> \in Strings /\ Len(<<d, c>>) = 2 /\ <<d, c>>[1] = d /\ <<d, c>>[2] = c
BY DEF Symbols

LEMMA AddTyped ==
  ASSUME NEW r \in ReadState, NEW text \in Strings
  PROVE  Add(r, text) \in ReadState
<1>1. r.word \o text \in Strings
  BY ConcatProperties DEF ReadState
<1> QED BY <1>1 DEF Add, ReadState

LEMMA MeaningTyped ==
  ASSUME NEW r \in ReadState, NEW c \in Symbols
  PROVE  Meaning(r, c) \in ReadState
<1>1. /\ Add(r, <<c>>) \in ReadState /\ Add(r, <<Escape, c>>) \in ReadState
      /\ Add(r, <<EscapeConvt(c)>>) \in ReadState
  BY SymbolsAre, OneSymbol, AddTyped
<1>2. \A mode \in {"plain", "raw", "cooked"} : Quoted(r, mode) \in ReadState
  BY DEF Quoted, ReadState
<1>3. EndWord(r) \in ReadState
  <2>1. Append(r.words, r.word) \in Seq(Strings) /\ << >> \in Strings
    BY AppendProperties, EmptySeq DEF ReadState
  <2> QED BY <2>1 DEF EndWord, ReadState
<1>4. [r EXCEPT !.escaped = TRUE, !.inside = TRUE, !.shrunk = TRUE] \in ReadState
  BY DEF ReadState
<1>5. r.mode \in {"plain", "raw", "cooked"}
  BY DEF ReadState
<1> QED BY <1>1, <1>2, <1>3, <1>4, <1>5 DEF Meaning

LEMMA ReadingIs ==
  ASSUME NEW line \in Strings
  PROVE  /\ \A k \in 0 .. Len(line) : Reading(line)[k] \in ReadState
         /\ Reading(line)[0] = NothingRead
         /\ \A k \in 1 .. Len(line) :
              line[k] \in Symbols /\ Reading(line)[k] = Meaning(Reading(line)[k - 1], line[k])
<1> DEFINE n == Len(line)
           step == [p \in (0 .. n) \X ReadState |->
                      IF p[1] = 0 THEN NothingRead ELSE Meaning(p[2], line[p[1]])]
           P(u) == u = [i \in 0 .. n |->
                          IF i = 0 THEN NothingRead ELSE Meaning(u[i - 1], line[i])]
           v == CHOOSE u : P(u)
<1>1. n \in Nat /\ 0 \in Nat /\ 0 <= n
  BY LenProperties
<1>2. NothingRead \in ReadState
  BY EmptySeq DEF NothingRead, ReadState
<1>3. \A k \in 0 .. n : k # 0 => line[k] \in Symbols
  <2>1. \A k \in 0 .. n : k # 0 => k \in 1 .. n
    BY <1>1
  <2> QED BY <2>1, ElementOfSeq DEF Symbols
<1> HIDE DEF n
<1>4. step \in [(0 .. n) \X ReadState -> ReadState]
  BY <1>2, <1>3, MeaningTyped
<1>5. \A k \in 0 .. n, r \in ReadState :
        step[<<k, r>>] = IF k = 0 THEN NothingRead ELSE Meaning(r, line[k])
  OBVIOUS
<1> HIDE DEF step
<1>6. PICK f : Recurs(f, 0, n, ReadState, NothingRead, step)
  BY <1>1, <1>2, <1>4, Recursion
<1>7. P(f)
  <2>1. ASSUME NEW i \in 0 .. n
        PROVE  f[i] = IF i = 0 THEN NothingRead ELSE Meaning(f[i - 1], line[i])
    <3>1. CASE i = 0
      BY <1>6, <3>1 DEF Recurs
    <3>2. CASE i # 0
      <4>1. i - 1 \in 0 .. n
        BY <1>1, <3>2
      <4>2. f[i - 1] \in ReadState /\ f[i] = step[<<i, f[i - 1]>>]
        BY <1>6, <3>2, <4>1 DEF Recurs
      <4> QED BY <1>5, <3>2, <4>2
    <3> QED BY <3>1, <3>2
  <2>2. f = [i \in 0 .. n |-> f[i]]
    BY <1>6 DEF Recurs
  <2> QED BY <2>1, <2>2
<1>8. P(v)
  BY <1>7
<1>9. Reading(line) = v
  BY DEF Reading, n
<1> HIDE DEF v
<1>10. v = [i \in 0 .. n |-> IF i = 0 THEN NothingRead ELSE Meaning(v[i - 1], line[i])]
  BY <1>8
<1> HIDE DEF P
<1>11. \A i \in 0 .. n : v[i] = IF i = 0 THEN NothingRead ELSE Meaning(v[i - 1], line[i])
  BY <1>10
<1>12. v[0] = NothingRead /\ v[0] \in ReadState
  <2>1. 0 \in 0 .. n
    BY <1>1
  <2> QED BY <1>2, <1>11, <2>1
<1>13. ASSUME NEW k \in 0 .. n, k # 0, v[k - 1] \in ReadState PROVE v[k] \in ReadState
  BY <1>3, <1>11, <1>13, MeaningTyped
<1>14. \A k \in 0 .. n : v[k] \in ReadState
  BY <1>1, <1>12, <1>13, RecursionTyped
<1>15. \A k \in 1 .. n : k \in 0 .. n /\ k # 0
  BY <1>1
<1> QED BY <1>3, <1>9, <1>11, <1>12, <1>14, <1>15 DEF n

----------------------------------------------------------------------------
(* The primitive steps of the scan, field by field.                         *)
Same(t, s) == t.starts = s.starts /\ t.act = s.act

LEMMA AdvanceIs ==
  ASSUME NEW s \in ScanState, NEW d \in Nat
  PROVE  /\ Advance(s, d) \in ScanState
         /\ Advance(s, d).mem = s.mem /\ Advance(s, d).scan = s.scan + d
         /\ Advance(s, d).dest = s.dest /\ Advance(s, d).mode = s.mode
         /\ Same(Advance(s, d), s)
<1>1. s.scan + d \in Nat
  BY DEF ScanState
<1> QED BY <1>1 DEF Advance, ScanState, Same

LEMMA InIs ==
  ASSUME NEW s \in ScanState, NEW mode \in {"space", "token", "raw", "cooked", "ok", "unbalanced"}
  PROVE  /\ In(s, mode) \in ScanState
         /\ In(s, mode).mem = s.mem /\ In(s, mode).scan = s.scan
         /\ In(s, mode).dest = s.dest /\ In(s, mode).mode = mode
         /\ Same(In(s, mode), s)
BY DEF In, ScanState, Same

LEMMA PutIs ==
  ASSUME NEW s \in ScanState, s.dest \in 1 .. Len(s.mem), NEW c \in Characters
  PROVE  /\ Put(s, c) \in ScanState
         /\ Put(s, c).mem = [s.mem EXCEPT ![s.dest] = c] /\ Put(s, c).scan = s.scan
         /\ Put(s, c).dest = s.dest + 1 /\ Put(s, c).mode = s.mode
         /\ Same(Put(s, c), s)
<1> DEFINE m == [s.mem EXCEPT ![s.dest] = c]
<1>1. s.mem \in Texts /\ s.dest \in Nat
  BY DEF ScanState
<1>2. m \in Texts
  BY <1>1, ExceptSeq
<1>3. s.dest + 1 \in Nat
  BY <1>1
<1>4. Put(s, c) = [s EXCEPT !.mem = m, !.dest = s.dest + 1]
  BY DEF Put
<1> HIDE DEF m
<1>5. Put(s, c) \in ScanState
  BY <1>2, <1>3, <1>4 DEF ScanState
<1>6. /\ Put(s, c).mem = m /\ Put(s, c).scan = s.scan /\ Put(s, c).dest = s.dest + 1
      /\ Put(s, c).mode = s.mode /\ Same(Put(s, c), s)
  BY <1>4 DEF ScanState, Same
<1> QED BY <1>5, <1>6 DEF m

LEMMA TerminateIs ==
  ASSUME NEW s \in ScanState, s.dest \in 1 .. Len(s.mem)
  PROVE  /\ Terminate(s) \in ScanState
         /\ Terminate(s).mem = [s.mem EXCEPT ![s.dest] = NUL] /\ Terminate(s).scan = s.scan
         /\ Terminate(s).dest = s.dest /\ Terminate(s).mode = s.mode
         /\ Same(Terminate(s), s)
<1> DEFINE m == [s.mem EXCEPT ![s.dest] = NUL]
<1>1. s.mem \in Texts /\ NUL \in Characters
  BY CharactersAssumption DEF ScanState
<1>2. m \in Texts
  BY <1>1, ExceptSeq
<1>3. Terminate(s) = [s EXCEPT !.mem = m]
  BY DEF Terminate
<1> HIDE DEF m
<1>4. Terminate(s) \in ScanState
  BY <1>2, <1>3 DEF ScanState
<1>5. /\ Terminate(s).mem = m /\ Terminate(s).scan = s.scan /\ Terminate(s).dest = s.dest
      /\ Terminate(s).mode = s.mode /\ Same(Terminate(s), s)
  BY <1>3 DEF ScanState, Same
<1> QED BY <1>4, <1>5 DEF m

----------------------------------------------------------------------------
(* The scan against the meaning of what it has read.  What it has yet to read *)
(* is unchanged; the words that are finished lie at their starts, with a NUL *)
(* behind them, before the word that is being read, which reaches up to dest. *)
Tape(line, s) ==
  /\ s \in ScanState
  /\ Len(s.mem) = Len(line) + 1 /\ s.mem[Len(s.mem)] = NUL
  /\ s.scan \in 1 .. Len(s.mem)
  /\ \A j \in s.scan .. Len(line) : s.mem[j] = line[j]
  /\ 2 <= s.act /\ Len(s.starts) < s.act

Finished(s, words, bound) ==
  /\ Len(words) <= Len(s.starts)
  /\ \A i \in 1 .. Len(words) :
       /\ Lies(s.mem, s.starts[i], words[i])
       /\ s.mem[s.starts[i] + Len(words[i])] = NUL
       /\ s.starts[i] + Len(words[i]) < bound

Current(s, start, r) ==
  /\ Len(s.starts) = Len(r.words) + 1 /\ s.starts[Len(s.starts)] = start
  /\ start \in 1 .. s.dest /\ s.dest = start + Len(r.word) /\ s.dest <= s.scan
  /\ \A k \in 1 .. Len(r.word) : s.mem[start + k - 1] = r.word[k]
  /\ ~r.shrunk => s.dest = s.scan
  /\ Finished(s, r.words, start)

Follows(line, s, r) ==
  /\ Tape(line, s)
  /\ ~r.escaped
  /\ s.mode = "space" =>
       /\ r.mode = "plain" /\ ~r.inside /\ r.word = << >> /\ ~r.shrunk
       /\ Len(s.starts) = Len(r.words) /\ Finished(s, r.words, s.scan)
  /\ s.mode # "space" => \E start \in Nat : Current(s, start, r)
  /\ s.mode = "token" =>
       r.mode = "plain" /\ (r.inside \/ (s.scan <= Len(line) /\ line[s.scan] \notin Spaces))
  /\ s.mode = "raw" => r.mode = "raw" /\ r.inside
  /\ s.mode = "cooked" => r.mode = "cooked" /\ r.inside

Result(line, s) ==
  /\ ~Unbalanced(line)
  /\ s.mem \in Texts /\ s.mem[Len(s.mem)] = NUL
  /\ s.starts \in Seq(Nat) /\ Len(s.starts) = Len(Words(line)) /\ Len(s.starts) < s.act
  /\ \A i \in 1 .. Len(Words(line)) :
       /\ Lies(s.mem, s.starts[i], Words(line)[i])
       /\ \/ s.mem[s.starts[i] + Len(Words(line)[i])] = NUL
          \/ i = Len(Words(line)) /\ EndsShrunk(line)

Active(s) == s.mode \in {"space", "token", "raw", "cooked"}

(* Nothing that is written later touches the words that are finished.       *)
LEMMA FinishedStays ==
  ASSUME NEW s \in ScanState, NEW t \in ScanState, NEW words \in Seq(Strings),
         NEW bound \in Nat, NEW bound2 \in Nat, bound <= bound2,
         Finished(s, words, bound),
         Len(words) <= Len(t.starts), Len(t.mem) = Len(s.mem),
         \A i \in 1 .. Len(words) : t.starts[i] = s.starts[i],
         \A j \in 1 .. Len(s.mem) : j < bound => t.mem[j] = s.mem[j]
  PROVE  Finished(t, words, bound2)
<1> SUFFICES ASSUME NEW i \in 1 .. Len(words)
             PROVE  /\ Lies(t.mem, t.starts[i], words[i])
                    /\ t.mem[t.starts[i] + Len(words[i])] = NUL
                    /\ t.starts[i] + Len(words[i]) < bound2
  BY DEF Finished
<1> DEFINE a == s.starts[i]
           w == words[i]
           l == Len(w)
           n == Len(s.mem)
<1>1. a = t.starts[i]
  OBVIOUS
<1>2. w \in Strings /\ l \in Nat /\ n \in Nat
  BY ElementOfSeq, LenProperties DEF ScanState
<1>3. /\ a \in 1 .. n /\ a + l <= n /\ \A k \in 1 .. l : s.mem[a + k - 1] = w[k]
      /\ s.mem[a + l] = NUL /\ a + l < bound
  BY DEF Finished, Lies
<1> HIDE DEF a, w, l, n
<1>4. \A j \in 1 .. n : j < bound => t.mem[j] = s.mem[j]
  BY DEF n
<1>5. a + l \in 1 .. n /\ a + l < bound2
  BY <1>2, <1>3
<1>6. \A k \in 1 .. l : a + k - 1 \in 1 .. n /\ a + k - 1 < bound
  BY <1>2, <1>3
<1>7. \A k \in 1 .. l : t.mem[a + k - 1] = w[k]
  BY <1>3, <1>4, <1>6
<1>8. t.mem[a + l] = NUL
  BY <1>3, <1>4, <1>5
<1>9. Lies(t.mem, a, w)
  BY <1>3, <1>7 DEF Lies, l, n
<1> QED BY <1>1, <1>5, <1>8, <1>9 DEF w, l

(* The word that is being read grows by a text: of the line at least as many *)
(* characters are read, and nothing behind them is touched.                 *)
Grows(t, s, text, d) ==
  /\ t \in ScanState /\ Same(t, s)
  /\ t.scan = s.scan + d /\ t.dest = s.dest + Len(text)
  /\ Len(text) <= d /\ s.scan + d <= Len(s.mem)
  /\ Len(t.mem) = Len(s.mem)
  /\ \A j \in 1 .. Len(s.mem) : j < s.dest \/ j >= s.scan + d => t.mem[j] = s.mem[j]
  /\ \A k \in 1 .. Len(text) : t.mem[s.dest + k - 1] = text[k]

LEMMA WordGrows ==
  ASSUME NEW line \in Strings, NEW s, NEW t, NEW r \in ReadState, NEW r2 \in ReadState,
         NEW text \in Strings, NEW d \in Nat, NEW start \in Nat,
         Tape(line, s), Current(s, start, r), Grows(t, s, text, d),
         r2.words = r.words, r2.word = r.word \o text,
         ~r2.shrunk => ~r.shrunk /\ Len(text) = d
  PROVE  Tape(line, t) /\ Current(t, start, r2)
<1> DEFINE n == Len(s.mem)
           l == Len(r.word)
           x == Len(text)
<1>1. /\ s \in ScanState /\ t \in ScanState /\ t.starts = s.starts /\ t.act = s.act
      /\ n = Len(line) + 1 /\ Len(t.mem) = n
      /\ t.scan = s.scan + d /\ t.dest = s.dest + x /\ x <= d /\ s.scan + d <= n
  BY DEF Tape, Grows, Same
<1>2. /\ n \in Nat /\ l \in Nat /\ x \in Nat /\ s.scan \in Nat /\ s.dest \in Nat
      /\ Len(line) \in Nat /\ r.words \in Seq(Strings) /\ r.word \in Strings
  BY <1>1, LenProperties DEF ScanState, ReadState
<1>3. /\ s.scan \in 1 .. n /\ s.mem[n] = NUL /\ \A j \in s.scan .. Len(line) : s.mem[j] = line[j]
      /\ 2 <= s.act /\ Len(s.starts) < s.act
  BY DEF Tape
<1>4. /\ \A j \in 1 .. n : j < s.dest \/ j >= s.scan + d => t.mem[j] = s.mem[j]
      /\ \A k \in 1 .. x : t.mem[s.dest + k - 1] = text[k]
  BY DEF Grows
<1>5. /\ Len(s.starts) = Len(r.words) + 1 /\ s.starts[Len(s.starts)] = start
      /\ start \in 1 .. s.dest /\ s.dest = start + l /\ s.dest <= s.scan
      /\ \A k \in 1 .. l : s.mem[start + k - 1] = r.word[k]
      /\ ~r.shrunk => s.dest = s.scan
      /\ Finished(s, r.words, start)
  BY DEF Current
<1>6. Joins(r2.word, r.word, text)
  BY <1>2, Concatenation
<1>7. Len(r2.word) = l + x
  BY <1>6 DEF Joins
<1> HIDE DEF n, l, x
<1>8. Tape(line, t)
  <2> DEFINE e == Len(line)
             c == s.scan
  <2>1. t.scan = c + d /\ c + d <= n /\ n = e + 1 /\ c \in 1 .. n /\ e \in Nat
    BY <1>1, <1>2, <1>3
  <2> HIDE DEF e, c
  <2>2. c + d \in 1 .. n /\ n \in 1 .. n
    BY <2>1
  <2>3. \A j \in c + d .. e : j \in 1 .. n /\ j >= c + d /\ j \in c .. e
    BY <2>1
  <2>4. t.mem[n] = NUL
    BY <1>3, <1>4, <2>1, <2>2 DEF c
  <2>5. \A j \in t.scan .. Len(line) : t.mem[j] = line[j]
    BY <1>3, <1>4, <2>1, <2>3 DEF c, e
  <2>6. t.scan \in 1 .. n
    BY <2>1, <2>2
  <2> QED BY <1>1, <1>3, <2>4, <2>5, <2>6 DEF Tape
<1>9. start \in 1 .. t.dest /\ t.dest = start + Len(r2.word) /\ t.dest <= t.scan
  <2>1. \A a, b, c, e, f \in Nat :
          a \in 1 .. b /\ b = a + e /\ b <= c /\ f <= d =>
            a \in 1 .. b + f /\ b + f = a + (e + f) /\ b + f <= c + d
    OBVIOUS
  <2>2. start \in 1 .. s.dest /\ s.dest = start + l /\ s.dest <= s.scan /\ x <= d
    BY <1>1, <1>5
  <2> QED BY <1>1, <1>2, <1>7, <2>1, <2>2
<1>10. ~r2.shrunk => t.dest = t.scan
  <2> SUFFICES ASSUME ~r2.shrunk PROVE t.dest = t.scan
    OBVIOUS
  <2>1. ~r.shrunk /\ x = d
    BY DEF x
  <2> QED BY <1>1, <1>2, <1>5, <2>1
<1>11. \A k \in 1 .. Len(r2.word) : t.mem[start + k - 1] = r2.word[k]
  <2> TAKE k \in 1 .. Len(r2.word)
  <2>1. CASE k <= l
    <3>1. k \in 1 .. l /\ start + k - 1 \in 1 .. n /\ start + k - 1 < s.dest
      BY <1>2, <1>3, <1>5, <1>7, <2>1
    <3>2. r2.word[k] = r.word[k]
      BY <1>6, <3>1 DEF Joins, l
    <3> QED BY <1>4, <1>5, <3>1, <3>2
  <2>2. CASE k > l
    <3> DEFINE q == k - l
    <3>1. q \in 1 .. x /\ l + q = k /\ start + k - 1 = s.dest + q - 1
      <4>1. \A a, b, c \in Nat :
              c <= a + b /\ c > a => c - a \in 1 .. b /\ a + (c - a) = c
        OBVIOUS
      <4>2. \A a, b, c, e \in Nat : e = b + a => b + c - 1 = e + (c - a) - 1
        OBVIOUS
      <4>3. k \in 1 .. l + x /\ k \in Nat
        BY <1>2, <1>7
      <4> QED BY <1>2, <1>5, <2>2, <4>1, <4>2, <4>3
    <3> HIDE DEF q
    <3>2. r2.word[l + q] = text[q]
      BY <1>6, <3>1 DEF Joins, l, x
    <3> QED BY <1>4, <3>1, <3>2
  <2> QED BY <1>2, <1>7, <2>1, <2>2
<1>12. Finished(t, r2.words, start)
  <2>1. Len(r.words) \in Nat /\ Len(r.words) <= Len(t.starts)
    BY <1>1, <1>2, <1>5, LenProperties
  <2>2. \A j \in 1 .. Len(s.mem) : j < start => t.mem[j] = s.mem[j]
    <3>1. \A a, b \in Nat : a \in 1 .. b => \A j \in Nat : j < a => j < b
      OBVIOUS
    <3>2. start \in 1 .. s.dest /\ start \in Nat /\ s.dest \in Nat
      BY <1>2, <1>5
    <3>3. \A j \in Nat : j < start => j < s.dest
      BY <3>1, <3>2
    <3>4. \A j \in 1 .. n : j < start => t.mem[j] = s.mem[j]
      BY <1>4, <3>3
    <3> QED BY <3>4 DEF n
  <2>3. start <= start /\ Len(t.mem) = Len(s.mem)
    BY <1>1 DEF n
  <2>4. \A i \in 1 .. Len(r.words) : t.starts[i] = s.starts[i]
    BY <1>1
  <2>5. s \in ScanState /\ t \in ScanState /\ r.words \in Seq(Strings) /\ Finished(s, r.words, start)
    BY <1>1, <1>2, <1>5
  <2>6. Finished(t, r.words, start)
    BY <2>1, <2>2, <2>3, <2>4, <2>5, FinishedStays
  <2> QED BY <2>6
<1> QED BY <1>1, <1>5, <1>8, <1>9, <1>10, <1>11, <1>12 DEF Current

(* What the scan reads next is the next character of the line, or its end.   *)
LEMMA NextRead ==
  ASSUME NEW line \in Strings, NEW s, Tape(line, s)
  PROVE  /\ Ch(s) = NUL => s.scan = Len(line) + 1
         /\ Ch(s) # NUL => /\ s.scan \in 1 .. Len(line)
                           /\ Ch(s) = line[s.scan] /\ Ch(s) \in Symbols
         /\ Ch(s) # NUL /\ NextCh(s) = NUL => s.scan = Len(line)
         /\ Ch(s) # NUL /\ NextCh(s) # NUL =>
              /\ s.scan + 1 \in 1 .. Len(line)
              /\ NextCh(s) = line[s.scan + 1] /\ NextCh(s) \in Symbols
<1> DEFINE n == Len(line)
<1>1. n \in Nat
  BY LenProperties
<1>2. \A j \in 1 .. n : line[j] \in Symbols /\ line[j] # NUL
  BY ElementOfSeq DEF Symbols
<1>3. /\ s.scan \in 1 .. n + 1 /\ s.mem[n + 1] = NUL
      /\ \A j \in s.scan .. n : s.mem[j] = line[j]
  BY DEF Tape
<1>4. Ch(s) = s.mem[s.scan] /\ NextCh(s) = s.mem[s.scan + 1]
  BY DEF Ch, NextCh
<1> HIDE DEF n
<1>5. s.scan = n + 1 => Ch(s) = NUL
  BY <1>3, <1>4
<1>6. s.scan # n + 1 =>
        s.scan \in 1 .. n /\ Ch(s) = line[s.scan] /\ Ch(s) \in Symbols /\ Ch(s) # NUL
  <2> SUFFICES ASSUME s.scan # n + 1
               PROVE  s.scan \in 1 .. n /\ Ch(s) = line[s.scan] /\ Ch(s) \in Symbols /\ Ch(s) # NUL
    OBVIOUS
  <2>1. s.scan \in 1 .. n /\ s.scan \in s.scan .. n
    BY <1>1, <1>3
  <2> QED BY <1>2, <1>3, <1>4, <2>1
<1>7. s.scan \in 1 .. n /\ s.scan # n =>
        s.scan + 1 \in 1 .. n /\ NextCh(s) = line[s.scan + 1] /\ NextCh(s) \in Symbols /\ NextCh(s) # NUL
  <2> SUFFICES ASSUME s.scan \in 1 .. n, s.scan # n
               PROVE  /\ s.scan + 1 \in 1 .. n /\ NextCh(s) = line[s.scan + 1]
                      /\ NextCh(s) \in Symbols /\ NextCh(s) # NUL
    OBVIOUS
  <2>1. s.scan + 1 \in 1 .. n /\ s.scan + 1 \in s.scan .. n
    BY <1>1
  <2> QED BY <1>2, <1>3, <1>4, <2>1
<1>8. s.scan = n => NextCh(s) = NUL
  BY <1>3, <1>4
<1> QED BY <1>5, <1>6, <1>7, <1>8 DEF n

(* A word that a separator ends is finished.                                *)
LEMMA WordEnds ==
  ASSUME NEW line \in Strings, NEW s, NEW t \in ScanState, NEW r \in ReadState, NEW r2,
         NEW start \in Nat,
         Tape(line, s), Current(s, start, r), s.scan \in 1 .. Len(line),
         Same(t, s), t.mem = [s.mem EXCEPT ![s.dest] = NUL], t.scan = s.scan + 1,
         t.mode = "space", r.mode = "plain", ~r.escaped, r2 = EndWord(r)
  PROVE  Follows(line, t, r2)
<1> DEFINE n == Len(s.mem)
           l == Len(r.word)
           m == Len(r.words)
<1>1. /\ s \in ScanState /\ t.starts = s.starts /\ t.act = s.act
      /\ n = Len(line) + 1 /\ s.scan \in 1 .. n /\ s.mem[n] = NUL
      /\ \A j \in s.scan .. Len(line) : s.mem[j] = line[j]
      /\ 2 <= s.act /\ Len(s.starts) < s.act
  BY DEF Tape, Same
<1>2. /\ n \in Nat /\ l \in Nat /\ m \in Nat /\ s.scan \in Nat /\ s.dest \in Nat
      /\ Len(line) \in Nat /\ r.words \in Seq(Strings) /\ r.word \in Strings
      /\ s.mem \in Texts
  BY <1>1, LenProperties DEF ScanState, ReadState
<1>3. /\ Len(s.starts) = m + 1 /\ s.starts[Len(s.starts)] = start
      /\ start \in 1 .. s.dest /\ s.dest = start + l /\ s.dest <= s.scan
      /\ \A k \in 1 .. l : s.mem[start + k - 1] = r.word[k]
      /\ Finished(s, r.words, start)
  BY DEF Current
<1>4. /\ r2.words = Append(r.words, r.word) /\ r2.word = << >> /\ ~r2.inside /\ ~r2.shrunk
      /\ r2.mode = "plain" /\ ~r2.escaped
  BY DEF EndWord, ReadState
<1> HIDE DEF n, l, m
<1>5. s.dest \in 1 .. n /\ s.dest < n
  BY <1>1, <1>2, <1>3
<1>6. /\ Len(t.mem) = n /\ t.mem[s.dest] = NUL
      /\ \A j \in 1 .. n : j # s.dest => t.mem[j] = s.mem[j]
  <2>1. /\ Len(t.mem) = Len(s.mem)
        /\ \A j \in 1 .. Len(s.mem) : t.mem[j] = IF j = s.dest THEN NUL ELSE s.mem[j]
    <3>1. s.dest \in 1 .. Len(s.mem) /\ NUL \in Characters /\ s.mem \in Seq(Characters)
      BY <1>2, <1>5, CharactersAssumption DEF n
    <3> QED BY <3>1, ExceptSeq
  <2> QED BY <1>5, <2>1 DEF n
<1>7. Tape(line, t)
  <2>1. t.scan \in 1 .. n
    BY <1>1, <1>2
  <2>2. t.mem[n] = NUL
    BY <1>1, <1>2, <1>5, <1>6
  <2>3. \A j \in t.scan .. Len(line) : t.mem[j] = line[j]
    <3> TAKE j \in t.scan .. Len(line)
    <3>1. \A a, b, c \in Nat :
            \A i \in b + 1 .. c : a <= b /\ 1 <= b => i \in 1 .. c + 1 /\ i # a /\ i \in b .. c
      OBVIOUS
    <3>2. j \in s.scan + 1 .. Len(line) /\ s.dest <= s.scan /\ 1 <= s.scan
      BY <1>1, <1>3
    <3>3. j \in 1 .. n /\ j # s.dest /\ j \in s.scan .. Len(line)
      BY <1>1, <1>2, <3>1, <3>2
    <3> QED BY <1>1, <1>6, <3>3
  <2> QED BY <1>1, <1>6, <2>1, <2>2, <2>3 DEF Tape
<1>8. /\ r2.words \in Seq(Strings) /\ Len(r2.words) = m + 1
      /\ \A i \in 1 .. m : r2.words[i] = r.words[i]
      /\ r2.words[m + 1] = r.word
  BY <1>2, <1>4, AppendProperties DEF m
<1>9. Finished(t, r.words, t.scan)
  <2>1. \A j \in 1 .. Len(s.mem) : j < start => t.mem[j] = s.mem[j]
    BY <1>2, <1>3, <1>6 DEF n
  <2>2. t.scan \in Nat /\ start <= t.scan /\ Len(t.mem) = Len(s.mem)
    BY <1>2, <1>3, <1>6 DEF n
  <2>3. Len(r.words) <= Len(t.starts) /\ \A i \in 1 .. Len(r.words) : t.starts[i] = s.starts[i]
    BY <1>1, <1>2, <1>3 DEF m
  <2>4. s \in ScanState /\ t \in ScanState /\ r.words \in Seq(Strings) /\ Finished(s, r.words, start)
    BY <1>1, <1>2, <1>3
  <2> QED BY <2>1, <2>2, <2>3, <2>4, FinishedStays
<1>10. Finished(t, r2.words, t.scan)
  <2>1. t.starts[m + 1] = start
    BY <1>1, <1>3
  <2>2. Lies(t.mem, start, r.word)
    <3>1. start \in 1 .. n /\ start + l <= n
      BY <1>2, <1>3, <1>5
    <3>2. \A k \in 1 .. l : start + k - 1 \in 1 .. n /\ start + k - 1 # s.dest
      BY <1>2, <1>3, <1>5
    <3>3. \A k \in 1 .. l : t.mem[start + k - 1] = r.word[k]
      BY <1>3, <1>6, <3>2
    <3> QED BY <1>6, <3>1, <3>3 DEF Lies, l
  <2>3. t.mem[start + l] = NUL /\ start + l < t.scan
    BY <1>2, <1>3, <1>6
  <2>4. ASSUME NEW i \in 1 .. m + 1
        PROVE  /\ Lies(t.mem, t.starts[i], r2.words[i])
               /\ t.mem[t.starts[i] + Len(r2.words[i])] = NUL
               /\ t.starts[i] + Len(r2.words[i]) < t.scan
    <3>1. CASE i \in 1 .. m
      BY <1>8, <1>9, <3>1 DEF Finished, m
    <3>2. CASE i = m + 1
      BY <1>8, <2>1, <2>2, <2>3, <3>2 DEF l
    <3> QED BY <1>2, <3>1, <3>2
  <2>5. Len(r2.words) <= Len(t.starts)
    BY <1>1, <1>2, <1>3, <1>8
  <2> QED BY <1>8, <2>4, <2>5 DEF Finished
<1>11. Len(t.starts) = Len(r2.words)
  BY <1>1, <1>3, <1>8
<1> QED BY <1>4, <1>7, <1>10, <1>11 DEF Follows

(* A word that is opened is empty.                                          *)
LEMMA WordOpens ==
  ASSUME NEW line \in Strings, NEW s, NEW t \in ScanState, NEW r \in ReadState,
         Follows(line, s, r), s.mode = "space",
         s.scan \in 1 .. Len(line), line[s.scan] \notin Spaces,
         t.mem = s.mem, t.scan = s.scan, t.dest = s.scan, t.mode = "token",
         t.starts = Append(s.starts, s.scan),
         2 <= t.act, Len(s.starts) + 1 < t.act
  PROVE  Follows(line, t, r)
<1> DEFINE m == Len(r.words)
           n == Len(s.mem)
<1>1. /\ s \in ScanState /\ n = Len(line) + 1 /\ s.scan \in 1 .. n /\ s.mem[n] = NUL
      /\ \A j \in s.scan .. Len(line) : s.mem[j] = line[j]
  BY DEF Tape, Follows
<1>2. /\ ~r.escaped /\ r.mode = "plain" /\ ~r.inside /\ r.word = << >> /\ ~r.shrunk
      /\ Len(s.starts) = m /\ Finished(s, r.words, s.scan)
  BY DEF Follows
<1>3. /\ m \in Nat /\ s.scan \in Nat /\ s.starts \in Seq(Nat) /\ r.words \in Seq(Strings)
      /\ Len(<< >>) = 0
  BY <1>1, LenProperties DEF ScanState, ReadState
<1>4. /\ Len(t.starts) = m + 1 /\ t.starts[m + 1] = s.scan
      /\ \A i \in 1 .. m : t.starts[i] = s.starts[i]
  BY <1>2, <1>3, AppendProperties
<1>5. Tape(line, t)
  BY <1>1, <1>2, <1>4 DEF Tape
<1>6. Finished(t, r.words, s.scan)
  <2>1. \A j \in 1 .. Len(s.mem) : j < s.scan => t.mem[j] = s.mem[j]
    OBVIOUS
  <2>2. s.scan <= s.scan /\ Len(t.mem) = Len(s.mem)
    BY <1>3
  <2>3. Len(r.words) <= Len(t.starts) /\ \A i \in 1 .. Len(r.words) : t.starts[i] = s.starts[i]
    BY <1>3, <1>4
  <2>4. s \in ScanState /\ t \in ScanState /\ Finished(s, r.words, s.scan)
    BY <1>1, <1>2
  <2> QED BY <1>3, <2>1, <2>2, <2>3, <2>4, FinishedStays
<1>7. Current(t, s.scan, r)
  <2>1. /\ Len(t.starts) = Len(r.words) + 1 /\ t.starts[Len(t.starts)] = s.scan
        /\ s.scan \in 1 .. t.dest /\ t.dest = s.scan + Len(r.word) /\ t.dest <= t.scan
        /\ t.dest = t.scan
    BY <1>1, <1>2, <1>3, <1>4
  <2>2. \A k \in 1 .. Len(r.word) : t.mem[s.scan + k - 1] = r.word[k]
    BY <1>2, <1>3
  <2> QED BY <1>6, <2>1, <2>2 DEF Current
<1>8. s.scan <= Len(line)
  BY <1>1, LenProperties
<1> QED BY <1>2, <1>3, <1>5, <1>7, <1>8 DEF Follows

(* The ways a step can write, as growths of the word.                       *)
GrowsIn(t, s, text, d, mode) == Grows(t, s, text, d) /\ t.mode = mode

LEMMA Grown ==
  ASSUME NEW s \in ScanState, NEW d \in {1, 2},
         s.dest \in 1 .. s.scan, s.scan + d <= Len(s.mem)
  PROVE  /\ GrowsIn(Advance(s, d), s, << >>, d, s.mode)
         /\ GrowsIn(Terminate(Advance(s, d)), s, << >>, d, s.mode)
         /\ \A c \in Symbols : GrowsIn(Put(Advance(s, d), c), s, <<c>>, d, s.mode)
         /\ d = 2 => \A b, c \in Symbols :
              GrowsIn(Put(Put(Advance(s, d), b), c), s, <<b, c>>, d, s.mode)
<1> DEFINE n == Len(s.mem)
           u == Advance(s, d)
<1>1. /\ n \in Nat /\ s.scan \in Nat /\ s.dest \in Nat /\ d \in Nat /\ s.mem \in Seq(Characters)
      /\ s.dest \in 1 .. n /\ s.dest < s.scan + d /\ s.dest + 1 \in 1 .. n
      /\ s.dest + 1 <= s.scan + d /\ s.dest <= s.scan
  BY LenProperties DEF ScanState
<1>2. /\ u \in ScanState /\ u.mem = s.mem /\ u.scan = s.scan + d
      /\ u.dest = s.dest /\ u.mode = s.mode /\ Same(u, s)
  BY <1>1, AdvanceIs
<1>3. \A c \in Characters :
        /\ Len([s.mem EXCEPT ![s.dest] = c]) = n
        /\ \A j \in 1 .. n : [s.mem EXCEPT ![s.dest] = c][j] = IF j = s.dest THEN c ELSE s.mem[j]
  BY <1>1, ExceptSeq
<1>4. NUL \in Characters /\ Symbols \subseteq Characters
  BY CharactersAssumption DEF Symbols
<1>5. Len(<< >>) = 0 /\ 1 .. 0 = {}
  OBVIOUS
<1> HIDE DEF u, n
<1>6. GrowsIn(u, s, << >>, d, s.mode)
  BY <1>1, <1>2, <1>5 DEF GrowsIn, Grows, n
<1>7. GrowsIn(Terminate(u), s, << >>, d, s.mode)
  <2> DEFINE t == Terminate(u)
  <2>1. /\ t \in ScanState /\ t.mem = [s.mem EXCEPT ![s.dest] = NUL] /\ t.scan = s.scan + d
        /\ t.dest = s.dest /\ t.mode = s.mode /\ Same(t, s)
    BY <1>1, <1>2, TerminateIs DEF n, Same
  <2> HIDE DEF t
  <2>2. /\ Len(t.mem) = n
        /\ \A j \in 1 .. n : j < s.dest \/ j >= s.scan + d => t.mem[j] = s.mem[j]
    <3>1. \A j \in 1 .. n : j < s.dest \/ j >= s.scan + d => j # s.dest
      BY <1>1
    <3> QED BY <1>3, <1>4, <2>1, <3>1
  <2>3. t.dest = s.dest + Len(<< >>) /\ Len(<< >>) <= d
    BY <1>1, <1>5, <2>1
  <2>4. \A k \in 1 .. Len(<< >>) : t.mem[s.dest + k - 1] = << >>[k]
    BY <1>5
  <2>5. GrowsIn(t, s, << >>, d, s.mode)
    BY <2>1, <2>2, <2>3, <2>4 DEF GrowsIn, Grows, n
  <2> QED BY <2>5 DEF t
<1>8. ASSUME NEW c \in Symbols PROVE GrowsIn(Put(u, c), s, <<c>>, d, s.mode)
  <2> DEFINE t == Put(u, c)
  <2>1. /\ t \in ScanState /\ t.mem = [s.mem EXCEPT ![s.dest] = c] /\ t.scan = s.scan + d
        /\ t.dest = s.dest + 1 /\ t.mode = s.mode /\ Same(t, s)
    BY <1>1, <1>2, <1>4, PutIs DEF n, Same
  <2> HIDE DEF t
  <2>2. /\ Len(t.mem) = n /\ t.mem[s.dest] = c
        /\ \A j \in 1 .. n : j < s.dest \/ j >= s.scan + d => t.mem[j] = s.mem[j]
    <3>1. \A j \in 1 .. n : j < s.dest \/ j >= s.scan + d => j # s.dest
      BY <1>1
    <3> QED BY <1>1, <1>3, <1>4, <2>1, <3>1
  <2>3. Len(<<c>>) = 1 /\ <<c>>[1] = c
    OBVIOUS
  <2>4. t.dest = s.dest + Len(<<c>>) /\ Len(<<c>>) <= d
    BY <2>1, <2>3
  <2>5. \A k \in 1 .. Len(<<c>>) : t.mem[s.dest + k - 1] = <<c>>[k]
    <3> TAKE k \in 1 .. Len(<<c>>)
    <3>1. k = 1 /\ s.dest + k - 1 = s.dest
      BY <1>1, <2>3
    <3> QED BY <2>2, <2>3, <3>1
  <2>6. GrowsIn(t, s, <<c>>, d, s.mode)
    BY <1>1, <2>1, <2>2, <2>4, <2>5 DEF GrowsIn, Grows, n
  <2> QED BY <2>6 DEF t
<1>9. ASSUME d = 2, NEW b \in Symbols, NEW c \in Symbols
      PROVE  GrowsIn(Put(Put(u, b), c), s, <<b, c>>, d, s.mode)
  <2> DEFINE v == Put(u, b)
             t == Put(v, c)
  <2>1. /\ v \in ScanState /\ v.mem = [s.mem EXCEPT ![s.dest] = b] /\ v.scan = s.scan + d
        /\ v.dest = s.dest + 1 /\ v.mode = s.mode /\ Same(v, s)
    BY <1>1, <1>2, <1>4, PutIs DEF n, Same
  <2> HIDE DEF v
  <2>2. Len(v.mem) = n /\ v.mem[s.dest] = b /\ \A j \in 1 .. n : j # s.dest => v.mem[j] = s.mem[j]
    BY <1>1, <1>3, <1>4, <2>1
  <2>3. /\ t \in ScanState /\ t.mem = [v.mem EXCEPT ![s.dest + 1] = c] /\ t.scan = s.scan + d
        /\ t.dest = s.dest + 1 + 1 /\ t.mode = s.mode /\ Same(t, s)
    <3>1. v.dest \in 1 .. Len(v.mem) /\ c \in Characters
      BY <1>1, <1>4, <2>1, <2>2
    <3>2. /\ t \in ScanState /\ t.mem = [v.mem EXCEPT ![v.dest] = c] /\ t.scan = v.scan
          /\ t.dest = v.dest + 1 /\ t.mode = v.mode /\ Same(t, v)
      BY <2>1, <3>1, PutIs
    <3> HIDE DEF t
    <3> QED BY <2>1, <3>2 DEF Same
  <2> HIDE DEF t
  <2>4. /\ Len(t.mem) = n
        /\ \A j \in 1 .. n : t.mem[j] = IF j = s.dest + 1 THEN c ELSE v.mem[j]
    <3>1. v.mem \in Seq(Characters)
      BY <2>1 DEF ScanState
    <3> QED BY <1>1, <1>4, <2>2, <2>3, <3>1, ExceptSeq
  <2>5. t.mem[s.dest] = b /\ t.mem[s.dest + 1] = c
    BY <1>1, <2>2, <2>4
  <2>6. \A j \in 1 .. n : j < s.dest \/ j >= s.scan + d => t.mem[j] = s.mem[j]
    <3> DEFINE a == s.dest
               e == s.scan
    <3>3. a \in Nat /\ e \in Nat /\ a <= e /\ n \in Nat
      BY <1>1
    <3> HIDE DEF a, e
    <3>4. \A j \in 1 .. n : j < a \/ j >= e + 2 => j # a /\ j # a + 1
      BY <3>3
    <3>1. \A j \in 1 .. n : j < s.dest \/ j >= s.scan + 2 => j # s.dest /\ j # s.dest + 1
      BY <3>4 DEF a, e
    <3>2. \A j \in 1 .. n : j < s.dest \/ j >= s.scan + d => j # s.dest /\ j # s.dest + 1
      BY <1>9, <3>1
    <3> QED BY <2>2, <2>4, <3>2
  <2>7. Len(<<b, c>>) = 2 /\ <<b, c>>[1] = b /\ <<b, c>>[2] = c
    OBVIOUS
  <2>8. t.dest = s.dest + Len(<<b, c>>) /\ Len(<<b, c>>) <= d
    BY <1>1, <1>9, <2>3, <2>7
  <2>9. \A k \in 1 .. Len(<<b, c>>) : t.mem[s.dest + k - 1] = <<b, c>>[k]
    <3> TAKE k \in 1 .. Len(<<b, c>>)
    <3>1. k \in 1 .. 2
      BY <2>7
    <3>2. (k = 1 /\ s.dest + k - 1 = s.dest) \/ (k = 2 /\ s.dest + k - 1 = s.dest + 1)
      BY <1>1, <3>1
    <3> QED BY <2>5, <2>7, <3>2
  <2>10. GrowsIn(t, s, <<b, c>>, d, s.mode)
    BY <1>1, <2>3, <2>4, <2>6, <2>8, <2>9 DEF GrowsIn, Grows, n
  <2> QED BY <2>10 DEF t, v
<1> QED BY <1>6, <1>7, <1>8, <1>9 DEF u

LEMMA GrownIn ==
  ASSUME NEW s, NEW t, NEW text, NEW d, NEW mode, GrowsIn(t, s, text, d, mode),
         NEW mode2 \in {"space", "token", "raw", "cooked", "ok", "unbalanced"}
  PROVE  GrowsIn(In(t, mode2), s, text, d, mode2)
<1>1. t \in ScanState
  BY DEF GrowsIn, Grows
<1>2. /\ In(t, mode2) \in ScanState
      /\ In(t, mode2).mem = t.mem /\ In(t, mode2).scan = t.scan
      /\ In(t, mode2).dest = t.dest /\ In(t, mode2).mode = mode2
      /\ Same(In(t, mode2), t)
  BY <1>1, InIs
<1> QED BY <1>2 DEF GrowsIn, Grows, Same

----------------------------------------------------------------------------
(* A step of the scan.  It leaves less to do, which is measured by what is   *)
(* left of the line and by whether a token is open.                         *)
Modes == {"space", "token", "raw", "cooked", "ok", "unbalanced"}
Inner == {"token", "raw", "cooked"}

ToDo(line, s) == 2 * (Len(line) + 1 - s.scan) + (IF s.mode = "space" THEN 2 ELSE 1)

Goes(line, s, t) ==
  /\ t \in ScanState
  /\ Active(t) => Follows(line, t, Reading(line)[t.scan - 1]) /\ ToDo(line, t) < ToDo(line, s)
  /\ t.mode = "ok" => Result(line, t)
  /\ t.mode = "unbalanced" => Unbalanced(line)

(* The meaning of the mode that the scan is in.                             *)
Means(mode) == IF mode = "token" THEN "plain" ELSE mode

LEMMA ToDoIs ==
  ASSUME NEW line \in Strings, NEW s, NEW t, s.scan \in 1 .. Len(line) + 1,
         t.scan \in 1 .. Len(line) + 1,
         t.scan > s.scan \/ (t.scan = s.scan /\ s.mode = "space" /\ t.mode # "space")
  PROVE  ToDo(line, s) \in 1 .. 2 * Len(line) + 2 /\ ToDo(line, t) < ToDo(line, s)
<1> DEFINE n == Len(line)
           a == s.scan
           e == t.scan
<1>1. n \in Nat /\ a \in 1 .. n + 1 /\ e \in 1 .. n + 1
  BY LenProperties
<1>2. e > a \/ (e = a /\ s.mode = "space" /\ t.mode # "space")
  OBVIOUS
<1>3. /\ ToDo(line, s) = 2 * (n + 1 - a) + (IF s.mode = "space" THEN 2 ELSE 1)
      /\ ToDo(line, t) = 2 * (n + 1 - e) + (IF t.mode = "space" THEN 2 ELSE 1)
  BY DEF ToDo
<1> HIDE DEF n, a, e
<1>4. ToDo(line, s) \in 1 .. 2 * n + 2
  BY <1>1, <1>3
<1>5. ToDo(line, t) < ToDo(line, s)
  BY <1>1, <1>2, <1>3
<1> QED BY <1>4, <1>5 DEF n

LEMMA WordGoesOn ==
  ASSUME NEW line \in Strings, NEW s, NEW t, s.mode \in Inner, NEW mode \in Inner,
         NEW text \in Strings, NEW d \in {1, 2},
         Follows(line, s, Reading(line)[s.scan - 1]), GrowsIn(t, s, text, d, mode),
         NEW r, r = Reading(line)[s.scan - 1],
         NEW r2, r2 = Reading(line)[s.scan + d - 1],
         r2.words = r.words, r2.word = r.word \o text,
         ~r2.shrunk => ~r.shrunk /\ Len(text) = d,
         ~r2.escaped, r2.inside, r2.mode = Means(mode)
  PROVE  Goes(line, s, t)
<1> DEFINE n == Len(line)
<1>1. n \in Nat
  BY LenProperties
<1>2. Tape(line, s) /\ s.mode # "space"
  BY DEF Follows, Inner
<1>3. PICK start \in Nat : Current(s, start, r)
  BY <1>2 DEF Follows
<1>4. Grows(t, s, text, d) /\ t.mode = mode
  BY DEF GrowsIn
<1>5. t.scan = s.scan + d /\ s.scan + d <= Len(s.mem) /\ t \in ScanState
  BY <1>4 DEF Grows
<1>6. Len(s.mem) = n + 1 /\ s.scan \in 1 .. n + 1
  BY <1>2 DEF Tape
<1> HIDE DEF n
<1>7. /\ s.scan - 1 \in 0 .. n /\ s.scan + d - 1 \in 0 .. n /\ d \in Nat
      /\ s.scan + d \in 1 .. n + 1 /\ s.scan + d > s.scan
  <2>1. \A a, e \in Nat :
          a \in 1 .. n + 1 /\ e \in 1 .. 2 /\ a + e <= n + 1 =>
            a - 1 \in 0 .. n /\ a + e - 1 \in 0 .. n /\ a + e \in 1 .. n + 1 /\ a + e > a
    BY <1>1
  <2>2. s.scan \in Nat /\ d \in Nat /\ d \in 1 .. 2 /\ s.scan + d <= n + 1
    BY <1>1, <1>5, <1>6
  <2> QED BY <1>6, <2>1, <2>2
<1>8. r \in ReadState /\ r2 \in ReadState
  BY <1>7, ReadingIs DEF n
<1>9. Tape(line, t) /\ Current(t, start, r2)
  <2>1. d \in Nat /\ start \in Nat
    BY <1>3, <1>7
  <2>2. /\ line \in Strings /\ text \in Strings /\ r2.words = r.words /\ r2.word = r.word \o text
        /\ ~r2.shrunk => ~r.shrunk /\ Len(text) = d
    OBVIOUS
  <2> QED BY ONLY <1>2, <1>3, <1>4, <1>8, <2>1, <2>2, WordGrows
<1>10. t.scan - 1 = s.scan + d - 1
  <2>1. \A a, e \in Nat : (a + e) - 1 = a + e - 1
    OBVIOUS
  <2>2. s.scan \in Nat
    BY <1>1, <1>6
  <2> QED BY <1>5, <1>7, <2>1, <2>2
<1>11. Follows(line, t, r2)
  BY <1>3, <1>4, <1>9 DEF Follows, Inner, Means
<1>12. t.scan \in 1 .. n + 1 /\ t.scan > s.scan
  BY <1>5, <1>7
<1>13. ToDo(line, t) < ToDo(line, s)
  BY <1>6, <1>12, ToDoIs DEF n
<1>14. t.mode # "ok" /\ t.mode # "unbalanced"
  BY <1>4 DEF Inner
<1> QED BY <1>5, <1>10, <1>11, <1>13, <1>14 DEF Goes

(* What is read next, one character or, behind a backslash, two.            *)
LEMMA ReadNext ==
  ASSUME NEW line \in Strings, NEW s, Follows(line, s, Reading(line)[s.scan - 1])
  PROVE  /\ s.scan \in Nat /\ Reading(line)[s.scan - 1] \in ReadState
         /\ Ch(s) = NUL => Reading(line)[s.scan - 1] = Read(line)
         /\ Ch(s) # NUL =>
              /\ Ch(s) \in Symbols /\ s.scan + 1 <= Len(s.mem)
              /\ Reading(line)[s.scan + 1 - 1] = Meaning(Reading(line)[s.scan - 1], Ch(s))
         /\ Ch(s) # NUL /\ NextCh(s) = NUL =>
              Read(line) = Meaning(Reading(line)[s.scan - 1], Ch(s))
         /\ Ch(s) # NUL /\ NextCh(s) # NUL =>
              /\ NextCh(s) \in Symbols /\ s.scan + 2 <= Len(s.mem)
              /\ Reading(line)[s.scan + 2 - 1] =
                   Meaning(Meaning(Reading(line)[s.scan - 1], Ch(s)), NextCh(s))
<1> DEFINE n == Len(line)
           R == Reading(line)
<1>1. n \in Nat
  BY LenProperties
<1>2. Tape(line, s)
  BY DEF Follows
<1>3. Len(s.mem) = n + 1 /\ s.scan \in 1 .. n + 1
  BY <1>2 DEF Tape
<1>4. /\ Ch(s) = NUL => s.scan = n + 1
      /\ Ch(s) # NUL => s.scan \in 1 .. n /\ Ch(s) = line[s.scan] /\ Ch(s) \in Symbols
      /\ Ch(s) # NUL /\ NextCh(s) = NUL => s.scan = n
      /\ Ch(s) # NUL /\ NextCh(s) # NUL =>
           s.scan + 1 \in 1 .. n /\ NextCh(s) = line[s.scan + 1] /\ NextCh(s) \in Symbols
  BY <1>2, NextRead
<1>5. /\ \A k \in 0 .. n : R[k] \in ReadState
      /\ \A k \in 1 .. n : R[k] = Meaning(R[k - 1], line[k])
  BY ReadingIs
<1>6. Read(line) = R[n]
  BY DEF Read
<1> HIDE DEF n, R
<1>7. s.scan \in Nat /\ R[s.scan - 1] \in ReadState
  <2>1. s.scan - 1 \in 0 .. n /\ s.scan \in Nat
    BY <1>1, <1>3
  <2> QED BY <1>5, <2>1
<1>8. Ch(s) = NUL => R[s.scan - 1] = Read(line)
  <2>1. s.scan = n + 1 => s.scan - 1 = n
    BY <1>1
  <2> QED BY <1>4, <1>6, <2>1
<1>9. Ch(s) # NUL =>
        /\ Ch(s) \in Symbols /\ s.scan + 1 <= Len(s.mem)
        /\ R[s.scan + 1 - 1] = Meaning(R[s.scan - 1], Ch(s))
  <2>1. s.scan \in 1 .. n => s.scan + 1 <= Len(s.mem) /\ s.scan + 1 - 1 = s.scan
    BY <1>1, <1>3
  <2> QED BY <1>4, <1>5, <2>1
<1>10. Ch(s) # NUL /\ NextCh(s) = NUL => Read(line) = Meaning(R[s.scan - 1], Ch(s))
  BY <1>4, <1>5, <1>6
<1>11. Ch(s) # NUL /\ NextCh(s) # NUL =>
         /\ NextCh(s) \in Symbols /\ s.scan + 2 <= Len(s.mem)
         /\ R[s.scan + 2 - 1] = Meaning(Meaning(R[s.scan - 1], Ch(s)), NextCh(s))
  <2> SUFFICES ASSUME Ch(s) # NUL, NextCh(s) # NUL
               PROVE  /\ NextCh(s) \in Symbols /\ s.scan + 2 <= Len(s.mem)
                      /\ R[s.scan + 2 - 1] = Meaning(Meaning(R[s.scan - 1], Ch(s)), NextCh(s))
    OBVIOUS
  <2>1. s.scan + 1 \in 1 .. n /\ NextCh(s) = line[s.scan + 1] /\ NextCh(s) \in Symbols
    BY <1>4
  <2>2. s.scan + 2 <= Len(s.mem) /\ s.scan + 2 - 1 = s.scan + 1 /\ s.scan + 1 - 1 = s.scan
    <3>1. \A a \in Nat : a + 1 \in 1 .. n => a + 2 <= n + 1 /\ a + 2 - 1 = a + 1 /\ a + 1 - 1 = a
      BY <1>1
    <3> QED BY <1>3, <1>7, <2>1, <3>1
  <2>3. R[s.scan + 1] = Meaning(R[s.scan], line[s.scan + 1])
    <3>1. (s.scan + 1) - 1 = s.scan
      BY <1>7
    <3> QED BY <1>5, <2>1, <3>1
  <2> QED BY <1>9, <2>1, <2>2, <2>3
<1> QED BY <1>7, <1>8, <1>9, <1>10, <1>11 DEF n, R

LEMMA InnerIs ==
  ASSUME NEW line, NEW s, NEW r, Follows(line, s, r), s.mode \in Inner
  PROVE  s \in ScanState /\ s.dest \in 1 .. s.scan
<1>1. Tape(line, s) /\ s \in ScanState /\ s.mode # "space"
  BY DEF Follows, Tape, Inner
<1>2. PICK start \in Nat : Current(s, start, r)
  BY <1>1 DEF Follows
<1>3. s.dest \in Nat /\ s.scan \in Nat
  BY <1>1 DEF ScanState
<1>4. start \in 1 .. s.dest /\ s.dest <= s.scan
  BY <1>2 DEF Current
<1> QED BY <1>1, <1>3, <1>4

LEMMA AddIs ==
  ASSUME NEW r \in ReadState, NEW text
  PROVE  /\ Add(r, text).words = r.words /\ Add(r, text).word = r.word \o text
         /\ Add(r, text).inside /\ ~Add(r, text).escaped
         /\ Add(r, text).mode = r.mode /\ Add(r, text).shrunk = r.shrunk
BY DEF Add, ReadState

LEMMA QuotedIs ==
  ASSUME NEW r \in ReadState, NEW mode
  PROVE  /\ Quoted(r, mode).words = r.words /\ Quoted(r, mode).word = r.word \o << >>
         /\ Quoted(r, mode).inside /\ Quoted(r, mode).escaped = r.escaped
         /\ Quoted(r, mode).mode = mode /\ Quoted(r, mode).shrunk
<1>1. r.word \o << >> = r.word
  BY ConcatEmptySeq DEF ReadState
<1>2. /\ Quoted(r, mode).words = r.words /\ Quoted(r, mode).word = r.word
      /\ Quoted(r, mode).inside /\ Quoted(r, mode).escaped = r.escaped
      /\ Quoted(r, mode).mode = mode /\ Quoted(r, mode).shrunk
  BY DEF Quoted, ReadState
<1> QED BY <1>1, <1>2

LEMMA EscapedIs ==
  ASSUME NEW r \in ReadState, ~r.escaped
  PROVE  /\ Meaning(r, Escape) \in ReadState
         /\ Meaning(r, Escape).words = r.words /\ Meaning(r, Escape).word = r.word
         /\ Meaning(r, Escape).inside /\ Meaning(r, Escape).escaped
         /\ Meaning(r, Escape).mode = r.mode /\ Meaning(r, Escape).shrunk
<1>1. Meaning(r, Escape) = [r EXCEPT !.escaped = TRUE, !.inside = TRUE, !.shrunk = TRUE]
  BY DEF Meaning
<1> QED BY <1>1 DEF ReadState

(* copy_raw_string                                                          *)
LEMMA RawStep ==
  ASSUME NEW line \in Strings, NEW s, s.mode = "raw",
         Follows(line, s, Reading(line)[s.scan - 1])
  PROVE  Goes(line, s, RawChar(s))
<1> DEFINE r == Reading(line)[s.scan - 1]
           c == Ch(s)
           e == NextCh(s)
           t == RawChar(s)
<1>1. s.mode \in Inner /\ "token" \in Inner /\ "token" \in Modes /\ "unbalanced" \in Modes
  BY DEF Inner, Modes
<1>2. s \in ScanState /\ s.dest \in 1 .. s.scan
  BY <1>1, InnerIs
<1>3. /\ s.scan \in Nat /\ r \in ReadState
      /\ c = NUL => r = Read(line)
      /\ c # NUL =>
           /\ c \in Symbols /\ s.scan + 1 <= Len(s.mem)
           /\ Reading(line)[s.scan + 1 - 1] = Meaning(r, c)
      /\ c # NUL /\ e = NUL => Read(line) = Meaning(r, c)
      /\ c # NUL /\ e # NUL =>
           /\ e \in Symbols /\ s.scan + 2 <= Len(s.mem)
           /\ Reading(line)[s.scan + 2 - 1] = Meaning(Meaning(r, c), e)
  BY ReadNext
<1>4. Follows(line, s, r) /\ r.mode = "raw" /\ r.inside /\ ~r.escaped
  BY DEF Follows
<1>5. << >> \in Strings
  BY EmptySeq
<1>6. Escape # NUL /\ Quote # NUL /\ Quote # Escape /\ Escape \in Symbols
  BY SymbolsAre DEF Escape, NUL, Quote
<1>7. \A u, text, d : GrowsIn(u, s, text, d, s.mode) => GrowsIn(In(u, "token"), s, text, d, "token")
  BY <1>1, GrownIn DEF Modes
<1>8. Means("token") = "plain" /\ Means(s.mode) = "raw"
  BY DEF Means
<1> HIDE DEF c, e, r
<1>9. CASE Unclosed(s)
  <2>1. t = In(s, "unbalanced")
    BY <1>9 DEF RawChar
  <2>2. t \in ScanState /\ t.mode = "unbalanced"
    BY <1>2, <2>1, InIs
  <2>3. Read(line).mode = "raw"
    <3>1. CASE c = NUL
      BY <1>3, <1>4, <3>1
    <3>2. CASE c = Escape /\ e = NUL
      BY <1>3, <1>4, <1>6, <3>2, EscapedIs
    <3> QED BY <1>9, <3>1, <3>2 DEF Unclosed, c, e
  <2> QED BY <2>2, <2>3 DEF Goes, Active, Unbalanced
<1>10. CASE ~Unclosed(s) /\ c = Quote
  <2>1. t = In(Terminate(Advance(s, 1)), "token")
    BY <1>6, <1>10 DEF RawChar, c
  <2>2. c # NUL /\ s.scan + 1 <= Len(s.mem)
    BY <1>3, <1>6, <1>10
  <2>3. GrowsIn(t, s, << >>, 1, "token")
    BY <1>2, <1>7, <2>1, <2>2, Grown
  <2>4. Meaning(r, c) = Quoted(r, "plain")
    BY <1>4, <1>6, <1>10 DEF Meaning
  <2> DEFINE r2 == Quoted(r, "plain")
  <2>5. Reading(line)[s.scan + 1 - 1] = r2
    BY <1>3, <2>2, <2>4
  <2>6. /\ r2.words = r.words /\ r2.word = r.word \o << >>
        /\ r2.inside /\ ~r2.escaped /\ r2.mode = "plain" /\ r2.shrunk
    BY <1>3, <1>4, QuotedIs
  <2> HIDE DEF r2
  <2> QED BY <1>1, <1>4, <1>5, <1>8, <2>3, <2>5, <2>6, WordGoesOn DEF r
<1>11. CASE ~Unclosed(s) /\ c = Escape
  <2>1. c # NUL /\ e # NUL
    BY <1>6, <1>11 DEF Unclosed, c, e
  <2> DEFINE r1 == Meaning(r, c)
             text == IF e \in {Escape, Quote} THEN <<e>> ELSE <<Escape, e>>
             r2 == Add(r1, text)
  <2>2. /\ r1 \in ReadState /\ r1.words = r.words /\ r1.word = r.word
        /\ r1.inside /\ r1.escaped /\ r1.mode = "raw" /\ r1.shrunk
    BY <1>3, <1>4, <1>11, EscapedIs
  <2> HIDE DEF r1
  <2>3. Meaning(r1, e) = r2
    BY <2>2 DEF Meaning
  <2>4. text \in Strings
    BY <1>3, <1>6, <2>1, OneSymbol
  <2>5. GrowsIn(t, s, text, 2, s.mode)
    <3>1. 2 \in {1, 2} /\ s.scan + 2 <= Len(s.mem) /\ e \in Symbols
      BY <1>3, <2>1
    <3>2. CASE e \in {Escape, Quote}
      <4>1. t = Put(Advance(s, 2), e)
        BY <1>6, <1>11, <3>2 DEF RawChar, c, e
      <4> QED BY <1>2, <3>1, <3>2, <4>1, Grown
    <3>3. CASE e \notin {Escape, Quote}
      <4>1. t = Put(Put(Advance(s, 2), Escape), e)
        BY <1>6, <1>11, <3>3 DEF RawChar, c, e
      <4> QED BY <1>2, <1>6, <3>1, <3>3, <4>1, Grown
    <3> QED BY <3>2, <3>3
  <2>6. /\ r2.words = r.words /\ r2.word = r.word \o text
        /\ r2.inside /\ ~r2.escaped /\ r2.mode = "raw" /\ r2.shrunk
    BY <2>2, AddIs
  <2>7. Reading(line)[s.scan + 2 - 1] = r2
    BY <1>3, <2>1, <2>3 DEF r1
  <2> HIDE DEF text, r2
  <2> QED BY <1>1, <1>4, <1>8, <2>4, <2>5, <2>6, <2>7, WordGoesOn DEF r
<1>12. CASE ~Unclosed(s) /\ c # Quote /\ c # Escape
  <2>1. t = Put(Advance(s, 1), c)
    BY <1>12 DEF RawChar, c
  <2>2. c # NUL
    BY <1>12 DEF Unclosed, c
  <2>3. c \in Symbols /\ s.scan + 1 <= Len(s.mem) /\ <<c>> \in Strings /\ Len(<<c>>) = 1
    BY <1>3, <2>2, OneSymbol
  <2>4. GrowsIn(t, s, <<c>>, 1, s.mode)
    BY <1>2, <2>1, <2>3, Grown
  <2>5. Meaning(r, c) = Add(r, <<c>>)
    BY <1>4, <1>12 DEF Meaning
  <2> DEFINE r2 == Add(r, <<c>>)
  <2>6. Reading(line)[s.scan + 1 - 1] = r2
    BY <1>3, <2>2, <2>5
  <2>7. /\ r2.words = r.words /\ r2.word = r.word \o <<c>>
        /\ r2.inside /\ ~r2.escaped /\ r2.mode = "raw" /\ r2.shrunk = r.shrunk
    BY <1>3, <1>4, AddIs
  <2> HIDE DEF r2
  <2> QED BY <1>1, <1>4, <1>8, <2>3, <2>4, <2>6, <2>7, WordGoesOn DEF r
<1> QED BY <1>9, <1>10, <1>11, <1>12

(* copy_cooked_string                                                       *)
LEMMA CookedStep ==
  ASSUME NEW line \in Strings, NEW s, s.mode = "cooked",
         Follows(line, s, Reading(line)[s.scan - 1])
  PROVE  Goes(line, s, CookedChar(s))
<1> DEFINE r == Reading(line)[s.scan - 1]
           c == Ch(s)
           e == NextCh(s)
           t == CookedChar(s)
<1>1. s.mode \in Inner /\ "token" \in Inner /\ "token" \in Modes /\ "unbalanced" \in Modes
  BY DEF Inner, Modes
<1>2. s \in ScanState /\ s.dest \in 1 .. s.scan
  BY <1>1, InnerIs
<1>3. /\ s.scan \in Nat /\ r \in ReadState
      /\ c = NUL => r = Read(line)
      /\ c # NUL =>
           /\ c \in Symbols /\ s.scan + 1 <= Len(s.mem)
           /\ Reading(line)[s.scan + 1 - 1] = Meaning(r, c)
      /\ c # NUL /\ e = NUL => Read(line) = Meaning(r, c)
      /\ c # NUL /\ e # NUL =>
           /\ e \in Symbols /\ s.scan + 2 <= Len(s.mem)
           /\ Reading(line)[s.scan + 2 - 1] = Meaning(Meaning(r, c), e)
  BY ReadNext
<1>4. Follows(line, s, r) /\ r.mode = "cooked" /\ r.inside /\ ~r.escaped
  BY DEF Follows
<1>5. << >> \in Strings
  BY EmptySeq
<1>6. Escape # NUL /\ DQuote # NUL /\ DQuote # Escape /\ Escape \in Symbols
  <2>1. Escape # NUL /\ DQuote # NUL /\ DQuote # Escape
    BY DEF Escape, NUL, DQuote
  <2> QED BY <2>1, SymbolsAre
<1>7. \A u, text, d : GrowsIn(u, s, text, d, s.mode) => GrowsIn(In(u, "token"), s, text, d, "token")
  BY <1>1, GrownIn DEF Modes
<1>8. Means("token") = "plain" /\ Means(s.mode) = "cooked"
  BY DEF Means
<1> HIDE DEF c, e, r
<1>9. CASE Unclosed(s)
  <2>1. t = In(s, "unbalanced")
    BY <1>9 DEF CookedChar
  <2>2. t \in ScanState /\ t.mode = "unbalanced"
    BY <1>2, <2>1, InIs
  <2>3. Read(line).mode = "cooked"
    <3>1. CASE c = NUL
      BY <1>3, <1>4, <3>1
    <3>2. CASE c = Escape /\ e = NUL
      BY <1>3, <1>4, <1>6, <3>2, EscapedIs
    <3> QED BY <1>9, <3>1, <3>2 DEF Unclosed, c, e
  <2> QED BY <2>2, <2>3 DEF Goes, Active, Unbalanced
<1>10. CASE ~Unclosed(s) /\ c = DQuote
  <2>1. t = In(Terminate(Advance(s, 1)), "token")
    BY <1>6, <1>10 DEF CookedChar, c
  <2>2. c # NUL /\ s.scan + 1 <= Len(s.mem)
    BY <1>3, <1>6, <1>10
  <2>3. GrowsIn(t, s, << >>, 1, "token")
    BY <1>2, <1>7, <2>1, <2>2, Grown
  <2>4. Meaning(r, c) = Quoted(r, "plain")
    BY <1>4, <1>6, <1>10 DEF Meaning
  <2> DEFINE r2 == Quoted(r, "plain")
  <2>5. Reading(line)[s.scan + 1 - 1] = r2
    BY <1>3, <2>2, <2>4
  <2>6. /\ r2.words = r.words /\ r2.word = r.word \o << >>
        /\ r2.inside /\ ~r2.escaped /\ r2.mode = "plain" /\ r2.shrunk
    BY <1>3, <1>4, QuotedIs
  <2> HIDE DEF r2
  <2> QED BY <1>1, <1>4, <1>5, <1>8, <2>3, <2>5, <2>6, WordGoesOn DEF r
<1>11. CASE ~Unclosed(s) /\ c = Escape
  <2>1. c # NUL /\ e # NUL
    BY <1>6, <1>11 DEF Unclosed, c, e
  <2> DEFINE r1 == Meaning(r, c)
             text == <<EscapeConvt(e)>>
             r2 == Add(r1, text)
  <2>2. /\ r1 \in ReadState /\ r1.words = r.words /\ r1.word = r.word
        /\ r1.inside /\ r1.escaped /\ r1.mode = "cooked" /\ r1.shrunk
    BY <1>3, <1>4, <1>11, EscapedIs
  <2> HIDE DEF r1
  <2>3. Meaning(r1, e) = r2
    BY <2>2 DEF Meaning
  <2>4. text \in Strings
    BY <1>3, <2>1, SymbolsAre, OneSymbol
  <2>5. GrowsIn(t, s, text, 2, s.mode)
    <3>1. 2 \in {1, 2} /\ s.scan + 2 <= Len(s.mem) /\ EscapeConvt(e) \in Symbols
      BY <1>3, <2>1, SymbolsAre
    <3>2. t = Put(Advance(s, 2), EscapeConvt(e))
      BY <1>6, <1>11 DEF CookedChar, c, e
    <3> QED BY <1>2, <3>1, <3>2, Grown
  <2>6. /\ r2.words = r.words /\ r2.word = r.word \o text
        /\ r2.inside /\ ~r2.escaped /\ r2.mode = "cooked" /\ r2.shrunk
    BY <2>2, AddIs
  <2>7. Reading(line)[s.scan + 2 - 1] = r2
    BY <1>3, <2>1, <2>3 DEF r1
  <2> HIDE DEF text, r2
  <2> QED BY <1>1, <1>4, <1>8, <2>4, <2>5, <2>6, <2>7, WordGoesOn DEF r
<1>12. CASE ~Unclosed(s) /\ c # DQuote /\ c # Escape
  <2>1. t = Put(Advance(s, 1), c)
    BY <1>12 DEF CookedChar, c
  <2>2. c # NUL
    BY <1>12 DEF Unclosed, c
  <2>3. c \in Symbols /\ s.scan + 1 <= Len(s.mem) /\ <<c>> \in Strings /\ Len(<<c>>) = 1
    BY <1>3, <2>2, OneSymbol
  <2>4. GrowsIn(t, s, <<c>>, 1, s.mode)
    BY <1>2, <2>1, <2>3, Grown
  <2>5. Meaning(r, c) = Add(r, <<c>>)
    BY <1>4, <1>12 DEF Meaning
  <2> DEFINE r2 == Add(r, <<c>>)
  <2>6. Reading(line)[s.scan + 1 - 1] = r2
    BY <1>3, <2>2, <2>5
  <2>7. /\ r2.words = r.words /\ r2.word = r.word \o <<c>>
        /\ r2.inside /\ ~r2.escaped /\ r2.mode = "cooked" /\ r2.shrunk = r.shrunk
    BY <1>3, <1>4, AddIs
  <2> HIDE DEF r2
  <2> QED BY <1>1, <1>4, <1>8, <2>3, <2>4, <2>6, <2>7, WordGoesOn DEF r
<1> QED BY <1>9, <1>10, <1>11, <1>12

(* Where the line ends in a word, nothing but that word may lack its NUL.    *)
LEMMA EndsInside ==
  ASSUME NEW line \in Strings, NEW s, NEW t \in ScanState, NEW r \in ReadState, NEW start \in Nat,
         Tape(line, s), Current(s, start, r), Same(t, s),
         Len(t.mem) = Len(s.mem), t.mem[Len(t.mem)] = NUL,
         \A j \in 1 .. Len(s.mem) : j < s.dest => t.mem[j] = s.mem[j],
         Read(line).words = r.words, Read(line).word = r.word,
         Read(line).inside, Read(line).mode = "plain",
         Read(line).shrunk \/ t.mem[s.dest] = NUL
  PROVE  Result(line, t)
<1> DEFINE n == Len(s.mem)
           m == Len(r.words)
           l == Len(r.word)
           w == Words(line)
<1>1. /\ s \in ScanState /\ n \in Nat /\ m \in Nat /\ l \in Nat /\ s.dest \in Nat /\ s.scan \in 1 .. n
      /\ r.words \in Seq(Strings) /\ r.word \in Strings
      /\ Len(s.starts) < s.act
  BY LenProperties DEF Tape, ScanState, ReadState
<1>2. /\ Len(s.starts) = m + 1 /\ s.starts[Len(s.starts)] = start
      /\ start \in 1 .. s.dest /\ s.dest = start + l /\ s.dest <= s.scan
      /\ \A k \in 1 .. l : s.mem[start + k - 1] = r.word[k]
      /\ Finished(s, r.words, start)
  BY DEF Current
<1>3. w = Append(r.words, r.word)
  BY DEF Words
<1>4. /\ Len(w) = m + 1 /\ w[m + 1] = r.word
      /\ \A i \in 1 .. m : w[i] = r.words[i]
  BY <1>1, <1>3, AppendProperties
<1> HIDE DEF n, m, l, w
<1>5. Finished(t, r.words, start)
  <2>1. \A j \in 1 .. Len(s.mem) : j < start => t.mem[j] = s.mem[j]
    BY <1>1, <1>2 DEF n
  <2>2. start <= start
    OBVIOUS
  <2>3. Len(r.words) <= Len(t.starts) /\ \A i \in 1 .. Len(r.words) : t.starts[i] = s.starts[i]
    BY <1>1, <1>2 DEF m, Same
  <2>4. s \in ScanState /\ t \in ScanState /\ r.words \in Seq(Strings) /\ Finished(s, r.words, start)
    BY <1>1, <1>2
  <2>5. start \in Nat /\ Len(t.mem) = Len(s.mem)
    OBVIOUS
  <2> QED BY ONLY <2>1, <2>2, <2>3, <2>4, <2>5, FinishedStays
<1>6. Lies(t.mem, start, r.word)
  <2>1. start \in 1 .. n /\ start + l <= n
    BY <1>1, <1>2
  <2>2. \A k \in 1 .. l : start + k - 1 \in 1 .. n /\ start + k - 1 < s.dest
    BY <1>1, <1>2
  <2>3. \A k \in 1 .. l : t.mem[start + k - 1] = r.word[k]
    BY <1>2, <2>2 DEF n
  <2> QED BY <2>1, <2>3 DEF Lies, l, n
<1>7. t.mem[start + l] = NUL \/ EndsShrunk(line)
  BY <1>2 DEF EndsShrunk
<1>8. t.starts[m + 1] = start /\ Len(t.starts) = m + 1 /\ Len(t.starts) < t.act
  BY <1>1, <1>2 DEF Same
<1>9. ASSUME NEW i \in 1 .. m + 1
      PROVE  /\ Lies(t.mem, t.starts[i], w[i])
             /\ t.mem[t.starts[i] + Len(w[i])] = NUL \/ (i = m + 1 /\ EndsShrunk(line))
  <2>1. CASE i \in 1 .. m
    BY <1>4, <1>5, <2>1 DEF Finished, m
  <2>2. CASE i = m + 1
    BY <1>4, <1>6, <1>7, <1>8, <2>2 DEF l
  <2> QED BY <1>1, <2>1, <2>2
<1>10. t.mem \in Texts /\ t.starts \in Seq(Nat) /\ ~Unbalanced(line)
  BY DEF ScanState, Unbalanced
<1> QED BY <1>4, <1>8, <1>9, <1>10 DEF Result, w

LEMMA EndsOutside ==
  ASSUME NEW line \in Strings, NEW s, NEW t \in ScanState, NEW r \in ReadState,
         Tape(line, s), Finished(s, r.words, s.scan), Len(s.starts) = Len(r.words),
         Same(t, s), t.mem = s.mem,
         Read(line) = r, ~r.inside, r.mode = "plain"
  PROVE  Result(line, t)
<1>1. Words(line) = r.words
  BY DEF Words
<1>2. \A i \in 1 .. Len(r.words) :
        Lies(t.mem, t.starts[i], r.words[i]) /\ t.mem[t.starts[i] + Len(r.words[i])] = NUL
  BY DEF Finished, Same
<1>3. /\ t.mem \in Texts /\ t.mem[Len(t.mem)] = NUL /\ t.starts \in Seq(Nat)
      /\ Len(t.starts) = Len(r.words) /\ Len(t.starts) < t.act /\ ~Unbalanced(line)
  BY DEF ScanState, Tape, Same, Unbalanced
<1> QED BY <1>1, <1>2, <1>3 DEF Result

LEMMA TokenStep ==
  ASSUME NEW line \in Strings, NEW s, s.mode = "token",
         Follows(line, s, Reading(line)[s.scan - 1])
  PROVE  Goes(line, s, TokenChar(s))
<1> DEFINE r == Reading(line)[s.scan - 1]
           c == Ch(s)
           e == NextCh(s)
           t == TokenChar(s)
<1>1. s.mode \in Inner /\ "raw" \in Inner /\ "cooked" \in Inner /\ "token" \in Inner
  BY DEF Inner
<1>2. s \in ScanState /\ s.dest \in 1 .. s.scan
  BY <1>1, InnerIs
<1>3. /\ s.scan \in Nat /\ r \in ReadState
      /\ c = NUL => r = Read(line)
      /\ c # NUL =>
           /\ c \in Symbols /\ s.scan + 1 <= Len(s.mem)
           /\ Reading(line)[s.scan + 1 - 1] = Meaning(r, c)
      /\ c # NUL /\ e = NUL => Read(line) = Meaning(r, c)
      /\ c # NUL /\ e # NUL =>
           /\ e \in Symbols /\ s.scan + 2 <= Len(s.mem)
           /\ Reading(line)[s.scan + 2 - 1] = Meaning(Meaning(r, c), e)
  BY ReadNext
<1>4. /\ Follows(line, s, r) /\ r.mode = "plain" /\ ~r.escaped /\ Tape(line, s)
      /\ r.inside \/ (s.scan <= Len(line) /\ line[s.scan] \notin Spaces)
      /\ \E start \in Nat : Current(s, start, r)
  BY DEF Follows
<1>5. /\ c = NUL => s.scan = Len(line) + 1
      /\ c # NUL => s.scan \in 1 .. Len(line) /\ c = line[s.scan]
  BY <1>4, NextRead
<1>6. /\ Len(line) \in Nat /\ << >> \in Strings
      /\ Len(s.mem) = Len(line) + 1 /\ s.mem[Len(s.mem)] = NUL
  BY <1>4, LenProperties, EmptySeq DEF Tape
<1>7. r.inside \/ (c # NUL /\ c \notin Spaces)
  BY <1>4, <1>5, <1>6
<1>8. \A u, text, d, mode : \A mode2 \in Modes :
        GrowsIn(u, s, text, d, mode) => GrowsIn(In(u, mode2), s, text, d, mode2)
  BY GrownIn DEF Modes
<1>9. Means("token") = "plain" /\ Means("raw") = "raw" /\ Means("cooked") = "cooked"
  BY DEF Means
<1>10. /\ {"raw", "cooked", "token", "space", "ok"} \subseteq Modes
       /\ Quote \notin Spaces /\ DQuote \notin Spaces /\ Escape \notin Spaces /\ NUL \notin Spaces
       /\ Quote \notin Separators /\ DQuote \notin Separators /\ Escape \notin Separators
       /\ NUL \notin Separators /\ Spaces \subseteq Separators
       /\ NUL # Escape /\ NUL # Quote /\ NUL # DQuote
       /\ Escape # Quote /\ Escape # DQuote /\ Quote # DQuote
  BY DEF Modes, Quote, DQuote, Escape, NUL, Spaces, Separators
<1> HIDE DEF c, e, r
<1>11. ASSUME t.mode = "ok", t \in ScanState, Result(line, t) PROVE Goes(line, s, t)
  BY <1>11 DEF Goes, Active
<1> SUFFICES Goes(line, s, t)
  OBVIOUS
<1> HIDE DEF t
<1>12. CASE c = NUL
  <2>1. t = In(s, "ok")
    BY <1>10, <1>12 DEF TokenChar, c, t
  <2>2. t \in ScanState /\ t.mem = s.mem /\ t.mode = "ok" /\ Same(t, s)
    BY <1>2, <2>1, InIs
  <2>3. PICK start \in Nat : Current(s, start, r)
    BY <1>4
  <2>4. r.shrunk \/ t.mem[s.dest] = NUL
    <3>1. ~r.shrunk => s.dest = Len(s.mem)
      BY <1>5, <1>6, <1>12, <2>3 DEF Current
    <3> QED BY <1>6, <2>2, <3>1
  <2>5. /\ Read(line).words = r.words /\ Read(line).word = r.word
        /\ Read(line).inside /\ Read(line).mode = "plain"
        /\ Read(line).shrunk \/ t.mem[s.dest] = NUL
    BY <1>3, <1>4, <1>7, <1>12, <2>4
  <2>6. Result(line, t)
    BY <1>3, <1>4, <1>6, <2>2, <2>3, <2>5, EndsInside
  <2> QED BY <1>11, <2>2, <2>6
<1>13. CASE c = Escape /\ e = NUL
  <2> DEFINE u == Advance(s, 2)
             v == Put(u, NUL)
  <2>1. t = In(v, "ok")
    BY <1>10, <1>13 DEF TokenChar, c, e, t
  <2>2. /\ u \in ScanState /\ u.mem = s.mem /\ u.dest = s.dest /\ Same(u, s)
    BY <1>2, AdvanceIs
  <2>3. s.dest \in 1 .. Len(s.mem) /\ NUL \in Characters /\ s.mem \in Seq(Characters)
    <3>1. c # NUL
      BY <1>10, <1>13
    <3>2. s.scan + 1 <= Len(s.mem)
      BY <1>3, <3>1
    <3>3. s.dest \in 1 .. Len(s.mem)
      BY <1>2, <1>3, <1>6, <3>2
    <3> QED BY <1>2, <3>3, CharactersAssumption DEF ScanState
  <2> HIDE DEF u
  <2>4. /\ v \in ScanState /\ v.mem = [s.mem EXCEPT ![s.dest] = NUL] /\ Same(v, s)
    BY <2>2, <2>3, PutIs DEF Same
  <2> HIDE DEF v
  <2>5. t \in ScanState /\ t.mem = [s.mem EXCEPT ![s.dest] = NUL] /\ t.mode = "ok" /\ Same(t, s)
    BY <2>1, <2>4, InIs DEF Same
  <2>6. /\ Len(t.mem) = Len(s.mem)
        /\ \A j \in 1 .. Len(s.mem) : t.mem[j] = IF j = s.dest THEN NUL ELSE s.mem[j]
    BY <2>3, <2>5, ExceptSeq
  <2>7. t.mem[s.dest] = NUL /\ t.mem[Len(t.mem)] = NUL
    BY <1>6, <2>3, <2>6
  <2>8. \A j \in 1 .. Len(s.mem) : j < s.dest => t.mem[j] = s.mem[j]
    BY <2>3, <2>6
  <2>9. PICK start \in Nat : Current(s, start, r)
    BY <1>4
  <2>10. Read(line) = Meaning(r, Escape)
    BY <1>3, <1>10, <1>13
  <2>11. /\ Read(line).words = r.words /\ Read(line).word = r.word
         /\ Read(line).inside /\ Read(line).mode = "plain"
         /\ Read(line).shrunk \/ t.mem[s.dest] = NUL
    BY <1>3, <1>4, <2>10, EscapedIs
  <2>12. Result(line, t)
    BY <1>3, <1>4, <2>5, <2>6, <2>7, <2>8, <2>9, <2>11, EndsInside
  <2> QED BY <1>11, <2>5, <2>12
<1>14. CASE c = Escape /\ e # NUL
  <2>1. c # NUL
    BY <1>10, <1>14
  <2> DEFINE r1 == Meaning(r, c)
             r2 == Add(r1, <<e>>)
  <2>2. /\ r1 \in ReadState /\ r1.words = r.words /\ r1.word = r.word
        /\ r1.inside /\ r1.escaped /\ r1.mode = "plain" /\ r1.shrunk
    BY <1>3, <1>4, <1>14, EscapedIs
  <2> HIDE DEF r1
  <2>3. Meaning(r1, e) = r2
    BY <2>2 DEF Meaning
  <2>4. e \in Symbols /\ s.scan + 2 <= Len(s.mem) /\ <<e>> \in Strings
    BY <1>3, <1>14, <2>1, OneSymbol
  <2>5. t = In(Put(Advance(s, 2), e), "token")
    BY <1>10, <1>14 DEF TokenChar, c, e, t
  <2>6. GrowsIn(Put(Advance(s, 2), e), s, <<e>>, 2, s.mode)
    BY <1>2, <2>4, Grown
  <2>7. GrowsIn(t, s, <<e>>, 2, "token")
    BY <1>8, <1>10, <2>5, <2>6
  <2>8. /\ r2.words = r.words /\ r2.word = r.word \o <<e>>
        /\ r2.inside /\ ~r2.escaped /\ r2.mode = "plain" /\ r2.shrunk
    BY <2>2, AddIs
  <2>9. Reading(line)[s.scan + 2 - 1] = r2
    BY <1>3, <1>14, <2>1, <2>3 DEF r1
  <2> HIDE DEF r2
  <2> QED BY <1>1, <1>4, <1>9, <2>4, <2>7, <2>8, <2>9, WordGoesOn DEF r
<1>15. CASE c \in {Quote, DQuote}
  <2> DEFINE mode == IF c = Quote THEN "raw" ELSE "cooked"
             r2 == Quoted(r, mode)
  <2>1. t = In(Advance(s, 1), mode)
    BY <1>10, <1>15 DEF TokenChar, c, t
  <2>2. c # NUL /\ s.scan + 1 <= Len(s.mem)
    BY <1>3, <1>10, <1>15
  <2>3. Meaning(r, c) = r2
    BY <1>4, <1>10, <1>15 DEF Meaning
  <2>4. mode \in Inner /\ mode \in Modes /\ Means(mode) = mode
    BY <1>1, <1>9, <1>10
  <2> HIDE DEF mode
  <2>5. GrowsIn(Advance(s, 1), s, << >>, 1, s.mode)
    BY <1>2, <2>2, Grown
  <2>6. GrowsIn(t, s, << >>, 1, mode)
    BY <1>8, <2>1, <2>4, <2>5
  <2>7. Reading(line)[s.scan + 1 - 1] = r2
    BY <1>3, <2>2, <2>3
  <2>8. /\ r2.words = r.words /\ r2.word = r.word \o << >>
        /\ r2.inside /\ ~r2.escaped /\ r2.mode = mode /\ r2.shrunk
    BY <1>3, <1>4, QuotedIs
  <2> HIDE DEF r2
  <2> QED BY <1>1, <1>4, <1>6, <2>4, <2>6, <2>7, <2>8, WordGoesOn DEF r
<1>16. CASE c \in Separators
  <2> DEFINE u == Advance(s, 1)
             v == Terminate(u)
             r2 == EndWord(r)
  <2>1. t = In(v, "space")
    BY <1>10, <1>16 DEF TokenChar, c, t
  <2>2. c # NUL /\ s.scan + 1 <= Len(s.mem) /\ s.scan \in 1 .. Len(line)
    BY <1>3, <1>5, <1>10, <1>16
  <2>3. Meaning(r, c) = r2
    BY <1>4, <1>7, <1>10, <1>16 DEF Meaning
  <2>4. /\ u \in ScanState /\ u.mem = s.mem /\ u.scan = s.scan + 1 /\ u.dest = s.dest /\ Same(u, s)
    BY <1>2, AdvanceIs
  <2>5. s.dest \in 1 .. Len(s.mem)
    BY <1>2, <1>3, <1>6, <2>2
  <2> HIDE DEF u
  <2>6. /\ v \in ScanState /\ v.mem = [s.mem EXCEPT ![s.dest] = NUL] /\ v.scan = s.scan + 1
        /\ Same(v, s)
    BY <2>4, <2>5, TerminateIs DEF Same
  <2> HIDE DEF v
  <2>7. /\ t \in ScanState /\ t.mem = [s.mem EXCEPT ![s.dest] = NUL] /\ t.scan = s.scan + 1
        /\ Same(t, s) /\ t.mode = "space"
    BY <2>1, <2>6, InIs DEF Same
  <2>8. PICK start \in Nat : Current(s, start, r)
    BY <1>4
  <2>9. Follows(line, t, r2)
    BY <1>3, <1>4, <2>2, <2>7, <2>8, WordEnds
  <2>10. t.scan - 1 = s.scan + 1 - 1 /\ t.scan \in 1 .. Len(line) + 1
         /\ t.scan > s.scan /\ s.scan \in 1 .. Len(line) + 1
    BY <1>6, <2>2, <2>7
  <2>11. Reading(line)[t.scan - 1] = r2
    BY <1>3, <2>2, <2>3, <2>10
  <2>12. ToDo(line, t) < ToDo(line, s)
    BY <2>10, ToDoIs
  <2> QED BY <2>7, <2>9, <2>11, <2>12 DEF Goes
<1>17. CASE c \notin {NUL, Escape, Quote, DQuote} \cup Separators
  <2>1. t = Put(Advance(s, 1), c)
    BY <1>17 DEF TokenChar, c, t
  <2>2. c # NUL
    BY <1>17
  <2>3. c \in Symbols /\ s.scan + 1 <= Len(s.mem) /\ <<c>> \in Strings /\ Len(<<c>>) = 1
    BY <1>3, <2>2, OneSymbol
  <2>4. GrowsIn(t, s, <<c>>, 1, "token")
    BY <1>2, <2>1, <2>3, Grown
  <2> DEFINE r2 == Add(r, <<c>>)
  <2>5. Meaning(r, c) = r2
    BY <1>4, <1>10, <1>17 DEF Meaning
  <2>6. Reading(line)[s.scan + 1 - 1] = r2
    BY <1>3, <2>2, <2>5
  <2>7. /\ r2.words = r.words /\ r2.word = r.word \o <<c>>
        /\ r2.inside /\ ~r2.escaped /\ r2.mode = "plain" /\ r2.shrunk = r.shrunk
    BY <1>3, <1>4, AddIs
  <2> HIDE DEF r2
  <2> QED BY <1>1, <1>4, <1>9, <2>3, <2>4, <2>6, <2>7, WordGoesOn DEF r
<1> QED BY <1>12, <1>13, <1>14, <1>15, <1>16, <1>17

LEMMA SpaceStep ==
  ASSUME NEW line \in Strings, NEW s, s.mode = "space",
         Follows(line, s, Reading(line)[s.scan - 1])
  PROVE  Goes(line, s, SkipSpace(s))
<1> DEFINE r == Reading(line)[s.scan - 1]
           c == Ch(s)
           t == SkipSpace(s)
<1>1. /\ s.scan \in Nat /\ r \in ReadState
      /\ c = NUL => r = Read(line)
      /\ c # NUL => Reading(line)[s.scan + 1 - 1] = Meaning(r, c)
  BY ReadNext
<1>2. /\ Follows(line, s, r) /\ Tape(line, s) /\ s \in ScanState
      /\ r.mode = "plain" /\ ~r.escaped /\ ~r.inside /\ r.word = << >> /\ ~r.shrunk
      /\ Len(s.starts) = Len(r.words) /\ Finished(s, r.words, s.scan)
  BY DEF Follows, Tape
<1>3. /\ c = NUL => s.scan = Len(line) + 1
      /\ c # NUL => s.scan \in 1 .. Len(line) /\ c = line[s.scan]
  BY <1>2, NextRead
<1>4. /\ Len(line) \in Nat /\ Len(s.mem) = Len(line) + 1 /\ s.scan \in 1 .. Len(line) + 1
      /\ s.mem[Len(s.mem)] = NUL /\ \A j \in s.scan .. Len(line) : s.mem[j] = line[j]
      /\ 2 <= s.act /\ Len(s.starts) < s.act /\ s.act \in Nat /\ Len(s.starts) \in Nat
  BY <1>2, LenProperties DEF Tape, ScanState
<1>5. NUL \notin Spaces /\ Escape \notin Spaces /\ "ok" \in Modes
  BY DEF NUL, Escape, Spaces, Modes
<1> HIDE DEF c, r
<1> SUFFICES Goes(line, s, t)
  OBVIOUS
<1> HIDE DEF t
<1>6. CASE c \in Spaces
  <2>1. t = Advance(s, 1)
    BY <1>5, <1>6 DEF SkipSpace, c, t
  <2>2. /\ t \in ScanState /\ t.mem = s.mem /\ t.scan = s.scan + 1 /\ t.mode = "space" /\ Same(t, s)
    BY <1>2, <2>1, AdvanceIs
  <2>3. c # NUL /\ s.scan \in 1 .. Len(line)
    BY <1>3, <1>5, <1>6
  <2>4. Meaning(r, c) = r
    BY <1>2, <1>5, <1>6 DEF Meaning
  <2>5. /\ t.scan - 1 = s.scan + 1 - 1 /\ t.scan \in 1 .. Len(line) + 1 /\ t.scan > s.scan
        /\ s.scan <= t.scan /\ t.scan \in Nat
        /\ \A j \in t.scan .. Len(line) : j \in s.scan .. Len(line)
    <3>1. \A a, e, n \in Nat :
            a \in 1 .. n /\ e = a + 1 =>
              /\ e - 1 = a + 1 - 1 /\ e \in 1 .. n + 1 /\ e > a /\ a <= e
              /\ \A j \in e .. n : j \in a .. n
      OBVIOUS
    <3>2. t.scan \in Nat
      BY <2>2 DEF ScanState
    <3> QED BY <1>1, <1>4, <2>2, <2>3, <3>1, <3>2
  <2>6. Reading(line)[t.scan - 1] = r
    BY <1>1, <2>3, <2>4, <2>5
  <2>7. Tape(line, t)
    BY <1>4, <2>2, <2>5 DEF Tape, Same
  <2>8. Finished(t, r.words, t.scan)
    <3>1. r.words \in Seq(Strings) /\ Len(r.words) <= Len(t.starts)
      BY <1>1, <1>2, <1>4, <2>2 DEF ReadState, Same
    <3>2. /\ Len(t.mem) = Len(s.mem)
          /\ \A i \in 1 .. Len(r.words) : t.starts[i] = s.starts[i]
          /\ \A j \in 1 .. Len(s.mem) : j < s.scan => t.mem[j] = s.mem[j]
      BY <2>2 DEF Same
    <3> QED BY ONLY <1>1, <1>2, <2>2, <2>5, <3>1, <3>2, FinishedStays
  <2>9. Follows(line, t, r)
    BY <1>2, <2>2, <2>7, <2>8 DEF Follows, Same
  <2>10. ToDo(line, t) < ToDo(line, s)
    BY <1>4, <2>5, ToDoIs
  <2> QED BY <2>2, <2>6, <2>9, <2>10 DEF Goes
<1>7. CASE c = NUL
  <2>1. t = In(s, "ok")
    BY <1>5, <1>7 DEF SkipSpace, c, t
  <2>2. t \in ScanState /\ t.mem = s.mem /\ t.mode = "ok" /\ Same(t, s)
    BY <1>2, <2>1, InIs
  <2>3. Result(line, t)
    BY <1>1, <1>2, <1>7, <2>2, EndsOutside
  <2> QED BY <2>2, <2>3 DEF Goes, Active
<1>8. CASE c \notin Spaces /\ c # NUL
  <2> DEFINE a == IF Len(s.starts) + 1 >= s.act THEN s.act + s.act \div 2 ELSE s.act
  <2>1. t = [s EXCEPT !.starts = Append(s.starts, s.scan), !.dest = s.scan, !.mode = "token",
                      !.act = a]
    BY <1>8 DEF SkipSpace, c, t
  <2>2. a \in Nat /\ 2 <= a /\ Len(s.starts) + 1 < a
    <3>1. \A x, y \in Nat : 2 <= x /\ y < x => x + x \div 2 \in Nat /\ y + 1 < x + x \div 2
                                              /\ 2 <= x + x \div 2
      <4>1. \A x \in Nat : 2 <= x => x \div 2 \in Nat /\ 1 <= x \div 2
        OBVIOUS
      <4> QED BY <4>1
    <3> QED BY <1>4, <3>1
  <2> HIDE DEF a
  <2>3. Append(s.starts, s.scan) \in Seq(Nat)
    BY <1>1, <1>2, AppendProperties DEF ScanState
  <2>4. /\ t \in ScanState /\ t.mem = s.mem /\ t.scan = s.scan /\ t.dest = s.scan
        /\ t.mode = "token" /\ t.starts = Append(s.starts, s.scan) /\ t.act = a
    BY <1>1, <1>2, <2>1, <2>2, <2>3 DEF ScanState
  <2>5. s.scan \in 1 .. Len(line) /\ line[s.scan] \notin Spaces
    BY <1>3, <1>8
  <2>6. Follows(line, t, r)
    BY <1>1, <1>2, <2>2, <2>4, <2>5, WordOpens
  <2>7. ToDo(line, t) < ToDo(line, s)
    <3>1. s.scan \in 1 .. Len(line) + 1 /\ t.scan \in 1 .. Len(line) + 1 /\ t.mode # "space"
      BY <1>4, <2>4
    <3> QED BY <2>4, <3>1, ToDoIs
  <2>8. Reading(line)[t.scan - 1] = r
    BY <2>4 DEF r
  <2> QED BY <2>4, <2>6, <2>7, <2>8 DEF Goes
<1> QED BY <1>6, <1>7, <1>8

(* Whatever the mode.                                                       *)
LEMMA ScanStepGoes ==
  ASSUME NEW line \in Strings, NEW s, Active(s),
         Follows(line, s, Reading(line)[s.scan - 1])
  PROVE  s \in ScanState /\ Goes(line, s, ScanStep[s])
<1>1. s \in ScanState
  BY DEF Follows, Tape
<1>2. CASE s.mode = "space"
  <2>1. ScanStep[s] = SkipSpace(s)
    BY <1>1, <1>2 DEF ScanStep
  <2> QED BY <1>1, <1>2, <2>1, SpaceStep
<1>3. CASE s.mode = "token"
  <2>1. ScanStep[s] = TokenChar(s)
    BY <1>1, <1>3 DEF ScanStep
  <2> QED BY <1>1, <1>3, <2>1, TokenStep
<1>4. CASE s.mode = "raw"
  <2>1. ScanStep[s] = RawChar(s)
    BY <1>1, <1>4 DEF ScanStep
  <2> QED BY <1>1, <1>4, <2>1, RawStep
<1>5. CASE s.mode = "cooked"
  <2>1. ScanStep[s] = CookedChar(s)
    BY <1>1, <1>5 DEF ScanStep
  <2> QED BY <1>1, <1>5, <2>1, CookedStep
<1> QED BY <1>2, <1>3, <1>4, <1>5 DEF Active

(* The scan as a whole: it follows the line until it ends, within its bound. *)
Scanned0(line) ==
  {s \in ScanState : /\ Active(s) => Follows(line, s, Reading(line)[s.scan - 1])
                     /\ s.mode = "ok" => Result(line, s)
                     /\ s.mode = "unbalanced" => Unbalanced(line)}

LEMMA ScanStarts ==
  ASSUME NEW line \in Strings
  PROVE  ScanStart(line) \in Scanned0(line) /\ ToDo(line, ScanStart(line)) = ScanSteps(line)
<1> DEFINE s == ScanStart(line)
           n == Len(line)
<1>1. n \in Nat /\ NUL \in Characters /\ ArgvSlots \in Nat /\ 2 <= ArgvSlots
  BY LenProperties, CharactersAssumption, ArgvSlotsAssumption
<1>2. /\ Append(line, NUL) \in Texts /\ Len(Append(line, NUL)) = n + 1
      /\ Append(line, NUL)[n + 1] = NUL
      /\ \A j \in 1 .. n : Append(line, NUL)[j] = line[j]
  <2>1. line \in Seq(Characters)
    <3>1. \A j \in 1 .. n : line[j] \in Characters
      BY ElementOfSeq
    <3>2. line = [j \in 1 .. n |-> line[j]]
      OBVIOUS
    <3> QED BY <1>1, <3>1, <3>2, IsASeq
  <2> QED BY <1>1, <2>1, AppendProperties
<1>3. /\ s.mem = Append(line, NUL) /\ s.scan = 1 /\ s.dest = 1 /\ s.starts = << >>
      /\ s.act = ArgvSlots /\ s.mode = "space"
  BY DEF ScanStart
<1>4. s \in ScanState
  <2>1. << >> \in Seq(Nat) /\ 1 \in Nat
    BY EmptySeq
  <2> QED BY <1>1, <1>2, <2>1 DEF ScanStart, ScanState
<1>5. Reading(line)[s.scan - 1] = NothingRead
  <2>1. s.scan - 1 = 0
    BY <1>3
  <2> QED BY <2>1, ReadingIs
<1> HIDE DEF s, n
<1>6. Len(<< >>) = 0
  OBVIOUS
<1>7. Tape(line, s)
  <2>1. s.scan \in 1 .. n + 1 /\ 0 < ArgvSlots
    BY <1>1, <1>3
  <2> QED BY <1>1, <1>2, <1>3, <1>4, <1>6, <2>1 DEF Tape, n
<1>8. Finished(s, << >>, s.scan)
  BY <1>3, <1>6 DEF Finished
<1>9. Follows(line, s, NothingRead)
  BY <1>3, <1>6, <1>7, <1>8 DEF Follows, NothingRead
<1>10. ToDo(line, s) = ScanSteps(line)
  BY <1>1, <1>3 DEF ToDo, ScanSteps, n
<1> QED BY <1>3, <1>4, <1>5, <1>9, <1>10 DEF Scanned0, s

LEMMA ScannedGoes ==
  ASSUME NEW line \in Strings, NEW s \in Scanned0(line)
  PROVE  /\ ScanStep[s] \in Scanned0(line)
         /\ Active(ScanStep[s]) => Active(s) /\ ToDo(line, ScanStep[s]) < ToDo(line, s)
<1>1. CASE Active(s)
  <2>1. Goes(line, s, ScanStep[s])
    BY <1>1, ScanStepGoes DEF Scanned0
  <2> QED BY <1>1, <2>1 DEF Goes, Scanned0
<1>2. CASE ~Active(s)
  <2>1. ScanStep[s] = s
    BY <1>2 DEF ScanStep, Active, Scanned0
  <2> QED BY <1>2, <2>1
<1> QED BY <1>1, <1>2

LEMMA ScanningIs ==
  ASSUME NEW line \in Strings
  PROVE  /\ Scanning(line)[0] = ScanStart(line)
         /\ \A k \in 0 .. ScanSteps(line) : Scanning(line)[k] \in Scanned0(line)
         /\ \A k \in 1 .. ScanSteps(line) : Scanning(line)[k] = ScanStep[Scanning(line)[k - 1]]
<1> DEFINE n == ScanSteps(line)
           S == Scanned0(line)
           s0 == ScanStart(line)
           step == [p \in (0 .. n) \X S |-> ScanStep[p[2]]]
           P(u) == u = [k \in 0 .. n |-> IF k = 0 THEN s0 ELSE ScanStep[u[k - 1]]]
           v == CHOOSE u : P(u)
<1>1. n \in Nat /\ 0 \in Nat /\ 0 <= n
  <2>1. Len(line) \in Nat
    BY LenProperties
  <2> QED BY <2>1 DEF ScanSteps
<1>2. s0 \in S
  BY ScanStarts
<1>3. \A s \in S : ScanStep[s] \in S
  BY ScannedGoes
<1>4. Scanning(line) = v
  BY DEF Scanning
<1> HIDE DEF n, S, s0
<1>5. step \in [(0 .. n) \X S -> S]
  BY <1>3
<1>6. \A k \in 0 .. n, s \in S : step[<<k, s>>] = ScanStep[s]
  OBVIOUS
<1> HIDE DEF step
<1>7. PICK f : Recurs(f, 0, n, S, s0, step)
  BY <1>1, <1>2, <1>5, Recursion
<1>8. P(f)
  <2>1. ASSUME NEW k \in 0 .. n
        PROVE  f[k] = IF k = 0 THEN s0 ELSE ScanStep[f[k - 1]]
    <3>1. CASE k = 0
      BY <1>7, <3>1 DEF Recurs
    <3>2. CASE k # 0
      <4>1. k - 1 \in 0 .. n
        BY <1>1, <3>2
      <4>2. f[k - 1] \in S /\ f[k] = step[<<k, f[k - 1]>>]
        BY <1>7, <3>2, <4>1 DEF Recurs
      <4> QED BY <1>6, <3>2, <4>2
    <3> QED BY <3>1, <3>2
  <2>2. f = [k \in 0 .. n |-> f[k]]
    BY <1>7 DEF Recurs
  <2> QED BY <2>1, <2>2
<1>9. P(v)
  BY <1>8
<1> HIDE DEF v
<1>10. v = [k \in 0 .. n |-> IF k = 0 THEN s0 ELSE ScanStep[v[k - 1]]]
  BY <1>9
<1> HIDE DEF P
<1>11. \A k \in 0 .. n : v[k] = IF k = 0 THEN s0 ELSE ScanStep[v[k - 1]]
  BY <1>10
<1>12. v[0] = s0 /\ v[0] \in S
  <2>1. 0 \in 0 .. n
    BY <1>1
  <2> QED BY <1>2, <1>11, <2>1
<1>13. ASSUME NEW k \in 0 .. n, k # 0, v[k - 1] \in S PROVE v[k] \in S
  BY <1>3, <1>11, <1>13
<1>14. \A k \in 0 .. n : v[k] \in S
  BY <1>1, <1>12, <1>13, RecursionTyped
<1>15. \A k \in 1 .. n : k \in 0 .. n /\ k # 0
  BY <1>1
<1>16. \A k \in 1 .. n : v[k] = ScanStep[v[k - 1]]
  BY <1>11, <1>15
<1> QED BY <1>4, <1>12, <1>14, <1>16 DEF n, S, s0

LEMMA ScanEnds ==
  ASSUME NEW line \in Strings
  PROVE  Scanned(line) \in Scanned0(line) /\ ~Active(Scanned(line))
<1> DEFINE n == ScanSteps(line)
           v == Scanning(line)
           T == {k \in Nat : Active(v[k]) => ToDo(line, v[k]) + k <= n}
<1>1. n \in Nat /\ 0 \in Nat
  <2>1. Len(line) \in Nat
    BY LenProperties
  <2> QED BY <2>1 DEF ScanSteps
<1>2. /\ v[0] = ScanStart(line) /\ \A k \in 0 .. n : v[k] \in Scanned0(line)
      /\ \A k \in 1 .. n : v[k] = ScanStep[v[k - 1]]
  BY ScanningIs
<1>3. ToDo(line, ScanStart(line)) = n
  BY ScanStarts
<1>4. Scanned(line) = v[n]
  BY DEF Scanned
<1>5. ASSUME NEW s \in Scanned0(line), Active(s) PROVE ToDo(line, s) \in Nat /\ 1 <= ToDo(line, s)
  <2>1. Tape(line, s)
    BY <1>5 DEF Scanned0, Follows
  <2>2. Len(line) \in Nat /\ s.scan \in 1 .. Len(line) + 1
    BY <2>1, LenProperties DEF Tape
  <2>3. \A a, e \in Nat : e \in 1 .. a + 1 => 2 * (a + 1 - e) \in Nat
    OBVIOUS
  <2>4. s.scan \in Nat /\ 2 * (Len(line) + 1 - s.scan) \in Nat
    BY <2>2, <2>3
  <2>5. ToDo(line, s) = 2 * (Len(line) + 1 - s.scan) + 2 \/ ToDo(line, s) = 2 * (Len(line) + 1 - s.scan) + 1
    BY DEF ToDo
  <2>6. \A a \in Nat : a + 2 \in Nat /\ 1 <= a + 2 /\ a + 1 \in Nat /\ 1 <= a + 1
    OBVIOUS
  <2> QED BY <2>4, <2>5, <2>6
<1> HIDE DEF n, v
<1>6. 0 \in T
  BY <1>1, <1>2, <1>3
<1>7. ASSUME NEW k \in 0 .. n, k \in T, k < n PROVE k + 1 \in T
  <2>1. k + 1 \in 1 .. n /\ k + 1 \in 0 .. n /\ (k + 1) - 1 = k /\ k \in Nat /\ k + 1 \in Nat
    BY <1>1, <1>7
  <2>2. v[k] \in Scanned0(line) /\ v[k + 1] \in Scanned0(line) /\ v[k + 1] = ScanStep[v[k]]
    BY <1>2, <2>1
  <2> SUFFICES ASSUME Active(v[k + 1]) PROVE ToDo(line, v[k + 1]) + (k + 1) <= n
    BY <2>1
  <2>3. Active(v[k]) /\ ToDo(line, v[k + 1]) < ToDo(line, v[k])
    BY <2>2, ScannedGoes
  <2>4. ToDo(line, v[k]) + k <= n
    BY <1>7, <2>3
  <2>5. ToDo(line, v[k]) \in Nat /\ ToDo(line, v[k + 1]) \in Nat
    BY <1>5, <2>2, <2>3
  <2>6. \A a, b, i, m \in Nat : b < a /\ a + i <= m => b + (i + 1) <= m
    OBVIOUS
  <2> QED BY <1>1, <2>1, <2>3, <2>4, <2>5, <2>6
<1>8. \A k \in T : Active(v[k]) => ToDo(line, v[k]) + k <= n
  OBVIOUS
<1> HIDE DEF T
<1>9. 0 .. n \subseteq T
  BY <1>1, <1>6, <1>7, Induction
<1>10. n \in 0 .. n
  BY <1>1
<1>11. ~Active(v[n])
  <2> SUFFICES ASSUME Active(v[n]) PROVE FALSE
    OBVIOUS
  <2>1. ToDo(line, v[n]) + n <= n
    BY <1>8, <1>9, <1>10
  <2>2. ToDo(line, v[n]) \in Nat /\ 1 <= ToDo(line, v[n])
    BY <1>2, <1>5, <1>10
  <2> QED BY <1>1, <2>1, <2>2
<1> QED BY <1>2, <1>4, <1>10, <1>11

(* The i-th argument is the i-th word, up to the tail of a last one.         *)
WordFor(line, argv, i) ==
  \/ argv[i] = Words(line)[i]
  \/ i = Len(Words(line)) /\ EndsShrunk(line) /\ IsPrefix(Words(line)[i], argv[i])

(* StringToArgvMeans: string_to_argv fails exactly on a line with an unclosed *)
(* quote; of every other line without a NUL it makes the words that the        *)
(* quoting rules say, each a C string, and has a slot for the NULL.           *)
THEOREM StringToArgvMeans ==
  ASSUME NEW line \in Strings
  PROVE  /\ StringToArgv(line).stored <=> ~Unbalanced(line)
         /\ StringToArgv(line).stored =>
              /\ StringToArgv(line).terminated
              /\ StringToArgv(line).argv \in Seq(Strings)
              /\ Len(StringToArgv(line).argv) = Len(Words(line))
              /\ \A i \in 1 .. Len(Words(line)) : WordFor(line, StringToArgv(line).argv, i)
<1> DEFINE s == Scanned(line)
           argv == [i \in 1 .. Len(s.starts) |-> CString(s.mem, s.starts[i])]
           w == Words(line)
<1>1. /\ s \in ScanState /\ ~Active(s)
      /\ s.mode = "ok" => Result(line, s)
      /\ s.mode = "unbalanced" => Unbalanced(line)
  BY ScanEnds DEF Scanned0
<1>2. s.mode = "ok" \/ s.mode = "unbalanced"
  BY <1>1 DEF ScanState, Active
<1>3. /\ StringToArgv(line).stored <=> s.mode = "ok"
      /\ StringToArgv(line).argv = argv
      /\ StringToArgv(line).terminated <=> Len(s.starts) < s.act
  BY DEF StringToArgv
<1>4. StringToArgv(line).stored <=> ~Unbalanced(line)
  BY <1>1, <1>2, <1>3 DEF Result
<1> HIDE DEF s
<1>5. ASSUME s.mode = "ok"
      PROVE  /\ Len(s.starts) < s.act /\ argv \in Seq(Strings) /\ Len(argv) = Len(w)
             /\ \A i \in 1 .. Len(w) : WordFor(line, argv, i)
  <2>1. /\ s.mem \in Texts /\ s.mem[Len(s.mem)] = NUL
        /\ Len(s.starts) = Len(w) /\ Len(s.starts) < s.act
        /\ \A i \in 1 .. Len(w) :
             /\ Lies(s.mem, s.starts[i], w[i])
             /\ s.mem[s.starts[i] + Len(w[i])] = NUL \/ (i = Len(w) /\ EndsShrunk(line))
    BY <1>1, <1>5 DEF Result
  <2>2. w \in Seq(Strings) /\ Len(w) \in Nat
    <3>1. Len(line) \in Nat /\ Len(line) \in 0 .. Len(line)
      BY LenProperties
    <3>2. Read(line) \in ReadState
      BY <3>1, ReadingIs DEF Read
    <3>3. Append(Read(line).words, Read(line).word) \in Seq(Strings)
      BY <3>2, AppendProperties DEF ReadState
    <3>4. w \in Seq(Strings)
      BY <3>2, <3>3 DEF Words, ReadState
    <3> HIDE DEF w
    <3> QED BY <3>4, LenProperties
  <2> HIDE DEF w
  <2>3. ASSUME NEW i \in 1 .. Len(w)
        PROVE  /\ CString(s.mem, s.starts[i]) \in Strings
               /\ \/ CString(s.mem, s.starts[i]) = w[i]
                  \/ /\ i = Len(w) /\ EndsShrunk(line)
                     /\ IsPrefix(w[i], CString(s.mem, s.starts[i]))
    <3>1. w[i] \in Strings
      BY <2>2, ElementOfSeq
    <3>2. /\ Lies(s.mem, s.starts[i], w[i])
          /\ s.mem[s.starts[i] + Len(w[i])] = NUL \/ (i = Len(w) /\ EndsShrunk(line))
      BY <2>1
    <3>3. /\ CString(s.mem, s.starts[i]) \in Strings
          /\ IsPrefix(w[i], CString(s.mem, s.starts[i]))
          /\ s.mem[s.starts[i] + Len(w[i])] = NUL => CString(s.mem, s.starts[i]) = w[i]
      BY <2>1, <3>1, <3>2, CStringOfWord
    <3> QED BY <3>2, <3>3
  <2>4. argv = [i \in 1 .. Len(w) |-> CString(s.mem, s.starts[i])]
    BY <2>1
  <2> HIDE DEF argv
  <2>5. argv \in Seq(Strings) /\ Len(argv) = Len(w)
    BY <2>2, <2>3, <2>4, IsASeq
  <2>6. \A i \in 1 .. Len(w) : argv[i] = CString(s.mem, s.starts[i])
    BY <2>4
  <2>7. ASSUME NEW i \in 1 .. Len(w) PROVE WordFor(line, argv, i)
    BY <2>3, <2>6 DEF WordFor, w
  <2> QED BY <2>1, <2>5, <2>7
<1> QED BY <1>3, <1>4, <1>5

----------------------------------------------------------------------------
(* The inductive invariant of the driver.                                   *)
Ebbs == ToSet(UnixEbbs)

Labels ==
  {"off", "publish", "setting", "booting", "args", "parse", "allocate", "tests", "blocked",
   "DONE", "exiting", "exited", "undefined", "failed"}
Early == {"off", "publish", "setting", "booting", "args"}
Over == {"DONE", "exiting", "exited"}

ArgsType == [argv : Seq(Strings), tests : SUBSET Options, backend : BOOLEAN]

WellTyped ==
  /\ given \in Givens
  /\ published \in [Ebbs -> Seq(Texts)]
  /\ pc \in [Nodes -> Labels]
  /\ issued \in 0 .. 4
  /\ args \in [Nodes -> ArgsType]
  /\ next \in [Nodes -> 1 .. 14]
  /\ ran \in [Nodes -> Seq(Options)]
  /\ shown \in [Nodes -> Seq(Strings)]

(* What is published is what it should be, and while the front end publishes *)
(* it has come as far as it has issued.                                     *)
Publishing ==
  /\ \A e \in Ebbs : published[e] \in {<< >>, <<DataOf(e)>>}
  /\ pc[FE] = "publish" =>
       issued < 4 /\ \A i \in 1 .. 4 : i <= issued => published[UnixEbbs[i]] # << >>
  /\ pc[FE] = "setting" => \A i \in 1 .. 4 : i < issued => published[UnixEbbs[i]] # << >>
  /\ Full /\ pc[FE] \notin {"publish", "setting", "failed"} => \A e \in Ebbs : published[e] # << >>

(* Which node is where in which build; the back end runs behind the front end. *)
Places ==
  /\ pc[FE] \notin {"booting", "exiting"}
  /\ pc[BE] \notin {"publish", "setting", "allocate", "failed"}
  /\ pc[FE] \in {"publish", "setting", "allocate", "failed"} \/ pc[BE] \in {"booting", "exiting"} => Full
  /\ given.build = "hosted" => pc[BE] = "off"
  /\ given.build = "baremetal" => pc[FE] = "off" /\ pc[BE] # "off"
  /\ Full /\ pc[BE] # "off" => pc[FE] \in {"DONE", "exited"}
  /\ given.build = "baremetal" /\ pc[BE] # "args" =>
       (pc[BE] = "undefined" <=> ~StringToArgv(given.boot).stored)

(* What process_args is given, and what is asked for.                       *)
Source(x) == IF x = BE /\ ~Full THEN StringToArgv(given.boot).argv ELSE given.argv

Wanted(x) == Parsed(Source(x))

Gated(x) == ParseFails(Source(x)) \/ (x = FE /\ Full /\ Wanted(x).backend)

Runs(x) == Keeping(Tests(x), Wanted(x).tests)

SourceAsks(x) == IF Gated(x) THEN << >> ELSE Kept(Tests(x), Wanted(x).tests)

ArgsHold(x) ==
  /\ pc[x] = "parse" => args[x].argv = Source(x)
  /\ pc[x] \in {"allocate", "tests", "blocked"} \cup Over => args[x] = Wanted(x)

RanHold(x) ==
  /\ pc[x] \in Early \cup {"parse", "allocate"} => ran[x] = << >>
  /\ pc[x] \in Early \cup {"parse"} => next[x] = 1
  /\ pc[x] = "allocate" => Gated(x)
  /\ pc[x] \in {"tests", "blocked"} =>
       /\ ~Gated(x) /\ next[x] <= Len(Tests(x)) + 1
       /\ ran[x] = Runs(x)[next[x] - 1]
  /\ pc[x] \in Over => ran[x] = SourceAsks(x)
  /\ pc[x] \in {"undefined", "failed"} =>
       ran[x] = << >> \/ (Full /\ IsPrefix(ran[x], SourceAsks(x)))

ShownHold(x) == "E" \in ToSet(ran[x]) /\ pc[x] # "undefined" => shown[x] = given.env

AtNode(x) == ArgsHold(x) /\ RanHold(x) /\ ShownHold(x)

IInv == WellTyped /\ Publishing /\ Places /\ \A x \in Nodes : AtNode(x)

----------------------------------------------------------------------------
(* What the driver is made of.                                              *)
LEMMA NodesAre == FE # BE /\ Nodes = {FE, BE} /\ FE \in Nodes /\ BE \in Nodes
BY DEF Nodes, FE, BE

LEMMA EbbsAre ==
  /\ Len(UnixEbbs) = 4 /\ Ebbs = {UnixEbbs[i] : i \in 1 .. 4}
  /\ Ebbs = {"CmdLineArgs", "Environment", "InputStream", "FS"}
  /\ \A k \in 0 .. 4 : ToSet(SubSeq(UnixEbbs, 1, k)) = {UnixEbbs[i] : i \in 1 .. k}
<1> DEFINE Names == {"CmdLineArgs", "Environment", "InputStream", "FS"}
<1>1. /\ UnixEbbs \in Seq(Names) /\ Len(UnixEbbs) = 4 /\ DOMAIN UnixEbbs = 1 .. 4
      /\ UnixEbbs[1] = "CmdLineArgs" /\ UnixEbbs[2] = "Environment"
      /\ UnixEbbs[3] = "InputStream" /\ UnixEbbs[4] = "FS"
  BY DEF UnixEbbs
<1>2. 1 .. 4 = {1, 2, 3, 4}
  OBVIOUS
<1> HIDE DEF UnixEbbs, Names
<1>3. Ebbs = {UnixEbbs[i] : i \in 1 .. 4}
  BY <1>1 DEF Ebbs, ToSet
<1>4. Ebbs = {"CmdLineArgs", "Environment", "InputStream", "FS"}
  BY <1>1, <1>2, <1>3
<1>5. ASSUME NEW k \in 0 .. 4
      PROVE  ToSet(SubSeq(UnixEbbs, 1, k)) = {UnixEbbs[i] : i \in 1 .. k}
  <2>1. /\ Len(SubSeq(UnixEbbs, 1, k)) = k
        /\ \A i \in 1 .. k : SubSeq(UnixEbbs, 1, k)[i] = UnixEbbs[i]
        /\ SubSeq(UnixEbbs, 1, k) \in Seq(Names)
    <3>1. 1 \in 1 .. Len(UnixEbbs) + 1 /\ k \in 1 - 1 .. Len(UnixEbbs)
      BY <1>1
    <3>2. \A i \in 1 .. k : i \in 1 .. Len(UnixEbbs)
      BY <1>1
    <3>3. \A i \in 1 .. k : UnixEbbs[i] \in Names
      BY <1>1, <3>2, ElementOfSeq
    <3>4. 1 \in Int /\ k \in Int /\ \A i \in 1 .. k : 1 + i - 1 = i
      OBVIOUS
    <3> QED BY <3>1, <3>3, <3>4, <1>1, SubSeqProperties
  <2>2. DOMAIN SubSeq(UnixEbbs, 1, k) = 1 .. k
    BY <2>1
  <2> QED BY <2>1, <2>2 DEF ToSet
<1> QED BY <1>1, <1>3, <1>4, <1>5

LEMMA TestsTyped ==
  ASSUME NEW x \in Nodes
  PROVE  /\ Tests(x) \in Seq(Options) /\ Len(Tests(x)) \in 0 .. 13
         /\ ~Full => \A i \in 1 .. Len(Tests(x)) : Tests(x)[i] \notin ToSet(UnixTests)
<1> DEFINE Others == {"b", "t", "n", "o", "c", "e", "s", "p", "m"}
           a == IF Full THEN UnixTests ELSE << >>
           b == IF x = BE THEN <<"b">> ELSE << >>
<1>1. /\ UnixTests \in Seq(Options) /\ Len(UnixTests) = 4
      /\ ToSet(UnixTests) = {"C", "E", "I", "F"}
  <2>1. /\ UnixTests \in Seq({"C", "E", "I", "F"}) /\ Len(UnixTests) = 4 /\ DOMAIN UnixTests = 1 .. 4
        /\ UnixTests[1] = "C" /\ UnixTests[2] = "E" /\ UnixTests[3] = "I" /\ UnixTests[4] = "F"
    BY DEF UnixTests
  <2>2. 1 .. 4 = {1, 2, 3, 4}
    OBVIOUS
  <2>3. {"C", "E", "I", "F"} \subseteq Options
    BY DEF Options, Flags, Valued
  <2>4. ToSet(UnixTests) = {UnixTests[i] : i \in {1, 2, 3, 4}}
    BY <2>1, <2>2 DEF ToSet
  <2> HIDE DEF UnixTests
  <2>5. UnixTests \in Seq(Options)
    BY <2>1, <2>3, SeqMonotonic
  <2> QED BY <2>1, <2>4, <2>5
<1>2. OtherTests \in Seq(Others) /\ Len(OtherTests) = 8
  BY DEF OtherTests
<1>3. b \in Seq(Others) /\ Len(b) \in 0 .. 1
  <2>1. CASE x = BE
    BY <2>1
  <2>2. CASE x # BE
    BY <2>2
  <2> QED BY <2>1, <2>2
<1>4. Others \subseteq Options
  BY DEF Options, Flags
<1>5. Others \cap {"C", "E", "I", "F"} = {}
  OBVIOUS
<1>6. << >> \in Seq(Options) /\ << >> \in Seq(Others) /\ Len(<< >>) = 0
  OBVIOUS
<1>7. Tests(x) = (a \o b) \o OtherTests
  BY DEF Tests
<1>8. a \in Seq(Options) /\ Len(a) \in 0 .. 4 /\ (~Full => a \in Seq(Others))
  BY <1>1, <1>6
<1> HIDE DEF Others, a, b
<1>9. b \in Seq(Options) /\ OtherTests \in Seq(Options)
  BY <1>2, <1>3, <1>4, SeqMonotonic
<1>10. a \o b \in Seq(Options) /\ Len(a \o b) = Len(a) + Len(b)
  BY <1>8, <1>9, ConcatProperties
<1>11. Tests(x) \in Seq(Options) /\ Len(Tests(x)) = Len(a \o b) + Len(OtherTests)
  BY <1>7, <1>9, <1>10, ConcatProperties
<1>12. Len(Tests(x)) \in 0 .. 13
  <2>1. \A i \in 0 .. 4, j \in 0 .. 1 : i + j + 8 \in 0 .. 13
    OBVIOUS
  <2> QED BY <1>2, <1>3, <1>8, <1>10, <1>11, <2>1
<1>13. ASSUME ~Full, NEW i \in 1 .. Len(Tests(x)) PROVE Tests(x)[i] \notin ToSet(UnixTests)
  <2>1. a \o b \in Seq(Others)
    BY <1>3, <1>8, <1>13, ConcatProperties
  <2>2. Tests(x) \in Seq(Others)
    BY <1>2, <1>7, <2>1, ConcatProperties
  <2>3. Tests(x)[i] \in Others
    BY <2>2, ElementOfSeq
  <2> QED BY <1>1, <1>5, <2>3
<1> QED BY <1>11, <1>12, <1>13

LEMMA ParsedTyped ==
  ASSUME NEW argv \in Seq(Strings)
  PROVE  Parsed(argv) \in ArgsType /\ Parsed(argv).argv = argv
<1>1. Getopt(argv) \in Seq(Options)
  BY GetoptTyped
<1>2. Taken(Getopt(argv)) \subseteq Options
  BY <1>1, ElementOfSeq DEF Taken
<1> QED BY <1>2 DEF Parsed, ArgsType

(* What is published can be unpacked again.                                 *)
LEMMA DataTyped ==
  ASSUME given \in Givens
  PROVE  /\ given.argv \in Seq(Strings) /\ given.env \in Seq(Strings) /\ given.boot \in Strings
         /\ given.build \in {"full", "hosted", "baremetal"}
         /\ \A e \in Ebbs : DataOf(e) \in Texts
         /\ Unpack(DataOf("CmdLineArgs")) = given.argv
         /\ Unpack(DataOf("Environment")) = given.env
<1>1. given \in GivenType
  BY GivensAssumption
<1>2. /\ given.argv \in Seq(Strings) /\ given.env \in Seq(Strings) /\ given.boot \in Strings
      /\ given.build \in {"full", "hosted", "baremetal"}
  <2>1. given.argv \in Seq(Strings)
    BY <1>1 DEF GivenType
  <2>2. given.env \in Seq(Strings)
    BY <1>1 DEF GivenType
  <2>3. given.boot \in Strings
    BY <1>1 DEF GivenType
  <2>4. given.build \in {"full", "hosted", "baremetal"}
    BY <1>1 DEF GivenType
  <2> QED BY <2>1, <2>2, <2>3, <2>4
<1>3. \A strings \in Seq(Strings) : Pack(strings) \in Texts
  BY PackLayout DEF Layout
<1>4. << >> \in Texts
  BY EmptySeq
<1>5. \A e \in Ebbs : DataOf(e) \in Texts
  BY <1>2, <1>3, <1>4, EbbsAre DEF DataOf
<1>6. DataOf("CmdLineArgs") = Pack(given.argv) /\ DataOf("Environment") = Pack(given.env)
  BY DEF DataOf
<1> QED BY <1>2, <1>5, <1>6, UnpackPack

(* A node that has come as far as its command line has what was published.   *)
LEMMA AllPublished ==
  ASSUME Publishing, Places, NEW x \in Nodes, Full,
         pc[x] \notin {"off", "publish", "setting", "booting", "failed"}
  PROVE  \A e \in Ebbs : Has(e) /\ published[e] = <<DataOf(e)>>
<1>1. pc[FE] \notin {"publish", "setting", "failed"}
  <2>1. CASE x = FE
    BY <2>1
  <2>2. CASE x = BE
    BY <2>2 DEF Places
  <2> QED BY <2>1, <2>2, NodesAre
<1>2. \A e \in Ebbs : published[e] # << >>
  BY <1>1 DEF Publishing
<1> QED BY <1>2 DEF Publishing, Has

(* Where a boot line is looked at, its arguments are strings.               *)
LEMMA SourceTyped ==
  ASSUME given \in Givens, NEW x \in Nodes,
         x = BE /\ ~Full => StringToArgv(given.boot).stored
  PROVE  Source(x) \in Seq(Strings)
<1>1. given.argv \in Seq(Strings) /\ given.boot \in Strings
  BY DataTyped
<1>2. CASE x = BE /\ ~Full
  <2>1. StringToArgv(given.boot).argv \in Seq(Strings)
    BY <1>1, <1>2, StringToArgvMeans
  <2> QED BY <1>2, <2>1 DEF Source
<1>3. CASE ~(x = BE /\ ~Full)
  BY <1>1, <1>3 DEF Source
<1> QED BY <1>2, <1>3

(* The program's givens are never changed.                                  *)
LEMMA GivenStays ==
  ASSUME given' = given
  PROVE  /\ Full' <=> Full
         /\ \A e \in Ebbs : DataOf(e)' = DataOf(e)
         /\ \A x \in Nodes :
              /\ Tests(x)' = Tests(x) /\ Source(x)' = Source(x)
              /\ Wanted(x)' = Wanted(x) /\ Runs(x)' = Runs(x)
              /\ (Gated(x)' <=> Gated(x)) /\ SourceAsks(x)' = SourceAsks(x)
BY DEF Full, DataOf, Tests, Source, Wanted, Runs, Gated, SourceAsks

(* What a node runs, test by test.                                          *)
LEMMA RunsAre ==
  ASSUME NEW x \in Nodes
  PROVE  /\ Runs(x)[0] = << >>
         /\ \A k \in 0 .. Len(Tests(x)) : Runs(x)[k] \in Seq(Options)
         /\ \A k \in 1 .. Len(Tests(x)) :
              Runs(x)[k] = IF Tests(x)[k] \in Wanted(x).tests
                             THEN Append(Runs(x)[k - 1], Tests(x)[k]) ELSE Runs(x)[k - 1]
         /\ SourceAsks(x) \in Seq(Options)
         /\ ~Gated(x) => /\ Runs(x)[Len(Tests(x))] = SourceAsks(x)
                         /\ \A k \in 0 .. Len(Tests(x)) : IsPrefix(Runs(x)[k], SourceAsks(x))
<1> DEFINE n == Len(Tests(x))
           S == Wanted(x).tests
           f == Keeping(Tests(x), S)
<1>1. Tests(x) \in Seq(Options)
  BY TestsTyped
<1> HIDE DEF S
<1>2. /\ f \in [0 .. n -> Seq(Options)] /\ f[0] = << >>
      /\ KeepingStep(f, Tests(x), S)
  BY <1>1, KeepingIs
<1>3. n \in 0 .. n
  BY <1>1, LenProperties
<1>4. Kept(Tests(x), S) = f[n]
  BY DEF Kept
<1>5. \A k \in 0 .. n : IsPrefix(f[k], f[n])
  BY <1>1, <1>4, KeepingGrows
<1> HIDE DEF f
<1>6. Runs(x) = f
  BY DEF Runs, S, f
<1>7. SourceAsks(x) = IF Gated(x) THEN << >> ELSE f[n]
  BY <1>4 DEF SourceAsks, S
<1>8. \A k \in 0 .. n : f[k] \in Seq(Options)
  BY <1>2
<1>9. SourceAsks(x) \in Seq(Options)
  BY <1>3, <1>7, <1>8, EmptySeq
<1>10. \A k \in 1 .. n :
         f[k] = IF Tests(x)[k] \in S THEN Append(f[k - 1], Tests(x)[k]) ELSE f[k - 1]
  BY <1>2 DEF KeepingStep
<1> QED BY <1>2, <1>5, <1>6, <1>7, <1>8, <1>9, <1>10 DEF S

(* What a step leaves alone.                                                *)
LEMMA NodeStays ==
  ASSUME NEW x \in Nodes, AtNode(x), given' = given, pc'[x] = pc[x], args'[x] = args[x],
         next'[x] = next[x], ran'[x] = ran[x], shown'[x] = shown[x]
  PROVE  AtNode(x)'
<1>1. /\ Full' <=> Full
      /\ Tests(x)' = Tests(x) /\ Source(x)' = Source(x) /\ Wanted(x)' = Wanted(x)
      /\ Runs(x)' = Runs(x) /\ (Gated(x)' <=> Gated(x)) /\ SourceAsks(x)' = SourceAsks(x)
  BY GivenStays
<1>2. ArgsHold(x)'
  BY <1>1 DEF AtNode, ArgsHold
<1>3. RanHold(x)'
  BY <1>1 DEF AtNode, RanHold
<1>4. ShownHold(x)'
  BY DEF AtNode, ShownHold
<1> QED BY <1>2, <1>3, <1>4 DEF AtNode

LEMMA InitIInv ==
  ASSUME Init
  PROVE  IInv
<1>1. /\ given \in Givens /\ published = [e \in Ebbs |-> << >>] /\ issued = 0
      /\ args = [x \in Nodes |-> NoArgs] /\ next = [x \in Nodes |-> 1]
      /\ ran = [x \in Nodes |-> << >>] /\ shown = [x \in Nodes |-> << >>]
  BY DEF Init, Ebbs
<1>2. given.build \in {"full", "hosted", "baremetal"}
  BY <1>1, DataTyped
<1>3. /\ pc \in [Nodes -> Labels]
      /\ pc[FE] = IF Full THEN "publish" ELSE IF given.build = "hosted" THEN "args" ELSE "off"
      /\ pc[BE] = IF given.build = "baremetal" THEN "args" ELSE "off"
  <2>1. pc = [x \in Nodes |->
                CASE x = FE /\ Full -> "publish"
                  [] x = FE /\ given.build = "hosted" -> "args"
                  [] x = BE /\ given.build = "baremetal" -> "args"
                  [] OTHER -> "off"]
    BY DEF Init
  <2>2. pc[FE] = IF Full THEN "publish" ELSE IF given.build = "hosted" THEN "args" ELSE "off"
    BY <2>1, NodesAre DEF Full
  <2>3. pc[BE] = IF given.build = "baremetal" THEN "args" ELSE "off"
    BY <2>1, NodesAre
  <2>4. \A x \in Nodes : pc[x] \in Labels
    BY <2>2, <2>3, NodesAre DEF Labels
  <2> QED BY <2>1, <2>2, <2>3, <2>4
<1>4. NoArgs \in ArgsType /\ << >> \in Seq(Texts)
  BY EmptySeq DEF NoArgs, ArgsType
<1>5. << >> \in Seq(Options) /\ << >> \in Seq(Strings)
  BY EmptySeq
<1>6. WellTyped
  BY <1>1, <1>3, <1>4, <1>5 DEF WellTyped
<1>7. Publishing
  BY <1>1, <1>3 DEF Publishing
<1>8. Places
  BY <1>2, <1>3 DEF Places, Full
<1>9. ASSUME NEW x \in Nodes PROVE AtNode(x)
  <2>1. pc[x] \in Early
    BY <1>3, NodesAre DEF Early
  <2>2. ArgsHold(x)
    BY <2>1 DEF ArgsHold, Early, Over
  <2>3. RanHold(x)
    BY <1>1, <2>1 DEF RanHold, Early, Over
  <2>4. ShownHold(x)
    <3>1. "E" \notin ToSet(ran[x])
      BY <1>1 DEF ToSet
    <3> QED BY <3>1 DEF ShownHold
  <2> QED BY <2>2, <2>3, <2>4 DEF AtNode
<1> QED BY <1>6, <1>7, <1>8, <1>9 DEF IInv

LEMMA GotoIs ==
  ASSUME pc \in [Nodes -> Labels], NEW x \in Nodes, NEW label \in Labels, Goto(x, label)
  PROVE  /\ pc' \in [Nodes -> Labels] /\ pc'[x] = label
         /\ \A y \in Nodes : y # x => pc'[y] = pc[y]
BY DEF Goto

(* Steps that take a node from one place to another of its kind.             *)
LEMMA EarlyStep ==
  ASSUME NEW x \in Nodes, AtNode(x), given' = given, pc[x] \in Early, pc'[x] \in Early,
         args'[x] = args[x], next'[x] = next[x], ran'[x] = ran[x], shown'[x] = shown[x]
  PROVE  AtNode(x)'
<1>1. ran[x] = << >> /\ next[x] = 1
  BY DEF AtNode, RanHold
<1>2. ArgsHold(x)'
  BY DEF ArgsHold, Early, Over
<1>3. RanHold(x)'
  BY <1>1 DEF RanHold, Early, Over
<1>4. ShownHold(x)'
  <2>1. "E" \notin ToSet(ran'[x])
    BY <1>1 DEF ToSet
  <2> QED BY <2>1 DEF ShownHold
<1> QED BY <1>2, <1>3, <1>4 DEF AtNode

LEMMA OverStep ==
  ASSUME NEW x \in Nodes, AtNode(x), given' = given, pc[x] \in Over, pc'[x] \in Over,
         args'[x] = args[x], next'[x] = next[x], ran'[x] = ran[x], shown'[x] = shown[x]
  PROVE  AtNode(x)'
<1>1. Wanted(x)' = Wanted(x) /\ SourceAsks(x)' = SourceAsks(x)
  BY GivenStays
<1>2. args[x] = Wanted(x) /\ ran[x] = SourceAsks(x)
  BY DEF AtNode, ArgsHold, RanHold
<1>3. ArgsHold(x)'
  BY <1>1, <1>2 DEF ArgsHold, Over
<1>4. RanHold(x)'
  BY <1>1, <1>2 DEF RanHold, Early, Over
<1>5. ShownHold(x)'
  BY DEF AtNode, ShownHold, Over
<1> QED BY <1>3, <1>4, <1>5 DEF AtNode

(* Publishing stays as it is if the front end does not publish.             *)
LEMMA PublishingStays ==
  ASSUME Publishing, given' = given, published' = published, issued' = issued,
         pc'[FE] = pc[FE] \/ (pc[FE] \notin {"publish", "setting", "failed"} /\ pc'[FE] \notin {"publish", "setting"})
  PROVE  Publishing'
<1>1. (Full' <=> Full) /\ \A e \in Ebbs : DataOf(e)' = DataOf(e)
  BY GivenStays
<1>2. Ebbs' = Ebbs
  BY DEF Ebbs
<1> QED BY <1>1, <1>2 DEF Publishing

LEMMA PublishStep ==
  ASSUME IInv, Publish
  PROVE  IInv'
<1>1. /\ pc[FE] = "publish"
      /\ \/ issued' = issued + 1 /\ Goto(FE, "setting")
         \/ issued' = issued /\ Goto(FE, "failed")
      /\ given' = given /\ published' = published /\ args' = args /\ next' = next
      /\ ran' = ran /\ shown' = shown
  BY DEF Publish
<1>2. WellTyped /\ Publishing /\ Places /\ \A x \in Nodes : AtNode(x)
  BY DEF IInv
<1>3. /\ pc' \in [Nodes -> Labels] /\ pc'[BE] = pc[BE]
      /\ \/ issued' = issued + 1 /\ pc'[FE] = "setting"
         \/ issued' = issued /\ pc'[FE] = "failed"
  <2>1. "setting" \in Labels /\ "failed" \in Labels /\ pc \in [Nodes -> Labels]
    BY <1>2 DEF Labels, WellTyped
  <2> QED BY <1>1, <2>1, GotoIs, NodesAre
<1>4. issued \in 0 .. 4 /\ issued < 4
  BY <1>1, <1>2 DEF WellTyped, Publishing
<1>5. Full' <=> Full
  BY <1>1, GivenStays
<1>6. WellTyped'
  <2>1. issued' \in 0 .. 4
    BY <1>3, <1>4
  <2> QED BY <1>1, <1>2, <1>3, <2>1 DEF WellTyped, Ebbs
<1>7. Publishing'
  <2>1. \A e \in Ebbs : DataOf(e)' = DataOf(e)
    BY <1>1, GivenStays
  <2>2. pc'[FE] = "setting" => \A i \in 1 .. 4 : i < issued' => i <= issued
    BY <1>3, <1>4
  <2>3. Ebbs' = Ebbs
    BY DEF Ebbs
  <2> QED BY <1>1, <1>2, <1>3, <1>5, <2>1, <2>2, <2>3 DEF Publishing
<1>8. Places'
  <2>1. Full /\ pc[BE] = "off" /\ given.build = "full"
    BY <1>1, <1>2 DEF Places, Full
  <2> QED BY <1>1, <1>2, <1>3, <1>5, <2>1 DEF Places
<1>9. \A x \in Nodes : AtNode(x)'
  <2>1. AtNode(FE)'
    <3>1. CASE pc'[FE] = "setting"
      BY <1>1, <1>2, <1>3, <3>1, EarlyStep, NodesAre DEF Early
    <3>2. CASE pc'[FE] = "failed"
      <4>1. ran[FE] = << >>
        BY <1>1, <1>2, NodesAre DEF AtNode, RanHold, Early
      <4>2. "E" \notin ToSet(ran'[FE])
        BY <1>1, <4>1 DEF ToSet
      <4> QED BY <1>1, <3>2, <4>1, <4>2 DEF AtNode, ArgsHold, RanHold, ShownHold, Early, Over
    <3> QED BY <1>3, <3>1, <3>2
  <2>2. AtNode(BE)'
    BY <1>1, <1>2, <1>3, NodeStays, NodesAre
  <2> QED BY <2>1, <2>2, NodesAre
<1> QED BY <1>6, <1>7, <1>8, <1>9 DEF IInv

LEMMA SetDoneStep ==
  ASSUME IInv, SetDone
  PROVE  IInv'
<1>1. PICK e \in ToSet(SubSeq(UnixEbbs, 1, issued)) :
        published[e] = << >> /\ published' = [published EXCEPT ![e] = <<DataOf(e)>>]
  BY DEF SetDone
<1>2. /\ IF pc[FE] = "setting"
           THEN Goto(FE, IF issued < 4 THEN "publish" ELSE "args")
           ELSE pc' = pc
      /\ given' = given /\ issued' = issued /\ args' = args /\ next' = next
      /\ ran' = ran /\ shown' = shown
  BY EbbsAre DEF SetDone
<1>3. WellTyped /\ Publishing /\ Places /\ \A x \in Nodes : AtNode(x)
  BY DEF IInv
<1>4. /\ given \in Givens /\ issued \in 0 .. 4 /\ published \in [Ebbs -> Seq(Texts)]
      /\ pc \in [Nodes -> Labels]
  BY <1>3 DEF WellTyped
<1>5. PICK i \in 1 .. issued : e = UnixEbbs[i]
  BY <1>1, <1>4, EbbsAre
<1>6. i \in 1 .. 4 /\ e \in Ebbs
  BY <1>4, <1>5, EbbsAre
<1>7. /\ Full' <=> Full
      /\ \A d \in Ebbs : DataOf(d)' = DataOf(d)
  BY <1>2, GivenStays
<1>8. /\ pc' \in [Nodes -> Labels] /\ pc'[BE] = pc[BE]
      /\ pc[FE] = "setting" => pc'[FE] = IF issued < 4 THEN "publish" ELSE "args"
      /\ pc[FE] # "setting" => pc' = pc
  <2>1. CASE pc[FE] = "setting"
    <3>1. (IF issued < 4 THEN "publish" ELSE "args") \in Labels
      BY DEF Labels
    <3> QED BY <1>2, <1>4, <2>1, <3>1, GotoIs, NodesAre
  <2>2. CASE pc[FE] # "setting"
    BY <1>2, <1>4, <2>2
  <2> QED BY <2>1, <2>2
<1>9. \A d \in Ebbs : published'[d] = IF d = e THEN <<DataOf(e)>> ELSE published[d]
  BY <1>1, <1>4
<1>10. <<DataOf(e)>> # << >> /\ <<DataOf(e)>> \in Seq(Texts)
  BY <1>4, <1>6, DataTyped
<1>11. WellTyped'
  <2>1. published' \in [Ebbs -> Seq(Texts)]
    BY <1>1, <1>4, <1>10
  <2> QED BY <1>2, <1>3, <1>8, <2>1 DEF WellTyped, Ebbs
<1>12. pc[FE] = "setting" => \A j \in 1 .. 4 : j <= issued => published'[UnixEbbs[j]] # << >>
  <2> SUFFICES ASSUME pc[FE] = "setting", NEW j \in 1 .. 4, j <= issued
               PROVE  published'[UnixEbbs[j]] # << >>
    OBVIOUS
  <2>1. \A k \in 1 .. 4 : k < issued => published[UnixEbbs[k]] # << >>
    BY <1>3 DEF Publishing
  <2>2. i = issued
    BY <1>1, <1>4, <1>5, <1>6, <2>1
  <2>3. UnixEbbs[j] \in Ebbs
    BY EbbsAre
  <2>4. CASE j = i
    BY <1>5, <1>9, <1>10, <2>3, <2>4
  <2>5. CASE j # i
    <3>1. published[UnixEbbs[j]] # << >>
      BY <1>4, <2>1, <2>2, <2>5
    <3> QED BY <1>9, <1>10, <2>3, <3>1
  <2> QED BY <2>4, <2>5
<1>13. Publishing'
  <2>1. Ebbs' = Ebbs
    BY DEF Ebbs
  <2>2. \A d \in Ebbs : published'[d] \in {<< >>, <<DataOf(d)>>}
    BY <1>3, <1>9 DEF Publishing
  <2>3. pc'[FE] = "publish" =>
          issued < 4 /\ \A j \in 1 .. 4 : j <= issued => published'[UnixEbbs[j]] # << >>
    <3>1. CASE pc[FE] = "setting"
      BY <1>8, <1>12, <3>1
    <3>2. CASE pc[FE] # "setting"
      <4>1. pc[FE] # "publish"
        BY <1>1, <1>3, <1>5, <1>6 DEF Publishing
      <4> QED BY <1>8, <3>2, <4>1
    <3> QED BY <3>1, <3>2
  <2>4. pc'[FE] # "setting"
    BY <1>8
  <2>5. Full /\ pc'[FE] \notin {"publish", "failed"} => \A d \in Ebbs : published'[d] # << >>
    <3> SUFFICES ASSUME Full, pc'[FE] \notin {"publish", "failed"} PROVE \A d \in Ebbs : published'[d] # << >>
      OBVIOUS
    <3>1. CASE pc[FE] = "setting"
      <4>1. issued = 4
        BY <1>4, <1>8, <3>1
      <4> QED BY <1>12, <3>1, <4>1, EbbsAre
    <3>2. CASE pc[FE] # "setting"
      BY <1>1, <1>3, <1>6, <1>8, <3>2 DEF Publishing
    <3> QED BY <3>1, <3>2
  <2> QED BY <1>2, <1>7, <2>1, <2>2, <2>3, <2>4, <2>5 DEF Publishing
<1>14. Places'
  <2>1. CASE pc[FE] = "setting"
    BY <1>2, <1>3, <1>7, <1>8, <2>1 DEF Places
  <2>2. CASE pc[FE] # "setting"
    BY <1>2, <1>3, <1>7, <1>8, <2>2 DEF Places
  <2> QED BY <2>1, <2>2
<1>15. \A x \in Nodes : AtNode(x)'
  <2>1. AtNode(FE)'
    <3>1. CASE pc[FE] = "setting"
      BY <1>2, <1>3, <1>8, <3>1, EarlyStep, NodesAre DEF Early
    <3>2. CASE pc[FE] # "setting"
      BY <1>2, <1>3, <1>8, <3>2, NodeStays, NodesAre
    <3> QED BY <3>1, <3>2
  <2>2. AtNode(BE)'
    BY <1>2, <1>3, <1>8, NodeStays, NodesAre
  <2> QED BY <2>1, <2>2, NodesAre
<1> QED BY <1>11, <1>13, <1>14, <1>15 DEF IInv

LEMMA TakeArgvStep ==
  ASSUME IInv, NEW x \in Nodes, TakeArgv(x)
  PROVE  IInv'
<1>1. /\ pc[x] = "args" /\ given' = given /\ published' = published /\ issued' = issued
      /\ next' = next /\ ran' = ran /\ shown' = shown
  BY DEF TakeArgv
<1>2. WellTyped /\ Publishing /\ Places /\ \A y \in Nodes : AtNode(y)
  BY DEF IInv
<1>3. /\ given \in Givens /\ pc \in [Nodes -> Labels] /\ args \in [Nodes -> ArgsType]
      /\ "undefined" \in Labels /\ "parse" \in Labels
  BY <1>2 DEF WellTyped, Labels
<1>4. (Full' <=> Full) /\ Source(x)' = Source(x)
  BY <1>1, GivenStays
<1>5. Full => Has("CmdLineArgs") /\ published["CmdLineArgs"] = <<DataOf("CmdLineArgs")>>
  <2> SUFFICES ASSUME Full
               PROVE  Has("CmdLineArgs") /\ published["CmdLineArgs"] = <<DataOf("CmdLineArgs")>>
    OBVIOUS
  <2>1. "CmdLineArgs" \in Ebbs
    BY EbbsAre
  <2> QED BY <1>1, <1>2, <2>1, AllPublished
<1>6. given.build \in {"full", "hosted", "baremetal"}
  BY <1>3, DataTyped
<1>7. /\ ~Full /\ x = BE => given.build = "baremetal"
      /\ given.build = "baremetal" => x = BE /\ ~Full
      /\ x = FE /\ Full => pc[BE] = "off"
      /\ x = BE => pc[FE] # "setting" /\ pc[FE] # "publish"
  BY <1>1, <1>2, <1>6, NodesAre DEF Places, Full
<1>8. /\ pc' \in [Nodes -> Labels] /\ \A y \in Nodes : y # x => pc'[y] = pc[y]
      /\ args' \in [Nodes -> ArgsType] /\ \A y \in Nodes : y # x => args'[y] = args[y]
      /\ \/ Dangles(x) /\ pc'[x] = "undefined" /\ args'[x] = args[x]
         \/ ~Dangles(x) /\ pc'[x] = "parse" /\ args'[x].argv = Source(x)
  <2>1. CASE Dangles(x)
    <3>1. Goto(x, "undefined") /\ args' = args
      BY <1>5, <2>1 DEF TakeArgv
    <3> QED BY <1>3, <2>1, <3>1, GotoIs
  <2>2. CASE ~Dangles(x)
    <3> DEFINE v == IF Full THEN Unpack(published["CmdLineArgs"][1])
                    ELSE IF x = FE THEN given.argv ELSE StringToArgv(given.boot).argv
    <3>1. Goto(x, "parse") /\ args' = [args EXCEPT ![x].argv = v]
      BY <1>5, <2>2 DEF TakeArgv
    <3>2. v = Source(x)
      <4>1. CASE Full
        <5>1. published["CmdLineArgs"][1] = DataOf("CmdLineArgs")
          BY <1>5, <4>1
        <5>2. Unpack(DataOf("CmdLineArgs")) = given.argv
          BY <1>3, DataTyped
        <5> QED BY <4>1, <5>1, <5>2 DEF Source
      <4>2. CASE ~Full
        BY <4>2, NodesAre DEF Source
      <4> QED BY <4>1, <4>2
    <3> HIDE DEF v
    <3>3. x = BE /\ ~Full => StringToArgv(given.boot).stored
      BY <2>2 DEF Dangles
    <3>4. v \in Seq(Strings)
      BY <1>3, <3>2, <3>3, SourceTyped
    <3>5. /\ args' \in [Nodes -> ArgsType] /\ args'[x].argv = v
          /\ \A y \in Nodes : y # x => args'[y] = args[y]
      <4>1. args[x] \in ArgsType
        BY <1>3
      <4>2. [args[x] EXCEPT !.argv = v] \in ArgsType /\ [args[x] EXCEPT !.argv = v].argv = v
        BY <3>4, <4>1 DEF ArgsType
      <4>3. args' = [args EXCEPT ![x] = [args[x] EXCEPT !.argv = v]]
        BY <3>1
      <4> QED BY <1>3, <4>2, <4>3
    <3>6. pc' \in [Nodes -> Labels] /\ pc'[x] = "parse" /\ \A y \in Nodes : y # x => pc'[y] = pc[y]
      BY <1>3, <3>1, GotoIs
    <3> QED BY <2>2, <3>2, <3>5, <3>6
  <2> QED BY <2>1, <2>2
<1>9. Dangles(x) /\ x = FE => given.build = "full"
  BY NodesAre DEF Dangles, Full
<1>10. x = BE /\ ~Full => (Dangles(x) <=> ~StringToArgv(given.boot).stored)
  BY DEF Dangles
<1>11. WellTyped'
  BY <1>1, <1>2, <1>8 DEF WellTyped, Ebbs
<1>12. Publishing'
  <2>1. pc'[FE] = pc[FE] \/ (pc[FE] \notin {"publish", "setting", "failed"} /\ pc'[FE] \notin {"publish", "setting"})
    <3>1. CASE x = FE
      BY <1>1, <1>8, <3>1
    <3>2. CASE x # FE
      BY <1>8, <3>2, NodesAre
    <3> QED BY <3>1, <3>2
  <2> QED BY <1>1, <1>2, <2>1, PublishingStays
<1>13. Places'
  <2>1. CASE x = FE
    <3>1. pc'[BE] = pc[BE] /\ pc'[FE] \in {"undefined", "parse"}
      BY <1>8, <2>1, NodesAre
    <3> QED BY <1>1, <1>2, <1>4, <1>7, <2>1, <3>1 DEF Places
  <2>2. CASE x = BE
    <3>1. pc'[FE] = pc[FE] /\ pc'[BE] \in {"undefined", "parse"}
      BY <1>8, <2>2, NodesAre
    <3>2. given.build = "baremetal" => (pc'[BE] = "undefined" <=> ~StringToArgv(given.boot).stored)
      BY <1>7, <1>8, <1>10, <2>2
    <3> QED BY <1>1, <1>2, <1>4, <2>2, <3>1, <3>2 DEF Places
  <2> QED BY <2>1, <2>2, NodesAre
<1>14. ASSUME NEW y \in Nodes PROVE AtNode(y)'
  <2>1. CASE y = x
    <3>1. ran[x] = << >> /\ next[x] = 1
      BY <1>1, <1>2 DEF AtNode, RanHold, Early
    <3>2. ArgsHold(x)'
      BY <1>4, <1>8 DEF ArgsHold, Over
    <3>3. RanHold(x)'
      BY <1>1, <1>8, <3>1 DEF RanHold, Early, Over
    <3>4. ShownHold(x)'
      <4>1. "E" \notin ToSet(ran'[x])
        BY <1>1, <3>1 DEF ToSet
      <4> QED BY <4>1 DEF ShownHold
    <3> QED BY <2>1, <3>2, <3>3, <3>4 DEF AtNode
  <2>2. CASE y # x
    BY <1>1, <1>2, <1>8, <2>2, NodeStays
  <2> QED BY <2>1, <2>2
<1> QED BY <1>11, <1>12, <1>13, <1>14 DEF IInv

LEMMA ProcessArgsStep ==
  ASSUME IInv, NEW x \in Nodes, ProcessArgs(x)
  PROVE  IInv'
<1>1. /\ pc[x] = "parse" /\ given' = given /\ published' = published /\ issued' = issued
      /\ next' = next /\ ran' = ran /\ shown' = shown
      /\ args' = [args EXCEPT ![x] = Parsed(args[x].argv)]
  BY DEF ProcessArgs
<1>2. WellTyped /\ Publishing /\ Places /\ \A y \in Nodes : AtNode(y)
  BY DEF IInv
<1>3. /\ pc \in [Nodes -> Labels] /\ args \in [Nodes -> ArgsType]
      /\ args[x].argv \in Seq(Strings)
  BY <1>2 DEF WellTyped, ArgsType
<1>4. args[x].argv = Source(x) /\ ran[x] = << >> /\ next[x] = 1
  BY <1>1, <1>2 DEF AtNode, ArgsHold, RanHold
<1>5. /\ Full' <=> Full
      /\ Tests(x)' = Tests(x) /\ Source(x)' = Source(x) /\ Wanted(x)' = Wanted(x)
      /\ Runs(x)' = Runs(x) /\ (Gated(x)' <=> Gated(x)) /\ SourceAsks(x)' = SourceAsks(x)
  BY <1>1, GivenStays
<1>6. /\ args' \in [Nodes -> ArgsType] /\ args'[x] = Wanted(x)
      /\ \A y \in Nodes : y # x => args'[y] = args[y]
  <2>1. Parsed(args[x].argv) \in ArgsType
    BY <1>3, ParsedTyped
  <2>2. Parsed(args[x].argv) = Wanted(x)
    BY <1>4 DEF Wanted
  <2> QED BY <1>1, <1>3, <2>1, <2>2
<1>7. /\ pc' \in [Nodes -> Labels] /\ \A y \in Nodes : y # x => pc'[y] = pc[y]
      /\ pc'[x] = IF ParseFails(Source(x)) THEN "DONE"
                  ELSE IF x = FE /\ Full /\ Wanted(x).backend THEN "allocate" ELSE "tests"
  <2> DEFINE label == IF ParseFails(Source(x)) THEN "DONE"
                      ELSE IF x = FE /\ Full /\ Wanted(x).backend THEN "allocate" ELSE "tests"
  <2>1. Goto(x, label)
    BY <1>4, <1>6 DEF ProcessArgs
  <2>2. label \in Labels
    BY DEF Labels
  <2> HIDE DEF label
  <2>3. /\ pc' \in [Nodes -> Labels] /\ \A y \in Nodes : y # x => pc'[y] = pc[y]
        /\ pc'[x] = label
    BY <1>3, <2>1, <2>2, GotoIs
  <2> QED BY <2>3 DEF label
<1>8. /\ pc'[x] = "DONE" \/ pc'[x] = "allocate" => Gated(x)
      /\ pc'[x] = "tests" => ~Gated(x)
      /\ pc'[x] \in {"DONE", "allocate", "tests"}
      /\ pc'[x] = "allocate" => x = FE /\ Full
  BY <1>7 DEF Gated
<1>9. WellTyped'
  BY <1>1, <1>2, <1>6, <1>7 DEF WellTyped, Ebbs
<1>10. Publishing'
  <2>1. pc'[FE] = pc[FE] \/ (pc[FE] \notin {"publish", "setting", "failed"} /\ pc'[FE] \notin {"publish", "setting"})
    <3>1. CASE x = FE
      BY <1>1, <1>8, <3>1
    <3>2. CASE x # FE
      BY <1>7, <3>2, NodesAre
    <3> QED BY <3>1, <3>2
  <2> QED BY <1>1, <1>2, <2>1, PublishingStays
<1>11. Places'
  <2>1. CASE x = FE
    <3>1. pc'[BE] = pc[BE] /\ (Full => pc[BE] = "off")
      BY <1>1, <1>2, <1>7, <2>1, NodesAre DEF Places
    <3> QED BY <1>1, <1>2, <1>5, <1>8, <2>1, <3>1 DEF Places
  <2>2. CASE x = BE
    <3>1. pc'[FE] = pc[FE] /\ pc'[BE] \in {"DONE", "tests"}
      BY <1>7, <1>8, <2>2, NodesAre
    <3> QED BY <1>1, <1>2, <1>5, <2>2, <3>1 DEF Places
  <2> QED BY <2>1, <2>2, NodesAre
<1>12. ASSUME NEW y \in Nodes PROVE AtNode(y)'
  <2>1. CASE y = x
    <3>1. ArgsHold(x)'
      BY <1>5, <1>6, <1>8 DEF ArgsHold
    <3>2. Runs(x)[0] = << >> /\ Len(Tests(x)) \in Nat
      BY RunsAre, TestsTyped
    <3>3. Gated(x) => SourceAsks(x) = << >>
      BY DEF SourceAsks
    <3>4. next'[x] = 1 /\ 1 <= Len(Tests(x)) + 1 /\ next'[x] - 1 = 0 /\ ran'[x] = << >>
      BY <1>1, <1>4, <3>2
    <3>5. RanHold(x)'
      BY <1>5, <1>8, <3>2, <3>3, <3>4 DEF RanHold, Early, Over
    <3>6. ShownHold(x)'
      <4>1. "E" \notin ToSet(ran'[x])
        BY <1>1, <1>4 DEF ToSet
      <4> QED BY <4>1 DEF ShownHold
    <3> QED BY <2>1, <3>1, <3>5, <3>6 DEF AtNode
  <2>2. CASE y # x
    BY <1>1, <1>2, <1>6, <1>7, <2>2, NodeStays
  <2> QED BY <2>1, <2>2
<1> QED BY <1>9, <1>10, <1>11, <1>12 DEF IInv

LEMMA AllocateNodeStep ==
  ASSUME IInv, AllocateNode
  PROVE  IInv'
<1>1. /\ pc[FE] = "allocate" /\ pc' = [pc EXCEPT ![FE] = "DONE", ![BE] = "booting"]
      /\ given' = given /\ published' = published /\ issued' = issued /\ args' = args
      /\ next' = next /\ ran' = ran /\ shown' = shown
  BY DEF AllocateNode
<1>2. WellTyped /\ Publishing /\ Places /\ \A y \in Nodes : AtNode(y)
  BY DEF IInv
<1>3. pc' \in [Nodes -> Labels] /\ pc'[FE] = "DONE" /\ pc'[BE] = "booting"
  <2>1. pc \in [Nodes -> Labels] /\ "DONE" \in Labels /\ "booting" \in Labels
    BY <1>2 DEF WellTyped, Labels
  <2> QED BY <1>1, <2>1, NodesAre
<1>4. /\ Full' <=> Full
      /\ \A x \in Nodes : Wanted(x)' = Wanted(x) /\ SourceAsks(x)' = SourceAsks(x)
  BY <1>1, GivenStays
<1>5. Full /\ pc[BE] = "off" /\ given.build = "full"
  BY <1>1, <1>2 DEF Places, Full
<1>6. WellTyped'
  BY <1>1, <1>2, <1>3 DEF WellTyped, Ebbs
<1>7. Publishing'
  BY <1>1, <1>2, <1>3, PublishingStays
<1>8. Places'
  BY <1>1, <1>3, <1>4, <1>5 DEF Places
<1>9. AtNode(FE)'
  <2>1. ran[FE] = << >> /\ Gated(FE) /\ args[FE] = Wanted(FE)
    BY <1>1, <1>2, NodesAre DEF AtNode, RanHold, ArgsHold
  <2>2. SourceAsks(FE) = << >>
    BY <2>1 DEF SourceAsks
  <2>3. Wanted(FE)' = Wanted(FE) /\ SourceAsks(FE)' = SourceAsks(FE)
    BY <1>4, NodesAre
  <2>4. ArgsHold(FE)'
    BY <1>1, <1>3, <2>1, <2>3 DEF ArgsHold
  <2>5. RanHold(FE)'
    BY <1>1, <1>3, <2>1, <2>2, <2>3 DEF RanHold, Early
  <2>6. ShownHold(FE)'
    <3>1. "E" \notin ToSet(ran'[FE])
      BY <1>1, <2>1 DEF ToSet
    <3> QED BY <3>1 DEF ShownHold
  <2> QED BY <2>4, <2>5, <2>6 DEF AtNode
<1>10. AtNode(BE)'
  BY <1>1, <1>2, <1>3, <1>5, EarlyStep, NodesAre DEF Early
<1> QED BY <1>6, <1>7, <1>8, <1>9, <1>10, NodesAre DEF IInv

LEMMA BootStep ==
  ASSUME IInv, Boot
  PROVE  IInv'
<1>1. /\ pc[BE] = "booting" /\ Goto(BE, "args")
      /\ given' = given /\ published' = published /\ issued' = issued /\ args' = args
      /\ next' = next /\ ran' = ran /\ shown' = shown
  BY DEF Boot
<1>2. WellTyped /\ Publishing /\ Places /\ \A y \in Nodes : AtNode(y)
  BY DEF IInv
<1>3. pc' \in [Nodes -> Labels] /\ pc'[BE] = "args" /\ pc'[FE] = pc[FE]
  <2>1. pc \in [Nodes -> Labels] /\ "args" \in Labels
    BY <1>2 DEF WellTyped, Labels
  <2> QED BY <1>1, <2>1, GotoIs, NodesAre
<1>4. Full' <=> Full
  BY <1>1, GivenStays
<1>5. WellTyped'
  BY <1>1, <1>2, <1>3 DEF WellTyped, Ebbs
<1>6. Publishing'
  BY <1>1, <1>2, <1>3, PublishingStays
<1>7. Places'
  BY <1>1, <1>2, <1>3, <1>4 DEF Places
<1>8. AtNode(BE)' /\ AtNode(FE)'
  <2>1. AtNode(BE)'
    BY <1>1, <1>2, <1>3, EarlyStep, NodesAre DEF Early
  <2>2. AtNode(FE)'
    BY <1>1, <1>2, <1>3, NodeStays, NodesAre
  <2> QED BY <2>1, <2>2
<1> QED BY <1>5, <1>6, <1>7, <1>8, NodesAre DEF IInv

LEMMA StreamEndsStep ==
  ASSUME IInv, NEW x \in Nodes, StreamEnds(x)
  PROVE  IInv'
<1>1. /\ pc[x] = "blocked" /\ Goto(x, "tests")
      /\ given' = given /\ published' = published /\ issued' = issued /\ args' = args
      /\ next' = next /\ ran' = ran /\ shown' = shown
  BY DEF StreamEnds
<1>2. WellTyped /\ Publishing /\ Places /\ \A y \in Nodes : AtNode(y)
  BY DEF IInv
<1>3. pc' \in [Nodes -> Labels] /\ pc'[x] = "tests" /\ \A y \in Nodes : y # x => pc'[y] = pc[y]
  <2>1. pc \in [Nodes -> Labels] /\ "tests" \in Labels
    BY <1>2 DEF WellTyped, Labels
  <2> QED BY <1>1, <2>1, GotoIs
<1>4. /\ Full' <=> Full
      /\ Tests(x)' = Tests(x) /\ Source(x)' = Source(x) /\ Wanted(x)' = Wanted(x)
      /\ Runs(x)' = Runs(x) /\ (Gated(x)' <=> Gated(x))
  BY <1>1, GivenStays
<1>5. WellTyped'
  BY <1>1, <1>2, <1>3 DEF WellTyped, Ebbs
<1>6. (x = FE /\ pc'[BE] = pc[BE]) \/ (x = BE /\ pc'[FE] = pc[FE])
  BY <1>3, NodesAre
<1>7. Publishing'
  <2>1. pc'[FE] = pc[FE] \/ (pc[FE] \notin {"publish", "setting", "failed"} /\ pc'[FE] \notin {"publish", "setting"})
    BY <1>1, <1>3, <1>6
  <2> QED BY <1>1, <1>2, <2>1, PublishingStays
<1>8. Places'
  <2>1. CASE x = FE
    BY <1>1, <1>2, <1>3, <1>4, <1>6, <2>1, NodesAre DEF Places
  <2>2. CASE x = BE
    BY <1>1, <1>2, <1>3, <1>4, <1>6, <2>2, NodesAre DEF Places
  <2> QED BY <1>6, <2>1, <2>2
<1>9. ASSUME NEW y \in Nodes PROVE AtNode(y)'
  <2>1. CASE y = x
    <3>1. ArgsHold(x)'
      BY <1>1, <1>2, <1>3, <1>4 DEF AtNode, ArgsHold
    <3>2. RanHold(x)'
      BY <1>1, <1>2, <1>3, <1>4 DEF AtNode, RanHold, Early, Over
    <3>3. ShownHold(x)'
      BY <1>1, <1>2, <1>3 DEF AtNode, ShownHold
    <3> QED BY <2>1, <3>1, <3>2, <3>3 DEF AtNode
  <2>2. CASE y # x
    BY <1>1, <1>2, <1>3, <2>2, NodeStays
  <2> QED BY <2>1, <2>2
<1> QED BY <1>5, <1>7, <1>8, <1>9 DEF IInv

LEMMA TestsEndStep ==
  ASSUME IInv, NEW x \in Nodes, TestsEnd(x)
  PROVE  IInv'
<1>1. /\ pc[x] = "tests" /\ Goto(x, "DONE") /\ next[x] > Len(Tests(x))
      /\ given' = given /\ published' = published /\ issued' = issued /\ args' = args
      /\ next' = next /\ ran' = ran /\ shown' = shown
  BY DEF TestsEnd
<1>2. WellTyped /\ Publishing /\ Places /\ \A y \in Nodes : AtNode(y)
  BY DEF IInv
<1>3. pc' \in [Nodes -> Labels] /\ pc'[x] = "DONE" /\ \A y \in Nodes : y # x => pc'[y] = pc[y]
  <2>1. pc \in [Nodes -> Labels] /\ "DONE" \in Labels
    BY <1>2 DEF WellTyped, Labels
  <2> QED BY <1>1, <2>1, GotoIs
<1>4. /\ Full' <=> Full
      /\ Wanted(x)' = Wanted(x) /\ SourceAsks(x)' = SourceAsks(x)
  BY <1>1, GivenStays
<1>5. WellTyped'
  BY <1>1, <1>2, <1>3 DEF WellTyped, Ebbs
<1>6. (x = FE /\ pc'[BE] = pc[BE]) \/ (x = BE /\ pc'[FE] = pc[FE])
  BY <1>3, NodesAre
<1>7. Publishing'
  <2>1. pc'[FE] = pc[FE] \/ (pc[FE] \notin {"publish", "setting", "failed"} /\ pc'[FE] \notin {"publish", "setting"})
    BY <1>1, <1>3, <1>6
  <2> QED BY <1>1, <1>2, <2>1, PublishingStays
<1>8. Places'
  <2>1. CASE x = FE
    BY <1>1, <1>2, <1>3, <1>4, <1>6, <2>1, NodesAre DEF Places
  <2>2. CASE x = BE
    BY <1>1, <1>2, <1>3, <1>4, <1>6, <2>2, NodesAre DEF Places
  <2> QED BY <1>6, <2>1, <2>2
<1>9. ASSUME NEW y \in Nodes PROVE AtNode(y)'
  <2>1. CASE y = x
    <3>1. /\ args[x] = Wanted(x) /\ ~Gated(x) /\ next[x] <= Len(Tests(x)) + 1
          /\ ran[x] = Runs(x)[next[x] - 1]
      BY <1>1, <1>2 DEF AtNode, ArgsHold, RanHold
    <3>2. next[x] - 1 = Len(Tests(x))
      <4>1. next[x] \in 1 .. 14 /\ Len(Tests(x)) \in 0 .. 13
        BY <1>2, TestsTyped DEF WellTyped
      <4>2. \A a \in 1 .. 14, b \in 0 .. 13 : a > b /\ a <= b + 1 => a - 1 = b
        OBVIOUS
      <4> QED BY <1>1, <3>1, <4>1, <4>2
    <3>3. ran[x] = SourceAsks(x)
      BY <3>1, <3>2, RunsAre
    <3>4. ArgsHold(x)'
      BY <1>1, <1>3, <1>4, <3>1 DEF ArgsHold
    <3>5. RanHold(x)'
      BY <1>1, <1>3, <1>4, <3>3 DEF RanHold, Early, Over
    <3>6. ShownHold(x)'
      BY <1>1, <1>2, <1>3 DEF AtNode, ShownHold
    <3> QED BY <2>1, <3>4, <3>5, <3>6 DEF AtNode
  <2>2. CASE y # x
    BY <1>1, <1>2, <1>3, <2>2, NodeStays
  <2> QED BY <2>1, <2>2
<1> QED BY <1>5, <1>7, <1>8, <1>9 DEF IInv

LEMMA DoneStep ==
  ASSUME IInv, NEW x \in Nodes, Done(x)
  PROVE  IInv'
<1>1. /\ pc[x] = "DONE"
      /\ given' = given /\ published' = published /\ issued' = issued /\ args' = args
      /\ next' = next /\ ran' = ran /\ shown' = shown
  BY DEF Done
<1>2. WellTyped /\ Publishing /\ Places /\ \A y \in Nodes : AtNode(y)
  BY DEF IInv
<1>3. /\ pc' \in [Nodes -> Labels] /\ \A y \in Nodes : y # x => pc'[y] = pc[y]
      /\ pc'[x] = IF x = BE /\ Full THEN "exiting" ELSE "exited"
  <2>1. pc \in [Nodes -> Labels] /\ "exiting" \in Labels /\ "exited" \in Labels
    BY <1>2 DEF WellTyped, Labels
  <2>2. CASE x = BE /\ Full
    <3>1. pc' = [pc EXCEPT ![x] = "exiting"]
      BY <2>2 DEF Done
    <3> QED BY <2>1, <2>2, <3>1
  <2>3. CASE ~(x = BE /\ Full)
    <3>1. Goto(x, "exited")
      BY <2>3 DEF Done
    <3> QED BY <2>1, <2>3, <3>1, GotoIs
  <2> QED BY <2>2, <2>3
<1>4. Full' <=> Full
  BY <1>1, GivenStays
<1>5. WellTyped'
  BY <1>1, <1>2, <1>3 DEF WellTyped, Ebbs
<1>6. (x = FE /\ pc'[BE] = pc[BE]) \/ (x = BE /\ pc'[FE] = pc[FE])
  BY <1>3, NodesAre
<1>7. Publishing'
  <2>1. pc'[FE] = pc[FE] \/ (pc[FE] \notin {"publish", "setting", "failed"} /\ pc'[FE] \notin {"publish", "setting"})
    BY <1>1, <1>3, <1>6
  <2> QED BY <1>1, <1>2, <2>1, PublishingStays
<1>8. Places'
  <2>1. CASE x = FE
    BY <1>1, <1>2, <1>3, <1>4, <1>6, <2>1, NodesAre DEF Places
  <2>2. CASE x = BE
    BY <1>1, <1>2, <1>3, <1>4, <1>6, <2>2, NodesAre DEF Places
  <2> QED BY <1>6, <2>1, <2>2
<1>9. ASSUME NEW y \in Nodes PROVE AtNode(y)'
  <2>1. CASE y = x
    <3>1. pc[x] \in Over /\ pc'[x] \in Over
      BY <1>1, <1>3 DEF Over
    <3> QED BY <1>1, <1>2, <2>1, <3>1, OverStep
  <2>2. CASE y # x
    BY <1>1, <1>2, <1>3, <2>2, NodeStays
  <2> QED BY <2>1, <2>2
<1> QED BY <1>5, <1>7, <1>8, <1>9 DEF IInv

LEMMA ProcessExitStep ==
  ASSUME IInv, ProcessExit
  PROVE  IInv'
<1>1. /\ pc[BE] = "exiting" /\ pc[FE] # "exited" /\ Goto(FE, "exited")
      /\ given' = given /\ published' = published /\ issued' = issued /\ args' = args
      /\ next' = next /\ ran' = ran /\ shown' = shown
  BY DEF ProcessExit
<1>2. WellTyped /\ Publishing /\ Places /\ \A y \in Nodes : AtNode(y)
  BY DEF IInv
<1>3. pc' \in [Nodes -> Labels] /\ pc'[FE] = "exited" /\ pc'[BE] = pc[BE]
  <2>1. pc \in [Nodes -> Labels] /\ "exited" \in Labels
    BY <1>2 DEF WellTyped, Labels
  <2> QED BY <1>1, <2>1, GotoIs, NodesAre
<1>4. Full' <=> Full
  BY <1>1, GivenStays
<1>5. Full /\ pc[FE] = "DONE" /\ given.build = "full"
  BY <1>1, <1>2 DEF Places, Full
<1>6. WellTyped'
  BY <1>1, <1>2, <1>3 DEF WellTyped, Ebbs
<1>7. Publishing'
  BY <1>1, <1>2, <1>3, <1>5, PublishingStays
<1>8. Places'
  BY <1>1, <1>2, <1>3, <1>4, <1>5 DEF Places
<1>9. AtNode(FE)' /\ AtNode(BE)'
  <2>1. AtNode(FE)'
    BY <1>1, <1>2, <1>3, <1>5, OverStep, NodesAre DEF Over
  <2>2. AtNode(BE)'
    BY <1>1, <1>2, <1>3, NodeStays, NodesAre
  <2> QED BY <2>1, <2>2
<1> QED BY <1>6, <1>7, <1>8, <1>9, NodesAre DEF IInv

LEMMA ToSetAppend ==
  ASSUME NEW S, NEW s \in Seq(S), NEW t \in S
  PROVE  ToSet(Append(s, t)) = ToSet(s) \cup {t}
<1>1. /\ Append(s, t) \in Seq(S) /\ Len(Append(s, t)) = Len(s) + 1
      /\ \A i \in 1 .. Len(s) : Append(s, t)[i] = s[i]
      /\ Append(s, t)[Len(s) + 1] = t
  BY AppendProperties
<1>2. Len(s) \in Nat /\ DOMAIN s = 1 .. Len(s)
  BY LenProperties
<1>3. DOMAIN Append(s, t) = 1 .. Len(s) + 1
  BY <1>1, LenProperties
<1>4. 1 .. Len(s) + 1 = 1 .. Len(s) \cup {Len(s) + 1}
  BY <1>2
<1> DEFINE r == Append(s, t)
<1> HIDE DEF r
<1>5. ToSet(r) = {r[i] : i \in 1 .. Len(s) \cup {Len(s) + 1}}
  BY <1>3, <1>4 DEF ToSet, r
<1>6. ToSet(s) = {s[i] : i \in 1 .. Len(s)}
  BY <1>2 DEF ToSet
<1>7. (\A i \in 1 .. Len(s) : r[i] = s[i]) /\ r[Len(s) + 1] = t
  BY <1>1 DEF r
<1>8. ToSet(r) = ToSet(s) \cup {t}
  BY <1>5, <1>6, <1>7
<1> QED BY <1>8 DEF r

LEMMA UnixTestsAre == ToSet(UnixTests) = {"C", "E", "I", "F"}
<1>1. /\ UnixTests \in Seq({"C", "E", "I", "F"}) /\ Len(UnixTests) = 4 /\ DOMAIN UnixTests = 1 .. 4
      /\ UnixTests[1] = "C" /\ UnixTests[2] = "E" /\ UnixTests[3] = "I" /\ UnixTests[4] = "F"
  BY DEF UnixTests
<1>2. 1 .. 4 = {1, 2, 3, 4}
  OBVIOUS
<1> HIDE DEF UnixTests
<1>3. ToSet(UnixTests) = {UnixTests[i] : i \in {1, 2, 3, 4}}
  BY <1>1, <1>2 DEF ToSet
<1> QED BY <1>1, <1>3

(* A test that is asked for finds its Ebb published, and env_test the front   *)
(* end's environment.                                                       *)
LEMMA TestFindsEbb ==
  ASSUME IInv, NEW x \in Nodes, pc[x] = "tests", NEW test \in ToSet(UnixTests), Full
  PROVE  /\ Has(EbbOf(test))
         /\ Environ(x) = given.env
<1>1. test \in {"C", "E", "I", "F"}
  BY UnixTestsAre
<1>2. EbbOf(test) \in {"CmdLineArgs", "Environment", "InputStream", "FS"}
  BY <1>1 DEF EbbOf
<1>3. EbbOf(test) \in Ebbs /\ "Environment" \in Ebbs
  BY <1>2, EbbsAre
<1>4. \A e \in Ebbs : Has(e) /\ published[e] = <<DataOf(e)>>
  BY AllPublished DEF IInv
<1>5. Unpack(DataOf("Environment")) = given.env
  BY DataTyped DEF IInv, WellTyped
<1>6. published["Environment"][1] = DataOf("Environment")
  BY <1>3, <1>4
<1> QED BY <1>3, <1>4, <1>5, <1>6 DEF Environ

LEMMA RunTestStep ==
  ASSUME IInv, NEW x \in Nodes, RunTest(x)
  PROVE  IInv'
<1> DEFINE test == Tests(x)[next[x]]
           k == next[x]
<1>1. /\ pc[x] = "tests" /\ k <= Len(Tests(x))
      /\ given' = given /\ published' = published /\ issued' = issued /\ args' = args
      /\ next' = [next EXCEPT ![x] = @ + 1]
      /\ ran' = [ran EXCEPT ![x] = IF test \in args[x].tests THEN Append(@, test) ELSE @]
      /\ shown' = [shown EXCEPT ![x] =
                     IF test \in args[x].tests /\ test = "E" THEN Environ(x) ELSE @]
      /\ IF test \in args[x].tests /\ test \in ToSet(UnixTests)
           THEN Goto(x, IF ~Has(EbbOf(test)) THEN "threw"
                        ELSE IF WalksPastEnd(x, test) THEN "undefined"
                        ELSE IF OpenFails(x, test) THEN "failed"
                        ELSE IF test \in {"I", "F"} THEN "blocked" ELSE "tests")
           ELSE pc' = pc
  BY DEF RunTest
<1>2. WellTyped /\ Publishing /\ Places /\ \A y \in Nodes : AtNode(y)
  BY DEF IInv
<1>3. /\ given \in Givens /\ pc \in [Nodes -> Labels] /\ next \in [Nodes -> 1 .. 14]
      /\ ran \in [Nodes -> Seq(Options)] /\ shown \in [Nodes -> Seq(Strings)]
      /\ {"undefined", "blocked", "tests", "failed"} \subseteq Labels
  BY <1>2 DEF WellTyped, Labels
<1>4. args[x] = Wanted(x) /\ ~Gated(x) /\ ran[x] = Runs(x)[k - 1]
  BY <1>1, <1>2 DEF AtNode, ArgsHold, RanHold
<1>5. /\ Tests(x) \in Seq(Options) /\ Len(Tests(x)) \in 0 .. 13
      /\ ~Full => \A i \in 1 .. Len(Tests(x)) : Tests(x)[i] \notin ToSet(UnixTests)
  BY TestsTyped
<1>6. k \in 1 .. Len(Tests(x)) /\ k + 1 \in 1 .. 14 /\ k + 1 <= Len(Tests(x)) + 1 /\ (k + 1) - 1 = k
  <2>1. k \in 1 .. 14
    BY <1>3
  <2>2. \A a \in 1 .. 14, b \in 0 .. 13 :
          a <= b => a \in 1 .. b /\ a + 1 \in 1 .. 14 /\ a + 1 <= b + 1 /\ (a + 1) - 1 = a
    OBVIOUS
  <2> QED BY <1>1, <1>5, <2>1, <2>2
<1>7. test \in Options
  BY <1>5, <1>6, ElementOfSeq
<1>8. test \in ToSet(UnixTests) => Full /\ Has(EbbOf(test)) /\ Environ(x) = given.env
  <2>1. test \in ToSet(UnixTests) => Full
    BY <1>5, <1>6
  <2> QED BY <1>1, <2>1, TestFindsEbb
<1>9. "E" \in ToSet(UnixTests)
  BY UnixTestsAre
<1>10. /\ Full' <=> Full
       /\ Tests(x)' = Tests(x) /\ Source(x)' = Source(x) /\ Wanted(x)' = Wanted(x)
       /\ Runs(x)' = Runs(x) /\ (Gated(x)' <=> Gated(x)) /\ SourceAsks(x)' = SourceAsks(x)
  BY <1>1, GivenStays
<1>11. /\ Runs(x)[k] = IF test \in Wanted(x).tests THEN Append(Runs(x)[k - 1], test) ELSE Runs(x)[k - 1]
       /\ Runs(x)[k] \in Seq(Options)
       /\ IsPrefix(Runs(x)[k], SourceAsks(x))
  <2>1. k \in 0 .. Len(Tests(x))
    BY <1>6
  <2> QED BY <1>4, <1>6, <2>1, RunsAre
<1>12. given.env \in Seq(Strings)
  BY <1>3, DataTyped
<1> HIDE DEF test
<1>13. /\ ran' \in [Nodes -> Seq(Options)] /\ ran'[x] = Runs(x)[k]
       /\ \A y \in Nodes : y # x => ran'[y] = ran[y]
  <2> DEFINE r == IF test \in args[x].tests THEN Append(ran[x], test) ELSE ran[x]
  <2>1. r = Runs(x)[k]
    BY <1>4, <1>11
  <2>2. ran' = [ran EXCEPT ![x] = r]
    BY <1>1
  <2> HIDE DEF r
  <2> QED BY <1>3, <1>11, <2>1, <2>2
<1>14. /\ next' \in [Nodes -> 1 .. 14] /\ next'[x] = k + 1
       /\ \A y \in Nodes : y # x => next'[y] = next[y]
  <2>1. next' = [next EXCEPT ![x] = k + 1]
    BY <1>1
  <2> QED BY <1>3, <1>6, <2>1
<1>15. /\ shown' \in [Nodes -> Seq(Strings)]
       /\ shown'[x] = IF test \in args[x].tests /\ test = "E" THEN given.env ELSE shown[x]
       /\ \A y \in Nodes : y # x => shown'[y] = shown[y]
  <2> DEFINE v == IF test \in args[x].tests /\ test = "E" THEN Environ(x) ELSE shown[x]
  <2>1. v = IF test \in args[x].tests /\ test = "E" THEN given.env ELSE shown[x]
    BY <1>8, <1>9
  <2>2. v \in Seq(Strings)
    BY <1>3, <1>12, <2>1
  <2>3. shown' = [shown EXCEPT ![x] = v]
    BY <1>1
  <2> HIDE DEF v
  <2> QED BY <1>3, <2>1, <2>2, <2>3
<1>16. /\ pc' \in [Nodes -> Labels] /\ \A y \in Nodes : y # x => pc'[y] = pc[y]
       /\ pc'[x] \in {"tests", "blocked", "undefined", "failed"}
       /\ pc'[x] \in {"blocked", "undefined", "failed"} => Full
       /\ pc'[x] = "failed" => x = FE
  <2>1. CASE test \in args[x].tests /\ test \in ToSet(UnixTests)
    <3> DEFINE label == IF WalksPastEnd(x, test) THEN "undefined"
                        ELSE IF OpenFails(x, test) THEN "failed"
                        ELSE IF test \in {"I", "F"} THEN "blocked" ELSE "tests"
    <3>1. Goto(x, label)
      BY <1>1, <1>8, <2>1
    <3>2. label \in {"tests", "blocked", "undefined", "failed"} /\ (label = "failed" => x = FE)
      BY DEF OpenFails
    <3> HIDE DEF label
    <3>3. label \in Labels
      BY <1>3, <3>2
    <3>4. /\ pc' \in [Nodes -> Labels] /\ \A y \in Nodes : y # x => pc'[y] = pc[y]
          /\ pc'[x] = label
      BY <1>3, <3>1, <3>3, GotoIs
    <3> QED BY <1>8, <2>1, <3>2, <3>4
  <2>2. CASE ~(test \in args[x].tests /\ test \in ToSet(UnixTests))
    <3>1. pc' = pc
      BY <1>1, <2>2
    <3> QED BY <1>1, <1>3, <3>1
  <2> QED BY <2>1, <2>2
<1>17. WellTyped'
  BY <1>1, <1>2, <1>13, <1>14, <1>15, <1>16 DEF WellTyped, Ebbs
<1>18. (x = FE /\ pc'[BE] = pc[BE]) \/ (x = BE /\ pc'[FE] = pc[FE])
  BY <1>16, NodesAre
<1>19. Publishing'
  <2>1. pc'[FE] = pc[FE] \/ (pc[FE] \notin {"publish", "setting", "failed"} /\ pc'[FE] \notin {"publish", "setting"})
    BY <1>1, <1>16, <1>18
  <2> QED BY <1>1, <1>2, <2>1, PublishingStays
<1>20. Places'
  <2>1. CASE x = FE
    <3>1. /\ pc'[BE] = pc[BE] /\ pc'[FE] \in {"tests", "blocked", "undefined", "failed"}
          /\ pc'[FE] = "failed" => Full
      BY <1>16, <1>18, <2>1, NodesAre
    <3>2. (Full => pc[BE] = "off") /\ given.build # "baremetal"
      BY <1>1, <1>2, <2>1 DEF Places
    <3> QED BY <1>1, <1>2, <1>10, <3>1, <3>2 DEF Places
  <2>2. CASE x = BE
    <3>1. /\ pc'[FE] = pc[FE] /\ pc'[BE] \in {"tests", "blocked", "undefined"}
          /\ given.build # "full" => pc'[BE] = "tests"
      BY <1>16, <1>18, <2>2, NodesAre DEF Full
    <3>2. pc[BE] = "tests"
      BY <1>1, <2>2
    <3> QED BY <1>1, <1>2, <1>10, <3>1, <3>2 DEF Places, Full
  <2> QED BY <1>18, <2>1, <2>2
<1>21. ASSUME NEW y \in Nodes PROVE AtNode(y)'
  <2>1. CASE y = x
    <3>1. args'[x] = Wanted(x)' /\ next'[x] - 1 = k
      BY <1>1, <1>4, <1>6, <1>10, <1>14
    <3>2. ArgsHold(x)'
      BY <1>16, <3>1 DEF ArgsHold
    <3>3. RanHold(x)'
      BY <1>4, <1>6, <1>10, <1>11, <1>13, <1>14, <1>16, <3>1 DEF RanHold, Early, Over
    <3>4. ShownHold(x)'
      <4>1. SUFFICES ASSUME "E" \in ToSet(ran'[x]) PROVE shown'[x] = given.env
        BY <1>1 DEF ShownHold
      <4>2. CASE test \in args[x].tests /\ test = "E"
        BY <1>15, <4>2
      <4>3. CASE ~(test \in args[x].tests /\ test = "E")
        <5>1. ran[x] \in Seq(Options)
          BY <1>3
        <5>2. test \in args[x].tests => ToSet(ran'[x]) = ToSet(ran[x]) \cup {test}
          BY <1>4, <1>7, <1>11, <1>13, <5>1, ToSetAppend
        <5>3. test \notin args[x].tests => ran'[x] = ran[x]
          BY <1>4, <1>11, <1>13
        <5>4. "E" \in ToSet(ran[x])
          BY <4>1, <4>3, <5>2, <5>3
        <5>5. ShownHold(x)
          BY <1>2 DEF AtNode
        <5> QED BY <1>1, <1>15, <4>3, <5>4, <5>5 DEF ShownHold
      <4> QED BY <4>2, <4>3
    <3> QED BY <2>1, <3>2, <3>3, <3>4 DEF AtNode
  <2>2. CASE y # x
    BY <1>1, <1>2, <1>13, <1>14, <1>15, <1>16, <2>2, NodeStays
  <2> QED BY <2>1, <2>2
<1> QED BY <1>17, <1>19, <1>20, <1>21 DEF IInv

LEMMA StutterStep ==
  ASSUME IInv, UNCHANGED vars
  PROVE  IInv'
<1>1. /\ given' = given /\ published' = published /\ issued' = issued /\ pc' = pc /\ args' = args
      /\ next' = next /\ ran' = ran /\ shown' = shown
  BY DEF vars
<1>2. WellTyped /\ Publishing /\ Places /\ \A y \in Nodes : AtNode(y)
  BY DEF IInv
<1>3. WellTyped'
  BY <1>1, <1>2 DEF WellTyped, Ebbs
<1>4. Publishing'
  BY <1>1, <1>2, PublishingStays
<1>5. Places'
  <2>1. Full' <=> Full
    BY <1>1, GivenStays
  <2> QED BY <1>1, <1>2, <2>1 DEF Places
<1>6. \A y \in Nodes : AtNode(y)'
  BY <1>1, <1>2, NodeStays
<1> QED BY <1>3, <1>4, <1>5, <1>6 DEF IInv

LEMMA NextIInv == IInv /\ [Next]_vars => IInv'
<1> SUFFICES ASSUME IInv, [Next]_vars PROVE IInv'
  OBVIOUS
<1>1. ASSUME NEW x \in Nodes, AppMain(x) PROVE IInv'
  <2>1. CASE TakeArgv(x)
    BY <2>1, TakeArgvStep
  <2>2. CASE ProcessArgs(x)
    BY <2>2, ProcessArgsStep
  <2>3. CASE RunTest(x)
    BY <2>3, RunTestStep
  <2>4. CASE StreamEnds(x)
    BY <2>4, StreamEndsStep
  <2>5. CASE TestsEnd(x)
    BY <2>5, TestsEndStep
  <2>6. CASE Done(x)
    BY <2>6, DoneStep
  <2> QED BY <1>1, <2>1, <2>2, <2>3, <2>4, <2>5, <2>6 DEF AppMain
<1>2. CASE Publish
  BY <1>2, PublishStep
<1>3. CASE SetDone
  BY <1>3, SetDoneStep
<1>4. CASE AllocateNode
  BY <1>4, AllocateNodeStep
<1>5. CASE ProcessExit
  BY <1>5, ProcessExitStep
<1>6. CASE Boot
  BY <1>6, BootStep
<1>7. CASE UNCHANGED vars
  BY <1>7, StutterStep
<1> QED BY <1>1, <1>2, <1>3, <1>4, <1>5, <1>6, <1>7, NodesAre DEF Next

(* The inductive invariant holds in every reachable state.                  *)
THEOREM Invariance == Spec => []IInv
<1>1. Init => IInv
  BY InitIInv
<1> QED BY <1>1, NextIInv, PTL DEF Spec

----------------------------------------------------------------------------
(* The properties that the runs check, for all that programs may be given.   *)

(* TypeOK: every variable keeps its type, and no AppMain ever throws for an   *)
(* Ebb whose data is not in global_id_map yet.                              *)
THEOREM TypeCorrect == Spec => []TypeOK
<1>1. ASSUME IInv PROVE TypeOK
  <2>1. WellTyped /\ Publishing
    BY <1>1 DEF IInv
  <2>2. /\ given \in Givens /\ issued \in 0 .. Len(UnixEbbs) /\ next \in [Nodes -> 1 .. 14]
        /\ ran \in [Nodes -> Seq(Options)] /\ shown \in [Nodes -> Seq(Strings)]
    BY <2>1, EbbsAre DEF WellTyped
  <2>3. pc \in [Nodes -> {"off", "publish", "setting", "booting", "args", "parse", "allocate",
                          "tests", "blocked", "DONE", "exiting", "exited", "undefined", "failed"}]
    BY <2>1 DEF WellTyped, Labels
  <2>4. \A x \in Nodes : args[x].argv \in Seq(Strings) /\ args[x].tests \subseteq Options
    BY <2>1 DEF WellTyped, ArgsType
  <2>5. \A e \in ToSet(UnixEbbs) : published[e] \in Seq(Texts) /\ Len(published[e]) <= 1
    <3>1. ASSUME NEW e \in Ebbs PROVE published[e] \in Seq(Texts) /\ Len(published[e]) <= 1
      <4>1. published[e] = << >> \/ published[e] = <<DataOf(e)>>
        BY <2>1 DEF Publishing
      <4>2. published[e] \in Seq(Texts)
        BY <2>1 DEF WellTyped
      <4>3. Len(<< >>) = 0 /\ \A v \in Texts : Len(<<v>>) = 1
        OBVIOUS
      <4>4. DataOf(e) \in Texts
        BY <2>2, DataTyped
      <4>5. Len(published[e]) = 0 \/ Len(published[e]) = 1
        BY <4>1, <4>3, <4>4
      <4>6. \A a : a = 0 \/ a = 1 => a <= 1
        OBVIOUS
      <4>7. Len(published[e]) <= 1
        BY <4>5, <4>6
      <4> QED BY <4>2, <4>7
    <3> QED BY <3>1 DEF Ebbs
  <2> QED BY <2>2, <2>3, <2>4, <2>5 DEF TypeOK
<1> QED BY <1>1, Invariance, PTL

(* What string_to_argv has stored where the driver is past it.              *)
LEMMA BootArgv ==
  ASSUME IInv, given.build = "baremetal", pc[BE] # "args"
  PROVE  /\ given.boot \in Strings
         /\ pc[BE] = "undefined" <=> Unbalanced(given.boot)
         /\ ~Unbalanced(given.boot) =>
              /\ StringToArgv(given.boot).stored
              /\ args[BE].argv = StringToArgv(given.boot).argv
<1>1. /\ given \in Givens /\ pc[BE] \in Labels /\ Places /\ AtNode(BE)
  BY NodesAre DEF IInv, WellTyped
<1>2. given.boot \in Strings
  BY <1>1, DataTyped
<1>3. StringToArgv(given.boot).stored <=> ~Unbalanced(given.boot)
  BY <1>2, StringToArgvMeans
<1>4. /\ pc[BE] = "undefined" <=> ~StringToArgv(given.boot).stored
      /\ pc[BE] \notin {"off", "publish", "setting", "allocate", "booting", "args", "failed"}
  BY <1>1 DEF Places, Full
<1>5. Source(BE) = StringToArgv(given.boot).argv
  BY DEF Source, Full
<1>6. ASSUME pc[BE] # "undefined" PROVE args[BE].argv = Source(BE)
  <2>1. pc[BE] = "parse" \/ pc[BE] \in {"allocate", "tests", "blocked"} \cup Over
    BY <1>1, <1>4, <1>6 DEF Labels, Over
  <2>2. CASE pc[BE] = "parse"
    BY <1>1, <2>2 DEF AtNode, ArgsHold
  <2>3. CASE pc[BE] \in {"allocate", "tests", "blocked"} \cup Over
    <3>1. args[BE] = Parsed(Source(BE))
      BY <1>1, <2>3 DEF AtNode, ArgsHold, Wanted
    <3> QED BY <3>1 DEF Parsed
  <2> QED BY <2>1, <2>2, <2>3
<1> QED BY <1>2, <1>3, <1>4, <1>5, <1>6

(* ArgvMeans: a bare-metal program's arguments are the words that the quoting *)
(* rules make of its boot line, whatever the line is.                       *)
THEOREM ArgvMeansAlways == Spec => []ArgvMeans
<1>1. ASSUME IInv PROVE ArgvMeans
  <2> DEFINE words == Words(given.boot)
             argv == args[BE].argv
  <2>1. SUFFICES ASSUME given.build = "baremetal", pc[BE] # "args"
                 PROVE  IF Unbalanced(given.boot) THEN pc[BE] = "undefined"
                        ELSE /\ StringToArgv(given.boot).terminated
                             /\ Len(argv) = Len(words)
                             /\ \A i \in 1 .. Len(words) :
                                  \/ argv[i] = words[i]
                                  \/ /\ i = Len(words) /\ EndsShrunk(given.boot)
                                     /\ IsPrefix(words[i], argv[i])
    BY DEF ArgvMeans
  <2>2. /\ given.boot \in Strings
        /\ pc[BE] = "undefined" <=> Unbalanced(given.boot)
        /\ ~Unbalanced(given.boot) =>
             StringToArgv(given.boot).stored /\ argv = StringToArgv(given.boot).argv
    BY <1>1, <2>1, BootArgv
  <2> HIDE DEF argv
  <2>3. CASE Unbalanced(given.boot)
    BY <2>2, <2>3
  <2>4. CASE ~Unbalanced(given.boot)
    <3>1. /\ StringToArgv(given.boot).terminated
          /\ Len(argv) = Len(words)
          /\ \A i \in 1 .. Len(words) : WordFor(given.boot, argv, i)
      BY <2>2, <2>4, StringToArgvMeans
    <3> QED BY <2>4, <3>1 DEF WordFor
  <2> QED BY <2>3, <2>4
<1> QED BY <1>1, Invariance, PTL

LEMMA WordsTyped ==
  ASSUME NEW line \in Strings
  PROVE  Words(line) \in Seq(Strings)
<1>1. Len(line) \in 0 .. Len(line)
  BY LenProperties
<1>2. Read(line) \in ReadState
  BY <1>1, ReadingIs DEF Read
<1>3. Append(Read(line).words, Read(line).word) \in Seq(Strings)
  BY <1>2, AppendProperties DEF ReadState
<1> QED BY <1>2, <1>3 DEF Words, ReadState

(* What has run is always a part of what is asked for, and in the end all.   *)
LEMMA RunsAsAsked ==
  ASSUME IInv, NEW x \in Nodes
  PROVE  /\ IsPrefix(ran[x], SourceAsks(x))
         /\ pc[x] = "DONE" => ran[x] = SourceAsks(x)
<1>1. /\ pc[x] \in Labels /\ next[x] \in 1 .. 14 /\ ran[x] \in Seq(Options) /\ RanHold(x)
  BY DEF IInv, WellTyped, AtNode
<1>2. pc[x] = "DONE" => ran[x] = SourceAsks(x)
  BY <1>1 DEF RanHold, Over
<1>3. SourceAsks(x) \in Seq(Options)
  BY RunsAre
<1>4. ran[x] = << >> => IsPrefix(ran[x], SourceAsks(x))
  BY <1>3 DEF IsPrefix
<1>5. ran[x] = SourceAsks(x) => IsPrefix(ran[x], SourceAsks(x))
  BY <1>3 DEF IsPrefix
<1>6. CASE pc[x] \in {"tests", "blocked"}
  <2>1. ~Gated(x) /\ next[x] <= Len(Tests(x)) + 1 /\ ran[x] = Runs(x)[next[x] - 1]
    BY <1>1, <1>6 DEF RanHold
  <2>2. Len(Tests(x)) \in 0 .. 13
    BY TestsTyped
  <2>3. \A a \in 1 .. 14, b \in 0 .. 13 : a <= b + 1 => a - 1 \in 0 .. b
    OBVIOUS
  <2>4. next[x] - 1 \in 0 .. Len(Tests(x))
    BY <1>1, <2>1, <2>2, <2>3
  <2>5. IsPrefix(Runs(x)[next[x] - 1], SourceAsks(x))
    BY <2>1, <2>4, RunsAre
  <2> QED BY <1>2, <2>1, <2>5
<1>7. CASE pc[x] \notin {"tests", "blocked"}
  <2>1. ran[x] = << >> \/ ran[x] = SourceAsks(x) \/ IsPrefix(ran[x], SourceAsks(x))
    BY <1>1, <1>7 DEF RanHold, Labels, Early, Over
  <2> QED BY <1>2, <1>4, <1>5, <2>1
<1> QED BY <1>6, <1>7

(* RanAsAsked: a node runs what its command line asks for, in AppMain's      *)
(* order, whichever way the line came to it.                                *)
THEOREM RanAsAskedAlways == Spec => []RanAsAsked
<1>1. ASSUME IInv PROVE RanAsAsked
  <2>1. SUFFICES ASSUME NEW x \in Nodes, x = BE /\ ~Full => ~EndsShrunk(given.boot)
                 PROVE  IsPrefix(ran[x], Asked(x)) /\ (pc[x] = "DONE" => ran[x] = Asked(x))
    BY DEF RanAsAsked
  <2>2. IsPrefix(ran[x], SourceAsks(x)) /\ (pc[x] = "DONE" => ran[x] = SourceAsks(x))
    BY <1>1, RunsAsAsked
  <2>3. ASSUME Line(x) = Source(x) PROVE Asked(x) = SourceAsks(x)
    BY <2>3 DEF Asked, SourceAsks, Gated, Wanted
  <2>4. CASE ~(x = BE /\ ~Full)
    <3>1. Line(x) = Source(x)
      BY <2>4 DEF Line, Source
    <3> QED BY <2>2, <2>3, <3>1
  <2>5. CASE x = BE /\ ~Full
    <3>1. /\ Places /\ RanHold(x) /\ given \in Givens
      BY <1>1 DEF IInv, WellTyped, AtNode
    <3>2. given.boot \in Strings /\ given.build \in {"full", "hosted", "baremetal"}
      BY <3>1, DataTyped
    <3>3. CASE given.build = "baremetal" /\ pc[x] # "args" /\ ~Unbalanced(given.boot)
      <4>1. StringToArgv(given.boot).stored
        BY <3>2, <3>3, StringToArgvMeans
      <4> DEFINE argv == StringToArgv(given.boot).argv
                 words == Words(given.boot)
      <4>2. /\ argv \in Seq(Strings) /\ Len(argv) = Len(words)
            /\ \A i \in 1 .. Len(words) : WordFor(given.boot, argv, i)
        BY <3>2, <4>1, StringToArgvMeans
      <4>3. words \in Seq(Strings)
        BY <3>2, WordsTyped
      <4>4. \A i \in 1 .. Len(words) : argv[i] = words[i]
        BY <2>1, <2>5, <4>2 DEF WordFor
      <4> HIDE DEF argv, words
      <4>5. argv = words
        BY <4>2, <4>3, <4>4, SeqEqual
      <4>6. Line(x) = Source(x)
        BY <2>5, <4>5 DEF Line, Source, argv, words
      <4> QED BY <2>2, <2>3, <4>6
    <3>4. CASE ~(given.build = "baremetal" /\ pc[x] # "args" /\ ~Unbalanced(given.boot))
      <4>1. pc[x] \in {"off", "args", "undefined"}
        <5>1. CASE given.build = "baremetal" /\ pc[x] # "args"
          <6>1. pc[BE] = "undefined" <=> Unbalanced(given.boot)
            BY <1>1, <2>5, <5>1, BootArgv
          <6> QED BY <2>5, <3>4, <5>1, <6>1
        <5>2. CASE ~(given.build = "baremetal" /\ pc[x] # "args")
          <6>1. given.build = "hosted" \/ pc[x] = "args"
            BY <2>5, <3>2, <5>2 DEF Full
          <6> QED BY <2>5, <3>1, <6>1 DEF Places
        <5> QED BY <5>1, <5>2
      <4>2. ran[x] = << >> /\ pc[x] # "DONE"
        BY <2>5, <3>1, <4>1 DEF RanHold, Early
      <4>3. Kept(Tests(x), Parsed(Line(x)).tests) \in Seq(Options)
        <5> DEFINE S == Parsed(Line(x)).tests
                   n == Len(Tests(x))
        <5>1. Tests(x) \in Seq(Options)
          BY TestsTyped
        <5>2. n \in 0 .. n
          BY <5>1, LenProperties
        <5> HIDE DEF S
        <5>3. Keeping(Tests(x), S) \in [0 .. n -> Seq(Options)]
          BY <5>1, KeepingIs
        <5>4. Keeping(Tests(x), S)[n] \in Seq(Options)
          BY <5>2, <5>3
        <5>5. Kept(Tests(x), S) \in Seq(Options)
          BY <5>4 DEF Kept
        <5> QED BY <5>5 DEF S
      <4>4. Asked(x) \in Seq(Options)
        BY <4>3, EmptySeq DEF Asked
      <4>5. IsPrefix(ran[x], Asked(x))
        BY <4>2, <4>4 DEF IsPrefix
      <4> QED BY <4>2, <4>5
    <3> QED BY <3>3, <3>4
  <2> QED BY <2>4, <2>5
<1> QED BY <1>1, Invariance, PTL

(* EnvironmentShown: env_test shows the front end's environment, also on the  *)
(* back end, which has it from global_id_map.                               *)
THEOREM EnvironmentShownAlways == Spec => []EnvironmentShown
<1>1. IInv => EnvironmentShown
  BY DEF IInv, AtNode, ShownHold, EnvironmentShown
<1> QED BY <1>1, Invariance, PTL
===============================================================================
