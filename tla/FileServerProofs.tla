--------------------------- MODULE FileServerProofs ---------------------------
(***************************************************************************)
(* What the functions of the file server compute, for every path of a url, *)
(* every root and every size of a file.                                    *)
(***************************************************************************)
EXTENDS FileServer, Recursion, SequenceTheorems, TLAPS

\* A path with something behind it.
LEMMA PrefixOfConcat ==
  ASSUME NEW S, NEW s \in Seq(S), NEW t \in Seq(S)
  PROVE  IsPrefix(s, s \o t)
<1>1. /\ Len(s) \in Nat /\ Len(t) \in Nat /\ Len(s \o t) = Len(s) + Len(t)
      /\ \A i \in 1 .. Len(s) : (s \o t)[i] = s[i] /\ s[i] \in S
  BY ConcatProperties, LenProperties, ElementOfSeq
<1>2. /\ SubSeq(s, 1, Len(s)) \in Seq(S) /\ Len(SubSeq(s, 1, Len(s))) = Len(s)
      /\ \A i \in 1 .. Len(s) : SubSeq(s, 1, Len(s))[i] = s[i]
  BY <1>1
<1>3. /\ SubSeq(s \o t, 1, Len(s)) \in Seq(S) /\ Len(SubSeq(s \o t, 1, Len(s))) = Len(s)
      /\ \A i \in 1 .. Len(s) : SubSeq(s \o t, 1, Len(s))[i] = s[i]
  BY <1>1
<1>4. SubSeq(s, 1, Len(s)) = SubSeq(s \o t, 1, Len(s))
  BY <1>2, <1>3, SeqEqual
<1> QED
  BY <1>1, <1>4 DEF IsPrefix

LEMMA PrefixOfAppend ==
  ASSUME NEW S, NEW s \in Seq(S), NEW t \in Seq(S), NEW e \in S, IsPrefix(s, t)
  PROVE  IsPrefix(s, Append(t, e))
<1>1. /\ Len(s) \in Nat /\ Len(t) \in Nat /\ Len(s) <= Len(t)
      /\ SubSeq(s, 1, Len(s)) = SubSeq(t, 1, Len(s))
  BY LenProperties DEF IsPrefix
<1>2. /\ Len(Append(t, e)) = Len(t) + 1
      /\ \A i \in 1 .. Len(t) : Append(t, e)[i] = t[i] /\ t[i] \in S
  BY AppendProperties, ElementOfSeq
<1>3. \A i \in 1 .. Len(s) : i \in 1 .. Len(t)
  BY <1>1
<1> DEFINE u == Append(t, e)
<1>4. u \in Seq(S) /\ Len(s) <= Len(u) /\ \A i \in 1 .. Len(s) : u[i] = t[i]
  BY <1>1, <1>2, <1>3
<1> HIDE DEF u
<1>5. SubSeq(t, 1, Len(s)) = SubSeq(u, 1, Len(s))
  <2>1. /\ SubSeq(t, 1, Len(s)) \in Seq(S) /\ Len(SubSeq(t, 1, Len(s))) = Len(s)
        /\ \A i \in 1 .. Len(s) : SubSeq(t, 1, Len(s))[i] = t[i]
    BY <1>1, <1>3
  <2>2. Len(u) \in Nat /\ \A i \in 1 .. Len(s) : i \in 1 .. Len(u)
    BY <1>1, <1>4, LenProperties
  <2>3. /\ SubSeq(u, 1, Len(s)) \in Seq(S) /\ Len(SubSeq(u, 1, Len(s))) = Len(s)
        /\ \A i \in 1 .. Len(s) : SubSeq(u, 1, Len(s))[i] = u[i]
    BY <1>1, <1>4, <2>2
  <2> QED
    BY <1>4, <2>1, <2>3, SeqEqual
<1> QED
  BY <1>1, <1>4, <1>5 DEF IsPrefix, u

\* A sequence over a set is one over a larger set.
LEMMA SeqOfMore ==
  ASSUME NEW S, NEW T, S \subseteq T, NEW s \in Seq(S)
  PROVE  s \in Seq(T)
OBVIOUS

-----------------------------------------------------------------------------
(***************************************************************************)
(* The walk through the path of a url                                      *)
(***************************************************************************)

\* A path without its last component.
LEMMA FrontIs ==
  ASSUME NEW S, NEW p \in Seq(S), p # << >>
  PROVE  /\ Front(p) \in Seq(S) /\ Len(Front(p)) = Len(p) - 1
         /\ \A i \in 1 .. Len(p) - 1 : Front(p)[i] = p[i]
<1>1. Len(p) - 1 \in Nat /\ \A i \in 1 .. Len(p) - 1 : i \in 1 .. Len(p)
  OBVIOUS
<1> DEFINE n == Len(p) - 1
<1>2. n \in Nat /\ n \in Int /\ 1 \in Int /\ \A i \in 1 .. n : p[i] \in S
  BY <1>1
<1> HIDE DEF n
<1>3. /\ SubSeq(p, 1, n) \in Seq(S) /\ Len(SubSeq(p, 1, n)) = n
      /\ \A i \in 1 .. n : SubSeq(p, 1, n)[i] = p[i]
  BY <1>2
<1> QED
  BY <1>3 DEF Front, n

\* A step from a path leads to a path or nowhere.
LEMMA WalkType ==
  ASSUME NEW S, NEW p \in Seq(S) \cup {None}, NEW token \in S
  PROVE  Walk(p, token) \in Seq(S) \cup {None}
<1>1. CASE p = None
  BY <1>1 DEF Walk
<1>2. CASE p # None
  <2>1. p # << >> => Front(p) \in Seq(S)
    BY <1>2, FrontIs
  <2> QED
    BY <1>2, <2>1 DEF Walk
<1> QED
  BY <1>1, <1>2

IsWalk(full, base, path) ==
  full[0] = base /\ \A n \in 1 .. Len(path) : full[n] = Walk(full[n - 1], path[n])

\* The walk, when no step of it leaves some set that holds its root: it stays
\* in the set.  Every invariant of the walk is an instance.
LEMMA WalkedIn ==
  ASSUME NEW A, NEW base \in A, NEW path, Len(path) \in Nat,
         \A n \in 1 .. Len(path), x \in A : Walk(x, path[n]) \in A
  PROVE  /\ Walked(base, path) \in [0 .. Len(path) -> A]
         /\ IsWalk(Walked(base, path), base, path)
<1> DEFINE L == Len(path)
           step == [n \in 1 .. L |-> [x \in A |-> Walk(x, path[n])]]
           Goes(w) == w = [n \in 0 .. L |-> IF n = 0 THEN base ELSE Walk(w[n - 1], path[n])]
           full == Walked(base, path)
<1>1. step \in [1 .. L -> [A -> A]]
  OBVIOUS
<1>2. \A n \in 1 .. L, x \in A : step[n][x] = Walk(x, path[n])
  OBVIOUS
<1> HIDE DEF step
<1>3. PICK f \in [0 .. L -> A] : IsRecursion(f, L, base, step)
  <2>1. L \in Nat
    OBVIOUS
  <2> HIDE DEF L, full, Goes
  <2> QED
    BY <1>1, <2>1, RecursionExists, Zenon
<1>4. Goes(f)
  <2>1. \A n \in 0 .. L : n # 0 => n \in 1 .. L /\ f[n - 1] \in A
    OBVIOUS
  <2>2. \A n \in 0 .. L : f[n] = IF n = 0 THEN base ELSE Walk(f[n - 1], path[n])
    BY <1>2, <1>3, <2>1, Zenon DEF IsRecursion
  <2> QED
    BY <2>2
<1>5. Goes(full)
  <2>1. full = CHOOSE w : Goes(w)
    BY Zenon DEF Walked
  <2> QED
    BY <1>4, <2>1, Zenon
<1> HIDE DEF full
<1>6. full[0] = base /\ \A n \in 1 .. L : full[n] = Walk(full[n - 1], path[n])
  BY <1>5
<1> HIDE DEF Goes, L
<1>7. \A n \in 0 .. L : full[n] \in A
  <2>1. L \in Nat /\ full[0] \in A
    BY <1>6 DEF L
  <2>2. \A n \in 1 .. L : full[n - 1] \in A => full[n] \in A
    BY <1>6 DEF L
  <2> QED
    BY <2>1, <2>2, RecursionKeeps
<1> QED
  BY <1>5, <1>6, <1>7 DEF IsWalk, Goes, L, full

\* Behind the root nothing leads up.
IsClean(base, path) == \A i \in Len(base) + 1 .. Len(path) : path[i] \notin {".", ".."}

LEMMA AppendIsClean ==
  ASSUME NEW S, NEW base \in Seq(S), NEW p \in Seq(S), NEW e \in S,
         IsClean(base, p), e \notin {".", ".."}
  PROVE  IsClean(base, Append(p, e))
<1> DEFINE q == Append(p, e)
<1>1. /\ q \in Seq(S) /\ Len(q) = Len(p) + 1
      /\ \A i \in 1 .. Len(p) : q[i] = p[i]
      /\ q[Len(p) + 1] = e
  BY AppendProperties
<1>2. Len(p) \in Nat /\ Len(base) \in Nat
  OBVIOUS
<1> HIDE DEF q
<1> SUFFICES ASSUME NEW i \in Len(base) + 1 .. Len(q) PROVE q[i] \notin {".", ".."}
  BY DEF IsClean, q
<1>3. CASE i = Len(p) + 1
  BY <1>1, <1>3
<1>4. CASE i # Len(p) + 1
  <2>1. i \in Len(base) + 1 .. Len(p) /\ i \in 1 .. Len(p)
    BY <1>1, <1>2, <1>4
  <2> QED
    BY <1>1, <2>1 DEF IsClean
<1> QED
  BY <1>3, <1>4

LEMMA WalkKeepsClean ==
  ASSUME NEW S, NEW base \in Seq(S), NEW token \in S, NEW p \in Seq(S) \cup {None},
         p = None \/ IsClean(base, p)
  PROVE  /\ Walk(p, token) \in Seq(S) \cup {None}
         /\ Walk(p, token) = None \/ IsClean(base, Walk(p, token))
<1>1. CASE p = None \/ token \in {"/", "."}
  BY <1>1 DEF Walk
<1> SUFFICES ASSUME p # None, token \notin {"/", "."}
             PROVE  /\ Walk(p, token) \in Seq(S) \cup {None}
                    /\ Walk(p, token) = None \/ IsClean(base, Walk(p, token))
  BY <1>1
<1>2. p \in Seq(S) /\ IsClean(base, p) /\ Len(p) \in Nat /\ Len(base) \in Nat
  OBVIOUS
<1>3. CASE token = ".." /\ p = << >>
  BY <1>3 DEF Walk
<1>4. CASE token = ".." /\ p # << >>
  <2> DEFINE q == Front(p)
  <2>1. Walk(p, token) = q
    BY <1>4 DEF Walk
  <2>2. /\ q \in Seq(S) /\ Len(q) = Len(p) - 1
        /\ \A i \in 1 .. Len(q) : q[i] = p[i]
    BY <1>2, <1>4, FrontIs
  <2> HIDE DEF q
  <2>3. IsClean(base, q)
    BY <1>2, <2>2 DEF IsClean
  <2> QED
    BY <2>1, <2>2, <2>3
<1>5. CASE token # ".."
  <2>1. Walk(p, token) = Append(p, token)
    BY <1>5 DEF Walk
  <2>2. IsClean(base, Append(p, token)) /\ Append(p, token) \in Seq(S)
    BY <1>2, <1>5, AppendIsClean
  <2> QED
    BY <2>1, <2>2
<1> QED
  BY <1>3, <1>4, <1>5

\* What SanitizePath returns is below its root, whatever the path of the url is.
LEMMA SanitizedIsBelow ==
  ASSUME NEW S, NEW base \in Seq(S), NEW path \in Seq(S), SanitizePath(base, path) # None
  PROVE  /\ SanitizePath(base, path) \in Seq(S)
         /\ IsPrefix(base, SanitizePath(base, path))
         /\ IsClean(base, SanitizePath(base, path))
<1> DEFINE A == {p \in Seq(S) \cup {None} : p = None \/ IsClean(base, p)}
           full == Walked(base, path)[Len(path)]
<1>1. Len(path) \in Nat /\ \A n \in 1 .. Len(path) : path[n] \in S
  OBVIOUS
<1>2. base \in A
  BY DEF IsClean
<1>3. \A n \in 1 .. Len(path), x \in A : Walk(x, path[n]) \in A
  BY <1>1, WalkKeepsClean, Zenon
<1>4. full \in A
  <2> HIDE DEF A
  <2>1. Walked(base, path) \in [0 .. Len(path) -> A]
    BY <1>1, <1>2, <1>3, WalkedIn, Zenon
  <2> QED
    BY <1>1, <2>1
<1>5. SanitizePath(base, path) = full /\ IsPrefix(base, full) /\ full # None
  BY DEF SanitizePath
<1> HIDE DEF full
<1> QED
  BY <1>4, <1>5

\* The components of a path, as a recursion.
LEMMA NamedIn ==
  ASSUME NEW S, NEW path \in Seq(S)
  PROVE  /\ Named(path) \in [0 .. Len(path) -> Seq(S)]
         /\ Named(path)[0] = << >>
         /\ \A n \in 1 .. Len(path) :
              Named(path)[n] = IF path[n] = "/" THEN Named(path)[n - 1]
                               ELSE Append(Named(path)[n - 1], path[n])
<1> DEFINE L == Len(path)
           A == Seq(S)
           Take(x, n) == IF path[n] = "/" THEN x ELSE Append(x, path[n])
           step == [n \in 1 .. L |-> [x \in A |-> Take(x, n)]]
           IsTaken(w) == w = [n \in 0 .. L |-> IF n = 0 THEN << >> ELSE Take(w[n - 1], n)]
           taken == Named(path)
<1>1. L \in Nat /\ << >> \in A /\ \A n \in 1 .. L, x \in A : Take(x, n) \in A
  OBVIOUS
<1>2. taken = CHOOSE w : IsTaken(w)
  BY Zenon DEF Named
<1> HIDE DEF Take, A, L, taken
<1>3. step \in [1 .. L -> [A -> A]] /\ \A n \in 1 .. L, x \in A : step[n][x] = Take(x, n)
  BY <1>1
<1> HIDE DEF step
<1>4. PICK f \in [0 .. L -> A] : IsRecursion(f, L, << >>, step)
  BY <1>1, <1>3, RecursionExists, Zenon
<1>5. IsTaken(f)
  <2>1. \A n \in 0 .. L : n # 0 => n \in 1 .. L /\ f[n - 1] \in A
    BY <1>1
  <2>2. \A n \in 0 .. L : f[n] = IF n = 0 THEN << >> ELSE Take(f[n - 1], n)
    BY <1>3, <1>4, <2>1, Zenon DEF IsRecursion
  <2> QED
    BY <2>2
<1>6. IsTaken(taken)
  BY <1>2, <1>5, Zenon
<1>7. taken[0] = << >> /\ \A n \in 1 .. L : taken[n] = Take(taken[n - 1], n)
  BY <1>1, <1>6
<1> HIDE DEF IsTaken
<1>8. \A n \in 0 .. L : taken[n] \in A
  <2>1. taken[0] \in A
    BY <1>1, <1>7
  <2>2. \A n \in 1 .. L : taken[n - 1] \in A => taken[n] \in A
    BY <1>1, <1>7
  <2> QED
    BY <1>1, <2>1, <2>2, RecursionKeeps
<1> QED
  BY <1>6, <1>7, <1>8 DEF IsTaken, Take, A, L, taken

\* A step of the walk from behind the root, when it does not lead up.
LEMMA OrdinaryStep ==
  ASSUME NEW S, None \notin Seq(S), NEW base \in Seq(S), NEW t \in Seq(S), NEW c \in S,
         c \notin {".", ".."}
  PROVE  Walk(base \o t, c) = base \o (IF c = "/" THEN t ELSE Append(t, c))
<1>1. Append(base \o t, c) = base \o Append(t, c)
  <2>1. base \o t \in Seq(S) /\ <<c>> \in Seq(S)
    BY ConcatProperties
  <2>2. Append(base \o t, c) = (base \o t) \o <<c>>
    BY <2>1, AppendIsConcat, Zenon
  <2>3. Append(t, c) = t \o <<c>>
    BY AppendIsConcat, Zenon
  <2>4. (base \o t) \o <<c>> = base \o (t \o <<c>>)
    BY <2>1, ConcatAssociative
  <2> QED
    BY <2>2, <2>3, <2>4, Zenon
<1> DEFINE p == base \o t
<1>2. p \in Seq(S)
  OBVIOUS
<1> HIDE DEF p
<1>3. p # None
  BY <1>2
<1>4. Walk(p, c) = IF c = "/" THEN p ELSE Append(p, c)
  BY <1>3 DEF Walk
<1> QED
  BY <1>1, <1>4 DEF p

\* A path without "." and ".." leads where its components say.
LEMMA OrdinaryWalk ==
  ASSUME NEW S, None \notin Seq(S), NEW base \in Seq(S), NEW path \in Seq(S),
         \A n \in 1 .. Len(path) : path[n] \notin {".", ".."}
  PROVE  SanitizePath(base, path) = base \o Components(path)
<1> DEFINE L == Len(path)
           full == Walked(base, path)
           taken == Named(path)
           T == {k \in 0 .. L : full[k] = base \o taken[k]}
<1>1. L \in Nat /\ \A n \in 1 .. L : path[n] \in S
  OBVIOUS
<1>2. full[0] = base /\ \A n \in 1 .. L : full[n] = Walk(full[n - 1], path[n])
  <2> DEFINE A == Seq(S) \cup {None}
  <2>1. base \in A /\ \A n \in 1 .. L, x \in A : Walk(x, path[n]) \in A
    BY <1>1, WalkType, Zenon
  <2>2. Len(path) \in Nat /\ \A n \in 1 .. Len(path), x \in A : Walk(x, path[n]) \in A
    BY <1>1, <2>1
  <2> HIDE DEF A, T, full, taken, L
  <2>3. IsWalk(Walked(base, path), base, path)
    BY <2>1, <2>2, WalkedIn, Zenon
  <2> QED
    BY <2>3 DEF IsWalk, full, L
<1>3. /\ taken \in [0 .. L -> Seq(S)] /\ taken[0] = << >>
      /\ \A n \in 1 .. L : taken[n] = IF path[n] = "/" THEN taken[n - 1]
                                      ELSE Append(taken[n - 1], path[n])
  BY NamedIn
<1> HIDE DEF full, taken
<1>4. 0 \in T
  BY <1>1, <1>2, <1>3
<1>5. ASSUME NEW k \in 0 .. L - 1, k \in T PROVE k + 1 \in T
  <2>1. k + 1 \in 1 .. L /\ k + 1 \in 0 .. L /\ (k + 1) - 1 = k /\ k \in 0 .. L
    BY <1>1
  <2> DEFINE t == taken[k]
             c == path[k + 1]
  <2>2. t \in Seq(S) /\ c \in S /\ c \notin {".", ".."} /\ full[k] = base \o t
    BY <1>1, <1>3, <1>5, <2>1
  <2>3. /\ full[k + 1] = Walk(base \o t, c)
        /\ taken[k + 1] = IF c = "/" THEN t ELSE Append(t, c)
    BY <1>2, <1>3, <2>1, <2>2
  <2> HIDE DEF t, c
  <2>4. Walk(base \o t, c) = base \o (IF c = "/" THEN t ELSE Append(t, c))
    BY <2>2, OrdinaryStep, Zenon
  <2> QED
    BY <2>1, <2>3, <2>4
<1> HIDE DEF T
<1>6. 0 .. L \subseteq T
  BY <1>1, <1>4, <1>5, BoundedInduction
<1>7. full[L] = base \o taken[L] /\ taken[L] \in Seq(S)
  BY <1>1, <1>3, <1>6 DEF T
<1>8. full[L] # None
  <2> DEFINE p == base \o taken[L]
  <2>1. p \in Seq(S)
    BY <1>7
  <2> HIDE DEF p
  <2>2. p # None
    BY <2>1
  <2> QED
    BY <1>7, <2>2 DEF p
<1>9. IsPrefix(base, full[L])
  BY <1>7, PrefixOfConcat
<1> QED
  BY <1>7, <1>8, <1>9 DEF SanitizePath, Components, full, taken

-----------------------------------------------------------------------------
(***************************************************************************)
(* Ranges                                                                  *)
(***************************************************************************)

LEMMA MinusType ==
  ASSUME NEW a \in u64, NEW b \in u64
  PROVE  Minus(a, b) \in u64
BY FileServerAssumption DEF Minus, u64

\* What parse_range_header has accepted is a range of the file, but for a
\* suffix longer than the file.
LEMMA RangeFacts ==
  ASSUME NEW range \in {Malformed} \cup [start : {None} \cup u64, end : {None} \cup u64],
         NEW size \in u64
  PROVE  /\ RangeStatus(range, size) \in {206, 400, 416}
         /\ RangeStatus(range, size) = 206 =>
              /\ First(range, size) \in u64 /\ Final(range, size) \in u64
              /\ ContentLength(range, size) \in u64
              /\ ~Underflows(range, size) =>
                   /\ First(range, size) <= Final(range, size)
                   /\ Final(range, size) < size
                   /\ ContentLength(range, size) = Final(range, size) - First(range, size) + 1
<1>1. RangeStatus(range, size) \in {206, 400, 416}
  BY DEF RangeStatus
<1> SUFFICES ASSUME RangeStatus(range, size) = 206
             PROVE  /\ First(range, size) \in u64 /\ Final(range, size) \in u64
                    /\ ContentLength(range, size) \in u64
                    /\ ~Underflows(range, size) =>
                         /\ First(range, size) <= Final(range, size)
                         /\ Final(range, size) < size
                         /\ ContentLength(range, size)
                              = Final(range, size) - First(range, size) + 1
  BY <1>1
<1>2. /\ range.start \in {None} \cup u64 /\ range.end \in {None} \cup u64
      /\ ByStart(range, size) \/ BySuffix(range)
  BY DEF RangeStatus
<1>3. U64 \in Nat \ {0} /\ None \notin Nat /\ u64 = 0 .. U64 - 1
  BY FileServerAssumption DEF u64
<1> DEFINE f == First(range, size)
           l == Final(range, size)
<1>4. /\ f \in u64 /\ l \in u64
      /\ ~Underflows(range, size) => f <= l /\ l < size
  <2>1. CASE BySuffix(range)
    <3>1. range.start = None /\ range.end \in u64 \ {0} /\ 1 \in u64
      BY <1>2, <1>3, <2>1 DEF BySuffix
    <3>2. f = Minus(size, range.end) /\ l = Minus(size, 1)
      BY <2>1 DEF First, Final
    <3>3. f \in u64 /\ l \in u64
      BY <3>1, <3>2, MinusType
    <3>4. ASSUME ~Underflows(range, size) PROVE f <= l /\ l < size
      <4>1. range.end <= size
        BY <1>3, <3>1, <3>4 DEF Underflows
      <4> QED
        BY <1>3, <3>1, <3>2, <4>1 DEF Minus
    <3> QED
      BY <3>3, <3>4
  <2>2. CASE ~BySuffix(range)
    <3>1. /\ range.start \in u64 /\ range.start < size
          /\ range.end \in {None} \cup range.start .. size - 1
      BY <1>2, <2>2 DEF ByStart
    <3>2. f = range.start /\ l = IF range.end = None THEN Minus(size, 1) ELSE range.end
      BY <2>2 DEF First, Final
    <3>3. Minus(size, 1) = size - 1
      BY <1>3, <3>1 DEF Minus
    <3> QED
      BY <1>3, <3>1, <3>2, <3>3
  <2> QED
    BY <2>1, <2>2
<1> DEFINE w == ContentLength(range, size)
<1>5. w = (Minus(l, f) + 1) % U64 /\ Minus(l, f) \in u64
  BY <1>4, MinusType DEF ContentLength
<1>6. w \in u64
  BY <1>3, <1>5
<1>7. ASSUME f <= l, l < size PROVE w = l - f + 1
  <2>1. Minus(l, f) = l - f
    BY <1>3, <1>4, <1>7 DEF Minus
  <2>2. l - f + 1 \in 0 .. U64 - 1
    BY <1>3, <1>4, <1>7
  <2>3. \A x \in 0 .. U64 - 1 : x % U64 = x
    BY <1>3
  <2> QED
    BY <1>5, <2>1, <2>2, <2>3
<1> QED
  BY <1>4, <1>6, <1>7

LEMMA RestType ==
  ASSUME NEW position \in u64, NEW size \in u64
  PROVE  Rest(position, size) \in u64
BY FileServerAssumption DEF Rest, u64
=============================================================================
