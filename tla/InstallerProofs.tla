-------------------------- MODULE InstallerProofs --------------------------
(***************************************************************************)
(* What install leaves in a file of the user, what uninstall gives back and *)
(* what of the user's stays, for every text, every layout of links and      *)
(* every number of alterations: lemmas about texts, RepairInv, RestoreInv   *)
(* and what a step shows of the user's words.                               *)
(***************************************************************************)
EXTENDS ManagedFile, FiniteSetTheorems, SequenceTheorems, WellFoundedInduction, TLAPS

Texts == Seq(Tokens)

\* Induction over the natural numbers, for a set.
LEMMA SetInduction ==
    ASSUME NEW S, 0 \in S, \A n \in Nat : n \in S => n + 1 \in S
    PROVE  Nat \subseteq S
<1> SUFFICES ASSUME Nat \ S # {} PROVE FALSE OBVIOUS
<1> DEFINE I == Nat \ S
<1>1. PICK i \in I : \A j \in I : ~ (<<j, i>> \in OpToRel(<, Nat))
  BY NatLessThanWellFounded, WFMin, Zenon
<1>2. \A j \in I : ~ (j < i) BY <1>1 DEF OpToRel
<1>3. i \in Nat /\ i # 0 BY <1>1
<1>4. i - 1 \in Nat /\ i - 1 < i /\ (i - 1) + 1 = i BY <1>3
<1>5. i - 1 \in S BY <1>2, <1>4
<1> QED BY <1>1, <1>4, <1>5

-----------------------------------------------------------------------------
(* Texts *)

\* The markers, the newline and what install writes are words of a text, and
\* all different.
LEMMA TokensDiffer ==
    /\ {NL, "start", "end", "shebang"} \subseteq Tokens /\ Versions \subseteq Tokens
    /\ Words \subseteq Tokens
    /\ NL # "start" /\ NL # "end" /\ NL # "shebang"
    /\ \A v \in Versions : v # NL /\ v # "start" /\ v # "end" /\ v # "shebang"
BY ManagedAssumption DEF ManagedAssumption, Tokens

\* A piece of a text is a text.
LEMMA Piece ==
    ASSUME NEW c \in Texts, NEW m \in Nat, NEW n \in Nat, m >= 1, n <= Len(c)
    PROVE  /\ SubSeq(c, m, n) \in Texts
           /\ Len(SubSeq(c, m, n)) = IF m <= n THEN n - m + 1 ELSE 0
           /\ \A i \in 1 .. n - m + 1 : SubSeq(c, m, n)[i] = c[m + i - 1]
<1>1. \A i \in m .. n : c[i] \in Tokens BY LenProperties, ElementOfSeq DEF Texts
<1>2. m \in Int /\ n \in Int OBVIOUS
<1> QED BY <1>1, <1>2, SubSeqProperties DEF Texts

\* The minimum of a set of places.
LEMMA MinIsLeast ==
    ASSUME NEW S, S \subseteq Nat, S # {}
    PROVE  Min(S) \in S /\ \A x \in S : Min(S) <= x
<1>1. PICK i \in S : \A j \in S : ~ (<<j, i>> \in OpToRel(<, Nat))
  BY NatLessThanWellFounded, WFMin, Zenon
<1>2. \A j \in S : ~ (j < i) BY <1>1 DEF OpToRel
<1>3. \A j \in S : i <= j BY <1>2
<1> QED BY <1>3 DEF Min

\* Lines are places in the text.
LEMMA LinesArePlaces ==
    ASSUME NEW c \in Texts, NEW w
    PROVE  /\ Len(c) \in Nat /\ DOMAIN c = 1 .. Len(c)
           /\ LinesOf(c, w) \subseteq 1 .. Len(c)
           /\ \A i \in 1 .. Len(c) : c[i] \in Tokens
BY LenProperties, ElementOfSeq DEF Texts, LinesOf

\* Where the first block begins: there is no start before it.
LEMMA FromIsFirst ==
    ASSUME NEW c \in Texts, HasBlock(c)
    PROVE  /\ From(c) \in 1 .. Len(c) /\ c[From(c)] = "start" /\ WholeLine(c, From(c))
           /\ \A i \in LinesOf(c, "start") : From(c) <= i
<1>1. LinesOf(c, "start") \subseteq 1 .. Len(c) /\ 1 .. Len(c) \subseteq Nat
  BY LinesArePlaces
<1>2. From(c) \in LinesOf(c, "start") /\ \A i \in LinesOf(c, "start") : From(c) <= i
  BY <1>1, MinIsLeast DEF From, HasBlock
<1> QED BY <1>1, <1>2 DEF LinesOf

\* Where the first block stops.
LEMMA StopIsBelow ==
    ASSUME NEW c \in Texts, HasBlock(c)
    PROVE  /\ Stop(c) \in From(c) + 1 .. Len(c) + 1
           /\ Upto(c) \in From(c) .. Len(c)
<1>1. From(c) \in 1 .. Len(c) /\ Len(c) \in Nat BY FromIsFirst, LinesArePlaces
<1> DEFINE ends == {i \in LinesOf(c, "end") : i > From(c)}
<1>2. ends \subseteq From(c) + 1 .. Len(c) /\ ends \subseteq Nat BY <1>1, LinesArePlaces
<1>3. Stop(c) \in From(c) + 1 .. Len(c) + 1
  <2>1. CASE ends = {} BY <1>1, <2>1 DEF Stop
  <2>2. CASE ends # {}
    <3>1. Min(ends) \in ends BY <1>2, <2>2, MinIsLeast
    <3>2. Stop(c) = Min(ends) BY <2>2 DEF Stop
    <3> QED BY <1>1, <1>2, <3>1, <3>2
  <2> QED BY <2>1, <2>2
<1>4. Upto(c) \in From(c) .. Len(c) BY <1>1, <1>3 DEF Upto
<1> QED BY <1>3, <1>4

\* What is above and below the first block.
LEMMA AboveAndBelow ==
    ASSUME NEW c \in Texts, HasBlock(c)
    PROVE  /\ Above(c) \in Texts /\ Below(c) \in Texts
           /\ Len(Above(c)) = From(c) - 1
           /\ \A i \in 1 .. From(c) - 1 : Above(c)[i] = c[i]
           /\ Len(Below(c)) = Len(c) - Upto(c)
           /\ Len(Above(c)) + Len(Below(c)) < Len(c)
<1>1. /\ From(c) \in 1 .. Len(c) /\ Upto(c) \in From(c) .. Len(c) /\ Len(c) \in Nat
  BY FromIsFirst, StopIsBelow, LinesArePlaces
<1>2. /\ Above(c) \in Texts /\ Len(Above(c)) = From(c) - 1
      /\ \A i \in 1 .. From(c) - 1 : Above(c)[i] = c[i]
  <2>1. From(c) - 1 \in Nat /\ 1 \in Nat /\ From(c) - 1 <= Len(c) BY <1>1
  <2>2. /\ SubSeq(c, 1, From(c) - 1) \in Texts
        /\ Len(SubSeq(c, 1, From(c) - 1)) = IF 1 <= From(c) - 1 THEN (From(c) - 1) - 1 + 1 ELSE 0
        /\ \A i \in 1 .. (From(c) - 1) - 1 + 1 : SubSeq(c, 1, From(c) - 1)[i] = c[1 + i - 1]
    BY <2>1, Piece
  <2>3. \A i \in 1 .. From(c) - 1 : i \in 1 .. (From(c) - 1) - 1 + 1 /\ 1 + i - 1 = i BY <1>1
  <2> QED BY <1>1, <2>2, <2>3 DEF Above
<1>3. Below(c) \in Texts /\ Len(Below(c)) = Len(c) - Upto(c)
  <2>1. Upto(c) + 1 \in Nat /\ Upto(c) + 1 >= 1 /\ Len(c) <= Len(c) BY <1>1
  <2> QED BY <1>1, <2>1, Piece DEF Below
<1> QED BY <1>1, <1>2, <1>3

\* There is no start above the first block, and that ends with a newline.
LEMMA AboveIsClean ==
    ASSUME NEW c \in Texts, HasBlock(c)
    PROVE  /\ ~ HasBlock(Above(c))
           /\ Above(c) = <<>> \/ Last(Above(c)) = NL
<1> DEFINE a == Above(c)
<1>1. /\ From(c) \in 1 .. Len(c) /\ c[From(c)] = "start" /\ WholeLine(c, From(c))
      /\ \A i \in LinesOf(c, "start") : From(c) <= i
      /\ Len(c) \in Nat /\ DOMAIN c = 1 .. Len(c)
  BY FromIsFirst, LinesArePlaces
<1>2. a \in Texts /\ Len(a) = From(c) - 1 /\ \A i \in 1 .. From(c) - 1 : a[i] = c[i]
  BY AboveAndBelow
<1>3. DOMAIN a = 1 .. Len(a) BY <1>2, LinesArePlaces
<1> HIDE DEF a
<1>4. a = <<>> \/ Last(a) = NL
  <2>1. CASE From(c) = 1 BY <1>2, <2>1, EmptySeq DEF Texts
  <2>2. CASE From(c) # 1
    <3>1. c[From(c) - 1] = NL BY <1>1, <2>2 DEF WholeLine
    <3>2. From(c) - 1 \in 1 .. From(c) - 1 BY <1>1, <2>2
    <3> QED BY <1>2, <3>1, <3>2 DEF Last
  <2> QED BY <2>1, <2>2
<1>5. ASSUME NEW i \in 1 .. Len(a), a[i] = "start", WholeLine(a, i) PROVE FALSE
  <2>1. i # Len(a) BY <1>2, <1>4, <1>5, TokensDiffer, EmptySeq DEF Last
  <2>2. i + 1 \in 1 .. From(c) - 1 /\ i \in 1 .. From(c) - 1 /\ (i # 1 => i - 1 \in 1 .. From(c) - 1)
    BY <1>1, <1>2, <2>1
  <2>3. c[i] = "start" /\ c[i+1] = NL /\ (i = 1 \/ c[i-1] = NL)
    BY <1>2, <1>5, <2>1, <2>2 DEF WholeLine
  <2>4. WholeLine(c, i) BY <2>3 DEF WholeLine
  <2>5. i \in DOMAIN c BY <1>1, <2>2
  <2>6. i \in LinesOf(c, "start") BY <2>3, <2>4, <2>5 DEF LinesOf
  <2> QED BY <1>1, <2>2, <2>6
<1>6. LinesOf(a, "start") = {} BY <1>3, <1>5 DEF LinesOf
<1> QED BY <1>4, <1>6 DEF HasBlock, a

\* Taking out the first block leaves a shorter text.
LEMMA CutShortens ==
    ASSUME NEW c \in Texts
    PROVE  /\ CutBlock(c) \in Texts
           /\ HasBlock(c) => Len(CutBlock(c)) < Len(c)
<1>1. CASE ~ HasBlock(c) BY <1>1 DEF CutBlock
<1>2. CASE HasBlock(c)
  <2>1. /\ Above(c) \in Texts /\ Below(c) \in Texts
        /\ Len(Above(c)) + Len(Below(c)) < Len(c)
    BY <1>2, AboveAndBelow
  <2>2. CutBlock(c) = Above(c) \o Below(c) BY <1>2 DEF CutBlock
  <2> QED BY <2>1, <2>2, ConcatProperties DEF Texts
<1> QED BY <1>1, <1>2

\* A text without words has no block.
LEMMA EmptyHasNone ==
    ASSUME NEW c \in Texts, Len(c) = 0
    PROVE  ~ HasBlock(c)
BY LinesArePlaces DEF HasBlock

\* The rounds of strip_all: each takes out a block of what the last one left.
LEMMA StripAllUnfolds ==
    ASSUME NEW c \in Texts
    PROVE  \E rounds : /\ rounds[0] = c
                       /\ \A k \in 1 .. Len(c) : rounds[k] = CutBlock(rounds[k - 1])
                       /\ StripAll(c) = rounds[Len(c)]
<1> DEFINE N == Len(c)
           Rounds(g, n) == g = [k \in 0 .. n |-> IF k = 0 THEN c ELSE CutBlock(g[k - 1])]
           S == {n \in Nat : \E g : Rounds(g, n)}
<1>0. N \in Nat BY LinesArePlaces
<1>1. 0 \in S
  <2> DEFINE g == [k \in 0 .. 0 |-> c]
  <2>1. Rounds(g, 0) OBVIOUS
  <2> QED BY <2>1
<1>2. ASSUME NEW n \in Nat, n \in S PROVE n + 1 \in S
  <2>1. PICK g : Rounds(g, n) BY <1>2
  <2> DEFINE h == [k \in 0 .. n + 1 |-> IF k <= n THEN g[k] ELSE CutBlock(g[n])]
  <2>2. ASSUME NEW k \in 0 .. n + 1
        PROVE  h[k] = IF k = 0 THEN c ELSE CutBlock(h[k - 1])
    <3>1. CASE k = 0
      <4>1. 0 \in 0 .. n /\ 0 \in 0 .. n + 1 OBVIOUS
      <4>2. h[0] = g[0] BY <4>1
      <4> QED BY <3>1, <4>1, <4>2, <2>1
    <3>2. CASE k \in 1 .. n
      <4>1. h[k] = g[k] /\ h[k - 1] = g[k - 1] /\ k \in 0 .. n /\ k # 0 BY <3>2
      <4> HIDE DEF h
      <4> QED BY <4>1, <2>1
    <3>3. CASE k = n + 1
      <4>1. h[k] = CutBlock(g[n]) /\ h[k - 1] = g[n] /\ k # 0 BY <3>3
      <4> HIDE DEF h
      <4> QED BY <4>1
    <3> QED BY <3>1, <3>2, <3>3
  <2>3. Rounds(h, n + 1)
    <3>1. h = [k \in 0 .. n + 1 |-> h[k]] OBVIOUS
    <3> HIDE DEF h
    <3> QED BY <2>2, <3>1
  <2> HIDE DEF h
  <2>4. \E f : Rounds(f, n + 1) BY <2>3
  <2> QED BY <2>4
<1>3. N \in S
  <2> HIDE DEF S, N
  <2> QED BY <1>0, <1>1, <1>2, SetInduction
<1> DEFINE rounds == CHOOSE f : Rounds(f, N)
<1>4. \E f : Rounds(f, N) BY <1>3
<1>5. StripAll(c) = rounds[N] BY DEF StripAll
<1>6. Rounds(rounds, N) BY <1>4
<1> HIDE DEF rounds, N
<1>7. rounds[0] = c /\ \A k \in 1 .. N : rounds[k] = CutBlock(rounds[k - 1])
  <2>1. 0 \in 0 .. N /\ \A k \in 1 .. N : k \in 0 .. N /\ k # 0 BY <1>0
  <2> QED BY <1>6, <2>1
<1> QED BY <1>5, <1>7 DEF N

\* Taking out blocks, as often as there are words, leaves none.
LEMMA StripAllCleans ==
    ASSUME NEW c \in Texts
    PROVE  StripAll(c) \in Texts /\ ~ HasBlock(StripAll(c))
<1> DEFINE N == Len(c)
<1>0. N \in Nat BY LinesArePlaces
<1>5. PICK rounds : /\ rounds[0] = c
                    /\ \A k \in 1 .. N : rounds[k] = CutBlock(rounds[k - 1])
                    /\ StripAll(c) = rounds[N]
  BY StripAllUnfolds
<1>7. rounds[0] = c /\ \A k \in 1 .. N : rounds[k] = CutBlock(rounds[k - 1]) BY <1>5
<1>c. c \in Texts /\ Len(c) + 0 <= N BY <1>0
<1> HIDE DEF N
<1> DEFINE Done(r, n) == r \in Texts /\ (HasBlock(r) => Len(r) + n <= N)
           D == {n \in Nat : n <= N => Done(rounds[n], n)}
<1>8. 0 \in D
  <2> QED BY <1>7, <1>c
<1>9. ASSUME NEW n \in Nat, n \in D PROVE n + 1 \in D
  <2> HIDE DEF Done
  <2> SUFFICES ASSUME n + 1 <= N PROVE Done(rounds[n + 1], n + 1) OBVIOUS
  <2>1. n + 1 \in 1 .. N /\ (n + 1) - 1 = n /\ n <= N BY <1>0
  <2>2. rounds[n + 1] = CutBlock(rounds[n]) BY <1>7, <2>1
  <2>3. Done(rounds[n], n) BY <1>9, <2>1
  <2> DEFINE r == rounds[n]
  <2>4. r \in Texts /\ (HasBlock(r) => Len(r) + n <= N) BY <2>3 DEF Done
  <2> HIDE DEF r
  <2>5. /\ CutBlock(r) \in Texts /\ (HasBlock(r) => Len(CutBlock(r)) < Len(r))
        /\ Len(r) \in Nat /\ Len(CutBlock(r)) \in Nat
    BY <2>4, CutShortens, LinesArePlaces
  <2>6. ~ HasBlock(r) => CutBlock(r) = r BY DEF CutBlock
  <2>7. HasBlock(CutBlock(r)) => HasBlock(r) /\ Len(CutBlock(r)) + (n + 1) <= N
    BY <1>0, <2>4, <2>5, <2>6
  <2>8. Done(CutBlock(r), n + 1) BY <2>5, <2>7 DEF Done
  <2> QED BY <2>2, <2>8 DEF r
<1>10. Done(rounds[N], N)
  <2> HIDE DEF D
  <2>1. N \in D BY <1>0, <1>8, <1>9, SetInduction
  <2> QED BY <1>0, <2>1 DEF D
<1>11. HasBlock(rounds[N]) => Len(rounds[N]) = 0
  <2>1. rounds[N] \in Texts => Len(rounds[N]) \in Nat BY LinesArePlaces
  <2> QED BY <1>0, <1>10, <2>1
<1> QED BY <1>5, <1>10, <1>11, EmptyHasNone

\* What every round keeps, the last one leaves.
LEMMA StripAllKeeps ==
    ASSUME NEW P, NEW c \in P, P \subseteq Texts, \A x \in P : CutBlock(x) \in P
    PROVE  StripAll(c) \in P
<1> DEFINE N == Len(c)
<1>0. N \in Nat BY LinesArePlaces
<1>1. PICK rounds : /\ rounds[0] = c
                    /\ \A k \in 1 .. N : rounds[k] = CutBlock(rounds[k - 1])
                    /\ StripAll(c) = rounds[N]
  BY StripAllUnfolds
<1> HIDE DEF N
<1> DEFINE D == {n \in Nat : n <= N => rounds[n] \in P}
<1>2. 0 \in D BY <1>1
<1>3. ASSUME NEW n \in Nat, n \in D PROVE n + 1 \in D
  <2> SUFFICES ASSUME n + 1 <= N PROVE rounds[n + 1] \in P OBVIOUS
  <2>1. n + 1 \in 1 .. N /\ (n + 1) - 1 = n /\ n <= N BY <1>0
  <2> QED BY <1>1, <1>3, <2>1
<1>4. N \in D
  <2> HIDE DEF D
  <2> QED BY <1>0, <1>2, <1>3, SetInduction
<1> QED BY <1>0, <1>1, <1>4

\* A text without a block stays what it is.
LEMMA StripAllOfClean ==
    ASSUME NEW c \in Texts, Len(c) = 0
    PROVE  StripAll(c) = c
<1> DEFINE rounds == CHOOSE f : f = [k \in 0 .. Len(c) |-> IF k = 0 THEN c ELSE CutBlock(f[k - 1])]
           g == [k \in 0 .. 0 |-> c]
<1>1. g = [k \in 0 .. Len(c) |-> IF k = 0 THEN c ELSE CutBlock(g[k - 1])] OBVIOUS
<1>2. rounds = [k \in 0 .. Len(c) |-> IF k = 0 THEN c ELSE CutBlock(rounds[k - 1])]
  <2> HIDE DEF g
  <2> QED BY <1>1
<1>3. StripAll(c) = rounds[Len(c)] BY DEF StripAll
<1> HIDE DEF rounds
<1>4. 0 \in 0 .. Len(c) OBVIOUS
<1> QED BY <1>2, <1>3, <1>4

-----------------------------------------------------------------------------
(* What install writes *)

\* A block is six words.
LEMMA BlockIsText ==
    ASSUME NEW v \in Versions
    PROVE  /\ Block(v) \in Texts /\ Len(Block(v)) = 6
           /\ Block(v)[1] = "start" /\ Block(v)[2] = NL /\ Block(v)[3] = v
           /\ Block(v)[4] = NL /\ Block(v)[5] = "end" /\ Block(v)[6] = NL
<1>1. v \in Tokens BY TokensDiffer
<1> QED BY <1>1, TokensDiffer DEF Block, Texts

\* Does not depend on a newline at the end: what lines there are.
LEMMA NewlineAdded ==
    ASSUME NEW c \in Texts
    PROVE  /\ Append(c, NL) \in Texts /\ Len(Append(c, NL)) = Len(c) + 1
           /\ Last(Append(c, NL)) = NL
           /\ \A i \in 1 .. Len(c) : Append(c, NL)[i] = c[i]
           /\ LinesOf(Append(c, NL), "start") = LinesOf(c, "start")
<1> DEFINE d == Append(c, NL)
<1>1. /\ d \in Texts /\ Len(d) = Len(c) + 1 /\ d[Len(c) + 1] = NL
      /\ \A i \in 1 .. Len(c) : d[i] = c[i]
  BY TokensDiffer, AppendProperties DEF Texts
<1> HIDE DEF d
<1>2. Len(c) \in Nat /\ DOMAIN c = 1 .. Len(c) /\ DOMAIN d = 1 .. Len(c) + 1
  BY <1>1, LinesArePlaces
<1>3. ASSUME NEW i \in 1 .. Len(c)
      PROVE  WholeLine(d, i) <=> WholeLine(c, i)
  <2>1. i # 1 => d[i-1] = c[i-1] BY <1>1, <1>2
  <2>2. i # Len(c) => i # Len(d) /\ d[i+1] = c[i+1]
    <3>1. Len(c) \in Nat BY <1>2
    <3>2. i # Len(c) => i + 1 \in 1 .. Len(c) /\ i # Len(c) + 1 BY <3>1
    <3> QED BY <1>1, <3>2
  <2>3. i = Len(c) => d[i+1] = NL BY <1>1
  <2> QED BY <2>1, <2>2, <2>3 DEF WholeLine
<1>4. d[Len(c) + 1] # "start" BY <1>1, TokensDiffer
<1>5. \A i \in 1 .. Len(c) + 1 : i \in 1 .. Len(c) \/ i = Len(c) + 1 BY <1>2
<1>6. 1 .. Len(c) \subseteq 1 .. Len(c) + 1 BY <1>2
<1>7. LinesOf(d, "start") = LinesOf(c, "start")
  BY <1>1, <1>2, <1>3, <1>4, <1>5, <1>6 DEF LinesOf
<1> QED BY <1>1, <1>7 DEF Last, d

\* Where the words of three texts in a row are.
LEMMA ThreeParts ==
    ASSUME NEW p \in Texts, NEW m \in Texts, NEW q \in Texts
    PROVE  LET c == (p \o m) \o q
           IN  /\ c \in Texts /\ Len(c) = Len(p) + Len(m) + Len(q)
               /\ Len(p) \in Nat /\ Len(m) \in Nat /\ Len(q) \in Nat
               /\ DOMAIN c = 1 .. Len(p) + Len(m) + Len(q)
               /\ \A i \in 1 .. Len(p) : c[i] = p[i]
               /\ \A i \in 1 .. Len(m) : c[Len(p) + i] = m[i]
               /\ \A i \in 1 .. Len(q) : c[Len(p) + Len(m) + i] = q[i]
<1> DEFINE e == p \o m
           c == e \o q
<1>0. Len(p) \in Nat /\ Len(m) \in Nat /\ Len(q) \in Nat BY LinesArePlaces
<1>2. /\ e \in Texts /\ Len(e) = Len(p) + Len(m)
      /\ \A i \in 1 .. Len(p) + Len(m) : e[i] = IF i <= Len(p) THEN p[i] ELSE m[i - Len(p)]
  BY ConcatProperties DEF Texts
<1> HIDE DEF e
<1>3. /\ c \in Texts /\ Len(c) = Len(e) + Len(q)
      /\ \A i \in 1 .. Len(e) + Len(q) : c[i] = IF i <= Len(e) THEN e[i] ELSE q[i - Len(e)]
  <2>1. e \in Texts BY <1>2
  <2> QED BY <2>1, ConcatProperties DEF Texts
<1> HIDE DEF c
<1>4. DOMAIN c = 1 .. Len(p) + Len(m) + Len(q) BY <1>2, <1>3, LinesArePlaces
<1>5. ASSUME NEW i \in 1 .. Len(p) PROVE c[i] = p[i]
  <2>1. /\ i \in 1 .. Len(p) + Len(m) /\ i \in 1 .. (Len(p) + Len(m)) + Len(q)
        /\ i <= Len(p) /\ i <= Len(p) + Len(m)
    BY <1>0
  <2> QED BY <1>2, <1>3, <2>1
<1>6. ASSUME NEW i \in 1 .. Len(m) PROVE c[Len(p) + i] = m[i]
  <2>1. /\ Len(p) + i \in 1 .. Len(p) + Len(m)
        /\ Len(p) + i \in 1 .. (Len(p) + Len(m)) + Len(q)
        /\ Len(p) + i <= Len(p) + Len(m) /\ ~ (Len(p) + i <= Len(p))
        /\ (Len(p) + i) - Len(p) = i
    BY <1>0
  <2> QED BY <1>2, <1>3, <2>1
<1>7. ASSUME NEW i \in 1 .. Len(q) PROVE c[Len(p) + Len(m) + i] = q[i]
  <2>1. /\ Len(p) + Len(m) + i \in 1 .. (Len(p) + Len(m)) + Len(q)
        /\ ~ (Len(p) + Len(m) + i <= Len(p) + Len(m))
        /\ (Len(p) + Len(m) + i) - (Len(p) + Len(m)) = i
    BY <1>0
  <2> QED BY <1>2, <1>3, <2>1
<1> QED BY <1>0, <1>2, <1>3, <1>4, <1>5, <1>6, <1>7 DEF c, e

\* And of two.
LEMMA TwoParts ==
    ASSUME NEW p \in Texts, NEW q \in Texts
    PROVE  LET c == p \o q
           IN  /\ c \in Texts /\ Len(c) = Len(p) + Len(q)
               /\ Len(p) \in Nat /\ Len(q) \in Nat
               /\ DOMAIN c = 1 .. Len(p) + Len(q)
               /\ \A i \in 1 .. Len(p) : c[i] = p[i]
               /\ \A i \in 1 .. Len(q) : c[Len(p) + i] = q[i]
<1> DEFINE c == p \o q
<1>1. Len(p) \in Nat /\ Len(q) \in Nat BY LinesArePlaces
<1>2. /\ c \in Texts /\ Len(c) = Len(p) + Len(q)
      /\ \A i \in 1 .. Len(p) + Len(q) : c[i] = IF i <= Len(p) THEN p[i] ELSE q[i - Len(p)]
  BY ConcatProperties DEF Texts
<1> HIDE DEF c
<1>3. DOMAIN c = 1 .. Len(p) + Len(q) BY <1>2, LinesArePlaces
<1>4. ASSUME NEW i \in 1 .. Len(p) PROVE c[i] = p[i]
  <2>1. i \in 1 .. Len(p) + Len(q) /\ i <= Len(p) BY <1>1
  <2> QED BY <1>2, <2>1
<1>5. ASSUME NEW i \in 1 .. Len(q) PROVE c[Len(p) + i] = q[i]
  <2>1. /\ Len(p) + i \in 1 .. Len(p) + Len(q) /\ ~ (Len(p) + i <= Len(p))
        /\ (Len(p) + i) - Len(p) = i
    BY <1>1
  <2> QED BY <1>2, <2>1
<1> QED BY <1>1, <1>2, <1>3, <1>4, <1>5 DEF c

\* A text that holds one block between two texts that hold none.
Around(a, v, b) == (a \o Block(v)) \o b

\* Its words.
LEMMA AroundIsText ==
    ASSUME NEW a \in Texts, NEW v \in Versions, NEW b \in Texts
    PROVE  LET c == Around(a, v, b)
           IN  /\ c \in Texts /\ Len(c) = Len(a) + 6 + Len(b)
               /\ Len(a) \in Nat /\ Len(b) \in Nat
               /\ DOMAIN c = 1 .. Len(a) + 6 + Len(b)
               /\ \A i \in 1 .. Len(a) : c[i] = a[i]
               /\ \A i \in 1 .. 6 : c[Len(a) + i] = Block(v)[i]
               /\ \A i \in 1 .. Len(b) : c[Len(a) + 6 + i] = b[i]
<1>1. Block(v) \in Texts /\ Len(Block(v)) = 6 BY BlockIsText
<1> DEFINE P == Len(a)
           M == Len(Block(v))
           Q == Len(b)
           c == (a \o Block(v)) \o b
<1>2. /\ c \in Texts /\ Len(c) = P + M + Q
      /\ P \in Nat /\ M \in Nat /\ Q \in Nat
      /\ DOMAIN c = 1 .. P + M + Q
      /\ \A i \in 1 .. P : c[i] = a[i]
      /\ \A i \in 1 .. M : c[P + i] = Block(v)[i]
      /\ \A i \in 1 .. Q : c[P + M + i] = b[i]
  BY <1>1, ThreeParts
<1> HIDE DEF c
<1>3. Around(a, v, b) = c BY DEF c, Around
<1> QED BY <1>1, <1>2, <1>3

\* The block is where the start is, and there is no other start.
LEMMA OneStart ==
    ASSUME NEW a \in Texts, NEW v \in Versions, NEW b \in Texts,
           ~ HasBlock(a), ~ HasBlock(b), a = <<>> \/ Last(a) = NL
    PROVE  LinesOf(Around(a, v, b), "start") = {Len(a) + 1}
<1> DEFINE c == Around(a, v, b)
<1>1. /\ c \in Texts /\ Len(c) = Len(a) + 6 + Len(b)
      /\ Len(a) \in Nat /\ Len(b) \in Nat
      /\ DOMAIN c = 1 .. Len(a) + 6 + Len(b)
      /\ \A i \in 1 .. Len(a) : c[i] = a[i]
      /\ \A i \in 1 .. 6 : c[Len(a) + i] = Block(v)[i]
      /\ \A i \in 1 .. Len(b) : c[Len(a) + 6 + i] = b[i]
  BY AroundIsText
<1> HIDE DEF c
<1>2. /\ c[Len(a) + 1] = "start" /\ c[Len(a) + 2] = NL /\ c[Len(a) + 3] = v
      /\ c[Len(a) + 4] = NL /\ c[Len(a) + 5] = "end" /\ c[Len(a) + 6] = NL
  BY <1>1, BlockIsText
<1>3. Len(a) # 0 => a[Len(a)] = NL /\ c[Len(a)] = NL
  <2>1. Len(a) # 0 => a # <<>> /\ Len(a) \in 1 .. Len(a) BY <1>1, EmptySeq
  <2> QED BY <1>1, <2>1 DEF Last
<1>4. Len(a) + 1 \in LinesOf(c, "start")
  <2>1. Len(a) + 1 = 1 \/ c[(Len(a) + 1) - 1] = NL
    <3>1. (Len(a) + 1) - 1 = Len(a) BY <1>1
    <3> QED BY <1>3, <3>1
  <2>2. c[(Len(a) + 1) + 1] = NL
    <3>1. (Len(a) + 1) + 1 = Len(a) + 2 BY <1>1
    <3> QED BY <1>2, <3>1
  <2>3. Len(a) + 1 \in DOMAIN c BY <1>1
  <2> QED BY <1>2, <2>1, <2>2, <2>3 DEF LinesOf, WholeLine
<1>5. ASSUME NEW i \in LinesOf(c, "start") PROVE i = Len(a) + 1
  <2>1. i \in 1 .. Len(a) + 6 + Len(b) /\ c[i] = "start" /\ WholeLine(c, i)
    BY <1>1, <1>5 DEF LinesOf
  <2>2. CASE i \in 1 .. Len(a)
    <3>1. a[i] = "start" BY <1>1, <2>1, <2>2
    <3>2. i # Len(a) BY <1>3, <2>2, <3>1, TokensDiffer
    <3>3. i + 1 \in 1 .. Len(a) /\ (i # 1 => i - 1 \in 1 .. Len(a)) /\ i # Len(a) + 6 + Len(b)
      BY <1>1, <2>2, <3>2
    <3>4. i # 1 => a[i - 1] = NL BY <1>1, <2>1, <3>3 DEF WholeLine
    <3>5. a[i + 1] = NL BY <1>1, <2>1, <3>3 DEF WholeLine
    <3>6. i \in DOMAIN a BY <2>2, LinesArePlaces
    <3>7. i \in LinesOf(a, "start") BY <3>1, <3>4, <3>5, <3>6 DEF LinesOf, WholeLine
    <3> QED BY <3>7 DEF HasBlock
  <2>3. CASE i \in Len(a) + 1 .. Len(a) + 6
    <3>1. i \in {Len(a) + 1, Len(a) + 2, Len(a) + 3, Len(a) + 4, Len(a) + 5, Len(a) + 6}
      BY <1>1, <2>3
    <3> QED BY <1>2, <2>1, <3>1, TokensDiffer
  <2>4. CASE i \in Len(a) + 7 .. Len(a) + 6 + Len(b)
    <3> DEFINE j == i - (Len(a) + 6)
    <3>1. j \in 1 .. Len(b) /\ Len(a) + 6 + j = i BY <1>1, <2>4
    <3>2. /\ j # 1 => j - 1 \in 1 .. Len(b) /\ Len(a) + 6 + (j - 1) = i - 1
          /\ j # Len(b) => /\ j + 1 \in 1 .. Len(b) /\ Len(a) + 6 + (j + 1) = i + 1
                           /\ i # Len(a) + 6 + Len(b)
          /\ i # 1
      <4>1. Len(a) \in Nat /\ Len(b) \in Nat BY <1>1
      <4> QED BY <2>4, <4>1
    <3> HIDE DEF j
    <3>3. b[j] = "start" BY <1>1, <2>1, <3>1
    <3>4. j # 1 => b[j - 1] = NL
      <4>1. c[i - 1] = NL BY <2>1, <3>2 DEF WholeLine
      <4>2. j # 1 => c[i - 1] = b[j - 1] BY <1>1, <3>2
      <4> QED BY <4>1, <4>2
    <3>5. j # Len(b) => b[j + 1] = NL
      <4>1. j # Len(b) => c[i + 1] = NL BY <1>1, <2>1, <3>2 DEF WholeLine
      <4>2. j # Len(b) => c[i + 1] = b[j + 1] BY <1>1, <3>2
      <4> QED BY <4>1, <4>2
    <3>6. j \in DOMAIN b BY <3>1, LinesArePlaces
    <3>7. j \in LinesOf(b, "start") BY <3>3, <3>4, <3>5, <3>6 DEF LinesOf, WholeLine
    <3> QED BY <3>7 DEF HasBlock
  <2>5. i \in 1 .. Len(a) \/ i \in Len(a) + 1 .. Len(a) + 6
        \/ i \in Len(a) + 7 .. Len(a) + 6 + Len(b)
    BY <1>1, <2>1
  <2> QED BY <2>2, <2>3, <2>4, <2>5
<1> QED BY <1>4, <1>5 DEF c

\* What is found of it.
LEMMA BlockIsFound ==
    ASSUME NEW a \in Texts, NEW v \in Versions, NEW b \in Texts,
           ~ HasBlock(a), ~ HasBlock(b), a = <<>> \/ Last(a) = NL
    PROVE  LET c == Around(a, v, b)
           IN  /\ HasBlock(c) /\ BodyIs(c, v)
               /\ Above(c) = a /\ Below(c) = b
<1> DEFINE c == Around(a, v, b)
<1>1. /\ c \in Texts /\ Len(c) = Len(a) + 6 + Len(b)
      /\ Len(a) \in Nat /\ Len(b) \in Nat
      /\ DOMAIN c = 1 .. Len(a) + 6 + Len(b)
      /\ \A i \in 1 .. Len(a) : c[i] = a[i]
      /\ \A i \in 1 .. 6 : c[Len(a) + i] = Block(v)[i]
      /\ \A i \in 1 .. Len(b) : c[Len(a) + 6 + i] = b[i]
  BY AroundIsText
<1>2. LinesOf(c, "start") = {Len(a) + 1} BY OneStart
<1> HIDE DEF c
<1>3. /\ c[Len(a) + 1] = "start" /\ c[Len(a) + 2] = NL /\ c[Len(a) + 3] = v
      /\ c[Len(a) + 4] = NL /\ c[Len(a) + 5] = "end" /\ c[Len(a) + 6] = NL
  BY <1>1, BlockIsText
<1>4. HasBlock(c) BY <1>2 DEF HasBlock
<1>5. From(c) = Len(a) + 1
  <2>1. From(c) \in LinesOf(c, "start")
    BY <1>1, <1>4, FromIsFirst DEF LinesOf
  <2> QED BY <1>2, <2>1
<1>6. Stop(c) = Len(a) + 5
  <2> DEFINE ends == {i \in LinesOf(c, "end") : i > From(c)}
  <2>1. Len(a) + 5 \in ends
    <3>1. Len(a) + 5 \in DOMAIN c /\ Len(a) + 5 > From(c) /\ (Len(a) + 5) - 1 = Len(a) + 4
          /\ (Len(a) + 5) + 1 = Len(a) + 6
      BY <1>1, <1>5
    <3> QED BY <1>3, <3>1 DEF LinesOf, WholeLine
  <2>2. ASSUME NEW i \in ends PROVE i >= Len(a) + 5
    <3>1. i \in Nat /\ i > Len(a) + 1 /\ c[i] = "end" BY <1>1, <1>5 DEF LinesOf
    <3>2. i \notin {Len(a) + 2, Len(a) + 3, Len(a) + 4} BY <1>3, <3>1, TokensDiffer
    <3> QED BY <1>1, <3>1, <3>2
  <2>3. ends \subseteq Nat BY <1>1 DEF LinesOf
  <2>4. Stop(c) = Min(ends) BY <2>1 DEF Stop
  <2> HIDE DEF ends
  <2>5. Min(ends) \in ends /\ Min(ends) <= Len(a) + 5 BY <2>1, <2>3, MinIsLeast
  <2>6. Min(ends) >= Len(a) + 5 BY <2>2, <2>5
  <2>7. Min(ends) \in Nat BY <2>3, <2>5
  <2> QED BY <1>1, <2>4, <2>5, <2>6, <2>7
<1>7. Upto(c) = Len(a) + 6 BY <1>1, <1>6 DEF Upto
<1>8. BodyIs(c, v)
  <2>1. From(c) + 1 .. Stop(c) - 1 = {Len(a) + 2, Len(a) + 3, Len(a) + 4}
    <3>1. Len(a) \in Nat BY <1>1
    <3>2. From(c) + 1 = Len(a) + 2 /\ Stop(c) - 1 = Len(a) + 4 BY <3>1, <1>5, <1>6
    <3>3. Len(a) + 2 .. Len(a) + 4 = {Len(a) + 2, Len(a) + 3, Len(a) + 4} BY <3>1
    <3> QED BY <3>2, <3>3
  <2>2. Len(a) + 2 # Len(a) + 3 /\ Len(a) + 4 # Len(a) + 3 BY <1>1
  <2> QED BY <1>3, <2>1, <2>2 DEF BodyIs, OnlyWord
<1>9. Above(c) = a
  <2>1. /\ Above(c) \in Texts /\ Len(Above(c)) = From(c) - 1
        /\ \A i \in 1 .. From(c) - 1 : Above(c)[i] = c[i]
    BY <1>1, <1>4, AboveAndBelow
  <2>2. From(c) - 1 = Len(a) BY <1>1, <1>5
  <2>3. Len(Above(c)) = Len(a) /\ \A i \in 1 .. Len(Above(c)) : Above(c)[i] = a[i]
    BY <1>1, <2>1, <2>2
  <2> QED BY <2>1, <2>3, SeqEqual DEF Texts
<1>10. Below(c) = b
  <2>1. Len(a) + 7 \in Nat /\ Len(c) \in Nat /\ Len(a) + 7 >= 1 /\ Len(c) <= Len(c) BY <1>1
  <2>2. Below(c) = SubSeq(c, Len(a) + 7, Len(c))
    <3>1. Upto(c) + 1 = Len(a) + 7 BY <1>1, <1>7
    <3> QED BY <3>1 DEF Below
  <2> DEFINE d == SubSeq(c, Len(a) + 7, Len(c))
  <2>3. /\ d \in Texts
        /\ Len(d) = IF Len(a) + 7 <= Len(c) THEN Len(c) - (Len(a) + 7) + 1 ELSE 0
        /\ \A i \in 1 .. Len(c) - (Len(a) + 7) + 1 : d[i] = c[(Len(a) + 7) + i - 1]
    BY <1>1, <2>1, Piece
  <2> HIDE DEF d
  <2>4. Len(d) = Len(b) BY <1>1, <2>3
  <2>5. ASSUME NEW i \in 1 .. Len(b) PROVE d[i] = b[i]
    <3>1. i \in 1 .. Len(c) - (Len(a) + 7) + 1 /\ (Len(a) + 7) + i - 1 = Len(a) + 6 + i
      BY <1>1
    <3>2. d[i] = c[Len(a) + 6 + i] BY <2>3, <3>1
    <3> QED BY <1>1, <3>2
  <2> QED BY <2>2, <2>3, <2>4, <2>5, SeqEqual DEF Texts, d
<1> QED BY <1>4, <1>8, <1>9, <1>10 DEF c

\* Where a block is appended to.
Base(c) ==
    IF c = <<>> THEN <<>> ELSE Append(IF Last(c) = NL THEN c ELSE Append(c, NL), NL)

\* It ends a line, and holds no block if the text did not.
LEMMA BaseIsClean ==
    ASSUME NEW c \in Texts
    PROVE  /\ Base(c) \in Texts
           /\ HasBlock(Base(c)) <=> HasBlock(c)
           /\ Base(c) = <<>> \/ Last(Base(c)) = NL
<1>1. CASE c = <<>> BY <1>1 DEF Base
<1>2. CASE c # <<>>
  <2> DEFINE d == IF Last(c) = NL THEN c ELSE Append(c, NL)
  <2>1. d \in Texts /\ LinesOf(d, "start") = LinesOf(c, "start") BY NewlineAdded
  <2> HIDE DEF d
  <2>2. /\ Append(d, NL) \in Texts /\ Last(Append(d, NL)) = NL
        /\ LinesOf(Append(d, NL), "start") = LinesOf(d, "start")
    BY <2>1, NewlineAdded
  <2>3. Base(c) = Append(d, NL) BY <1>2 DEF Base, d
  <2> QED BY <2>1, <2>2, <2>3 DEF HasBlock
<1> QED BY <1>1, <1>2

\* What appending a block gives.
LEMMA Appended ==
    ASSUME NEW c \in Texts, NEW v \in Versions
    PROVE  AppendBlock(c, v) = Around(Base(c), v, <<>>)
<1>0. Block(v) \in Texts /\ <<>> \in Texts BY BlockIsText, EmptySeq DEF Texts
<1>1. CASE c = <<>>
  <2>1. Base(c) = <<>> BY <1>1 DEF Base
  <2>2. <<>> \o Block(v) = Block(v) BY <1>0, ConcatEmptySeq DEF Texts
  <2>3. Block(v) \o <<>> = Block(v) BY <1>0, ConcatEmptySeq DEF Texts
  <2> QED BY <1>1, <2>1, <2>2, <2>3 DEF AppendBlock, Around
<1>2. CASE c # <<>>
  <2> DEFINE d == IF Last(c) = NL THEN c ELSE Append(c, NL)
  <2>1. d \in Texts BY NewlineAdded
  <2>2. AppendBlock(c, v) = d \o <<NL>> \o Block(v) BY <1>2 DEF AppendBlock
  <2>3. Base(c) = Append(d, NL) BY <1>2 DEF Base
  <2> HIDE DEF d
  <2>4. Append(d, NL) = d \o <<NL>> BY <2>1, TokensDiffer, AppendIsConcat DEF Texts
  <2>5. Base(c) \in Texts BY BaseIsClean
  <2>6. Base(c) \o Block(v) \in Texts BY <1>0, <2>5, ConcatProperties DEF Texts
  <2>7. (Base(c) \o Block(v)) \o <<>> = Base(c) \o Block(v)
    BY <2>6, ConcatEmptySeq DEF Texts
  <2> QED BY <2>2, <2>3, <2>4, <2>7 DEF Around
<1> QED BY <1>1, <1>2

\* A text with one block, of this version.
Repaired(c, v) ==
    /\ c \in Texts /\ HasBlock(c) /\ BodyIs(c, v)
    /\ \E i \in Nat : LinesOf(c, "start") = {i}

\* A block between texts that have none is all there is.
LEMMA AroundIsRepaired ==
    ASSUME NEW a \in Texts, NEW v \in Versions, NEW b \in Texts,
           ~ HasBlock(a), ~ HasBlock(b), a = <<>> \/ Last(a) = NL
    PROVE  Repaired(Around(a, v, b), v)
<1>1. Around(a, v, b) \in Texts /\ Len(a) + 1 \in Nat BY AroundIsText
<1> QED BY <1>1, BlockIsFound, OneStart DEF Repaired

\* upsert leaves one block, whatever it finds.
LEMMA UpsertRepairs ==
    ASSUME NEW c \in Texts, NEW v \in Versions
    PROVE  Repaired(Upsert(c, v), v)
<1>0. <<>> \in Texts /\ ~ HasBlock(<<>>)
  <2>1. <<>> \in Texts /\ Len(<<>>) = 0 BY EmptySeq DEF Texts
  <2> QED BY <2>1, EmptyHasNone
<1>1. CASE HasBlock(c)
  <2>1. Above(c) \in Texts /\ Below(c) \in Texts BY <1>1, AboveAndBelow
  <2>2. ~ HasBlock(Above(c)) /\ (Above(c) = <<>> \/ Last(Above(c)) = NL)
    BY <1>1, AboveIsClean
  <2>3. StripAll(Below(c)) \in Texts /\ ~ HasBlock(StripAll(Below(c)))
    BY <2>1, StripAllCleans
  <2>4. Upsert(c, v) = Around(Above(c), v, StripAll(Below(c))) BY <1>1 DEF Upsert, Around
  <2> QED BY <2>1, <2>2, <2>3, <2>4, AroundIsRepaired
<1>2. CASE ~ HasBlock(c)
  <2>1. Upsert(c, v) = Around(Base(c), v, <<>>) BY <1>2, Appended DEF Upsert
  <2> QED BY <1>0, <1>2, <2>1, BaseIsClean, AroundIsRepaired
<1> QED BY <1>1, <1>2

\* So does a completion file that is ours as a whole.
LEMMA BlockRepairs ==
    ASSUME NEW v \in Versions
    PROVE  Repaired(Block(v), v)
<1>1. <<>> \in Texts /\ Len(<<>>) = 0 BY EmptySeq DEF Texts
<1>2. Block(v) = Upsert(<<>>, v) BY <1>1, EmptyHasNone DEF Upsert, AppendBlock
<1> QED BY <1>1, <1>2, UpsertRepairs

-----------------------------------------------------------------------------
(* Reading and writing through links *)

FsType == fs \in [Paths -> {Gone} \cup LinkEntries \cup FileEntries]

InstallType ==
    /\ FsType /\ version \in Versions
    /\ kind \in {"hook", "doc", "completion"}
    /\ unmoded \in BOOLEAN /\ fresh \in BOOLEAN

\* A file is neither a link nor nothing.
LEMMA FilesAreFiles ==
    /\ Gone \notin LinkEntries /\ Gone \notin FileEntries
    /\ \A x \in LinkEntries : DOMAIN x = {"to"} /\ x.to \in Paths
    /\ \A x \in FileEntries :
          DOMAIN x # {"to"} /\ x.text \in Texts /\ x.exec \in BOOLEAN
<1>1. \A x \in FileEntries : DOMAIN x # {"to"}
  <2>1. \A x \in FileEntries : "text" \in DOMAIN x BY DEF FileEntries
  <2> QED BY <2>1
<1>2. \A x \in LinkEntries : DOMAIN x = {"to"} BY DEF LinkEntries
<1> QED BY <1>1, <1>2, ManagedAssumption DEF ManagedAssumption, LinkEntries, FileEntries, Texts

\* A chain of links ends at a path.
LEMMA EndIsAPath ==
    ASSUME FsType
    PROVE  /\ Hop \in [Paths -> Paths] /\ End(Dest) \in Paths /\ Dest \in Paths
           /\ \A p \in Paths : IsSymlink(p) <=> fs[p] \in LinkEntries
<1>1. Dest \in Paths BY DEF Paths
<1>2. \A p \in Paths : IsSymlink(p) <=> fs[p] \in LinkEntries
  BY FilesAreFiles DEF FsType, IsSymlink
<1>3. Hop \in [Paths -> Paths] BY <1>2, FilesAreFiles DEF Hop
<1>4. End(Dest) \in Paths
  <2> HIDE DEF Hop
  <2> QED BY <1>1, <1>3 DEF End
<1> QED BY <1>1, <1>2, <1>3, <1>4

\* What is read is a text, and a file if it exists.
LEMMA ReadsAText ==
    ASSUME FsType
    PROVE  /\ Current \in Texts
           /\ Exists(Dest) => fs[End(Dest)] \in FileEntries /\ Current = fs[End(Dest)].text
           /\ ~ Exists(Dest) => Current = <<>>
<1>1. End(Dest) \in Paths BY EndIsAPath
<1>2. ASSUME Exists(Dest) PROVE fs[End(Dest)] \in FileEntries
  <2>1. ~ IsSymlink(End(Dest)) /\ fs[End(Dest)] # Gone BY <1>2 DEF Exists, Readable
  <2>2. fs[End(Dest)] \in {Gone} \cup LinkEntries \cup FileEntries BY <1>1 DEF FsType
  <2> QED BY <1>1, <2>1, <2>2, EndIsAPath
<1>3. <<>> \in Texts BY EmptySeq DEF Texts
<1> QED BY <1>2, <1>3, FilesAreFiles DEF Current, TextAt

\* A file that is written, or goes, leaves all links what they are.
LEMMA WriteKeepsLinks ==
    ASSUME FsType, NEW e \in Paths, ~ IsSymlink(e),
           NEW f \in {Gone} \cup FileEntries, fs' = [fs EXCEPT ![e] = f]
    PROVE  /\ FsType' /\ fs'[e] = f
           /\ \A p \in Paths : IsSymlink(p) => fs'[p] = fs[p]
           /\ \A p \in Paths : IsSymlink(p)' <=> IsSymlink(p)
           /\ End(Dest)' = End(Dest)
<1>1. FsType' BY DEF FsType
<1>2. fs'[e] = f /\ \A p \in Paths : p # e => fs'[p] = fs[p] BY DEF FsType
<1>3. f = Gone \/ DOMAIN f # {"to"} BY FilesAreFiles
<1>4. \A p \in Paths : IsSymlink(p)' <=> IsSymlink(p)
  BY <1>2, <1>3 DEF IsSymlink
<1>5. \A p \in Paths : IsSymlink(p) => fs'[p] = fs[p] BY <1>2
<1>6. Hop' = Hop
  <2>1. \A p \in Paths : (IF IsSymlink(p) THEN fs[p].to ELSE p)'
                          = (IF IsSymlink(p) THEN fs[p].to ELSE p)
    BY <1>4, <1>5
  <2> QED BY <2>1 DEF Hop
<1>7. End(Dest)' = End(Dest) BY <1>6 DEF End
<1> QED BY <1>1, <1>2, <1>4, <1>5, <1>7

\* What is written is what is read from then on.
LEMMA WriteIsRead ==
    ASSUME FsType, Readable(Dest), NEW t \in Texts, WriteAll(Dest, t)
    PROVE  /\ FsType' /\ Exists(Dest)' /\ Current' = t
           /\ End(Dest)' = End(Dest)
           /\ \A p \in Paths : IsSymlink(p) => fs'[p] = fs[p]
<1> DEFINE f == File(t, Exists(Dest) /\ fs[End(Dest)].exec)
<1>0. PICK e \in Paths : e = End(Dest) BY EndIsAPath
<1>1. ~ IsSymlink(e) BY <1>0 DEF Readable
<1>2. f \in FileEntries
  <2>1. (Exists(Dest) /\ fs[End(Dest)].exec) \in BOOLEAN BY ReadsAText, FilesAreFiles
  <2> QED BY <2>1 DEF File, FileEntries, Texts
<1>3. f.text = t BY DEF File
<1>4. fs' = [fs EXCEPT ![e] = f] BY <1>0 DEF WriteAll
<1> HIDE DEF f
<1>5. End(Dest)' = e BY <1>0, <1>1, <1>2, <1>4, WriteKeepsLinks
<1>6. /\ FsType' /\ fs'[e] = f
      /\ \A p \in Paths : IsSymlink(p) => fs'[p] = fs[p]
      /\ \A p \in Paths : IsSymlink(p)' <=> IsSymlink(p)
  BY <1>1, <1>2, <1>4, WriteKeepsLinks
<1>7. ~ IsSymlink(e)' BY <1>1, <1>6
<1>8. f # Gone BY <1>2, FilesAreFiles
<1>9. Readable(Dest)' BY <1>5, <1>7 DEF Readable, IsSymlink
<1>10. Exists(Dest)' BY <1>5, <1>6, <1>8, <1>9 DEF Exists
<1>11. Current' = fs'[e].text BY <1>5, <1>10 DEF Current, TextAt
<1> QED BY <1>0, <1>3, <1>5, <1>6, <1>10, <1>11

\* If nothing is written nothing that is read changes.
LEMMA NothingWritten ==
    ASSUME UNCHANGED fs
    PROVE  /\ End(Dest)' = End(Dest) /\ Current' = Current
           /\ Exists(Dest)' <=> Exists(Dest)
           /\ FsType' <=> FsType
<1>1. Hop' = Hop BY DEF Hop, IsSymlink
<1>2. End(Dest)' = End(Dest) BY <1>1 DEF End
<1>3. Exists(Dest)' <=> Exists(Dest) BY <1>2 DEF Exists, Readable, IsSymlink
<1> QED BY <1>2, <1>3 DEF Current, TextAt, FsType

\* The mode is set of a file that exists, and its text stays.
LEMMA ModeIsSet ==
    ASSUME FsType, Exists(Dest), NEW b \in BOOLEAN,
           fs' = [fs EXCEPT ![End(Dest)].exec = b]
    PROVE  /\ FsType' /\ Exists(Dest)' /\ Current' = Current
           /\ End(Dest)' = End(Dest) /\ fs'[End(Dest)].exec = b
<1>1. PICK e \in Paths : e = End(Dest) BY EndIsAPath
<1>2. fs[e] \in FileEntries /\ Current = fs[e].text BY <1>1, ReadsAText
<1>3. ~ IsSymlink(e) BY <1>1 DEF Exists, Readable
<1> DEFINE f == [fs[e] EXCEPT !.exec = b]
<1>4. f \in FileEntries /\ f.text = fs[e].text /\ f.exec = b BY <1>2 DEF FileEntries
<1>5. fs' = [fs EXCEPT ![e] = f] BY <1>1
<1> HIDE DEF f
<1>6. /\ FsType' /\ fs'[e] = f
      /\ \A p \in Paths : IsSymlink(p)' <=> IsSymlink(p)
  BY <1>3, <1>4, <1>5, WriteKeepsLinks
<1>7. End(Dest)' = e BY <1>1, <1>3, <1>4, <1>5, WriteKeepsLinks
<1>8. ~ IsSymlink(e)' BY <1>3, <1>6
<1>9. f # Gone BY <1>4, FilesAreFiles
<1>10. Readable(Dest)' BY <1>7, <1>8 DEF Readable, IsSymlink
<1>11. Exists(Dest)' BY <1>6, <1>7, <1>9, <1>10 DEF Exists
<1>12. Current' = fs'[e].text BY <1>7, <1>11 DEF Current, TextAt
<1> QED BY <1>1, <1>2, <1>4, <1>6, <1>7, <1>11, <1>12

\* Removing a block leaves a text without one.
LEMMA RemoveIsText ==
    ASSUME NEW c \in Texts, HasBlock(c)
    PROVE  RemoveBlock(c) \in Texts
<1>1. Above(c) \in Texts /\ Below(c) \in Texts BY AboveAndBelow
<1>2. StripAll(Below(c)) \in Texts BY <1>1, StripAllCleans
<1> DEFINE h == IF Above(c) # <<>> /\ Last(Above(c)) = NL THEN Front(Above(c)) ELSE Above(c)
<1>3. Front(Above(c)) \in Texts \/ Above(c) = <<>>
  <2>1. CASE Len(Above(c)) = 0 BY <1>1, <2>1, EmptySeq DEF Texts
  <2>2. CASE Len(Above(c)) # 0
    <3>1. Len(Above(c)) - 1 \in Nat /\ 1 \in Nat /\ Len(Above(c)) - 1 <= Len(Above(c))
      BY <1>1, <2>2, LinesArePlaces
    <3> QED BY <1>1, <3>1, Piece DEF Front
  <2> QED BY <2>1, <2>2
<1>4. h \in Texts BY <1>1, <1>3
<1>5. RemoveBlock(c) = h \o StripAll(Below(c)) BY DEF RemoveBlock
<1> HIDE DEF h
<1> QED BY <1>2, <1>4, <1>5, ConcatProperties DEF Texts

\* A file that goes leaves nothing to read, or an empty text if a link led to it.
LEMMA RemovedIsGone ==
    ASSUME FsType, Exists(Dest), RemoveFile(Dest)
    PROVE  /\ FsType' /\ Current' = <<>>
           /\ fs'[End(Dest)] # Gone => IsSymlink(Dest)
           /\ \A p \in Paths : IsSymlink(p) => fs'[p] = fs[p]
<1>1. CASE IsSymlink(Dest)
  <2>1. <<>> \in Texts BY EmptySeq DEF Texts
  <2>2. WriteAll(Dest, <<>>) /\ Readable(Dest) BY <1>1 DEF RemoveFile, Exists
  <2> QED BY <1>1, <2>1, <2>2, WriteIsRead
<1>2. CASE ~ IsSymlink(Dest)
  <2>1. Dest \in Paths BY EndIsAPath
  <2>2. End(Dest) = Dest
    <3>1. Hop[Dest] = Dest BY <1>2, <2>1 DEF Hop
    <3> QED BY <3>1 DEF End
  <2>3. fs' = [fs EXCEPT ![Dest] = Gone] BY <1>2 DEF RemoveFile
  <2>4. /\ FsType' /\ fs'[Dest] = Gone /\ End(Dest)' = End(Dest)
        /\ \A p \in Paths : IsSymlink(p) => fs'[p] = fs[p]
    BY <1>2, <2>1, <2>3, WriteKeepsLinks
  <2>5. ~ Exists(Dest)' BY <2>2, <2>4 DEF Exists
  <2>6. Current' = <<>> BY <2>5 DEF Current, TextAt
  <2> QED BY <2>2, <2>4, <2>6
<1> QED BY <1>1, <1>2

\* What install writes.
LEMMA InstalledIsRepaired ==
    ASSUME InstallType
    PROVE  /\ Installed \in Texts /\ Repaired(Installed, version)
           /\ kind = "completion" => Installed = Block(version)
<1>1. version \in Versions /\ Current \in Texts BY ReadsAText DEF InstallType
<1>2. <<"shebang", NL>> \in Texts BY TokensDiffer DEF Texts
<1>3. \/ Installed = Block(version) /\ kind = "completion"
      \/ Installed = Upsert(<<"shebang", NL>>, version) /\ kind # "completion"
      \/ Installed = Upsert(Current, version) /\ kind # "completion"
  BY DEF Installed
<1>4. Repaired(Installed, version) BY <1>1, <1>2, <1>3, BlockRepairs, UpsertRepairs
<1> QED BY <1>3, <1>4 DEF Repaired

-----------------------------------------------------------------------------
(* An install that runs to its end repairs *)

RepairInv ==
    (unmoded \/ fresh) =>
        /\ Exists(Dest) /\ Repaired(Current, version)
        /\ kind = "completion" => Current = Block(version)
        /\ fresh /\ kind = "hook" => fs[End(Dest)].exec

\* At the start nothing has been installed.
LEMMA RepairInit == ManagedInit => InstallType /\ RepairInv
<1> SUFFICES ASSUME ManagedInit PROVE InstallType /\ RepairInv OBVIOUS
<1>1. version \in Versions BY ManagedAssumption DEF ManagedInit, ManagedAssumption
<1>2. FsType BY ManagedAssumption DEF ManagedInit, ManagedAssumption, FsType
<1> QED BY <1>1, <1>2 DEF ManagedInit, InstallType, RepairInv

\* install: the destination holds what it writes, or held it already.
LEMMA InstallWrites ==
    ASSUME InstallType, Install
    PROVE  /\ FsType' /\ Exists(Dest)' /\ Current' = Installed
           /\ End(Dest)' = End(Dest)
           /\ \A p \in Paths : IsSymlink(p) => fs'[p] = fs[p]
<1>0. FsType /\ Installed \in Texts BY InstalledIsRepaired DEF InstallType
<1>1. CASE Exists(Dest) /\ Installed = Current
  <2>1. UNCHANGED fs BY <1>1 DEF Install
  <2> QED BY <1>0, <1>1, <2>1, NothingWritten
<1>2. CASE ~ (Exists(Dest) /\ Installed = Current)
  <2>1. WriteAll(Dest, Installed) /\ Readable(Dest) BY <1>2 DEF Install, Writable
  <2>2. PICK t \in Texts : t = Installed BY <1>0
  <2>3. WriteAll(Dest, t) BY <2>1, <2>2
  <2> QED BY <1>0, <2>1, <2>2, <2>3, WriteIsRead
<1> QED BY <1>1, <1>2

\* What install writes is there, and its mode is still to be set.
LEMMA RepairInstall ==
    ASSUME InstallType, RepairInv, Install
    PROVE  InstallType' /\ RepairInv'
<1>1. FsType' /\ Exists(Dest)' /\ Current' = Installed BY InstallWrites
<1>2. UNCHANGED <<kind, version>> /\ unmoded' = (kind = "hook") /\ fresh' = (kind # "hook")
  BY DEF Install, SetsMode
<1>3. InstallType' BY <1>1, <1>2 DEF InstallType
<1>4. Repaired(Current', version') /\ (kind' = "completion" => Current' = Block(version'))
  BY <1>1, <1>2, InstalledIsRepaired
<1> QED BY <1>1, <1>2, <1>3, <1>4 DEF RepairInv

\* make_executable.
LEMMA RepairMode ==
    ASSUME InstallType, RepairInv, MakeExecutable
    PROVE  InstallType' /\ RepairInv'
<1>1. /\ fs' = [fs EXCEPT ![End(Dest)].exec = TRUE]
      /\ unmoded /\ unmoded' = FALSE /\ fresh' = TRUE /\ UNCHANGED <<kind, version>>
  BY DEF MakeExecutable
<1>2. FsType /\ Exists(Dest) BY <1>1 DEF InstallType, RepairInv
<1>3. /\ FsType' /\ Exists(Dest)' /\ Current' = Current
      /\ End(Dest)' = End(Dest) /\ fs'[End(Dest)].exec = TRUE
  BY <1>1, <1>2, ModeIsSet
<1>4. InstallType' BY <1>1, <1>3 DEF InstallType
<1> QED BY <1>1, <1>3, <1>4 DEF RepairInv

\* uninstall.
LEMMA RepairUninstall ==
    ASSUME InstallType, Uninstall
    PROVE  InstallType' /\ RepairInv'
<1>1. /\ ~ unmoded /\ UNCHANGED <<kind, version, unmoded>> /\ fresh' = FALSE
      /\ Exists(Dest) /\ HasBlock(Current)
  BY DEF Uninstall
<1>2. FsType /\ Current \in Texts BY ReadsAText DEF InstallType
<1>3. FsType'
  <2>1. CASE RemoveFile(Dest) BY <1>1, <1>2, <2>1, RemovedIsGone
  <2>2. CASE WriteAll(Dest, RemoveBlock(Current))
    <3>1. PICK t \in Texts : t = RemoveBlock(Current) BY <1>1, <1>2, RemoveIsText
    <3>2. WriteAll(Dest, t) /\ Readable(Dest) BY <1>1, <2>2, <3>1 DEF Exists
    <3> QED BY <1>2, <3>2, WriteIsRead
  <2> QED BY <2>1, <2>2 DEF Uninstall
<1> QED BY <1>1, <1>3 DEF InstallType, RepairInv

\* What the user does to the text.
LEMMA RepairAlter ==
    ASSUME InstallType, NEW t \in Texts, MayAlter, Exists(Dest), WriteAll(Dest, t),
           UNCHANGED <<kind, version, unmoded>>
    PROVE  InstallType' /\ RepairInv'
<1>1. FsType /\ Readable(Dest) BY DEF InstallType, Exists
<1>2. FsType' BY <1>1, WriteIsRead
<1> QED BY <1>2 DEF InstallType, RepairInv, MayAlter

\* A line more, or less, is a text.
LEMMA LinesAreText ==
    ASSUME NEW c \in Texts, NEW i \in Starts(c)
    PROVE  /\ i \in 1 .. Len(c) + 1
           /\ SubSeq(c, 1, i - 1) \in Texts
           /\ \A k \in 1 .. Len(c) + 1 : SubSeq(c, k, Len(c)) \in Texts
<1>1. Len(c) \in Nat /\ DOMAIN c = 1 .. Len(c) BY LinesArePlaces
<1>2. i \in 1 .. Len(c) + 1 BY <1>1 DEF Starts
<1>3. i - 1 \in Nat /\ i - 1 <= Len(c) /\ 1 \in Nat BY <1>1, <1>2
<1>4. ASSUME NEW k \in 1 .. Len(c) + 1 PROVE SubSeq(c, k, Len(c)) \in Texts
  <2>1. k \in Nat /\ k >= 1 /\ Len(c) <= Len(c) BY <1>1
  <2> QED BY <1>1, <2>1, Piece
<1>5. SubSeq(c, 1, i - 1) \in Texts BY <1>3, Piece
<1> QED BY <1>2, <1>4, <1>5

\* A line more.
LEMMA RepairInsert ==
    ASSUME InstallType, NEW w \in Words, InsertLine(w)
    PROVE  InstallType' /\ RepairInv'
<1>1. Current \in Texts BY ReadsAText DEF InstallType
<1>2. PICK c \in Texts : c = Current BY <1>1
<1>3. PICK i \in Starts(c) : WriteAll(Dest, SubSeq(c, 1, i - 1) \o <<w, NL>> \o SubSeq(c, i, Len(c)))
  BY <1>2 DEF InsertLine
<1>4. SubSeq(c, 1, i - 1) \in Texts /\ SubSeq(c, i, Len(c)) \in Texts BY LinesAreText
<1>5. <<w, NL>> \in Texts BY TokensDiffer DEF Texts
<1>6. SubSeq(c, 1, i - 1) \o <<w, NL>> \o SubSeq(c, i, Len(c)) \in Texts
  BY <1>4, <1>5, ConcatProperties DEF Texts
<1>7. MayAlter /\ Exists(Dest) /\ UNCHANGED <<kind, version, unmoded>> BY DEF InsertLine
<1> QED BY <1>3, <1>6, <1>7, RepairAlter

\* A line less.
LEMMA RepairDelete ==
    ASSUME InstallType, DeleteLine
    PROVE  InstallType' /\ RepairInv'
<1>1. Current \in Texts BY ReadsAText DEF InstallType
<1>2. PICK c \in Texts : c = Current BY <1>1
<1> DEFINE S(i) == {j \in i .. Len(c) : c[j] = NL} \cup {Len(c)}
<1>3. PICK i \in Starts(c) : /\ i <= Len(c)
         /\ WriteAll(Dest, SubSeq(c, 1, i - 1) \o SubSeq(c, Min(S(i)) + 1, Len(c)))
  BY <1>2 DEF DeleteLine
<1>4. Len(c) \in Nat /\ i \in 1 .. Len(c) + 1 BY LinesAreText, LinesArePlaces
<1>5. Min(S(i)) + 1 \in 1 .. Len(c) + 1
  <2>1. S(i) \subseteq i .. Len(c) /\ S(i) # {} BY <1>3, <1>4
  <2>2. S(i) \subseteq Nat BY <1>4, <2>1
  <2> HIDE DEF S
  <2>3. Min(S(i)) \in i .. Len(c) BY <2>1, <2>2, MinIsLeast
  <2> QED BY <1>4, <2>3
<1> HIDE DEF S
<1>6. SubSeq(c, 1, i - 1) \in Texts /\ SubSeq(c, Min(S(i)) + 1, Len(c)) \in Texts
  BY <1>5, LinesAreText
<1>7. SubSeq(c, 1, i - 1) \o SubSeq(c, Min(S(i)) + 1, Len(c)) \in Texts
  BY <1>6, ConcatProperties DEF Texts
<1>8. MayAlter /\ Exists(Dest) /\ UNCHANGED <<kind, version, unmoded>> BY DEF DeleteLine
<1> QED BY <1>3, <1>7, <1>8, RepairAlter

\* Every step keeps it.
LEMMA RepairStep == InstallType /\ RepairInv /\ [ManagedNext]_managedVars => InstallType' /\ RepairInv'
<1> SUFFICES ASSUME InstallType, RepairInv, [ManagedNext]_managedVars
             PROVE  InstallType' /\ RepairInv'
  OBVIOUS
<1>1. CASE Install BY <1>1, RepairInstall
<1>2. CASE MakeExecutable BY <1>2, RepairMode
<1>3. CASE Die
  <2>1. UNCHANGED fs BY <1>3 DEF Die
  <2> QED BY <1>3, <2>1, NothingWritten DEF Die, InstallType, RepairInv
<1>4. CASE Uninstall BY <1>4, RepairUninstall
<1>5. CASE \E w \in Words : InsertLine(w) BY <1>5, RepairInsert
<1>6. CASE DeleteLine BY <1>6, RepairDelete
<1>7. CASE LoseMode
  <2>1. /\ fs' = [fs EXCEPT ![End(Dest)].exec = FALSE] /\ Exists(Dest)
        /\ UNCHANGED <<kind, version, unmoded>> /\ ~ unmoded /\ fresh' = FALSE
    BY <1>7 DEF LoseMode, MayAlter
  <2>2. FsType' BY <2>1, ModeIsSet DEF InstallType
  <2> QED BY <2>1, <2>2 DEF InstallType, RepairInv
<1>8. CASE Upgrade
  <2>1. UNCHANGED fs BY <1>8 DEF Upgrade
  <2>2. FsType' BY <2>1, NothingWritten DEF InstallType
  <2> QED BY <1>8, <2>2 DEF Upgrade, MayAlter, InstallType, RepairInv
<1>9. CASE UNCHANGED managedVars
  <2>1. UNCHANGED <<fs, kind, version, unmoded, fresh>> BY <1>9 DEF managedVars
  <2> QED BY <2>1, NothingWritten DEF InstallType, RepairInv
<1> QED BY <1>1, <1>2, <1>3, <1>4, <1>5, <1>6, <1>7, <1>8, <1>9 DEF ManagedNext

(***************************************************************************)
(* Whatever is at the destination, and whatever the user, upgrades, other  *)
(* installs and their ends have done to it: an install that runs to its    *)
(* end leaves one block, of its version, that status calls current         *)
(* (upsert, write_all and make_executable of filigrio-install).            *)
(***************************************************************************)
THEOREM InstallIsARepair == ManagedSpec => []InstallRepairs
<1>1. ManagedInit => InstallType /\ RepairInv BY RepairInit
<1>2. InstallType /\ RepairInv /\ [ManagedNext]_managedVars => (InstallType /\ RepairInv)'
  BY RepairStep
<1>3. InstallType /\ RepairInv => InstallRepairs
  <2> SUFFICES ASSUME InstallType, RepairInv, fresh PROVE InstallRepairs
    BY DEF InstallRepairs
  <2> DEFINE file == fs[End(Dest)]
  <2>1. /\ file.text = Current /\ Repaired(Current, version)
        /\ kind = "completion" => Current = Block(version)
        /\ kind = "hook" => file.exec
    BY ReadsAText DEF InstallType, RepairInv
  <2>2. HasBlock(file.text) /\ BodyIs(file.text, version) BY <2>1 DEF Repaired
  <2>3. Cardinality(LinesOf(file.text, "start")) = 1 BY <2>1, FS_Singleton DEF Repaired
  <2> HIDE DEF file
  <2>4. Status(file.text, file.exec) = "current" BY <2>1, <2>2 DEF Status
  <2> QED BY <2>3, <2>4 DEF InstallRepairs, file
<1> QED BY <1>1, <1>2, <1>3, PTL DEF ManagedSpec

-----------------------------------------------------------------------------
(* Uninstall gives back what install found *)

\* What removing gives back: the text with a newline at its end.
Closed(c) == IF c = <<>> \/ Last(c) = NL THEN c ELSE Append(c, NL)

\* It is a text, with a block if the text has one.
LEMMA ClosedIsClean ==
    ASSUME NEW c \in Texts
    PROVE  Closed(c) \in Texts /\ (HasBlock(Closed(c)) <=> HasBlock(c))
BY NewlineAdded DEF Closed, HasBlock

\* The front of a text with one more word is the text.
LEMMA FrontOfAppend ==
    ASSUME NEW c \in Texts
    PROVE  Front(Append(c, NL)) = c
<1> DEFINE d == Append(c, NL)
<1>1. d \in Texts /\ Len(d) = Len(c) + 1 /\ \A i \in 1 .. Len(c) : d[i] = c[i]
  BY NewlineAdded
<1> HIDE DEF d
<1>2. Len(c) \in Nat /\ 1 \in Nat /\ Len(c) <= Len(d) /\ Len(d) - 1 = Len(c)
  BY <1>1, LinesArePlaces
<1>3. /\ SubSeq(d, 1, Len(c)) \in Texts
      /\ Len(SubSeq(d, 1, Len(c))) = IF 1 <= Len(c) THEN Len(c) - 1 + 1 ELSE 0
      /\ \A i \in 1 .. Len(c) - 1 + 1 : SubSeq(d, 1, Len(c))[i] = d[1 + i - 1]
  BY <1>1, <1>2, Piece
<1> DEFINE e == SubSeq(d, 1, Len(c))
<1>4. e \in Texts /\ Len(e) = Len(c) BY <1>2, <1>3
<1>5. ASSUME NEW i \in 1 .. Len(c) PROVE e[i] = c[i]
  <2>1. i \in 1 .. Len(c) - 1 + 1 /\ 1 + i - 1 = i BY <1>2
  <2> QED BY <1>1, <1>3, <2>1
<1> HIDE DEF e
<1>6. e = c BY <1>4, <1>5, SeqEqual DEF Texts
<1> QED BY <1>2, <1>6 DEF Front, d, e

\* remove takes out what upsert has appended, and nothing else.
LEMMA RemoveUndoes ==
    ASSUME NEW c \in Texts, NEW v \in Versions, ~ HasBlock(c)
    PROVE  RemoveBlock(AppendBlock(c, v)) = Closed(c)
<1> DEFINE a == Base(c)
<1>0. <<>> \in Texts /\ Len(<<>>) = 0 BY EmptySeq DEF Texts
<1>1. a \in Texts /\ ~ HasBlock(a) /\ (a = <<>> \/ Last(a) = NL) BY BaseIsClean
<1>2. AppendBlock(c, v) = Around(a, v, <<>>) BY Appended
<1>3. (a = <<>> /\ c = <<>>) \/ (c # <<>> /\ a = Append(Closed(c), NL))
  BY DEF Base, Closed
<1> HIDE DEF a
<1>4. Above(Around(a, v, <<>>)) = a /\ Below(Around(a, v, <<>>)) = <<>>
  BY <1>0, <1>1, BlockIsFound, EmptyHasNone
<1>5. StripAll(<<>>) = <<>> BY <1>0, StripAllOfClean
<1> DEFINE h == IF a # <<>> /\ Last(a) = NL THEN Front(a) ELSE a
<1>6. RemoveBlock(AppendBlock(c, v)) = h \o <<>> BY <1>2, <1>4, <1>5 DEF RemoveBlock
<1>7. h = Closed(c)
  <2>1. CASE a = <<>> /\ c = <<>> BY <2>1 DEF Closed
  <2>2. CASE c # <<>> /\ a = Append(Closed(c), NL)
    <3>1. Closed(c) \in Texts BY ClosedIsClean
    <3>2. Front(a) = Closed(c) BY <2>2, <3>1, FrontOfAppend
    <3>3. a # <<>> BY <2>2, <3>1, TokensDiffer, AppendProperties DEF Texts
    <3> QED BY <1>1, <3>2, <3>3
  <2> QED BY <1>3, <2>1, <2>2
<1> HIDE DEF h
<1>8. Closed(c) \o <<>> = Closed(c) BY ClosedIsClean, ConcatEmptySeq DEF Texts
<1> QED BY <1>6, <1>7, <1>8

\* An upsert over a block that was appended is one that is appended.
LEMMA UpsertAgain ==
    ASSUME NEW c \in Texts, NEW v \in Versions, NEW w \in Versions, ~ HasBlock(c)
    PROVE  Upsert(AppendBlock(c, v), w) = AppendBlock(c, w)
<1> DEFINE a == Base(c)
<1>0. <<>> \in Texts /\ Len(<<>>) = 0 BY EmptySeq DEF Texts
<1>1. a \in Texts /\ ~ HasBlock(a) /\ (a = <<>> \/ Last(a) = NL) BY BaseIsClean
<1>2. AppendBlock(c, v) = Around(a, v, <<>>) /\ AppendBlock(c, w) = Around(a, w, <<>>)
  BY Appended
<1> HIDE DEF a
<1>3. /\ Above(Around(a, v, <<>>)) = a /\ Below(Around(a, v, <<>>)) = <<>>
      /\ HasBlock(Around(a, v, <<>>))
  BY <1>0, <1>1, BlockIsFound, EmptyHasNone
<1>4. StripAll(<<>>) = <<>> BY <1>0, StripAllOfClean
<1>5. Upsert(Around(a, v, <<>>), w) = a \o Block(w) \o <<>> BY <1>3, <1>4 DEF Upsert
<1> QED BY <1>2, <1>5 DEF Around

\* A newline at the end makes no difference to what a file holds.
LEMMA ClosedIsAsEmpty ==
    ASSUME NEW c \in Texts
    PROVE  /\ Blank(Closed(c)) <=> Blank(c)
           /\ EmptyMeansOurs(Closed(c)) <=> EmptyMeansOurs(c)
<1>1. CASE Closed(c) = c BY <1>1
<1>2. CASE Closed(c) # c
  <2> DEFINE d == Append(c, NL)
  <2>1. Closed(c) = d BY <1>2 DEF Closed
  <2>2. d \in Texts /\ Len(d) = Len(c) + 1 /\ \A i \in 1 .. Len(c) : d[i] = c[i]
    BY NewlineAdded
  <2>3. d[Len(c) + 1] = NL BY <2>2, NewlineAdded DEF Last
  <2> HIDE DEF d
  <2>4. Len(c) \in Nat /\ DOMAIN c = 1 .. Len(c) /\ DOMAIN d = 1 .. Len(c) + 1
    BY <2>2, LinesArePlaces
  <2>5. /\ \A i \in 1 .. Len(c) + 1 : i \in 1 .. Len(c) \/ i = Len(c) + 1
        /\ 1 .. Len(c) \subseteq 1 .. Len(c) + 1
        /\ Len(c) + 1 \in 1 .. Len(c) + 1 /\ Len(c) + 1 \notin 1 .. Len(c)
    BY <2>4
  <2>6. Blank(d) <=> Blank(c)
    <3>1. Blank(d) <=> \A i \in 1 .. Len(c) + 1 : d[i] = NL BY <2>4 DEF Blank, ToSet
    <3>2. Blank(c) <=> \A i \in 1 .. Len(c) : c[i] = NL BY <2>4 DEF Blank, ToSet
    <3> QED BY <2>2, <2>3, <2>5, <3>1, <3>2
  <2>7. OnlyWord(d, 1, Len(d), "shebang") <=> OnlyWord(c, 1, Len(c), "shebang")
    <3>1. ASSUME NEW i \in 1 .. Len(c)
          PROVE  (d[i] = "shebang" /\ \A j \in (1 .. Len(c) + 1) \ {i} : d[j] = NL)
                 <=> (c[i] = "shebang" /\ \A j \in (1 .. Len(c)) \ {i} : c[j] = NL)
      BY <2>2, <2>3, <2>5
    <3>2. d[Len(c) + 1] # "shebang" BY <2>3, TokensDiffer
    <3> QED BY <2>2, <2>5, <3>1, <3>2 DEF OnlyWord
  <2> QED BY <2>1, <2>6, <2>7 DEF EmptyMeansOurs
<1> QED BY <1>1, <1>2

\* What install has appended its block to.
Found ==
    IF original # Gone THEN original.text
    ELSE IF kind = "hook" THEN <<"shebang", NL>> ELSE <<>>

RestoreInv ==
    original # Altered /\ HasBlock(Current) =>
        /\ original = Gone \/ (original \in [text : Texts] /\ ~ HasBlock(original.text))
        /\ kind = "completion" => original = Gone \/ Blank(original.text)
        /\ kind # "completion" => \E v \in Versions : Current = AppendBlock(Found, v)

\* The start of a hook holds no block.
LEMMA ShebangIsClean ==
    /\ <<"shebang", NL>> \in Texts /\ ~ HasBlock(<<"shebang", NL>>)
    /\ <<>> \in Texts /\ ~ HasBlock(<<>>) /\ Blank(<<>>)
    /\ OnlyWord(<<"shebang", NL>>, 1, Len(<<"shebang", NL>>), "shebang")
<1> DEFINE s == <<"shebang", NL>>
<1>1. s \in Texts BY TokensDiffer DEF Texts
<1>2. Len(s) = 2 /\ s[1] = "shebang" /\ s[2] = NL OBVIOUS
<1> HIDE DEF s
<1>3. DOMAIN s = 1 .. 2 BY <1>1, <1>2, LinesArePlaces
<1>4. ~ HasBlock(s)
  <2>1. \A i \in 1 .. 2 : i = 1 \/ i = 2 OBVIOUS
  <2>2. \A i \in 1 .. 2 : s[i] # "start" BY <1>2, <2>1, TokensDiffer
  <2> QED BY <1>3, <2>2 DEF HasBlock, LinesOf
<1>5. OnlyWord(s, 1, Len(s), "shebang")
  <2>1. 1 .. 2 = {1, 2} OBVIOUS
  <2> QED BY <1>2, <2>1 DEF OnlyWord
<1>6. <<>> \in Texts /\ Len(<<>>) = 0 BY EmptySeq DEF Texts
<1>7. Blank(<<>>) BY DEF Blank, ToSet
<1> QED BY <1>1, <1>4, <1>5, <1>6, <1>7, EmptyHasNone DEF s

\* What it was appended to is a text without a block.
LEMMA FoundIsClean ==
    ASSUME RestoreInv, original # Altered, HasBlock(Current)
    PROVE  Found \in Texts /\ ~ HasBlock(Found)
<1>1. original = Gone \/ (original \in [text : Texts] /\ ~ HasBlock(original.text))
  BY DEF RestoreInv
<1>2. Gone \notin [text : Texts] BY ManagedAssumption DEF ManagedAssumption, Texts
<1>3. CASE original = Gone BY <1>3, ShebangIsClean DEF Found
<1>4. CASE original \in [text : Texts] /\ ~ HasBlock(original.text)
  <2>1. original # Gone /\ original.text \in Texts BY <1>2, <1>4
  <2> QED BY <1>4, <2>1 DEF Found
<1> QED BY <1>1, <1>3, <1>4

\* install: what it found is clean, or is what it found the first time.
LEMMA RestoreInstall ==
    ASSUME InstallType, RestoreInv, Install
    PROVE  RestoreInv'
<1>1. Current' = Installed /\ UNCHANGED <<kind, version>> BY InstallWrites DEF Install
<1>2. FsType /\ Current \in Texts /\ (~ Exists(Dest) => Current = <<>>) /\ version \in Versions
  BY ReadsAText DEF InstallType
<1>3. CASE HasBlock(Current)
  <2>1. original' = original BY <1>3 DEF Install
  <2> SUFFICES ASSUME original # Altered PROVE RestoreInv' BY <2>1 DEF RestoreInv
  <2>2. Found \in Texts /\ ~ HasBlock(Found) BY <1>3, FoundIsClean
  <2>3. Found' = Found BY <1>1, <2>1 DEF Found
  <2>4. Exists(Dest) BY <1>2, <1>3, ShebangIsClean
  <2>5. ASSUME kind # "completion" PROVE Current' = AppendBlock(Found, version)
    <3>1. PICK v \in Versions : Current = AppendBlock(Found, v)
      BY <1>3, <2>5 DEF RestoreInv
    <3>2. Installed = Upsert(Current, version) BY <2>4, <2>5 DEF Installed
    <3> QED BY <1>1, <1>2, <2>2, <3>1, <3>2, UpsertAgain
  <2> QED BY <1>1, <1>2, <1>3, <2>1, <2>3, <2>5 DEF RestoreInv
<1>4. CASE ~ HasBlock(Current)
  <2>1. original' = IF Exists(Dest) THEN [text |-> Current] ELSE Gone BY <1>4 DEF Install
  <2>2. Gone \notin [text : Texts] BY ManagedAssumption DEF ManagedAssumption, Texts
  <2>3. original' = Gone \/ (original' \in [text : Texts] /\ ~ HasBlock(original'.text))
    BY <1>2, <1>4, <2>1
  <2>4. ASSUME kind = "completion" PROVE original' = Gone \/ Blank(original'.text)
    <3>1. ~ IsAStrangers(Current) BY <2>4 DEF Install
    <3>2. Blank(Current) BY <1>4, <3>1 DEF IsAStrangers, IsOurs, HasBlock
    <3> QED BY <2>1, <3>2
  <2>5. ASSUME kind # "completion" PROVE Current' = AppendBlock(Found', version)
    <3>1. CASE Exists(Dest)
      <4>1. Found' = Current
        <5>1. original' # Gone /\ original'.text = Current BY <1>2, <2>1, <2>2, <3>1
        <5> QED BY <5>1 DEF Found
      <4>2. Installed = Upsert(Current, version) BY <2>5, <3>1 DEF Installed
      <4> QED BY <1>1, <1>4, <4>1, <4>2 DEF Upsert
    <3>2. CASE ~ Exists(Dest)
      <4>1. original' = Gone BY <2>1, <3>2
      <4>2. Found' = IF kind = "hook" THEN <<"shebang", NL>> ELSE <<>>
        BY <1>1, <4>1 DEF Found
      <4>3. Installed = Upsert(Found', version) BY <1>2, <2>5, <3>2, <4>2 DEF Installed
      <4> QED BY <1>1, <4>2, <4>3, ShebangIsClean DEF Upsert
    <3> QED BY <3>1, <3>2
  <2> QED BY <1>1, <1>2, <2>3, <2>4, <2>5 DEF RestoreInv
<1> QED BY <1>3, <1>4

\* What uninstall makes of a text that install has appended its block to.
LEMMA UninstallUndoes ==
    ASSUME InstallType, RestoreInv, Uninstall, original # Altered
    PROVE  /\ FsType /\ Exists(Dest) /\ HasBlock(Current)
           /\ kind # "completion" =>
                 /\ RemoveBlock(Current) = Closed(Found)
                 /\ Found \in Texts /\ ~ HasBlock(Found)
                 /\ EmptyMeansOurs(RemoveBlock(Current)) <=> EmptyMeansOurs(Found)
           /\ IF kind = "completion" \/ EmptyMeansOurs(RemoveBlock(Current))
              THEN Current' = <<>> /\ (fs'[End(Dest)] # Gone => IsSymlink(Dest))
              ELSE Current' = Closed(Found)
<1>1. FsType /\ Exists(Dest) /\ HasBlock(Current) BY DEF Uninstall, InstallType
<1>2. ASSUME kind # "completion"
      PROVE  /\ RemoveBlock(Current) = Closed(Found)
             /\ Found \in Texts /\ ~ HasBlock(Found)
             /\ EmptyMeansOurs(RemoveBlock(Current)) <=> EmptyMeansOurs(Found)
  <2>1. Found \in Texts /\ ~ HasBlock(Found) BY <1>1, FoundIsClean
  <2>2. PICK v \in Versions : Current = AppendBlock(Found, v) BY <1>1, <1>2 DEF RestoreInv
  <2>3. RemoveBlock(Current) = Closed(Found) BY <2>1, <2>2, RemoveUndoes
  <2> QED BY <2>1, <2>3, ClosedIsAsEmpty
<1>3. CASE kind = "completion" \/ EmptyMeansOurs(RemoveBlock(Current))
  <2>1. RemoveFile(Dest) BY <1>3 DEF Uninstall
  <2> QED BY <1>1, <1>2, <1>3, <2>1, RemovedIsGone
<1>4. CASE ~ (kind = "completion" \/ EmptyMeansOurs(RemoveBlock(Current)))
  <2>1. WriteAll(Dest, RemoveBlock(Current)) /\ Readable(Dest)
    BY <1>1, <1>4 DEF Uninstall, Exists
  <2>2. PICK t \in Texts : t = Closed(Found) BY <1>2, <1>4, ClosedIsClean
  <2>3. WriteAll(Dest, t) BY <1>2, <1>4, <2>1, <2>2
  <2>4. Current' = t BY <1>1, <2>1, <2>3, WriteIsRead
  <2> QED BY <1>1, <1>2, <1>4, <2>2, <2>4
<1> QED BY <1>1, <1>2, <1>3, <1>4

\* Every step keeps it.
LEMMA RestoreStep ==
    InstallType /\ RepairInv /\ RestoreInv /\ [ManagedNext]_managedVars => RestoreInv'
<1> SUFFICES ASSUME InstallType, RepairInv, RestoreInv, [ManagedNext]_managedVars
             PROVE  RestoreInv'
  OBVIOUS
<1>k. ASSUME Current' = Current, UNCHANGED <<kind, original>> PROVE RestoreInv'
  <2>1. Found' = Found BY <1>k DEF Found
  <2> QED BY <1>k, <2>1 DEF RestoreInv
<1>1. CASE Install BY <1>1, RestoreInstall
<1>2. CASE MakeExecutable
  <2>1. fs' = [fs EXCEPT ![End(Dest)].exec = TRUE] /\ Exists(Dest) /\ FsType
    BY <1>2 DEF MakeExecutable, InstallType, RepairInv
  <2> QED BY <1>2, <1>k, <2>1, ModeIsSet DEF MakeExecutable
<1>3. CASE Die
  <2>1. UNCHANGED <<fs, kind, original>> BY <1>3 DEF Die
  <2> QED BY <1>k, <2>1, NothingWritten
<1>4. CASE Uninstall
  <2>1. UNCHANGED <<kind, original>> BY <1>4 DEF Uninstall
  <2> SUFFICES ASSUME original # Altered PROVE ~ HasBlock(Current')
    BY <2>1 DEF RestoreInv
  <2>2. Current' = <<>> \/ (kind # "completion" /\ Current' = Closed(Found))
    BY <1>4, UninstallUndoes
  <2>3. CASE Current' = <<>> BY <2>3, ShebangIsClean
  <2>4. CASE kind # "completion" /\ Current' = Closed(Found)
    BY <1>4, <2>4, UninstallUndoes, ClosedIsClean
  <2> QED BY <2>2, <2>3, <2>4
<1>5. CASE (\E w \in Words : InsertLine(w)) \/ DeleteLine
  BY <1>5 DEF InsertLine, DeleteLine, RestoreInv
<1>6. CASE LoseMode
  <2>1. fs' = [fs EXCEPT ![End(Dest)].exec = FALSE] /\ Exists(Dest) /\ FsType
    BY <1>6 DEF LoseMode, InstallType
  <2> QED BY <1>6, <1>k, <2>1, ModeIsSet DEF LoseMode
<1>7. CASE Upgrade
  <2>1. UNCHANGED <<fs, kind, original>> BY <1>7 DEF Upgrade
  <2> QED BY <1>k, <2>1, NothingWritten
<1>8. CASE UNCHANGED managedVars
  <2>1. UNCHANGED <<fs, kind, original>> BY <1>8 DEF managedVars
  <2> QED BY <1>k, <2>1, NothingWritten
<1> QED BY <1>1, <1>2, <1>3, <1>4, <1>5, <1>6, <1>7, <1>8 DEF ManagedNext

(***************************************************************************)
(* As long as the user has not touched it, uninstalling gives back what    *)
(* installing found, with a newline at its end, whatever text that was,    *)
(* and after any number of upgrades and installs over the block (upsert    *)
(* and remove of block.rs, remove_file of filigrio-install).               *)
(***************************************************************************)
THEOREM UninstallIsAnUndo == ManagedSpec => UninstallRestores
<1>1. ManagedInit => InstallType /\ RepairInv /\ RestoreInv
  BY RepairInit DEF ManagedInit, RestoreInv
<1>2. InstallType /\ RepairInv /\ RestoreInv /\ [ManagedNext]_managedVars
      => (InstallType /\ RepairInv /\ RestoreInv)'
  BY RepairStep, RestoreStep
<1> DEFINE Undone ==
      Uninstall /\ original # Altered =>
         IF original = Gone \/ (original # Gone /\ EmptyMeansOurs(original.text))
         THEN \A is \in {Current'} : Blank(is) /\ (fs'[End(Dest)] # Gone => IsSymlink(Dest))
         ELSE Current' = original.text \o (IF Last(original.text) = NL THEN <<>> ELSE <<NL>>)
<1>3. InstallType /\ RestoreInv => Undone
  <2> SUFFICES ASSUME InstallType, RestoreInv, Uninstall, original # Altered
               PROVE IF original = Gone \/ (original # Gone /\ EmptyMeansOurs(original.text))
         THEN Blank(Current') /\ (fs'[End(Dest)] # Gone => IsSymlink(Dest))
         ELSE Current' = original.text \o (IF Last(original.text) = NL THEN <<>> ELSE <<NL>>)
    OBVIOUS
  <2> DEFINE Empty == original = Gone \/ (original # Gone /\ EmptyMeansOurs(original.text))
             Ours == kind = "completion" \/ EmptyMeansOurs(RemoveBlock(Current))
  <2>1. Ours => Blank(Current') /\ (fs'[End(Dest)] # Gone => IsSymlink(Dest))
    BY UninstallUndoes, ShebangIsClean
  <2>2. Empty <=> Ours
    <3>1. CASE kind = "completion"
      <4>1. original = Gone \/ Blank(original.text) BY <3>1, UninstallUndoes DEF RestoreInv
      <4> QED BY <3>1, <4>1 DEF EmptyMeansOurs
    <3>2. CASE kind # "completion" /\ original = Gone
      <4>1. EmptyMeansOurs(Found) BY <3>2, ShebangIsClean DEF Found, EmptyMeansOurs
      <4> QED BY <3>2, <4>1, UninstallUndoes
    <3>3. CASE kind # "completion" /\ original # Gone
      <4>1. Found = original.text BY <3>3 DEF Found
      <4> QED BY <3>3, <4>1, UninstallUndoes
    <3> QED BY <3>1, <3>2, <3>3
  <2>3. ASSUME ~ Empty
        PROVE  Current' = original.text \o (IF Last(original.text) = NL THEN <<>> ELSE <<NL>>)
    <3>1. kind # "completion" /\ original # Gone /\ ~ EmptyMeansOurs(original.text) BY <2>2, <2>3
    <3>2. PICK t \in Texts : t = original.text /\ t = Found
      BY <3>1, UninstallUndoes DEF Found
    <3>3. Current' = Closed(t)
      <4>1. ~ Ours BY <2>2, <2>3
      <4> QED BY <3>2, <4>1, UninstallUndoes
    <3>4. t # <<>> BY <3>1, <3>2, ShebangIsClean DEF EmptyMeansOurs
    <3>5. Closed(t) = t \o (IF Last(t) = NL THEN <<>> ELSE <<NL>>)
      <4>1. t \o <<>> = t BY ConcatEmptySeq DEF Texts
      <4>2. Append(t, NL) = t \o <<NL>> BY TokensDiffer, AppendIsConcat DEF Texts
      <4> QED BY <3>4, <4>1, <4>2 DEF Closed
    <3> QED BY <3>2, <3>3, <3>5
  <2> HIDE DEF Ours
  <2> QED BY <2>1, <2>2, <2>3
<1>4. InstallType /\ RestoreInv /\ [ManagedNext]_managedVars => [Undone]_managedVars
  <2> HIDE DEF Undone
  <2> QED BY <1>3
<1> QED BY <1>1, <1>2, <1>4, PTL DEF ManagedSpec, UninstallRestores

-----------------------------------------------------------------------------
(* What the user wrote survives *)

\* The user's places are places, and there are finitely many.
LEMMA PlacesAreFinite ==
    ASSUME NEW c \in Texts, NEW i
    PROVE  /\ UserPlaces(c) \subseteq 1 .. Len(c) /\ Len(c) \in Nat
           /\ IsFiniteSet({j \in UserPlaces(c) : j < i})
<1>1. UserPlaces(c) \subseteq 1 .. Len(c) /\ Len(c) \in Nat
  BY LinesArePlaces DEF UserPlaces
<1> DEFINE U == 1 .. Len(c)
           V == {j \in UserPlaces(c) : j < i}
<1>2. IsFiniteSet(U) BY <1>1, FS_Interval
<1>3. V \subseteq U BY <1>1
<1> HIDE DEF U, V
<1>4. IsFiniteSet(V) BY <1>2, <1>3, FS_Subset
<1> QED BY <1>1, <1>4 DEF V

\* Two texts look the same to the user if his words are the same in the same
\* order, on lines of their own in both or in none.
LEMMA SameView ==
    ASSUME NEW c \in Texts, NEW d \in Texts,
           NEW f \in [UserPlaces(c) -> UserPlaces(d)],
           \A k \in UserPlaces(d) : \E i \in UserPlaces(c) : f[i] = k,
           \A i, j \in UserPlaces(c) : i < j => f[i] < f[j],
           \A i \in UserPlaces(c) :
              d[f[i]] = c[i] /\ (WholeLine(d, f[i]) <=> WholeLine(c, i))
    PROVE  UserView(d) = UserView(c)
<1> DEFINE Rank(x, i) == Cardinality({j \in UserPlaces(x) : j < i})
<1>0. UserPlaces(c) \subseteq Nat /\ UserPlaces(d) \subseteq Nat
  BY LinesArePlaces DEF UserPlaces
<1>1. ASSUME NEW i \in UserPlaces(c) PROVE Rank(d, f[i]) = Rank(c, i)
  <2> DEFINE S == {j \in UserPlaces(c) : j < i}
             T == {j \in UserPlaces(d) : j < f[i]}
             g == [j \in S |-> f[j]]
  <2>1. IsFiniteSet(S) BY PlacesAreFinite
  <2>2. g \in [S -> T] OBVIOUS
  <2>3. \A a, b \in S : f[a] = f[b] => a = b
    <3>1. \A a, b \in UserPlaces(c) : a < b \/ b < a \/ a = b BY <1>0
    <3>2. \A a \in UserPlaces(c) : f[a] \in Nat BY <1>0
    <3> QED BY <3>1, <3>2
  <2>4. \A t \in T : \E s \in S : f[s] = t
    <3> SUFFICES ASSUME NEW t \in T PROVE \E s \in S : f[s] = t OBVIOUS
    <3>1. PICK s \in UserPlaces(c) : f[s] = t OBVIOUS
    <3>2. s < i
      <4>1. s < i \/ i < s \/ s = i BY <1>0
      <4>2. f[s] \in Nat /\ f[i] \in Nat /\ f[s] < f[i] BY <1>0, <3>1
      <4>3. ~ (i < s) /\ s # i BY <4>2
      <4> QED BY <4>1, <4>3
    <3> QED BY <3>1, <3>2
  <2>5. g \in Bijection(S, T)
    <3>1. \A s \in S : g[s] = f[s] OBVIOUS
    <3>2. DOMAIN g = S OBVIOUS
    <3> HIDE DEF g, S, T
    <3> QED BY <2>2, <2>3, <2>4, <3>1, <3>2 DEF Bijection, Injection, Surjection, IsInjective
  <2> HIDE DEF g, S, T
  <2>6. ExistsBijection(S, T) BY <2>5 DEF ExistsBijection
  <2>7. Cardinality(T) = Cardinality(S) BY <2>1, <2>6, FS_Bijection
  <2> QED BY <2>7 DEF S, T
<1> DEFINE Seen(x, i) == <<Rank(x, i), x[i], WholeLine(x, i)>>
<1>2. ASSUME NEW i \in UserPlaces(c) PROVE Seen(d, f[i]) = Seen(c, i)
  <2>1. WholeLine(d, f[i]) = WholeLine(c, i) BY DEF WholeLine
  <2> QED BY <1>1, <2>1
<1>3. UserView(c) = {Seen(c, i) : i \in UserPlaces(c)} BY DEF UserView
<1>4. UserView(d) = {Seen(d, i) : i \in UserPlaces(d)} BY DEF UserView
<1> HIDE DEF Seen
<1>5. UserView(c) \subseteq UserView(d) BY <1>2, <1>3, <1>4
<1>6. UserView(d) \subseteq UserView(c)
  <2> SUFFICES ASSUME NEW k \in UserPlaces(d) PROVE Seen(d, k) \in UserView(c) BY <1>4
  <2>1. PICK i \in UserPlaces(c) : f[i] = k OBVIOUS
  <2> QED BY <1>2, <1>3, <2>1
<1> QED BY <1>5, <1>6

\* A text that ends a line, or is empty.
Complete(c) == c = <<>> \/ Last(c) = NL

\* What lies between two texts, of which the first is complete, can go if the user
\* wrote none of it, and if it is complete itself or the last.
LEMMA Gap ==
    ASSUME NEW p \in Texts, NEW m \in Texts, NEW q \in Texts,
           Complete(p), Complete(m) \/ q = <<>>, UserPlaces(m) = {}
    PROVE  UserView((p \o m) \o q) = UserView(p \o q)
<1> DEFINE c == (p \o m) \o q
           d == p \o q
           P == Len(p)
           M == Len(m)
           Q == Len(q)
<1>1. /\ c \in Texts /\ Len(c) = P + M + Q
      /\ P \in Nat /\ M \in Nat /\ Q \in Nat
      /\ DOMAIN c = 1 .. P + M + Q
      /\ \A i \in 1 .. P : c[i] = p[i]
      /\ \A i \in 1 .. M : c[P + i] = m[i]
      /\ \A i \in 1 .. Q : c[P + M + i] = q[i]
  BY ThreeParts
<1>2. /\ d \in Texts /\ Len(d) = P + Q
      /\ DOMAIN d = 1 .. P + Q
      /\ \A i \in 1 .. P : d[i] = p[i]
      /\ \A i \in 1 .. Q : d[P + i] = q[i]
  BY TwoParts
<1> HIDE DEF c, d
<1>3. P # 0 => p[P] = NL
  <2>1. P # 0 => p # <<>> BY EmptySeq
  <2> QED BY <2>1 DEF Complete, Last
<1>4. M # 0 /\ Q # 0 => m[M] = NL
  <2>1. M # 0 => m # <<>> BY EmptySeq
  <2>2. Q # 0 => q # <<>> BY EmptySeq
  <2> QED BY <2>1, <2>2 DEF Complete, Last
<1>5. \A i \in 1 .. M : m[i] \notin Words
  <2>1. DOMAIN m = 1 .. M BY LinesArePlaces
  <2> QED BY <2>1 DEF UserPlaces
<1>n. NL \notin Words BY ManagedAssumption DEF ManagedAssumption
<1> HIDE DEF P, M, Q
<1>6. ASSUME NEW i \in UserPlaces(c)
      PROVE  (i \in 1 .. P /\ p[i] \in Words)
             \/ (i - (P + M) \in 1 .. Q /\ q[i - (P + M)] \in Words)
  <2>1. i \in 1 .. P + M + Q /\ c[i] \in Words BY <1>1, <1>6 DEF UserPlaces
  <2>2. CASE i \in 1 .. P BY <1>1, <2>1, <2>2
  <2>3. CASE i \in P + 1 .. P + M
    <3>1. i - P \in 1 .. M /\ P + (i - P) = i BY <1>1, <2>3
    <3> QED BY <1>1, <1>5, <2>1, <3>1
  <2>4. CASE i \in P + M + 1 .. P + M + Q
    <3>1. i - (P + M) \in 1 .. Q /\ P + M + (i - (P + M)) = i BY <1>1, <2>4
    <3> QED BY <1>1, <2>1, <3>1
  <2> QED BY <1>1, <2>1, <2>2, <2>3, <2>4
<1> DEFINE g(i) == IF i \in 1 .. P THEN i ELSE i - M
           f == [i \in UserPlaces(c) |-> g(i)]
<1>7. ASSUME NEW i \in 1 .. P, p[i] \in Words
      PROVE  /\ i \in UserPlaces(d) /\ i \in UserPlaces(c)
             /\ d[i] = c[i] /\ (WholeLine(d, i) <=> WholeLine(c, i))
  <2>1. i # P BY <1>3, <1>7, <1>n
  <2>2. /\ i \in 1 .. P + Q /\ i \in 1 .. P + M + Q /\ i + 1 \in 1 .. P
        /\ (i # 1 => i - 1 \in 1 .. P) /\ i # P + Q /\ i # P + M + Q
    BY <1>1, <2>1
  <2>3. d[i + 1] = c[i + 1] /\ (i # 1 => d[i - 1] = c[i - 1]) BY <1>1, <1>2, <2>2
  <2> QED BY <1>1, <1>2, <1>7, <2>2, <2>3 DEF UserPlaces, WholeLine
<1>8. ASSUME NEW j \in 1 .. Q, q[j] \in Words
      PROVE  /\ P + j \in UserPlaces(d) /\ P + M + j \in UserPlaces(c)
             /\ d[P + j] = c[P + M + j]
             /\ WholeLine(d, P + j) <=> WholeLine(c, P + M + j)
  <2>1. P + j \in 1 .. P + Q /\ P + M + j \in 1 .. P + M + Q BY <1>1
  <2>2. d[P + j] = q[j] /\ c[P + M + j] = q[j] BY <1>1, <1>2
  <2>3. j # 1 => /\ P + j # 1 /\ P + M + j # 1
                 /\ d[(P + j) - 1] = q[j - 1] /\ c[(P + M + j) - 1] = q[j - 1]
    <3> SUFFICES ASSUME j # 1
                 PROVE /\ P + j # 1 /\ P + M + j # 1
                       /\ d[(P + j) - 1] = q[j - 1] /\ c[(P + M + j) - 1] = q[j - 1]
      OBVIOUS
    <3>1. /\ j - 1 \in 1 .. Q /\ (P + j) - 1 = P + (j - 1)
          /\ (P + M + j) - 1 = P + M + (j - 1) /\ P + j # 1 /\ P + M + j # 1
      BY <1>1
    <3> QED BY <1>1, <1>2, <3>1
  <2>4. j = 1 => P + j = 1 \/ d[(P + j) - 1] = NL
    <3> SUFFICES ASSUME j = 1, P # 0 PROVE d[(P + j) - 1] = NL BY <1>1
    <3>1. (P + j) - 1 = P /\ P \in 1 .. P BY <1>1
    <3> QED BY <1>2, <1>3, <3>1
  <2>5. j = 1 => P + M + j = 1 \/ c[(P + M + j) - 1] = NL
    <3> SUFFICES ASSUME j = 1, P + M # 0 PROVE c[(P + M + j) - 1] = NL BY <1>1
    <3>1. (P + M + j) - 1 = P + M /\ Q # 0 BY <1>1
    <3>2. CASE M # 0
      <4>1. M \in 1 .. M BY <1>1, <3>2
      <4> QED BY <1>1, <1>4, <3>1, <3>2, <4>1
    <3>3. CASE M = 0
      <4>1. P \in 1 .. P /\ P + M = P /\ P # 0 BY <1>1, <3>3
      <4> QED BY <1>1, <1>3, <3>1, <4>1
    <3> QED BY <3>2, <3>3
  <2>6. j # Q => /\ P + j # P + Q /\ P + M + j # P + M + Q
                 /\ d[(P + j) + 1] = q[j + 1] /\ c[(P + M + j) + 1] = q[j + 1]
    <3> SUFFICES ASSUME j # Q
                 PROVE /\ P + j # P + Q /\ P + M + j # P + M + Q
                       /\ d[(P + j) + 1] = q[j + 1] /\ c[(P + M + j) + 1] = q[j + 1]
      OBVIOUS
    <3>1. /\ j + 1 \in 1 .. Q /\ (P + j) + 1 = P + (j + 1)
          /\ (P + M + j) + 1 = P + M + (j + 1) /\ P + j # P + Q /\ P + M + j # P + M + Q
      BY <1>1
    <3> QED BY <1>1, <1>2, <3>1
  <2>7. WholeLine(d, P + j) <=> WholeLine(c, P + M + j)
    BY <1>1, <1>2, <2>3, <2>4, <2>5, <2>6 DEF WholeLine
  <2> QED BY <1>1, <1>2, <1>8, <2>1, <2>2, <2>7 DEF UserPlaces
<1>9. ASSUME NEW i \in UserPlaces(c)
      PROVE  /\ g(i) \in UserPlaces(d) /\ d[g(i)] = c[i]
             /\ WholeLine(d, g(i)) <=> WholeLine(c, i)
  <2>1. CASE i \in 1 .. P /\ p[i] \in Words BY <1>7, <2>1
  <2>2. CASE i - (P + M) \in 1 .. Q /\ q[i - (P + M)] \in Words
    <3> DEFINE j == i - (P + M)
    <3>1. i \in 1 .. P + M + Q BY <1>1 DEF UserPlaces
    <3>2. i \notin 1 .. P /\ P + M + j = i /\ i - M = P + j BY <1>1, <2>2, <3>1
    <3>3. j \in 1 .. Q /\ q[j] \in Words BY <2>2
    <3> HIDE DEF j
    <3> QED BY <1>8, <3>2, <3>3
  <2> QED BY <1>6, <2>1, <2>2
<1>10. f \in [UserPlaces(c) -> UserPlaces(d)] BY <1>9
<1>11. \A k \in UserPlaces(d) : \E i \in UserPlaces(c) : f[i] = k
  <2> SUFFICES ASSUME NEW k \in UserPlaces(d) PROVE \E i \in UserPlaces(c) : g(i) = k
    OBVIOUS
  <2>1. k \in 1 .. P + Q /\ d[k] \in Words BY <1>2 DEF UserPlaces
  <2>2. CASE k \in 1 .. P BY <1>2, <1>7, <2>1, <2>2
  <2>3. CASE k \in P + 1 .. P + Q
    <3>1. k - P \in 1 .. Q /\ P + (k - P) = k BY <1>1, <2>3
    <3>2. q[k - P] \in Words BY <1>2, <2>1, <3>1
    <3>3. P + M + (k - P) \in UserPlaces(c) BY <1>8, <3>1, <3>2
    <3>4. P + M + (k - P) \notin 1 .. P /\ (P + M + (k - P)) - M = k BY <1>1, <2>3
    <3> QED BY <3>3, <3>4
  <2> QED BY <1>1, <2>1, <2>2, <2>3
<1>12. \A i, j \in UserPlaces(c) : i < j => g(i) < g(j)
  <2> SUFFICES ASSUME NEW i \in UserPlaces(c), NEW j \in UserPlaces(c), i < j
               PROVE  g(i) < g(j)
    OBVIOUS
  <2>1. i \in 1 .. P \/ i \in P + M + 1 .. P + M + Q
    <3>1. i \in 1 .. P + M + Q BY <1>1 DEF UserPlaces
    <3> QED BY <1>1, <1>6, <3>1
  <2>2. j \in 1 .. P \/ j \in P + M + 1 .. P + M + Q
    <3>1. j \in 1 .. P + M + Q BY <1>1 DEF UserPlaces
    <3> QED BY <1>1, <1>6, <3>1
  <2> QED BY <1>1, <2>1, <2>2
<1> DEFINE F == f
<1>13. \A i \in UserPlaces(c) : F[i] = g(i) OBVIOUS
<1>14. F \in [UserPlaces(c) -> UserPlaces(d)] /\ \A k \in UserPlaces(d) : \E i \in UserPlaces(c) : F[i] = k
  BY <1>10, <1>11
<1> HIDE DEF F, g, f
<1>15. \A i, j \in UserPlaces(c) : i < j => F[i] < F[j] BY <1>12, <1>13
<1>16. \A i \in UserPlaces(c) : d[F[i]] = c[i] /\ (WholeLine(d, F[i]) <=> WholeLine(c, i))
  BY <1>9, <1>13
<1>17. UserView(d) = UserView(c) BY <1>1, <1>2, <1>14, <1>15, <1>16, SameView
<1> QED BY <1>17 DEF c, d

\* A newline at the end changes nothing for the user.
LEMMA ViewOfNewline ==
    ASSUME NEW c \in Texts
    PROVE  UserView(Append(c, NL)) = UserView(c)
<1> DEFINE d == Append(c, NL)
<1>1. d \in Texts /\ Len(d) = Len(c) + 1 /\ \A i \in 1 .. Len(c) : d[i] = c[i]
  BY NewlineAdded
<1>2. d[Len(c) + 1] = NL BY <1>1, NewlineAdded DEF Last
<1> HIDE DEF d
<1>3. Len(c) \in Nat /\ DOMAIN c = 1 .. Len(c) /\ DOMAIN d = 1 .. Len(c) + 1
  BY <1>1, LinesArePlaces
<1>n. NL \notin Words BY ManagedAssumption DEF ManagedAssumption
<1>4. ASSUME NEW i \in 1 .. Len(c)
      PROVE  WholeLine(d, i) <=> WholeLine(c, i)
  <2>1. i # 1 => d[i-1] = c[i-1] BY <1>1, <1>3
  <2>2. i # Len(c) => i # Len(d) /\ d[i+1] = c[i+1]
    <3>1. Len(c) \in Nat BY <1>3
    <3>2. i # Len(c) => i + 1 \in 1 .. Len(c) /\ i # Len(c) + 1 BY <3>1
    <3> QED BY <1>1, <3>2
  <2>3. i = Len(c) => d[i+1] = NL BY <1>2
  <2> QED BY <2>1, <2>2, <2>3 DEF WholeLine
<1>5. UserPlaces(d) = UserPlaces(c)
  <2>1. \A i \in 1 .. Len(c) + 1 : i \in 1 .. Len(c) \/ i = Len(c) + 1 BY <1>3
  <2>2. 1 .. Len(c) \subseteq 1 .. Len(c) + 1 BY <1>3
  <2> QED BY <1>1, <1>2, <1>3, <1>n, <2>1, <2>2 DEF UserPlaces
<1> DEFINE F == [i \in UserPlaces(c) |-> i]
<1>6. F \in [UserPlaces(c) -> UserPlaces(d)] BY <1>5
<1>7. \A i \in UserPlaces(c) : F[i] = i OBVIOUS
<1>8. UserPlaces(c) \subseteq 1 .. Len(c) BY <1>3 DEF UserPlaces
<1> HIDE DEF F
<1>9. /\ \A k \in UserPlaces(d) : \E i \in UserPlaces(c) : F[i] = k
      /\ \A i, j \in UserPlaces(c) : i < j => F[i] < F[j]
  BY <1>5, <1>7
<1>10. \A i \in UserPlaces(c) : d[F[i]] = c[i] /\ (WholeLine(d, F[i]) <=> WholeLine(c, i))
  BY <1>1, <1>4, <1>7, <1>8
<1>11. UserView(d) = UserView(c) BY <1>1, <1>6, <1>9, <1>10, SameView
<1> QED BY <1>11 DEF d

\* The lines of the second of two texts, of which the first is complete, are lines of
\* both; a start in the first is one of the first alone.
LEMMA ShiftedLines ==
    ASSUME NEW p \in Texts, NEW q \in Texts, Complete(p)
    PROVE  /\ \A w : \A j \in 1 .. Len(q) :
                 Len(p) + j \in LinesOf(p \o q, w) <=> j \in LinesOf(q, w)
           /\ \A i \in 1 .. Len(p) :
                 i \in LinesOf(p \o q, "start") => i \in LinesOf(p, "start")
<1> DEFINE d == p \o q
           P == Len(p)
           Q == Len(q)
<1>2. /\ d \in Texts /\ Len(d) = P + Q /\ P \in Nat /\ Q \in Nat
      /\ DOMAIN d = 1 .. P + Q
      /\ \A i \in 1 .. P : d[i] = p[i]
      /\ \A i \in 1 .. Q : d[P + i] = q[i]
  BY TwoParts
<1> HIDE DEF d
<1>3. P # 0 => p[P] = NL
  <2>1. P # 0 => p # <<>> BY EmptySeq
  <2> QED BY <2>1 DEF Complete, Last
<1>4. DOMAIN p = 1 .. P /\ DOMAIN q = 1 .. Q BY LinesArePlaces
<1>5. ASSUME NEW j \in 1 .. Q PROVE WholeLine(d, P + j) <=> WholeLine(q, j)
  <2>1. j # 1 => P + j # 1 /\ d[(P + j) - 1] = q[j - 1]
    <3> SUFFICES ASSUME j # 1 PROVE P + j # 1 /\ d[(P + j) - 1] = q[j - 1] OBVIOUS
    <3>1. j - 1 \in 1 .. Q /\ (P + j) - 1 = P + (j - 1) /\ P + j # 1 BY <1>2
    <3> QED BY <1>2, <3>1
  <2>2. j = 1 => P + j = 1 \/ d[(P + j) - 1] = NL
    <3> SUFFICES ASSUME j = 1, P # 0 PROVE d[(P + j) - 1] = NL BY <1>2
    <3>1. (P + j) - 1 = P /\ P \in 1 .. P BY <1>2
    <3> QED BY <1>2, <1>3, <3>1
  <2>3. j # Q => P + j # P + Q /\ d[(P + j) + 1] = q[j + 1]
    <3> SUFFICES ASSUME j # Q PROVE P + j # P + Q /\ d[(P + j) + 1] = q[j + 1] OBVIOUS
    <3>1. j + 1 \in 1 .. Q /\ (P + j) + 1 = P + (j + 1) /\ P + j # P + Q BY <1>2
    <3> QED BY <1>2, <3>1
  <2> QED BY <1>2, <2>1, <2>2, <2>3 DEF WholeLine
<1>6. ASSUME NEW w, NEW j \in 1 .. Q
      PROVE  P + j \in LinesOf(d, w) <=> j \in LinesOf(q, w)
  <2>1. P + j \in DOMAIN d /\ j \in DOMAIN q /\ d[P + j] = q[j] BY <1>2, <1>4
  <2> QED BY <1>5, <2>1 DEF LinesOf
<1>7. ASSUME NEW i \in 1 .. P, i \in LinesOf(d, "start") PROVE i \in LinesOf(p, "start")
  <2>1. d[i] = "start" /\ WholeLine(d, i) /\ p[i] = "start" /\ i \in DOMAIN p
    BY <1>2, <1>4, <1>7 DEF LinesOf
  <2>2. i # P BY <1>3, <2>1, TokensDiffer
  <2>3. i + 1 \in 1 .. P /\ (i # 1 => i - 1 \in 1 .. P) /\ i # P + Q BY <1>2, <2>2
  <2>4. p[i + 1] = NL /\ (i = 1 \/ p[i - 1] = NL) BY <1>2, <2>1, <2>3 DEF WholeLine
  <2> QED BY <2>1, <2>4 DEF LinesOf, WholeLine
<1> QED BY <1>6, <1>7 DEF d

\* Blocks that are intact are so in what follows a complete text ...
LEMMA RestIsIntact ==
    ASSUME NEW p \in Texts, NEW q \in Texts, Complete(p), Intact(p \o q)
    PROVE  Intact(q)
<1> DEFINE d == p \o q
           P == Len(p)
           Q == Len(q)
<1>2. /\ P \in Nat /\ Q \in Nat /\ DOMAIN d = 1 .. P + Q
      /\ \A i \in 1 .. Q : d[P + i] = q[i]
  BY TwoParts
<1>3. \A w : \A j \in 1 .. Q : P + j \in LinesOf(d, w) <=> j \in LinesOf(q, w)
  BY ShiftedLines
<1>4. Intact(d) OBVIOUS
<1>5. LinesOf(d, "end") \subseteq 1 .. P + Q /\ LinesOf(q, "start") \subseteq 1 .. Q
  BY <1>2, LinesArePlaces DEF LinesOf
<1> HIDE DEF d, P, Q
<1> SUFFICES ASSUME NEW s \in LinesOf(q, "start")
             PROVE  \E e \in LinesOf(q, "end") :
                       e > s /\ \A i \in s + 1 .. e - 1 : q[i] \notin Words \cup {"start"}
  BY DEF Intact
<1>6. s \in 1 .. Q /\ P + s \in LinesOf(d, "start") BY <1>3, <1>5
<1>7. PICK e \in LinesOf(d, "end") :
         e > P + s /\ \A i \in P + s + 1 .. e - 1 : d[i] \notin Words \cup {"start"}
  BY <1>4, <1>6 DEF Intact
<1>8. e - P \in 1 .. Q /\ P + (e - P) = e /\ e - P > s BY <1>2, <1>5, <1>6, <1>7
<1>9. e - P \in LinesOf(q, "end") BY <1>3, <1>7, <1>8
<1>10. ASSUME NEW i \in s + 1 .. (e - P) - 1 PROVE q[i] \notin Words \cup {"start"}
  <2>1. i \in 1 .. Q /\ P + i \in P + s + 1 .. e - 1 BY <1>2, <1>6, <1>8
  <2> QED BY <1>2, <1>7, <2>1
<1> QED BY <1>8, <1>9, <1>10

\* ... and stay so after a complete text without a block.
LEMMA StaysIntact ==
    ASSUME NEW p \in Texts, NEW q \in Texts, Complete(p), ~ HasBlock(p), Intact(q)
    PROVE  Intact(p \o q)
<1> DEFINE d == p \o q
           P == Len(p)
           Q == Len(q)
<1>2. /\ P \in Nat /\ Q \in Nat /\ DOMAIN d = 1 .. P + Q
      /\ \A i \in 1 .. Q : d[P + i] = q[i]
  BY TwoParts
<1>3. /\ \A w : \A j \in 1 .. Q : P + j \in LinesOf(d, w) <=> j \in LinesOf(q, w)
      /\ \A i \in 1 .. P : i \in LinesOf(d, "start") => i \in LinesOf(p, "start")
  BY ShiftedLines
<1>4. LinesOf(d, "start") \subseteq 1 .. P + Q BY <1>2 DEF LinesOf
<1>5. LinesOf(q, "end") \subseteq 1 .. Q BY LinesArePlaces
<1>s. SUFFICES Intact(d) OBVIOUS
<1> HIDE DEF d, P, Q
<1> SUFFICES ASSUME NEW s \in LinesOf(d, "start")
             PROVE  \E e \in LinesOf(d, "end") :
                       e > s /\ \A i \in s + 1 .. e - 1 : d[i] \notin Words \cup {"start"}
  BY DEF Intact
<1>6. s \notin 1 .. P BY <1>3 DEF HasBlock
<1>7. s - P \in 1 .. Q /\ P + (s - P) = s BY <1>2, <1>4, <1>6
<1>8. s - P \in LinesOf(q, "start") BY <1>3, <1>7
<1>9. PICK e \in LinesOf(q, "end") :
         e > s - P /\ \A i \in (s - P) + 1 .. e - 1 : q[i] \notin Words \cup {"start"}
  BY <1>8 DEF Intact
<1>10. e \in 1 .. Q /\ P + e > s BY <1>2, <1>5, <1>7, <1>9
<1>11. P + e \in LinesOf(d, "end") BY <1>3, <1>9, <1>10
<1>12. ASSUME NEW i \in s + 1 .. (P + e) - 1 PROVE d[i] \notin Words \cup {"start"}
  <2>1. i - P \in 1 .. Q /\ P + (i - P) = i /\ i - P \in (s - P) + 1 .. e - 1
    BY <1>2, <1>7, <1>10
  <2> QED BY <1>2, <1>9, <2>1
<1> QED BY <1>10, <1>11, <1>12

\* The words that a round of strip_all takes out.
FirstBlock(c) == SubSeq(c, From(c), Upto(c))

\* The first block of an intact text is none of the user's and complete, or the last.
LEMMA FirstBlockIsOurs ==
    ASSUME NEW c \in Texts, HasBlock(c), Intact(c)
    PROVE  /\ FirstBlock(c) \in Texts /\ UserPlaces(FirstBlock(c)) = {}
           /\ Complete(FirstBlock(c)) \/ Below(c) = <<>>
           /\ c = (Above(c) \o FirstBlock(c)) \o Below(c)
<1> DEFINE F == From(c)
           S == Stop(c)
           U == Upto(c)
           N == Len(c)
           r == FirstBlock(c)
<1>1. /\ F \in 1 .. N /\ c[F] = "start" /\ F \in LinesOf(c, "start") /\ N \in Nat
      /\ DOMAIN c = 1 .. N
  BY FromIsFirst, LinesArePlaces DEF LinesOf
<1>2. U \in F .. N BY StopIsBelow
<1>3. PICK e \in LinesOf(c, "end") :
         e > F /\ \A i \in F + 1 .. e - 1 : c[i] \notin Words \cup {"start"}
  BY <1>1 DEF Intact
<1> DEFINE ends == {i \in LinesOf(c, "end") : i > F}
<1>4. S \in ends /\ S <= e
  <2>1. e \in ends BY <1>3
  <2>2. S = Min(ends) BY <2>1 DEF Stop
  <2>3. ends \subseteq Nat BY LinesArePlaces
  <2> HIDE DEF ends, S
  <2> QED BY <2>1, <2>2, <2>3, MinIsLeast
<1>5. /\ S \in 1 .. N /\ S > F /\ c[S] = "end" /\ (S = N \/ c[S + 1] = NL) /\ e \in 1 .. N
  BY <1>1, <1>3, <1>4 DEF LinesOf, WholeLine
<1>6. U = IF S < N THEN S + 1 ELSE N BY DEF Upto
<1>7. Below(c) \in Texts /\ Len(Below(c)) = N - U BY AboveAndBelow
<1>8. /\ r \in Texts /\ Len(r) = U - F + 1
      /\ \A i \in 1 .. U - F + 1 : r[i] = c[F + i - 1]
  <2>1. F \in Nat /\ U \in Nat /\ F >= 1 /\ U <= N /\ F <= U BY <1>1, <1>2
  <2> QED BY <2>1, Piece DEF FirstBlock
<1>9. c = (Above(c) \o r) \o Below(c)
  <2>1. c \in Seq(Tokens) BY DEF Texts
  <2>2. SubSeq(c, 1, F - 1) \o SubSeq(c, F, U) = SubSeq(c, 1, U)
    <3>1. 1 \in 1 .. N + 1 /\ F - 1 \in 1 - 1 .. N /\ U \in F - 1 .. N /\ (F - 1) + 1 = F
      BY <1>1, <1>2
    <3> HIDE DEF F, U
    <3>2. SubSeq(c, 1, F - 1) \o SubSeq(c, (F - 1) + 1, U) = SubSeq(c, 1, U)
      BY <2>1, <3>1, ConcatAdjacentSubSeq
    <3> QED BY <3>1, <3>2
  <2>3. SubSeq(c, 1, U) \o SubSeq(c, U + 1, N) = SubSeq(c, 1, N)
    <3>1. 1 \in 1 .. N + 1 /\ U \in 1 - 1 .. N /\ N \in U .. N BY <1>1, <1>2
    <3> HIDE DEF U
    <3> QED BY <2>1, <3>1, ConcatAdjacentSubSeq
  <2>4. SubSeq(c, 1, N) = c BY <2>1, SubSeqFull
  <2> QED BY <2>2, <2>3, <2>4 DEF Above, Below, FirstBlock
<1>10. ASSUME NEW k \in F .. U PROVE c[k] \notin Words
  <2>1. k = F \/ k \in F + 1 .. e - 1 \/ k = S \/ (k = U /\ S < N /\ U = S + 1)
    <3> HIDE DEF F, S, U, N
    <3> QED BY <1>1, <1>2, <1>4, <1>5, <1>6
  <2>2. S < N => c[S + 1] = NL BY <1>5
  <2>3. "start" \notin Words /\ "end" \notin Words /\ NL \notin Words
    BY ManagedAssumption DEF ManagedAssumption
  <2> HIDE DEF F, S, U, N
  <2> QED BY <1>1, <1>3, <1>5, <2>1, <2>2, <2>3
<1>11. UserPlaces(r) = {}
  <2>1. DOMAIN r = 1 .. U - F + 1 BY <1>8, LinesArePlaces
  <2>2. ASSUME NEW i \in 1 .. U - F + 1 PROVE r[i] \notin Words
    <3>1. F + i - 1 \in F .. U
      <4> HIDE DEF F, U
      <4> QED BY <1>1, <1>2
    <3> QED BY <1>8, <1>10, <3>1
  <2> HIDE DEF r
  <2> QED BY <2>1, <2>2 DEF UserPlaces
<1>12. Complete(r) \/ Below(c) = <<>>
  <2>1. CASE S < N
    <3>1. U = S + 1 /\ c[U] = NL BY <1>5, <1>6, <2>1
    <3>2. U - F + 1 \in 1 .. U - F + 1 /\ F + (U - F + 1) - 1 = U
      <4> HIDE DEF F, U
      <4> QED BY <1>1, <1>2
    <3>3. r[Len(r)] = NL BY <1>8, <3>1, <3>2
    <3> QED BY <3>3 DEF Complete, Last
  <2>2. CASE ~ (S < N)
    <3>1. N - U = 0 BY <1>1, <1>6, <2>2
    <3>2. Below(c) \in Seq(Tokens) /\ Len(Below(c)) = 0 BY <1>7, <3>1 DEF Texts
    <3> QED BY <3>2, EmptySeq
  <2> QED BY <2>1, <2>2
<1> QED BY <1>8, <1>9, <1>11, <1>12

\* What follows a complete text decides whether both are complete.
LEMMA CompleteTogether ==
    ASSUME NEW p \in Texts, NEW q \in Texts, Complete(p), Complete(q)
    PROVE  Complete(p \o q)
<1>1. /\ p \o q \in Texts /\ Len(p \o q) = Len(p) + Len(q)
      /\ Len(p) \in Nat /\ Len(q) \in Nat
      /\ \A i \in 1 .. Len(q) : (p \o q)[Len(p) + i] = q[i]
  BY TwoParts
<1>2. CASE q = <<>>
  <2>1. p \o q = p BY <1>2, ConcatEmptySeq DEF Texts
  <2> QED BY <2>1
<1>3. CASE q # <<>>
  <2>1. Len(q) # 0 BY <1>3, EmptySeq DEF Texts
  <2>2. Len(q) \in 1 .. Len(q) BY <1>1, <2>1
  <2>3. q[Len(q)] = NL BY <1>3 DEF Complete, Last
  <2> DEFINE d == p \o q
  <2>4. d[Len(p) + Len(q)] = NL /\ Len(d) = Len(p) + Len(q) BY <1>1, <2>2, <2>3
  <2> HIDE DEF d
  <2>5. Last(d) = NL BY <2>4 DEF Last
  <2> QED BY <2>5 DEF Complete, d
<1> QED BY <1>2, <1>3

\* An empty text has no block that could be broken.
LEMMA EmptyIsIntact == <<>> \in Texts /\ Intact(<<>>) /\ Complete(<<>>)
<1>1. <<>> \in Texts /\ Len(<<>>) = 0 BY EmptySeq DEF Texts
<1> QED BY <1>1, EmptyHasNone DEF Intact, HasBlock, Complete

\* Texts that follow each other.
LEMMA Regrouped ==
    ASSUME NEW p \in Texts, NEW q \in Texts, NEW r \in Texts
    PROVE  (p \o q) \o r = p \o (q \o r)
BY ConcatAssociative DEF Texts

\* Taking out a block of an intact text, after a complete one.
LEMMA CutKeepsView ==
    ASSUME NEW a \in Texts, Complete(a), NEW x \in Texts, Intact(x)
    PROVE  /\ CutBlock(x) \in Texts /\ Intact(CutBlock(x))
           /\ UserView(a \o CutBlock(x)) = UserView(a \o x)
           /\ HasBlock(x) => Intact(Below(x))
<1>1. CASE ~ HasBlock(x) BY <1>1 DEF CutBlock
<1>2. CASE HasBlock(x)
  <2> DEFINE A == Above(x)
             R == FirstBlock(x)
             B == Below(x)
  <2>1. A \in Texts /\ B \in Texts BY <1>2, AboveAndBelow
  <2>2. ~ HasBlock(A) /\ Complete(A) BY <1>2, AboveIsClean DEF Complete
  <2>3. /\ R \in Texts /\ UserPlaces(R) = {} /\ (Complete(R) \/ B = <<>>)
        /\ x = (A \o R) \o B
    BY <1>2, FirstBlockIsOurs
  <2>4. CutBlock(x) = A \o B BY <1>2 DEF CutBlock
  <2> HIDE DEF A, B, R
  <2>5. A \o R \in Texts BY <2>1, <2>3, TwoParts
  <2>6. Intact(B)
    <3>1. CASE B = <<>> BY <3>1, EmptyIsIntact
    <3>2. CASE Complete(R)
      <4>1. Complete(A \o R) BY <2>1, <2>2, <2>3, <3>2, CompleteTogether
      <4> QED BY <2>1, <2>3, <2>5, <4>1, RestIsIntact
    <3> QED BY <2>3, <3>1, <3>2
  <2>7. Intact(A \o B) BY <2>1, <2>2, <2>6, StaysIntact
  <2>8. a \o A \in Texts /\ Complete(a \o A) BY <2>1, <2>2, TwoParts, CompleteTogether
  <2>9. UserView(((a \o A) \o R) \o B) = UserView((a \o A) \o B)
    BY <2>1, <2>3, <2>8, Gap
  <2>10. a \o x = ((a \o A) \o R) \o B
    <3>1. (a \o (A \o R)) \o B = a \o ((A \o R) \o B) BY <2>1, <2>5, Regrouped
    <3>2. (a \o A) \o R = a \o (A \o R) BY <2>1, <2>3, Regrouped
    <3> QED BY <2>3, <3>1, <3>2
  <2>11. (a \o A) \o B = a \o (A \o B) BY <2>1, Regrouped
  <2>12. A \o B \in Texts BY <2>1, TwoParts
  <2> QED BY <2>4, <2>6, <2>7, <2>9, <2>10, <2>11, <2>12 DEF B
<1> QED BY <1>1, <1>2

\* Taking out all of them.
LEMMA StripAllKeepsView ==
    ASSUME NEW a \in Texts, Complete(a), NEW b \in Texts, Intact(b)
    PROVE  UserView(a \o StripAll(b)) = UserView(a \o b)
<1> DEFINE P == {x \in Texts : Intact(x) /\ UserView(a \o x) = UserView(a \o b)}
<1>1. b \in P OBVIOUS
<1>2. P \subseteq Texts OBVIOUS
<1>3. \A x \in P : CutBlock(x) \in P BY CutKeepsView
<1>4. StripAll(b) \in P
  <2> HIDE DEF P
  <2> QED BY <1>1, <1>2, <1>3, StripAllKeeps
<1> QED BY <1>4

\* Our words are none of the user's.
LEMMA BlockIsOurs ==
    ASSUME NEW v \in Versions
    PROVE  UserPlaces(Block(v)) = {} /\ Complete(Block(v))
<1> DEFINE k == Block(v)
<1>1. /\ k \in Texts /\ Len(k) = 6 /\ k[1] = "start" /\ k[2] = NL /\ k[3] = v
      /\ k[4] = NL /\ k[5] = "end" /\ k[6] = NL
  BY BlockIsText
<1> HIDE DEF k
<1>2. DOMAIN k = 1 .. 6 BY <1>1, LinesArePlaces
<1>3. \A i \in 1 .. 6 : i \in {1, 2, 3, 4, 5, 6} OBVIOUS
<1>4. "start" \notin Words /\ "end" \notin Words /\ NL \notin Words /\ v \notin Words
  BY ManagedAssumption DEF ManagedAssumption
<1>5. UserPlaces(k) = {} BY <1>1, <1>2, <1>3, <1>4 DEF UserPlaces
<1>6. Complete(k) BY <1>1 DEF Complete, Last
<1> QED BY <1>5, <1>6 DEF k

\* upsert keeps what the user wrote.
LEMMA UpsertKeepsView ==
    ASSUME NEW c \in Texts, NEW v \in Versions, Intact(c)
    PROVE  UserView(Upsert(c, v)) = UserView(c)
<1>0. Block(v) \in Texts /\ UserPlaces(Block(v)) = {} /\ Complete(Block(v))
  BY BlockIsText, BlockIsOurs
<1>1. CASE HasBlock(c)
  <2> DEFINE A == Above(c)
             B == Below(c)
             T == StripAll(B)
  <2>1. A \in Texts /\ B \in Texts BY <1>1, AboveAndBelow
  <2>2. Complete(A) BY <1>1, AboveIsClean DEF Complete
  <2>3. T \in Texts BY <2>1, StripAllCleans
  <2>4. Upsert(c, v) = (A \o Block(v)) \o T BY <1>1 DEF Upsert
  <2>5. CutBlock(c) = A \o B BY <1>1 DEF CutBlock
  <2>6. Intact(B) /\ UserView(<<>> \o CutBlock(c)) = UserView(<<>> \o c)
    BY <1>1, EmptyIsIntact, CutKeepsView
  <2>7. UserView(A \o T) = UserView(A \o B) BY <2>1, <2>2, <2>6, StripAllKeepsView
  <2> HIDE DEF A, B, T
  <2>8. UserView((A \o Block(v)) \o T) = UserView(A \o T) BY <1>0, <2>1, <2>2, <2>3, Gap
  <2>9. <<>> \o c = c /\ <<>> \o CutBlock(c) = CutBlock(c)
    BY CutShortens, ConcatEmptySeq DEF Texts
  <2> QED BY <2>4, <2>5, <2>6, <2>7, <2>8, <2>9
<1>2. CASE ~ HasBlock(c)
  <2>1. Upsert(c, v) = (Base(c) \o Block(v)) \o <<>> BY <1>2, Appended DEF Upsert, Around
  <2>2. Base(c) \in Texts /\ Complete(Base(c)) BY BaseIsClean DEF Complete
  <2>3. UserView((Base(c) \o Block(v)) \o <<>>) = UserView(Base(c) \o <<>>)
    BY <1>0, <2>2, EmptyIsIntact, Gap
  <2>4. Base(c) \o <<>> = Base(c) BY <2>2, ConcatEmptySeq DEF Texts
  <2>5. UserView(Base(c)) = UserView(c)
    <3>1. CASE c = <<>> BY <3>1 DEF Base
    <3>2. CASE c # <<>>
      <4> DEFINE d == IF Last(c) = NL THEN c ELSE Append(c, NL)
      <4>1. d \in Texts /\ UserView(d) = UserView(c) BY NewlineAdded, ViewOfNewline
      <4>2. Base(c) = Append(d, NL) BY <3>2 DEF Base
      <4> HIDE DEF d
      <4> QED BY <4>1, <4>2, ViewOfNewline
    <3> QED BY <3>1, <3>2
  <2> QED BY <2>1, <2>3, <2>4, <2>5
<1> QED BY <1>1, <1>2

\* remove keeps what the user wrote, if the newline that goes was ours or nothing
\* follows.
LEMMA RemoveKeepsView ==
    ASSUME NEW c \in Texts, HasBlock(c), Intact(c), ~ Adjoining(c)
    PROVE  UserView(RemoveBlock(c)) = UserView(c)
<1> DEFINE A == Above(c)
           B == Below(c)
           T == StripAll(B)
           h == IF A # <<>> /\ Last(A) = NL THEN Front(A) ELSE A
<1>1. /\ A \in Texts /\ B \in Texts /\ Len(A) = From(c) - 1
      /\ \A i \in 1 .. From(c) - 1 : A[i] = c[i]
  BY AboveAndBelow
<1>2. Complete(A) BY AboveIsClean DEF Complete
<1>3. T \in Texts BY <1>1, StripAllCleans
<1>4. RemoveBlock(c) = h \o T BY DEF RemoveBlock
<1>5. UserView(A \o T) = UserView(c)
  <2>1. CutBlock(c) = A \o B BY DEF CutBlock
  <2>2. Intact(B) /\ UserView(<<>> \o CutBlock(c)) = UserView(<<>> \o c)
    BY EmptyIsIntact, CutKeepsView
  <2>3. UserView(A \o T) = UserView(A \o B) BY <1>1, <1>2, <2>2, StripAllKeepsView
  <2>4. <<>> \o c = c /\ <<>> \o CutBlock(c) = CutBlock(c)
    BY CutShortens, ConcatEmptySeq DEF Texts
  <2> HIDE DEF A, B, T
  <2> QED BY <2>1, <2>2, <2>3, <2>4
<1>6. From(c) \in Nat BY FromIsFirst, LinesArePlaces
<1>7. CASE A = <<>> BY <1>4, <1>5, <1>7
<1>8. CASE A # <<>>
  <2>1. Last(A) = NL BY <1>2, <1>8 DEF Complete
  <2>2. h = Front(A) BY <1>8, <2>1
  <2>3. Len(A) # 0 /\ Len(A) \in Nat BY <1>1, <1>8, EmptySeq, LinesArePlaces DEF Texts
  <2>4. T # <<>> => From(c) <= 2 \/ c[From(c) - 2] = NL
    <3>1. ~ (From(c) > 2) => From(c) <= 2 BY <1>6
    <3>2. ~ (From(c) > 2 /\ c[From(c) - 2] # NL /\ T # <<>>) BY DEF Adjoining
    <3> HIDE DEF T
    <3> QED BY <3>1, <3>2
  <2>5. h \in Texts /\ Len(h) = Len(A) - 1 /\ \A i \in 1 .. Len(A) - 1 : h[i] = A[i]
    <3>1. 1 \in Nat /\ Len(A) - 1 \in Nat /\ Len(A) - 1 <= Len(A) BY <2>3
    <3> DEFINE e == SubSeq(A, 1, Len(A) - 1)
    <3>2. /\ e \in Texts /\ Len(e) = IF 1 <= Len(A) - 1 THEN (Len(A) - 1) - 1 + 1 ELSE 0
          /\ \A i \in 1 .. (Len(A) - 1) - 1 + 1 : e[i] = A[1 + i - 1]
      BY <1>1, <3>1, Piece
    <3> HIDE DEF e, A
    <3>3. \A i \in 1 .. Len(A) - 1 : i \in 1 .. (Len(A) - 1) - 1 + 1 /\ 1 + i - 1 = i BY <2>3
    <3>4. Len(e) = Len(A) - 1
      <4>1. CASE 1 <= Len(A) - 1 BY <2>3, <3>2, <4>1
      <4>2. CASE ~ (1 <= Len(A) - 1)
        <5>1. Len(e) = 0 BY <3>2, <4>2
        <5>2. \A n \in Nat : n # 0 /\ ~ (1 <= n - 1) => n = 1 OBVIOUS
        <5>3. Len(A) = 1 BY <2>3, <4>2, <5>2, Zenon
        <5> QED BY <5>1, <5>3
      <4> QED BY <4>1, <4>2
    <3>6. \A i \in 1 .. Len(A) - 1 : e[i] = A[i]
      <4> TAKE i \in 1 .. Len(A) - 1
      <4>1. i \in 1 .. (Len(A) - 1) - 1 + 1 /\ 1 + i - 1 = i BY <3>3
      <4> QED BY <3>2, <4>1
    <3>5. h = e BY <2>2 DEF Front, e
    <3> HIDE DEF h
    <3> QED BY <3>2, <3>4, <3>5, <3>6
  <2> HIDE DEF h, T, B
  <2>6. A = Append(h, NL)
    <3> DEFINE d == Append(h, NL)
    <3>1. d \in Texts /\ Len(d) = Len(h) + 1 /\ \A i \in 1 .. Len(h) : d[i] = h[i]
      BY <2>5, NewlineAdded
    <3>2. d[Len(h) + 1] = NL BY <2>5, <3>1, NewlineAdded DEF Last
    <3> HIDE DEF d, A
    <3>3. Len(d) = Len(A) /\ A[Len(A)] = NL /\ d[Len(A)] = NL BY <2>1, <2>3, <2>5, <3>1, <3>2 DEF Last
    <3>4. \A i \in 1 .. Len(A) : i \in 1 .. Len(A) - 1 \/ i = Len(A) BY <2>3
    <3>5. \A i \in 1 .. Len(A) : d[i] = A[i] BY <2>5, <3>1, <3>3, <3>4
    <3>6. d = A BY <1>1, <3>1, <3>3, <3>5, SeqEqual DEF Texts
    <3> QED BY <3>6 DEF d
  <2>7. CASE T = <<>>
    <3>1. h \o T = h /\ A \o T = A BY <1>1, <2>5, <2>7, ConcatEmptySeq DEF Texts
    <3> HIDE DEF A
    <3>2. UserView(A) = UserView(h) BY <2>5, <2>6, ViewOfNewline
    <3> QED BY <1>4, <1>5, <3>1, <3>2
  <2>8. CASE T # <<>>
    <3>1. Complete(h)
      <4>1. CASE Len(A) = 1
        <5>1. Len(h) = 0 BY <2>5, <4>1
        <5> QED BY <2>5, <5>1, EmptySeq DEF Texts, Complete
      <4>2. CASE Len(A) # 1
        <5>1. /\ From(c) - 2 \in 1 .. From(c) - 1 /\ From(c) - 2 = Len(h)
              /\ Len(h) \in 1 .. Len(A) - 1 /\ ~ (From(c) <= 2)
          BY <1>1, <1>6, <2>3, <2>5, <4>2
        <5>2. c[Len(h)] = NL BY <2>4, <2>8, <5>1
        <5>3. h[Len(h)] = NL BY <1>1, <2>5, <5>1, <5>2
        <5> QED BY <5>3 DEF Complete, Last
      <4> QED BY <4>1, <4>2
    <3>2. <<NL>> \in Texts /\ Complete(<<NL>>) /\ UserPlaces(<<NL>>) = {}
      <4>1. <<NL>> \in Texts BY TokensDiffer DEF Texts
      <4>2. NL \notin Words BY ManagedAssumption DEF ManagedAssumption
      <4> QED BY <4>1, <4>2 DEF Complete, Last, UserPlaces
    <3>3. A = h \o <<NL>> BY <2>5, <2>6, TokensDiffer, AppendIsConcat DEF Texts
    <3>4. UserView((h \o <<NL>>) \o T) = UserView(h \o T) BY <1>3, <2>5, <3>1, <3>2, Gap
    <3> HIDE DEF A
    <3> QED BY <1>4, <1>5, <3>3, <3>4
  <2> QED BY <2>7, <2>8
<1> QED BY <1>7, <1>8

\* A text in which the user has nothing shows nothing of the user.
LEMMA NoUserNoView ==
    ASSUME NEW c \in Texts, UserPlaces(c) = {}
    PROVE  UserView(c) = {}
BY DEF UserView

\* A file that goes because nothing but ours is in it.
LEMMA OursIsNotTheUsers ==
    ASSUME NEW c \in Texts, EmptyMeansOurs(c)
    PROVE  UserView(c) = {}
<1>0. NL \notin Words /\ "shebang" \notin Words BY ManagedAssumption DEF ManagedAssumption
<1>1. DOMAIN c = 1 .. Len(c) BY LinesArePlaces
<1>2. CASE Blank(c)
  <2>1. \A i \in DOMAIN c : c[i] = NL BY <1>2 DEF Blank, ToSet
  <2> QED BY <1>0, <2>1, NoUserNoView DEF UserPlaces
<1>3. CASE OnlyWord(c, 1, Len(c), "shebang")
  <2>1. \A i \in DOMAIN c : c[i] = "shebang" \/ c[i] = NL BY <1>1, <1>3 DEF OnlyWord
  <2> QED BY <1>0, <2>1, NoUserNoView DEF UserPlaces
<1> QED BY <1>2, <1>3 DEF EmptyMeansOurs

\* install keeps what the user wrote.
LEMMA InstallKeepsView ==
    ASSUME InstallType, Install, kind # "completion", Intact(Current)
    PROVE  UserView(Current') = UserView(Current)
<1>1. PICK v \in Versions : v = version BY DEF InstallType
<1>2. PICK c \in Texts : c = Current BY ReadsAText DEF InstallType
<1>3. Current' = Installed BY InstallWrites
<1>4. CASE kind = "hook" /\ ~ Exists(Dest)
  <2> DEFINE s == <<"shebang", NL>>
  <2>1. s \in Texts /\ ~ HasBlock(s) /\ OnlyWord(s, 1, Len(s), "shebang") /\ Blank(<<>>)
        /\ <<>> \in Texts
    BY ShebangIsClean
  <2>2. Installed = Upsert(s, v) BY <1>1, <1>4 DEF Installed
  <2>3. Current = <<>> BY <1>4 DEF TextAt, Current
  <2> HIDE DEF s
  <2>4. Intact(s) BY <2>1 DEF Intact, HasBlock
  <2>5. UserView(Upsert(s, v)) = UserView(s) BY <2>1, <2>4, UpsertKeepsView
  <2>6. EmptyMeansOurs(s) BY <1>4, <2>1 DEF EmptyMeansOurs
  <2>7. EmptyMeansOurs(<<>>) BY <2>1 DEF EmptyMeansOurs
  <2>8. UserView(s) = {} /\ UserView(<<>>) = {} BY <2>1, <2>6, <2>7, OursIsNotTheUsers
  <2> QED BY <1>3, <2>2, <2>3, <2>5, <2>8
<1>5. CASE ~ (kind = "hook" /\ ~ Exists(Dest))
  <2>1. Installed = Upsert(c, v) BY <1>1, <1>2, <1>5 DEF Installed
  <2>2. UserView(Upsert(c, v)) = UserView(c) BY <1>2, UpsertKeepsView
  <2> QED BY <1>2, <1>3, <2>1, <2>2
<1> QED BY <1>4, <1>5

\* uninstall: what it writes, through which link.
LEMMA UninstallWrites ==
    ASSUME InstallType, Uninstall
    PROVE  /\ HasBlock(Current) /\ Current \in Texts
           /\ \A p \in Paths : IsSymlink(p) => fs'[p] = fs[p]
           /\ kind # "completion" =>
                IF EmptyMeansOurs(RemoveBlock(Current)) THEN Current' = <<>>
                ELSE Current' = RemoveBlock(Current)
<1>1. /\ Exists(Dest) /\ HasBlock(Current) /\ FsType /\ Current \in Texts
  BY ReadsAText DEF Uninstall, InstallType
<1>2. PICK t \in Texts : t = RemoveBlock(Current) BY <1>1, RemoveIsText
<1>3. CASE kind = "completion" \/ EmptyMeansOurs(RemoveBlock(Current))
  <2>1. RemoveFile(Dest) BY <1>3 DEF Uninstall
  <2>2. Current' = <<>> /\ \A p \in Paths : IsSymlink(p) => fs'[p] = fs[p]
    BY <1>1, <2>1, RemovedIsGone
  <2> QED BY <1>1, <1>3, <2>2
<1>4. CASE ~ (kind = "completion" \/ EmptyMeansOurs(RemoveBlock(Current)))
  <2>1. WriteAll(Dest, t) /\ Readable(Dest) BY <1>1, <1>2, <1>4 DEF Uninstall, Exists
  <2>2. Current' = t /\ \A p \in Paths : IsSymlink(p) => fs'[p] = fs[p]
    BY <1>1, <2>1, WriteIsRead
  <2> QED BY <1>1, <1>2, <1>4, <2>2
<1> QED BY <1>3, <1>4

\* uninstall keeps what the user wrote.
LEMMA UninstallKeepsView ==
    ASSUME InstallType, Uninstall, kind # "completion", Intact(Current), ~ Adjoining(Current)
    PROVE  UserView(Current') = UserView(Current)
<1>1. PICK c \in Texts : c = Current /\ HasBlock(c) BY UninstallWrites
<1>2. PICK t \in Texts : t = RemoveBlock(c) BY <1>1, RemoveIsText
<1>3. UserView(t) = UserView(c) BY <1>1, <1>2, RemoveKeepsView
<1>4. CASE EmptyMeansOurs(t)
  <2>1. Current' = <<>> BY <1>1, <1>2, <1>4, UninstallWrites
  <2>2. UserView(t) = {} BY <1>4, OursIsNotTheUsers
  <2>3. EmptyMeansOurs(<<>>) /\ <<>> \in Texts BY ShebangIsClean DEF EmptyMeansOurs
  <2>4. UserView(<<>>) = {} BY <2>3, OursIsNotTheUsers
  <2> QED BY <1>1, <1>3, <2>1, <2>2, <2>4
<1>5. CASE ~ EmptyMeansOurs(t)
  <2>1. Current' = t BY <1>1, <1>2, <1>5, UninstallWrites
  <2> QED BY <1>1, <1>3, <2>1
<1> QED BY <1>4, <1>5

(***************************************************************************)
(* What the user wrote around our blocks is there after an install and      *)
(* after an uninstall, in its order and each word with its line to itself   *)
(* if it had it, for a text of any length with any number of blocks in it,  *)
(* and no link is replaced (upsert, remove, strip_all of block.rs,          *)
(* write_all and remove_file of filigrio-install).                         *)
(***************************************************************************)
THEOREM UserLinesAreKept == ManagedSpec => UserLinesSurvive
<1> DEFINE Kept ==
      Install \/ Uninstall =>
         /\ \A p \in Paths : IsSymlink(p) => fs'[p] = fs[p]
         /\ \A was \in {Current}, is \in {Current'} :
              kind # "completion" /\ Intact(was) /\ ~ Adjoining(was) => UserView(is) = UserView(was)
<1>1. ManagedInit => InstallType /\ RepairInv BY RepairInit
<1>2. InstallType /\ RepairInv /\ [ManagedNext]_managedVars => (InstallType /\ RepairInv)'
  BY RepairStep
<1>3. InstallType => Kept
  <2>1. ASSUME InstallType, Install \/ Uninstall
        PROVE  \A p \in Paths : IsSymlink(p) => fs'[p] = fs[p]
    <3>1. CASE Install BY <2>1, <3>1, InstallWrites
    <3>2. CASE Uninstall BY <2>1, <3>2, UninstallWrites
    <3> QED BY <2>1, <3>1, <3>2
  <2>2. ASSUME InstallType, Install \/ Uninstall,
               kind # "completion", Intact(Current), ~ Adjoining(Current)
        PROVE  UserView(Current') = UserView(Current)
    <3>1. CASE Install BY <2>2, <3>1, InstallKeepsView
    <3>2. CASE Uninstall BY <2>2, <3>2, UninstallKeepsView
    <3> QED BY <2>2, <3>1, <3>2
  <2> QED BY <2>1, <2>2
<1> HIDE DEF Kept
<1>4. InstallType => [Kept]_managedVars BY <1>3
<1>5. ManagedSpec => [][Kept]_managedVars
  BY <1>1, <1>2, <1>4, PTL DEF ManagedSpec
<1> QED BY <1>5 DEF UserLinesSurvive, Kept
=============================================================================
