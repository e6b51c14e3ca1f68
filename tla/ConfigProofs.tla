---------------------------- MODULE ConfigProofs ----------------------------
(***************************************************************************)
(* Proofs about module Config: its verdict is right for every table and    *)
(* every file.  First where the parser cuts a line, and that this is what  *)
(* the line says; then numbers, compared digit by digit, and the check     *)
(* functions; then the lines of the file; last the invariant.              *)
(***************************************************************************)
EXTENDS ConfigFile, FiniteSetTheorems, SequenceTheorems, TLAPS

\* A set of numbers that is not empty has a least one.
LEMMA LeastNat ==
    ASSUME NEW S, S \subseteq Nat, S # {}
    PROVE  \E m \in S : \A k \in S : m <= k
<1>1. PICK m \in S : \A k \in S : ~(<<k, m>> \in OpToRel(<, Nat))
  BY NatLessThanWellFounded, WFMin
<1>2. \A k \in Nat : k < m => <<k, m>> \in OpToRel(<, Nat)
  BY DEF OpToRel
<1> QED
  <2> SUFFICES ASSUME NEW k \in S PROVE m <= k
    OBVIOUS
  <2>1. m \in Nat /\ k \in Nat /\ ~(k < m)
    BY <1>1, <1>2
  <2> QED
    BY <2>1

-----------------------------------------------------------------------------
(* Words                                                                   *)

\* The provers do not know that a literal is in STRING: the ones that texts
\* are built from are named here.
Symbol == STRING \cup {Digits[d] : d \in DOMAIN Digits} \cup {"."}

Text == Seq(Symbol)

\* e is where the part of s from i on without a symbol of S ends, s counting
\* up to j.
Cut(s, i, j, S, e) ==
    /\ e \in i .. j
    /\ \A m \in i + 1 .. e : s[m] \notin S
    /\ e < j => s[e + 1] \in S

\* The subsequence after i, up to j
LEMMA PartIs ==
    ASSUME NEW s \in Text, NEW i \in 0 .. Len(s), NEW j \in i .. Len(s)
    PROVE  /\ SubSeq(s, i + 1, j) \in Text
           /\ Len(SubSeq(s, i + 1, j)) = j - i
           /\ \A m \in 1 .. j - i : SubSeq(s, i + 1, j)[m] = s[i + m]
<1>1. /\ i \in Int /\ j \in Int /\ Len(s) \in Nat /\ 0 <= i /\ i <= j /\ j <= Len(s)
      /\ \A m \in 1 .. Len(s) : s[m] \in Symbol
  BY LenProperties DEF Text
<1>2. \A m \in i + 1 .. j : m \in 1 .. Len(s)
  BY <1>1
<1> QED
  BY <1>1, <1>2, SubSeqProperties DEF Text

\* The parts of this subsequence
LEMMA PartOf ==
    ASSUME NEW s \in Text, NEW i \in 0 .. Len(s), NEW j \in i .. Len(s)
    PROVE  /\ SubSeq(s, i + 1, j) \in Text
           /\ Len(SubSeq(s, i + 1, j)) = j - i
           /\ \A m \in 1 .. j - i : SubSeq(s, i + 1, j)[m] = s[i + m]
           /\ \A e \in i .. j : /\ SubSeq(SubSeq(s, i + 1, j), 1, e - i) = SubSeq(s, i + 1, e)
                                /\ SubSeq(SubSeq(s, i + 1, j), e - i + 1, j - i) = SubSeq(s, e + 1, j)
<1> DEFINE t == SubSeq(s, i + 1, j)
<1>1. i \in Int /\ j \in Int /\ Len(s) \in Nat /\ 0 <= i /\ i <= j /\ j <= Len(s)
  BY LenProperties DEF Text
<1>2. /\ t \in Text
      /\ Len(t) = j - i
      /\ \A m \in 1 .. j - i : t[m] = s[i + m]
  BY PartIs
<1> HIDE DEF t
<1>3. ASSUME NEW a \in 0 .. Len(t), NEW b \in a .. Len(t), NEW x \in Int, NEW y \in Int, x = i + a, y = i + b
      PROVE  SubSeq(t, a + 1, b) = SubSeq(s, x + 1, y)
  <2> DEFINE u == SubSeq(t, a + 1, b)
             v == SubSeq(s, x + 1, y)
  <2>1. x \in 0 .. Len(s) /\ y \in x .. Len(s) /\ y - x = b - a
    BY <1>1, <1>2, <1>3
  <2>2. u \in Text /\ Len(u) = b - a /\ \A m \in 1 .. b - a : u[m] = t[a + m]
    BY <1>2, PartIs
  <2>3. v \in Text /\ Len(v) = b - a /\ \A m \in 1 .. b - a : v[m] = s[x + m]
    BY <2>1, PartIs
  <2>4. \A m \in 1 .. b - a : a + m \in 1 .. j - i /\ i + (a + m) = x + m
    BY <1>1, <1>2, <1>3
  <2> HIDE DEF u, v
  <2>5. \A m \in 1 .. Len(u) : u[m] = v[m]
    BY <1>2, <2>2, <2>3, <2>4
  <2>6. u = v
    BY <2>2, <2>3, <2>5, SeqEqual DEF Text
  <2> QED
    BY <2>6 DEF u, v
<1>4. ASSUME NEW e \in i .. j
      PROVE  /\ SubSeq(t, 1, e - i) = SubSeq(s, i + 1, e)
             /\ SubSeq(t, e - i + 1, j - i) = SubSeq(s, e + 1, j)
  <2>1. PICK a \in Int, b \in Int : a = e - i /\ b = j - i
    BY <1>1
  <2>2. /\ 0 \in 0 .. Len(t) /\ a \in 0 .. Len(t) /\ b \in a .. Len(t)
        /\ i \in Int /\ e \in Int /\ j \in Int /\ i = i + 0 /\ e = i + a /\ j = i + b
    BY <1>1, <1>2, <2>1
  <2>3. SubSeq(t, 0 + 1, a) = SubSeq(s, i + 1, e)
    BY <1>3, <2>2
  <2>4. SubSeq(t, a + 1, b) = SubSeq(s, e + 1, j)
    BY <1>3, <2>2
  <2> QED
    BY <2>1, <2>3, <2>4
<1> QED
  BY <1>2, <1>4 DEF t

\* Until stops where the first of the stops is.
LEMMA UntilIs ==
    ASSUME NEW s \in Text, NEW stops, stops \subseteq 1 .. Len(s)
    PROVE  \E e \in 0 .. Len(s) : /\ Until(s, stops) = SubSeq(s, 1, e)
                                  /\ \A m \in 1 .. e : m \notin stops
                                  /\ e < Len(s) => e + 1 \in stops
<1>1. Len(s) \in Nat
  BY LenProperties DEF Text
<1>2. CASE stops = {}
  BY <1>1, <1>2 DEF Until
<1>3. CASE stops # {}
  <2>1. stops \subseteq Nat
    BY <1>1
  <2>2. \E i \in stops : \A j \in stops : i <= j
    BY <1>3, <2>1, LeastNat
  <2> DEFINE first == CHOOSE i \in stops : \A j \in stops : i <= j
  <2>3. first \in stops /\ \A j \in stops : first <= j
    BY <2>2
  <2>4. Until(s, stops) = SubSeq(s, 1, first - 1)
    BY <1>3 DEF Until
  <2> HIDE DEF first
  <2>5. first - 1 \in 0 .. Len(s) /\ (first - 1) + 1 = first /\ \A m \in 1 .. first - 1 : ~(first <= m)
    BY <1>1, <2>3
  <2> QED
    BY <2>3, <2>4, <2>5
<1> QED
  BY <1>2, <1>3

\* What Word and After are of the symbols after i, up to j
LEMMA WordIs ==
    ASSUME NEW s \in Text, NEW i \in 0 .. Len(s), NEW j \in i .. Len(s), NEW S
    PROVE  \E e : /\ Cut(s, i, j, S, e)
                  /\ Word(SubSeq(s, i + 1, j), S) = SubSeq(s, i + 1, e)
                  /\ After(SubSeq(s, i + 1, j), SubSeq(s, i + 1, e)) = SubSeq(s, e + 1, j)
<1> DEFINE t == SubSeq(s, i + 1, j)
<1>1. i \in Int /\ j \in Int /\ Len(s) \in Nat /\ 0 <= i /\ i <= j /\ j <= Len(s)
  BY LenProperties DEF Text
<1>2. /\ t \in Text /\ Len(t) = j - i
      /\ \A m \in 1 .. j - i : t[m] = s[i + m]
      /\ \A e \in i .. j : SubSeq(t, 1, e - i) = SubSeq(s, i + 1, e) /\ SubSeq(t, e - i + 1, j - i) = SubSeq(s, e + 1, j)
  BY PartOf
<1>3. DOMAIN t = 1 .. j - i
  BY <1>2, LenProperties DEF Text
<1> DEFINE stops == {m \in DOMAIN t : t[m] \in S}
<1>4. Word(t, S) = Until(t, stops)
  BY DEF Word
<1>5. stops \subseteq 1 .. Len(t)
  BY <1>2, <1>3
<1> HIDE DEF t
<1>6. PICK d \in 0 .. Len(t) : /\ Until(t, stops) = SubSeq(t, 1, d)
                               /\ \A m \in 1 .. d : m \notin stops
                               /\ d < Len(t) => d + 1 \in stops
  BY <1>2, <1>5, UntilIs
<1> DEFINE e == i + d
<1>7. d \in Int /\ 0 <= d /\ d <= j - i /\ e \in i .. j /\ e - i = d
  BY <1>1, <1>2, <1>6
<1>8. /\ SubSeq(t, 1, d) = SubSeq(s, i + 1, e) /\ SubSeq(t, d + 1, j - i) = SubSeq(s, e + 1, j)
  BY <1>2, <1>7
<1>9. ASSUME NEW m \in i + 1 .. e PROVE s[m] \notin S
  <2>1. m - i \in 1 .. d /\ m - i \in DOMAIN t /\ i + (m - i) = m
    BY <1>1, <1>3, <1>7
  <2> QED
    BY <1>2, <1>3, <1>6, <2>1
<1>10. ASSUME e < j PROVE s[e + 1] \in S
  <2>1. d < Len(t) /\ d + 1 \in 1 .. j - i /\ i + (d + 1) = e + 1
    BY <1>1, <1>2, <1>7, <1>10
  <2> QED
    BY <1>2, <1>6, <2>1
<1>11. After(t, SubSeq(s, i + 1, e)) = SubSeq(s, e + 1, j)
  <2>1. Len(SubSeq(s, i + 1, e)) = d
    <3>1. e \in i .. Len(s)
      BY <1>1, <1>7
    <3> QED
      BY <1>7, <3>1, PartOf
  <2> QED
    BY <1>2, <1>8, <2>1 DEF After
<1> QED
  BY <1>4, <1>6, <1>7, <1>8, <1>9, <1>10, <1>11 DEF Cut, t

\* A cut is where it is.
LEMMA CutOnce ==
    ASSUME NEW s, NEW i \in Nat, NEW j \in Nat, NEW S, NEW d, NEW e, Cut(s, i, j, S, d), Cut(s, i, j, S, e)
    PROVE  d = e
<1>1. d \in i .. j /\ e \in i .. j /\ d \in Int /\ e \in Int
  BY DEF Cut
<1>2. ~(d < e)
  <2>1. SUFFICES ASSUME d < e PROVE FALSE
    OBVIOUS
  <2>2. d + 1 \in i + 1 .. e /\ d < j
    BY <1>1, <2>1
  <2> QED
    BY <2>2 DEF Cut
<1>3. ~(e < d)
  <2>1. SUFFICES ASSUME e < d PROVE FALSE
    OBVIOUS
  <2>2. e + 1 \in i + 1 .. d /\ e < j
    BY <1>1, <2>1
  <2> QED
    BY <2>2 DEF Cut
<1> QED
  BY <1>1, <1>2, <1>3

\* What Skip is of the symbols after i, up to j
LEMMA SkipIs ==
    ASSUME NEW s \in Text, NEW i \in 0 .. Len(s), NEW j \in i .. Len(s), NEW S
    PROVE  \E e : /\ Cut(s, i, j, Symbol \ S, e)
                  /\ Skip(SubSeq(s, i + 1, j), S) = SubSeq(s, e + 1, j)
<1> DEFINE t == SubSeq(s, i + 1, j)
           T == Symbol \ S
<1>1. t \in Text
  BY PartOf
<1>2. \A m \in DOMAIN t : t[m] \in Symbol
  BY <1>1, LenProperties DEF Text
<1>3. PICK e : /\ Cut(s, i, j, T, e)
               /\ Word(t, T) = SubSeq(s, i + 1, e)
               /\ After(t, SubSeq(s, i + 1, e)) = SubSeq(s, e + 1, j)
  BY WordIs
<1> HIDE DEF t
<1>4. {m \in DOMAIN t : t[m] \in T} = {m \in DOMAIN t : t[m] \notin S}
  BY <1>2
<1>5. Skip(t, S) = After(t, Word(t, T))
  BY <1>4 DEF Skip, Word
<1> QED
  BY <1>3, <1>5 DEF t

-----------------------------------------------------------------------------
(* Lines                                                                   *)

\* The line counts up to p, its key is after a and up to b, its value after c
\* and up to d.
Laid(line, p, a, b, c, d) ==
    /\ Cut(line, 0, Len(line), Symbol \ White, a)
    /\ Cut(line, a, Len(line), {"#"}, p)
    /\ Cut(line, a, p, White, b)
    /\ Cut(line, b, p, Symbol \ Delims, c)
    /\ Cut(line, c, p, Delims, d)

\* The parser takes a line apart in this way.
LEMMA LineIs ==
    ASSUME NEW line \in Text
    PROVE  \E p, a, b, c, d :
              /\ Laid(line, p, a, b, c, d)
              /\ Content(line) = SubSeq(line, a + 1, p)
              /\ Key(line) = SubSeq(line, a + 1, b)
              /\ Val(line) = SubSeq(line, c + 1, d)
<1> DEFINE n == Len(line)
<1>1. n \in Nat /\ 0 \in 0 .. n /\ n \in 0 .. n /\ SubSeq(line, 0 + 1, n) = line
  BY LenProperties, SubSeqFull DEF Text
<1> HIDE DEF n
<1>2. PICK a : /\ Cut(line, 0, n, Symbol \ White, a)
               /\ Skip(line, White) = SubSeq(line, a + 1, n)
  <2>1. \E a : /\ Cut(line, 0, n, Symbol \ White, a)
               /\ Skip(SubSeq(line, 0 + 1, n), White) = SubSeq(line, a + 1, n)
    BY <1>1, SkipIs DEF n
  <2> QED
    BY <1>1, <2>1
<1>3. a \in 0 .. n /\ n \in a .. n
  BY <1>1, <1>2 DEF Cut
<1>4. PICK p : /\ Cut(line, a, n, {"#"}, p)
               /\ Word(SubSeq(line, a + 1, n), {"#"}) = SubSeq(line, a + 1, p)
  BY <1>3, WordIs DEF n
<1>5. p \in a .. n
  BY <1>4 DEF Cut
<1>6. PICK b : /\ Cut(line, a, p, White, b)
               /\ Word(SubSeq(line, a + 1, p), White) = SubSeq(line, a + 1, b)
               /\ After(SubSeq(line, a + 1, p), SubSeq(line, a + 1, b)) = SubSeq(line, b + 1, p)
  BY <1>3, <1>5, WordIs DEF n
<1>7. b \in 0 .. n /\ p \in b .. n
  <2>1. b \in a .. p
    BY <1>6 DEF Cut
  <2> QED
    BY <1>1, <1>3, <1>5, <2>1
<1>8. PICK c : /\ Cut(line, b, p, Symbol \ Delims, c)
               /\ Skip(SubSeq(line, b + 1, p), Delims) = SubSeq(line, c + 1, p)
  BY <1>7, SkipIs DEF n
<1>9. c \in 0 .. n /\ p \in c .. n
  <2>1. c \in b .. p
    BY <1>8 DEF Cut
  <2> QED
    BY <1>1, <1>7, <2>1
<1>10. PICK d : /\ Cut(line, c, p, Delims, d)
                /\ Word(SubSeq(line, c + 1, p), Delims) = SubSeq(line, c + 1, d)
  BY <1>9, WordIs DEF n
<1>11. Laid(line, p, a, b, c, d)
  BY <1>2, <1>4, <1>6, <1>8, <1>10 DEF Laid, n
<1>12. Content(line) = SubSeq(line, a + 1, p)
  BY <1>2, <1>4 DEF Content
<1>13. Key(line) = SubSeq(line, a + 1, b)
  BY <1>6, <1>12 DEF Key
<1>14. Val(line) = SubSeq(line, c + 1, d)
  BY <1>6, <1>8, <1>10, <1>12, <1>13 DEF Val
<1> QED
  BY <1>11, <1>12, <1>13, <1>14

\* The places of a line, in their order
LEMMA LaidOrder ==
    ASSUME NEW line \in Text, NEW p, NEW a, NEW b, NEW c, NEW d, Laid(line, p, a, b, c, d)
    PROVE  /\ Len(line) \in Nat /\ a \in Nat /\ b \in Nat /\ c \in Nat /\ d \in Nat /\ p \in Nat
           /\ a <= b /\ b <= c /\ c <= d /\ d <= p /\ p <= Len(line)
           /\ Plain(line) = 1 .. p
<1>1. /\ Len(line) \in Nat /\ DOMAIN line = 1 .. Len(line)
      /\ \A m \in 1 .. Len(line) : line[m] \in Symbol
  BY LenProperties DEF Text
<1>2. a \in 0 .. Len(line) /\ p \in a .. Len(line) /\ b \in a .. p /\ c \in b .. p /\ d \in c .. p
  BY DEF Laid, Cut
<1>3. /\ a \in Nat /\ b \in Nat /\ c \in Nat /\ d \in Nat /\ p \in Nat
      /\ a <= b /\ b <= c /\ c <= d /\ d <= p /\ p <= Len(line)
  BY <1>1, <1>2
<1>4. \A m \in 1 .. p : line[m] # "#"
  <2> SUFFICES ASSUME NEW m \in 1 .. p PROVE line[m] # "#"
    OBVIOUS
  <2>1. CASE m <= a
    <3>1. m \in 0 + 1 .. a /\ m \in 1 .. Len(line)
      BY <1>1, <1>3, <2>1
    <3>2. line[m] \in White
      BY <1>1, <3>1 DEF Laid, Cut
    <3> QED
      BY <3>2 DEF White
  <2>2. CASE ~(m <= a)
    <3>1. m \in a + 1 .. p
      BY <1>1, <1>3, <2>2
    <3> QED
      BY <3>1 DEF Laid, Cut
  <2> QED
    BY <2>1, <2>2
<1>5. Plain(line) = 1 .. p
  <2>1. ASSUME NEW m \in Plain(line) PROVE m \in 1 .. p
    <3>1. m \in 1 .. Len(line) /\ \A j \in 1 .. m : line[j] # "#"
      BY <1>1 DEF Plain
    <3>2. SUFFICES ASSUME ~(m <= p) PROVE FALSE
      BY <1>1, <1>3, <3>1
    <3>3. p < Len(line) /\ p + 1 \in 1 .. m
      BY <1>1, <1>3, <3>1, <3>2
    <3> QED
      BY <3>1, <3>3 DEF Laid, Cut
  <2>2. ASSUME NEW m \in 1 .. p PROVE m \in Plain(line)
    <3>1. m \in 1 .. Len(line) /\ \A j \in 1 .. m : j \in 1 .. p
      BY <1>1, <1>3
    <3> QED
      BY <1>1, <1>4, <3>1 DEF Plain
  <2> QED
    BY <2>1, <2>2
<1> QED
  BY <1>1, <1>3, <1>5

\* Nothing counts on a line that is idle.
LEMMA IdleIs ==
    ASSUME NEW line \in Text
    PROVE  Idle(line) <=> Content(line) = <<>>
<1>1. PICK p, a, b, c, d : /\ Laid(line, p, a, b, c, d)
                           /\ Content(line) = SubSeq(line, a + 1, p)
  BY LineIs
<1>2. /\ Len(line) \in Nat /\ a \in Nat /\ p \in Nat /\ a <= p /\ p <= Len(line)
      /\ Plain(line) = 1 .. p
  BY <1>1, LaidOrder
<1>3. Len(Content(line)) = p - a
  <2>1. a \in 0 .. Len(line) /\ p \in a .. Len(line)
    BY <1>2
  <2> QED
    BY <1>1, <2>1, PartOf
<1>4. CASE a = p
  <2>1. Content(line) = <<>>
    BY <1>1, <1>2, <1>4, SubSeqEmpty
  <2>2. ASSUME NEW i \in Plain(line) PROVE line[i] \in White
    <3>1. i \in 0 + 1 .. a /\ i \in 1 .. Len(line)
      BY <1>2, <1>4
    <3>2. line[i] \in Symbol
      BY <3>1, LenProperties DEF Text
    <3> QED
      BY <1>1, <3>1, <3>2 DEF Laid, Cut
  <2> QED
    BY <2>1, <2>2 DEF Idle
<1>5. CASE a # p
  <2>1. a < Len(line) /\ a + 1 \in Plain(line)
    BY <1>2, <1>5
  <2>2. line[a + 1] \notin White
    BY <1>1, <2>1 DEF Laid, Cut
  <2>3. Content(line) # <<>>
    <3>1. p - a # 0
      BY <1>2, <1>5
    <3> QED
      BY <1>3, <3>1
  <2> QED
    BY <2>1, <2>2, <2>3 DEF Idle
<1> QED
  BY <1>4, <1>5

\* The parts of a line, by their ends
LEMMA PartsAre ==
    ASSUME NEW line
    PROVE  /\ \A text \in Parts(line) : \E m \in DOMAIN line, n \in DOMAIN line : text = SubSeq(line, m, n)
           /\ \A m \in DOMAIN line, n \in DOMAIN line : SubSeq(line, m, n) \in Parts(line)
<1> DEFINE S == DOMAIN line
<1>1. Parts(line) = {SubSeq(line, e[1], e[2]) : e \in S \X S}
  BY DEF Parts
<1> HIDE DEF S
<1>2. ASSUME NEW text \in Parts(line) PROVE \E m \in S, n \in S : text = SubSeq(line, m, n)
  <2>1. PICK e \in S \X S : text = SubSeq(line, e[1], e[2])
    BY <1>1, Zenon
  <2>2. e[1] \in S /\ e[2] \in S
    BY <2>1
  <2> QED
    BY <2>1, <2>2, Zenon
<1>3. ASSUME NEW m \in S, NEW n \in S PROVE SubSeq(line, m, n) \in Parts(line)
  <2> DEFINE e == <<m, n>>
  <2>1. e[1] = m /\ e[2] = n /\ e \in S \X S
    OBVIOUS
  <2> HIDE DEF e
  <2> QED
    BY <1>1, <2>1, Zenon
<1> QED
  BY <1>2, <1>3, Zenon DEF S

\* What a line can say is text.
LEMMA PartsText ==
    ASSUME NEW line \in Text, NEW text \in Parts(line)
    PROVE  text \in Text
<1>1. PICK i \in DOMAIN line, j \in DOMAIN line : text = SubSeq(line, i, j)
  BY PartsAre
<1>2. i \in 1 .. Len(line) /\ j \in 1 .. Len(line) /\ Len(line) \in Nat
  BY LenProperties DEF Text
<1>3. \A m \in i .. j : line[m] \in Symbol
  <2> TAKE m \in i .. j
  <2>1. m \in 1 .. Len(line)
    BY <1>2
  <2> QED
    BY <2>1, LenProperties DEF Text
<1> QED
  BY <1>1, <1>2, <1>3, SubSeqProperties DEF Text

\* What the parser takes for an item is what the line says.
LEMMA SaysOf ==
    ASSUME NEW line \in Text, NEW k \in Symbol
    PROVE  Key(line) = <<k>> /\ Val(line) # <<>> =>
              Val(line) \in Parts(line) /\ Says(line, k, Val(line))
<1>1. PICK p, a, b, c, d : /\ Laid(line, p, a, b, c, d)
                           /\ Content(line) = SubSeq(line, a + 1, p)
                           /\ Key(line) = SubSeq(line, a + 1, b)
                           /\ Val(line) = SubSeq(line, c + 1, d)
  BY LineIs
<1>2. /\ Len(line) \in Nat /\ a \in Nat /\ b \in Nat /\ c \in Nat /\ d \in Nat /\ p \in Nat
      /\ a <= b /\ b <= c /\ c <= d /\ d <= p /\ p <= Len(line)
      /\ Plain(line) = 1 .. p
  BY <1>1, LaidOrder
<1>3. /\ Len(Key(line)) = b - a
      /\ \A m \in 1 .. b - a : Key(line)[m] = line[a + m]
  <2>1. a \in 0 .. Len(line) /\ b \in a .. Len(line)
    BY <1>2
  <2> QED
    BY <1>1, <2>1, PartOf
<1>4. Len(Val(line)) = d - c /\ Val(line) \in Text
  <2>1. c \in 0 .. Len(line) /\ d \in c .. Len(line)
    BY <1>2
  <2> QED
    BY <1>1, <2>1, PartOf
<1> SUFFICES ASSUME Key(line) = <<k>>, Val(line) # <<>> PROVE Val(line) \in Parts(line) /\ Says(line, k, Val(line))
  OBVIOUS
<1>5. b = a + 1 /\ line[a + 1] = k
  <2>1. Len(Key(line)) = 1 /\ Key(line)[1] = k
    OBVIOUS
  <2>2. b - a = 1 /\ 1 \in 1 .. b - a
    BY <1>2, <1>3, <2>1
  <2>3. Key(line)[1] = line[a + 1]
    BY <1>3, <2>2
  <2>4. b = a + 1
    BY <1>2, <2>2
  <2> QED
    BY <2>1, <2>3, <2>4
<1>6. c < d
  <2>1. SUFFICES ASSUME ~(c < d) PROVE FALSE
    OBVIOUS
  <2>2. d < c + 1
    BY <1>2, <2>1
  <2> QED
    BY <1>1, <1>2, <2>2, SubSeqEmpty
<1>7. /\ b \in Plain(line) /\ c + 1 \in Plain(line) /\ d \in Plain(line)
      /\ c + 1 \in DOMAIN line /\ d \in DOMAIN line
  <2>1. DOMAIN line = 1 .. Len(line)
    BY LenProperties DEF Text
  <2> QED
    BY <1>2, <1>5, <1>6, <2>1
<1> DEFINE i == b
           j == c + 1
           text == Val(line)
<1>8. j + Len(text) - 1 = d /\ Len(text) > 0 /\ i < j
  BY <1>2, <1>4, <1>6
<1>9. \A l \in 1 .. i - 1 : line[l] \in White
  <2> TAKE l \in 1 .. i - 1
  <2>1. l \in 0 + 1 .. a /\ l \in 1 .. Len(line)
    BY <1>2, <1>5
  <2>2. line[l] \in Symbol
    BY <2>1, LenProperties DEF Text
  <2> QED
    BY <1>1, <2>1, <2>2 DEF Laid, Cut
<1>10. line[i + 1] \in White
  <2>1. b < p
    BY <1>2, <1>6
  <2> QED
    BY <1>1, <2>1 DEF Laid, Cut
<1>11. \A l \in i + 1 .. j - 1 : line[l] \in Delims
  <2> TAKE l \in i + 1 .. j - 1
  <2>1. l \in b + 1 .. c /\ l \in 1 .. Len(line)
    BY <1>2
  <2>2. line[l] \in Symbol
    BY <2>1, LenProperties DEF Text
  <2> QED
    BY <1>1, <2>1, <2>2 DEF Laid, Cut
<1>12. \A l \in j .. d : line[l] \notin Delims
  BY <1>1 DEF Laid, Cut
<1>13. d + 1 \in Plain(line) => line[d + 1] \in Delims
  <2>1. d + 1 \in Plain(line) => d < p
    BY <1>2
  <2> QED
    BY <1>1, <2>1 DEF Laid, Cut
<1>14. Says(line, k, text)
  BY <1>1, <1>5, <1>7, <1>8, <1>9, <1>10, <1>11, <1>12, <1>13 DEF Says
<1>15. text \in Parts(line)
  <2>1. SubSeq(line, c + 1, d) \in Parts(line)
    BY <1>7, PartsAre
  <2> QED
    BY <1>1, <2>1
<1> QED
  BY <1>14, <1>15

\* What a line says is what the parser takes.
LEMMA SaysIs ==
    ASSUME NEW line \in Text, NEW k \in Symbol \ (Delims \cup {"#"}), NEW text \in Text, Says(line, k, text)
    PROVE  Key(line) = <<k>> /\ Val(line) = text /\ text # <<>> /\ Content(line) # <<>>
<1>1. PICK p, a, b, c, d : /\ Laid(line, p, a, b, c, d)
                           /\ Content(line) = SubSeq(line, a + 1, p)
                           /\ Key(line) = SubSeq(line, a + 1, b)
                           /\ Val(line) = SubSeq(line, c + 1, d)
  BY LineIs
<1>2. /\ Len(line) \in Nat /\ a \in Nat /\ b \in Nat /\ c \in Nat /\ d \in Nat /\ p \in Nat
      /\ a <= b /\ b <= c /\ c <= d /\ d <= p /\ p <= Len(line)
      /\ Plain(line) = 1 .. p
  BY <1>1, LaidOrder
<1>3. PICK i \in Plain(line), j \in Plain(line) :
          LET end == j + Len(text) - 1
          IN  /\ i < j /\ line[i] = k
              /\ \A l \in 1 .. i - 1 : line[l] \in White
              /\ line[i + 1] \in White /\ \A l \in i + 1 .. j - 1 : line[l] \in Delims
              /\ Len(text) > 0 /\ end \in Plain(line) /\ SubSeq(line, j, end) = text
              /\ \A l \in j .. end : line[l] \notin Delims
              /\ end + 1 \in Plain(line) => line[end + 1] \in Delims
  BY DEF Says
<1> DEFINE e == j + Len(text) - 1
<1>4. /\ Len(text) \in Nat /\ Len(text) > 0 /\ e \in 1 .. p
      /\ i \in Nat /\ j \in Nat /\ e \in Nat /\ 1 <= i /\ i < j /\ j <= e /\ e <= p
      /\ White \subseteq Delims
  <2>1. Len(text) \in Nat
    BY LenProperties DEF Text
  <2>2. White \subseteq Delims
    BY DEF Delims
  <2> QED
    BY <1>2, <1>3, <2>1, <2>2
<1>5. \A m \in 1 .. p : line[m] \in Symbol
  <2> TAKE m \in 1 .. p
  <2>1. m \in 1 .. Len(line)
    BY <1>2
  <2> QED
    BY <2>1, LenProperties DEF Text
<1>6. a = i - 1
  <2>1. Cut(line, 0, Len(line), Symbol \ White, i - 1)
    <3>1. i - 1 \in 0 .. Len(line) /\ (i - 1) + 1 = i /\ i \in 1 .. p
      BY <1>2, <1>4
    <3>2. line[i] \in Symbol \ White
      BY <1>3, <1>4, <1>5, <3>1
    <3> QED
      BY <1>3, <3>1, <3>2 DEF Cut
  <2> QED
    BY <1>1, <1>2, <2>1, CutOnce DEF Laid
<1>7. b = i
  <2>1. Cut(line, a, p, White, i)
    <3>1. i \in a .. p /\ \A m \in a + 1 .. i : m = i
      BY <1>2, <1>4, <1>6
    <3>2. line[i] \notin White
      BY <1>3, <1>4
    <3> QED
      BY <1>3, <3>1, <3>2 DEF Cut
  <2> QED
    BY <1>1, <1>2, <2>1, CutOnce DEF Laid
<1>8. c = j - 1
  <2>1. Cut(line, b, p, Symbol \ Delims, j - 1)
    <3>1. j - 1 \in b .. p /\ (j - 1) + 1 = j /\ j \in 1 .. p /\ j \in j .. e
      BY <1>2, <1>4, <1>7
    <3>2. line[j] \in Symbol \ Delims
      BY <1>3, <1>5, <3>1
    <3>3. \A m \in b + 1 .. j - 1 : line[m] \notin Symbol \ Delims
      BY <1>3, <1>7
    <3> QED
      BY <3>1, <3>2, <3>3 DEF Cut
  <2> QED
    BY <1>1, <1>2, <2>1, CutOnce DEF Laid
<1>9. d = e
  <2>1. Cut(line, c, p, Delims, e)
    <3>1. e \in c .. p /\ c + 1 = j /\ (e < p => e + 1 \in Plain(line))
      BY <1>2, <1>4, <1>8
    <3> QED
      BY <1>3, <3>1 DEF Cut
  <2> QED
    BY <1>1, <1>2, <2>1, CutOnce DEF Laid
<1>10. Val(line) = text
  <2>1. c + 1 = j
    BY <1>4, <1>8
  <2> QED
    BY <1>1, <1>3, <1>9, <2>1
<1>11. Key(line) = <<k>>
  <2>1. a \in 0 .. Len(line) /\ b \in a .. Len(line) /\ b - a = 1 /\ a + 1 = i
    BY <1>2, <1>4, <1>6, <1>7
  <2>2. Key(line) \in Text /\ Len(Key(line)) = 1 /\ Key(line)[1] = k
    BY <1>1, <1>3, <2>1, PartOf
  <2>3. <<k>> \in Text /\ Len(<<k>>) = 1 /\ <<k>>[1] = k
    BY DEF Text
  <2> QED
    BY <2>2, <2>3, SeqEqual DEF Text
<1>12. Content(line) # <<>>
  <2>1. a \in 0 .. Len(line) /\ p \in a .. Len(line) /\ p - a # 0
    BY <1>2, <1>4, <1>6
  <2>2. Len(Content(line)) = p - a
    BY <1>1, <2>1, PartOf
  <2> QED
    BY <2>1, <2>2
<1>13. text # <<>>
  BY <1>4
<1> QED
  BY <1>10, <1>11, <1>12, <1>13

-----------------------------------------------------------------------------
(* Numbers                                                                 *)

\* All symbols of text are digits.
Numeral(text) == \A i \in 1 .. Len(text) : \E d \in DOMAIN Digits : text[i] = Digits[d]

\* A text of digits
LEMMA NumeralIs ==
    ASSUME NEW text \in Text
    PROVE  AllDigits(text) <=> Numeral(text)
<1>1. DOMAIN text = 1 .. Len(text)
  BY LenProperties DEF Text
<1> QED
  BY <1>1 DEF AllDigits, Numeral, ToSet

\* The value of a digit
LEMMA DigitIs ==
    /\ DOMAIN Digits = 1 .. 10
    /\ \A d \in 1 .. 10 : DigitOf(Digits[d]) = d - 1
    /\ \A c, d \in 1 .. 10 : Digits[c] = Digits[d] => c = d
<1>1. DOMAIN Digits = 1 .. 10
  BY DEF Digits
<1>2. ASSUME NEW c \in 1 .. 10, NEW d \in 1 .. 10, Digits[c] = Digits[d] PROVE c = d
  BY <1>2 DEF Digits
<1>3. ASSUME NEW d \in 1 .. 10 PROVE DigitOf(Digits[d]) = d - 1
  <2>1. d - 1 \in 0 .. 9 /\ Digits[(d - 1) + 1] = Digits[d]
    OBVIOUS
  <2>2. \A e \in 0 .. 9 : Digits[e + 1] = Digits[d] => e = d - 1
    <3> TAKE e \in 0 .. 9
    <3>1. e + 1 \in 1 .. 10
      OBVIOUS
    <3> QED
      BY <1>2, <3>1
  <2> QED
    BY <2>1, <2>2 DEF DigitOf
<1> QED
  BY <1>1, <1>2, <1>3

\* A digit is a number up to nine.
LEMMA DigitRange ==
    ASSUME NEW text, Numeral(text), NEW i \in 1 .. Len(text)
    PROVE  DigitOf(text[i]) \in 0 .. 9
<1>1. PICK d \in 1 .. 10 : text[i] = Digits[d]
  BY DigitIs DEF Numeral
<1> QED
  BY <1>1, DigitIs

\* n[i] is the number the first i symbols of text are.
Counts(text, n) ==
    /\ n \in [0 .. Len(text) -> Nat]
    /\ n[0] = 0
    /\ \A i \in 1 .. Len(text) : n[i] = 10 * n[i - 1] + DigitOf(text[i])

\* The recursion of Number has a solution.
LEMMA NumberIs ==
    ASSUME NEW text \in Text, Numeral(text)
    PROVE  \E n : Counts(text, n) /\ Number(text) = n[Len(text)]
<1> DEFINE size == Len(text)
           Solves(g, j) == /\ g \in [0 .. j -> Nat]
                           /\ g[0] = 0
                           /\ \A i \in 1 .. j : g[i] = 10 * g[i - 1] + DigitOf(text[i])
           Bad == {j \in 0 .. size : ~ \E g : Solves(g, j)}
           Stage(g) == [i \in 0 .. size |-> IF i = 0 THEN 0 ELSE 10 * g[i - 1] + DigitOf(text[i])]
           sol == CHOOSE g : g = Stage(g)
<1>1. size \in Nat
  BY LenProperties DEF Text
<1>2. Number(text) = sol[size]
  BY DEF Number
<1>3. \A i \in 1 .. size : DigitOf(text[i]) \in 0 .. 9
  BY DigitRange
<1> HIDE DEF size
<1>4. Bad = {}
  <2>1. SUFFICES ASSUME Bad # {} PROVE FALSE
    OBVIOUS
  <2>2. Bad \subseteq Nat
    BY <1>1
  <2> HIDE DEF Bad
  <2>3. PICK j \in Bad : \A k \in Bad : j <= k
    BY <2>1, <2>2, LeastNat
  <2> USE DEF Bad
  <2>4. j \in 0 .. size /\ j \in Nat
    BY <1>1
  <2>5. j # 0
    <3>1. Solves([i \in 0 .. 0 |-> 0], 0)
      OBVIOUS
    <3> QED
      BY <3>1
  <2>6. j - 1 \in 0 .. size /\ j - 1 \notin Bad
    <3>1. j - 1 \in 0 .. size /\ ~(j <= j - 1)
      BY <1>1, <2>4, <2>5
    <3> QED
      BY <2>3, <3>1
  <2>7. PICK g : Solves(g, j - 1)
    BY <2>6
  <2> DEFINE last == 10 * g[j - 1] + DigitOf(text[j])
             h == [i \in 0 .. j |-> IF i = j THEN last ELSE g[i]]
  <2>8. last \in Nat
    <3>1. j - 1 \in 0 .. j - 1 /\ j \in 1 .. size
      BY <1>1, <2>4, <2>5
    <3>2. g[j - 1] \in Nat
      BY <2>7, <3>1
    <3>3. DigitOf(text[j]) \in 0 .. 9
      BY <1>3, <3>1
    <3> QED
      BY <3>2, <3>3
  <2> HIDE DEF last
  <2>9. \A i \in 0 .. j : i # j => i \in 0 .. j - 1 /\ g[i] \in Nat
    BY <2>4, <2>7
  <2>10. h \in [0 .. j -> Nat] /\ h[0] = 0
    BY <2>4, <2>5, <2>7, <2>8, <2>9
  <2>11. ASSUME NEW i \in 1 .. j PROVE h[i] = 10 * h[i - 1] + DigitOf(text[i])
    <3>1. i \in 0 .. j /\ i - 1 \in 0 .. j /\ i - 1 # j
      BY <2>4
    <3>2. CASE i = j
      BY <3>1, <3>2 DEF last
    <3>3. CASE i # j
      <4>1. i \in 1 .. j - 1
        BY <2>4, <3>3
      <4> QED
        BY <2>7, <3>1, <3>3, <4>1
    <3> QED
      BY <3>2, <3>3
  <2>12. Solves(h, j)
    BY <2>10, <2>11
  <2> QED
    BY <2>3, <2>12
<1>5. PICK g : Solves(g, size)
  <2>1. size \in 0 .. size
    BY <1>1
  <2> HIDE DEF Bad
  <2>2. size \notin Bad
    BY <1>4
  <2> USE DEF Bad
  <2> QED
    BY <2>1, <2>2
<1>6. g = Stage(g)
  <2>1. \A i \in 0 .. size : i # 0 => i \in 1 .. size
    BY <1>1
  <2> QED
    BY <1>1, <1>5, <2>1
<1>7. sol = Stage(sol)
  BY <1>6
<1>8. DOMAIN sol = 0 .. size /\ \A i \in 0 .. size : sol[i] = IF i = 0 THEN 0 ELSE 10 * sol[i - 1] + DigitOf(text[i])
  BY <1>7, Zenon
<1> HIDE DEF sol
<1>9. ASSUME NEW i \in 0 .. size PROVE sol[i] = g[i]
  <2> DEFINE Odd == {k \in 0 .. size : sol[k] # g[k]}
  <2>1. SUFFICES ASSUME i \in Odd PROVE FALSE
    OBVIOUS
  <2>2. Odd \subseteq Nat
    BY <1>1
  <2> HIDE DEF Odd
  <2>3. PICK k \in Odd : \A m \in Odd : k <= m
    BY <2>1, <2>2, LeastNat
  <2> USE DEF Odd
  <2>4. k \in 0 .. size /\ k \in Nat
    BY <1>1
  <2>5. k # 0
    BY <1>5, <1>8, <2>4
  <2>6. k \in 1 .. size /\ k - 1 \in 0 .. size /\ ~(k <= k - 1)
    BY <1>1, <2>4, <2>5
  <2>7. sol[k - 1] = g[k - 1]
    BY <2>3, <2>6
  <2> QED
    BY <1>5, <1>8, <2>5, <2>6, <2>7
<1>10. size \in 0 .. size
  BY <1>1
<1> QED
  BY <1>2, <1>5, <1>9, <1>10 DEF Counts, size

\* What digits mean is a number.
LEMMA Counted ==
    ASSUME NEW text \in Text, Numeral(text)
    PROVE  Number(text) \in Nat
<1>1. PICK n : Counts(text, n) /\ Number(text) = n[Len(text)]
  BY NumberIs
<1>2. Len(text) \in 0 .. Len(text)
  BY LenProperties DEF Text
<1> QED
  BY <1>1, <1>2 DEF Counts

\* Induction on numbers from a to b
LEMMA Upwards ==
    ASSUME NEW a \in Nat, NEW b \in Nat, NEW S, a <= b, a \in S, \A i \in a + 1 .. b : i - 1 \in S => i \in S
    PROVE  a .. b \subseteq S
<1> DEFINE Odd == {i \in a .. b : i \notin S}
<1>1. SUFFICES ASSUME Odd # {} PROVE FALSE
  OBVIOUS
<1>2. Odd \subseteq Nat
  OBVIOUS
<1> HIDE DEF Odd
<1>3. PICK k \in Odd : \A m \in Odd : k <= m
  BY <1>1, <1>2, LeastNat
<1> USE DEF Odd
<1>4. k \in a .. b /\ k \notin S /\ k \in Nat
  OBVIOUS
<1>5. k # a
  BY <1>4
<1>6. k \in a + 1 .. b /\ k - 1 \in a .. b /\ ~(k <= k - 1)
  BY <1>4, <1>5
<1>7. k - 1 \in S
  BY <1>3, <1>6
<1> QED
  BY <1>4, <1>6, <1>7

\* Texts that begin alike count alike.
LEMMA SameSoFar ==
    ASSUME NEW s, NEW t, NEW m, NEW n, Counts(s, m), Counts(t, n),
           NEW l \in Nat, l <= Len(s), l <= Len(t), Len(s) \in Nat, Len(t) \in Nat,
           \A j \in 1 .. l : s[j] = t[j]
    PROVE  m[l] = n[l]
<1> DEFINE S == {i \in 0 .. l : m[i] = n[i]}
<1>1. 0 \in S
  BY DEF Counts
<1>2. ASSUME NEW i \in 0 + 1 .. l, i - 1 \in S PROVE i \in S
  <2>1. i \in 1 .. l /\ i \in 1 .. Len(s) /\ i \in 1 .. Len(t) /\ i \in 0 .. l
    OBVIOUS
  <2>2. m[i] = 10 * m[i - 1] + DigitOf(s[i]) /\ n[i] = 10 * n[i - 1] + DigitOf(t[i])
    BY <2>1 DEF Counts
  <2>3. m[i - 1] = n[i - 1] /\ s[i] = t[i]
    BY <1>2, <2>1
  <2> QED
    BY <2>1, <2>2, <2>3
<1> HIDE DEF S
<1>3. 0 .. l \subseteq S
  <2>1. 0 \in Nat /\ 0 <= l
    OBVIOUS
  <2> QED
    BY <1>1, <1>2, <2>1, Upwards
<1> QED
  BY <1>3 DEF S

\* One more digit keeps the order.
LEMMA NextDigit ==
    ASSUME NEW a \in Nat, NEW b \in Nat, NEW x \in 0 .. 9, NEW y \in 0 .. 9
    PROVE  /\ x < y => 10 * a + x < 10 * a + y
           /\ a < b => 10 * a + x < 10 * b + y
  OBVIOUS

\* The first digit that differs decides.
LEMMA FirstDecides ==
    ASSUME NEW s, NEW t, NEW m, NEW n, Counts(s, m), Counts(t, n), Numeral(s), Numeral(t),
           Len(s) \in Nat, Len(t) = Len(s),
           NEW d \in 1 .. Len(s), DigitOf(s[d]) < DigitOf(t[d]), \A j \in 1 .. d - 1 : s[j] = t[j]
    PROVE  m[Len(s)] < n[Len(s)]
<1> DEFINE l == Len(s)
           S == {i \in d .. l : m[i] < n[i]}
<1>1. l \in Nat /\ d \in Nat /\ 1 <= d /\ d <= l /\ d - 1 \in Nat
  OBVIOUS
<1>2. \A i \in 1 .. l : /\ DigitOf(s[i]) \in 0 .. 9 /\ DigitOf(t[i]) \in 0 .. 9
                        /\ m[i] = 10 * m[i - 1] + DigitOf(s[i]) /\ n[i] = 10 * n[i - 1] + DigitOf(t[i])
  BY DigitRange DEF Counts
<1>3. \A i \in 0 .. l : m[i] \in Nat /\ n[i] \in Nat
  BY DEF Counts
<1>4. d \in S
  <2>1. m[d - 1] = n[d - 1]
    BY <1>1, SameSoFar
  <2>2. m[d - 1] \in Nat
    BY <1>1, <1>3
  <2>3. m[d] = 10 * m[d - 1] + DigitOf(s[d]) /\ n[d] = 10 * m[d - 1] + DigitOf(t[d])
    BY <1>2, <2>1
  <2>4. DigitOf(s[d]) \in 0 .. 9 /\ DigitOf(t[d]) \in 0 .. 9
    BY <1>2
  <2>5. m[d] < n[d]
    BY <2>2, <2>3, <2>4, NextDigit
  <2> QED
    BY <1>1, <2>5
<1>5. ASSUME NEW i \in d + 1 .. l, i - 1 \in S PROVE i \in S
  <2>1. i \in 1 .. l /\ i \in d .. l /\ i - 1 \in 0 .. l
    BY <1>1
  <2>2. m[i - 1] < n[i - 1] /\ m[i - 1] \in Nat /\ n[i - 1] \in Nat
    BY <1>3, <1>5, <2>1
  <2>3. /\ m[i] = 10 * m[i - 1] + DigitOf(s[i]) /\ n[i] = 10 * n[i - 1] + DigitOf(t[i])
        /\ DigitOf(s[i]) \in 0 .. 9 /\ DigitOf(t[i]) \in 0 .. 9
    BY <1>2, <2>1
  <2>4. m[i] < n[i]
    BY <2>2, <2>3, NextDigit
  <2> QED
    BY <2>1, <2>4
<1> HIDE DEF S, l
<1>6. d .. l \subseteq S
  BY <1>1, <1>4, <1>5, Upwards
<1>7. l \in S
  BY <1>1, <1>6
<1> QED
  BY <1>7 DEF S, l

\* The order of the texts is that of the numbers.
LEMMA NotAboveIs ==
    ASSUME NEW text \in Text, NEW limit \in Text, Numeral(text), Numeral(limit), Len(text) = Len(limit)
    PROVE  NotAbove(text, limit) <=> Number(text) <= Number(limit)
<1> DEFINE l == Len(text)
<1>1. l \in Nat /\ DOMAIN limit = 1 .. l
  BY LenProperties DEF Text
<1>2. PICK m : Counts(text, m) /\ Number(text) = m[l]
  BY NumberIs
<1>3. PICK n : Counts(limit, n) /\ Number(limit) = n[l]
  BY NumberIs
<1>4. m[l] \in Nat /\ n[l] \in Nat
  <2>1. l \in 0 .. l
    BY <1>1
  <2> QED
    BY <1>2, <1>3, <2>1 DEF Counts
<1>5. CASE text = limit
  <2>1. m[l] = n[l]
    BY <1>1, <1>2, <1>3, <1>5, SameSoFar
  <2> QED
    BY <1>2, <1>3, <1>4, <1>5, <2>1 DEF NotAbove
<1>6. CASE text # limit
  <2> DEFINE D == {i \in 1 .. l : text[i] # limit[i]}
  <2>1. D # {} /\ D \subseteq Nat
    BY <1>6, SeqEqual DEF Text
  <2> HIDE DEF D
  <2>2. PICK d \in D : \A i \in D : d <= i
    BY <2>1, LeastNat
  <2> USE DEF D
  <2>3. d \in 1 .. l /\ text[d] # limit[d] /\ d \in Nat
    BY <1>1
  <2>4. \A j \in 1 .. d - 1 : text[j] = limit[j]
    <3> SUFFICES ASSUME NEW j \in 1 .. d - 1 PROVE text[j] = limit[j]
      OBVIOUS
    <3>1. j \in 1 .. l /\ ~(d <= j)
      BY <1>1, <2>3
    <3> QED
      BY <2>2, <3>1
  <2> HIDE DEF D
  <2>5. /\ DigitOf(text[d]) \in 0 .. 9 /\ DigitOf(limit[d]) \in 0 .. 9
        /\ DigitOf(text[d]) # DigitOf(limit[d])
    <3>1. PICK c \in 1 .. 10 : text[d] = Digits[c]
      BY <2>3, DigitIs DEF Numeral
    <3>2. PICK e \in 1 .. 10 : limit[d] = Digits[e]
      BY <2>3, DigitIs DEF Numeral
    <3>3. DigitOf(text[d]) = c - 1 /\ DigitOf(limit[d]) = e - 1 /\ c # e
      BY <2>3, <3>1, <3>2, DigitIs
    <3> QED
      BY <3>3
  <2>6. CASE DigitOf(text[d]) < DigitOf(limit[d])
    <3>1. NotAbove(text, limit)
      BY <1>1, <2>3, <2>4, <2>6 DEF NotAbove
    <3>2. m[l] < n[l]
      BY <1>1, <1>2, <1>3, <2>3, <2>4, <2>6, FirstDecides
    <3> QED
      BY <1>2, <1>3, <1>4, <3>1, <3>2
  <2>7. CASE DigitOf(limit[d]) < DigitOf(text[d])
    <3>1. n[l] < m[l]
      BY <1>1, <1>2, <1>3, <2>3, <2>4, <2>7, FirstDecides
    <3>2. ASSUME NEW i \in 1 .. l, DigitOf(text[i]) < DigitOf(limit[i]), \A j \in 1 .. i - 1 : text[j] = limit[j]
          PROVE  FALSE
      <4>1. CASE i = d
        BY <2>5, <2>7, <3>2, <4>1
      <4>2. CASE i < d
        <5>1. i \in 1 .. d - 1
          BY <1>1, <2>3, <4>2
        <5>2. text[i] = limit[i] /\ DigitOf(text[i]) \in 0 .. 9
          BY <2>4, <5>1, DigitRange
        <5> QED
          BY <3>2, <5>2
      <4>3. CASE d < i
        <5>1. d \in 1 .. i - 1
          BY <1>1, <2>3, <4>3
        <5> QED
          BY <2>3, <3>2, <5>1
      <4> QED
        BY <1>1, <2>3, <4>1, <4>2, <4>3
    <3>3. ~NotAbove(text, limit)
      BY <1>1, <1>6, <3>2 DEF NotAbove
    <3> QED
      BY <1>2, <1>3, <1>4, <3>1, <3>3
  <2> QED
    BY <2>5, <2>6, <2>7
<1> QED
  BY <1>5, <1>6

\* The limits of the parser as numbers
LEMMA LimitsAre ==
    /\ <<"2", "5", "5">> \in Text /\ Numeral(<<"2", "5", "5">>) /\ Number(<<"2", "5", "5">>) = 255
    /\ <<"6", "5", "5", "3", "5">> \in Text /\ Numeral(<<"6", "5", "5", "3", "5">>)
    /\ Number(<<"6", "5", "5", "3", "5">>) = 65535
<1>1. /\ DigitOf("2") = 2 /\ DigitOf("3") = 3 /\ DigitOf("5") = 5 /\ DigitOf("6") = 6
      /\ \E d \in DOMAIN Digits : "2" = Digits[d]
      /\ \E d \in DOMAIN Digits : "3" = Digits[d]
      /\ \E d \in DOMAIN Digits : "5" = Digits[d]
      /\ \E d \in DOMAIN Digits : "6" = Digits[d]
  <2>1. /\ Digits[3] = "2" /\ Digits[4] = "3" /\ Digits[6] = "5" /\ Digits[7] = "6"
    BY DEF Digits
  <2> QED
    BY <2>1, DigitIs
<1>2. ASSUME NEW s \in Text, s = <<"2", "5", "5">> PROVE Numeral(s) /\ Number(s) = 255
  <2>1. Len(s) = 3 /\ s[1] = "2" /\ s[2] = "5" /\ s[3] = "5"
    BY <1>2
  <2>2. Numeral(s)
    BY <1>1, <2>1 DEF Numeral
  <2>3. PICK n : Counts(s, n) /\ Number(s) = n[Len(s)]
    BY <2>2, NumberIs
  <2>4. n[1] = 10 * n[0] + 2 /\ n[2] = 10 * n[1] + 5 /\ n[3] = 10 * n[2] + 5 /\ n[0] = 0
    BY <1>1, <2>1, <2>3 DEF Counts
  <2> QED
    BY <2>1, <2>2, <2>3, <2>4
<1>3. ASSUME NEW s \in Text, s = <<"6", "5", "5", "3", "5">> PROVE Numeral(s) /\ Number(s) = 65535
  <2>1. Len(s) = 5 /\ s[1] = "6" /\ s[2] = "5" /\ s[3] = "5" /\ s[4] = "3" /\ s[5] = "5"
    BY <1>3
  <2>2. Numeral(s)
    BY <1>1, <2>1 DEF Numeral
  <2>3. PICK n : Counts(s, n) /\ Number(s) = n[Len(s)]
    BY <2>2, NumberIs
  <2>4. /\ n[1] = 10 * n[0] + 6 /\ n[2] = 10 * n[1] + 5 /\ n[3] = 10 * n[2] + 5
        /\ n[4] = 10 * n[3] + 3 /\ n[5] = 10 * n[4] + 5 /\ n[0] = 0
    BY <1>1, <2>1, <2>3 DEF Counts
  <2> QED
    BY <2>1, <2>2, <2>3, <2>4
<1>4. <<"2", "5", "5">> \in Text /\ <<"6", "5", "5", "3", "5">> \in Text
  <2>1. "2" \in Symbol /\ "3" \in Symbol /\ "5" \in Symbol /\ "6" \in Symbol
    BY <1>1 DEF Symbol
  <2>2. ASSUME NEW S, NEW a \in S, NEW b \in S, NEW c \in S, NEW d \in S, NEW e \in S
        PROVE  <<a, b, c>> \in Seq(S) /\ <<a, b, c, d, e>> \in Seq(S)
    OBVIOUS
  <2> QED
    BY <2>1, <2>2 DEF Text
<1> QED
  BY <1>2, <1>3, <1>4

\* One more digit
LEMMA TenTimes ==
    ASSUME NEW m \in Nat, NEW x \in Nat, x <= m, NEW d \in 0 .. 9
    PROVE  10 * x + d \in Nat /\ 10 * x + d <= 10 * m + 9
  OBVIOUS

\* A case split on the number of digits
LEMMA OneToFour ==
    ASSUME NEW l \in Nat, NEW x \in Nat, l = 1 => x <= 9, l = 2 => x <= 99, l = 3 => x <= 999, l = 4 => x <= 9999
    PROVE  (l \in 1 .. 2 => x <= 99) /\ (l \in 1 .. 4 => x <= 9999)
  OBVIOUS

\* The digits up to i, from those up to h
LEMMA Grows ==
    ASSUME NEW text, NEW n, Counts(text, n), Numeral(text), NEW i \in 1 .. Len(text),
           NEW h \in Int, h = i - 1, NEW m \in Nat, n[h] \in Nat, n[h] <= m
    PROVE  n[i] \in Nat /\ n[i] <= 10 * m + 9
<1>1. n[i] = 10 * n[h] + DigitOf(text[i]) /\ DigitOf(text[i]) \in 0 .. 9
  BY DigitRange DEF Counts
<1> QED
  BY <1>1, TenTimes

\* What few digits can be
LEMMA FewDigits ==
    ASSUME NEW text \in Text, Numeral(text)
    PROVE  /\ Len(text) \in 1 .. 2 => Number(text) <= 99
           /\ Len(text) \in 1 .. 4 => Number(text) <= 9999
<1>1. PICK n : Counts(text, n) /\ Number(text) = n[Len(text)]
  BY NumberIs
<1>2. n[0] = 0 /\ Len(text) \in Nat
  BY <1>1, LenProperties DEF Counts, Text
<1> DEFINE Below(i, m) == n[i] \in Nat /\ n[i] <= m
<1>3. ASSUME NEW h \in Nat, h + 1 <= Len(text), NEW m \in Nat, Below(h, m)
      PROVE  Below(h + 1, 10 * m + 9)
  <2>1. h + 1 \in 1 .. Len(text) /\ h \in Int /\ h = h + 1 - 1
    BY <1>2, <1>3
  <2> QED
    BY <1>1, <1>3, <2>1, Grows
<1>4. Below(0, 0)
  BY <1>2
<1> HIDE DEF Below
<1>5. Len(text) >= 1 => Below(1, 9)
  <2>1. Len(text) >= 1 => Below(0 + 1, 10 * 0 + 9)
    BY <1>3, <1>4
  <2> QED
    BY <2>1
<1>6. Len(text) >= 2 => Below(2, 99)
  <2>1. Len(text) >= 2 => Below(1 + 1, 10 * 9 + 9)
    BY <1>2, <1>3, <1>5
  <2> QED
    BY <2>1
<1>7. Len(text) >= 3 => Below(3, 999)
  <2>1. Len(text) >= 3 => Below(2 + 1, 10 * 99 + 9)
    BY <1>2, <1>3, <1>6
  <2> QED
    BY <2>1
<1>8. Len(text) >= 4 => Below(4, 9999)
  <2>1. Len(text) >= 4 => Below(3 + 1, 10 * 999 + 9)
    BY <1>2, <1>3, <1>7
  <2> QED
    BY <2>1
<1>9. PICK l \in Nat : l = Len(text)
  BY <1>2
<1>10. PICK x \in Nat : x = n[l]
  <2>1. Len(text) \in 0 .. Len(text)
    BY <1>2
  <2> QED
    BY <1>1, <1>9, <2>1 DEF Counts
<1>11. l = 1 => x <= 9
  BY <1>5, <1>9, <1>10 DEF Below
<1>12. l = 2 => x <= 99
  BY <1>6, <1>9, <1>10 DEF Below
<1>13. l = 3 => x <= 999
  BY <1>7, <1>9, <1>10 DEF Below
<1>14. l = 4 => x <= 9999
  BY <1>8, <1>9, <1>10 DEF Below
<1>15. (l \in 1 .. 2 => x <= 99) /\ (l \in 1 .. 4 => x <= 9999)
  BY <1>11, <1>12, <1>13, <1>14, OneToFour
<1> QED
  BY <1>1, <1>9, <1>10, <1>15

\* A number up to a limit, as the parser computes it
LEMMA UpToIs ==
    ASSUME NEW text \in Text, NEW limit \in Text, Numeral(limit)
    PROVE  /\ Len(text) = Len(limit) /\ Len(text) # 0 => (UpTo(text, limit) <=> AllDigits(text) /\ Number(text) <= Number(limit))
           /\ Len(text) # Len(limit) => (UpTo(text, limit) <=> Len(text) \in 1 .. Len(limit) /\ AllDigits(text))
<1>1. /\ Len(text) \in Nat /\ Len(limit) \in Nat /\ DOMAIN text = 1 .. Len(text)
      /\ AllDigits(text) <=> Numeral(text)
  BY LenProperties, NumeralIs DEF Text
<1>2. UpTo(text, limit) <=> /\ Len(text) \in 1 .. Len(limit) /\ Numeral(text)
                            /\ Len(text) = Len(limit) => NotAbove(text, limit)
  BY <1>1 DEF UpTo, Numeral
<1>3. Len(text) = Len(limit) /\ Numeral(text) => (NotAbove(text, limit) <=> Number(text) <= Number(limit))
  BY NotAboveIs
<1> QED
  BY <1>1, <1>2, <1>3

\* A part of an address
LEMMA OctetIs ==
    ASSUME NEW text \in Text
    PROVE  UpTo(text, <<"2", "5", "5">>) <=> Len(text) \in 1 .. 3 /\ AllDigits(text) /\ Number(text) <= 255
<1> DEFINE limit == <<"2", "5", "5">>
<1>1. limit \in Text /\ Numeral(limit) /\ Number(limit) = 255 /\ Len(limit) = 3
  BY LimitsAre
<1> HIDE DEF limit
<1>2. /\ Len(text) = 3 => (UpTo(text, limit) <=> AllDigits(text) /\ Number(text) <= 255)
      /\ Len(text) # 3 => (UpTo(text, limit) <=> Len(text) \in 1 .. 3 /\ AllDigits(text))
  <2>1. limit \in Text /\ Numeral(limit)
    BY <1>1
  <2>2. /\ Len(text) = Len(limit) /\ Len(text) # 0 => (UpTo(text, limit) <=> AllDigits(text) /\ Number(text) <= Number(limit))
        /\ Len(text) # Len(limit) => (UpTo(text, limit) <=> Len(text) \in 1 .. Len(limit) /\ AllDigits(text))
    BY <2>1, UpToIs
  <2> QED
    BY <1>1, <2>2
<1>3. CASE Len(text) = 3
  BY <1>2, <1>3 DEF limit
<1>4. CASE Len(text) # 3
  <2>1. AllDigits(text) /\ Len(text) \in 1 .. 3 => Number(text) <= 255
    <3>1. SUFFICES ASSUME AllDigits(text), Len(text) \in 1 .. 3 PROVE Number(text) <= 255
      OBVIOUS
    <3>2. Numeral(text) /\ Len(text) \in 1 .. 2
      BY <1>4, <3>1, NumeralIs
    <3>3. PICK m \in Nat : m = Number(text)
      BY <3>2, Counted
    <3>4. m <= 99
      BY <3>2, <3>3, FewDigits
    <3> QED
      BY <3>3, <3>4
  <2> QED
    BY <1>2, <1>4, <2>1 DEF limit
<1> QED
  BY <1>3, <1>4

\* A number is 0 if all its digits are.
LEMMA ZeroIs ==
    ASSUME NEW text \in Text, Numeral(text)
    PROVE  Number(text) \in Nat /\ (Number(text) = 0 <=> \A i \in 1 .. Len(text) : text[i] = "0")
<1> DEFINE l == Len(text)
<1>1. l \in Nat
  BY LenProperties DEF Text
<1>2. PICK n : Counts(text, n) /\ Number(text) = n[l]
  BY NumberIs
<1>3. \A i \in 1 .. l : n[i] = 10 * n[i - 1] + DigitOf(text[i]) /\ DigitOf(text[i]) \in 0 .. 9
  BY <1>2, DigitRange DEF Counts
<1>4. n[0] = 0 /\ \A i \in 0 .. l : n[i] \in Nat
  BY <1>2 DEF Counts
<1>5. \A i \in 1 .. l : DigitOf(text[i]) = 0 <=> text[i] = "0"
  <2> TAKE i \in 1 .. l
  <2>1. PICK d \in 1 .. 10 : text[i] = Digits[d]
    BY DigitIs DEF Numeral
  <2>2. DigitOf(text[i]) = d - 1 /\ Digits[1] = "0"
    BY <2>1, DigitIs DEF Digits
  <2>3. text[i] = "0" <=> d = 1
    BY <2>1, <2>2, DigitIs
  <2> QED
    BY <2>2, <2>3
<1> HIDE DEF l
<1>6. ASSUME \A i \in 1 .. l : text[i] = "0" PROVE n[l] = 0
  <2> DEFINE S == {i \in 0 .. l : n[i] = 0}
  <2>1. 0 \in S
    BY <1>1, <1>4
  <2>2. ASSUME NEW i \in 0 + 1 .. l, i - 1 \in S PROVE i \in S
    <3>1. i \in 1 .. l /\ i \in 0 .. l
      BY <1>1
    <3>2. n[i] = 10 * n[i - 1] + 0 /\ n[i - 1] = 0
      BY <1>3, <1>5, <1>6, <2>2, <3>1
    <3> QED
      BY <3>1, <3>2
  <2> HIDE DEF S
  <2>3. 0 \in Nat /\ 0 <= l
    BY <1>1
  <2>4. 0 .. l \subseteq S
    BY <1>1, <2>1, <2>2, <2>3, Upwards
  <2>5. l \in 0 .. l
    BY <1>1
  <2> QED
    BY <2>4, <2>5 DEF S
<1>7. ASSUME NEW d \in 1 .. l, text[d] # "0" PROVE n[l] # 0
  <2> DEFINE S == {i \in d .. l : n[i] # 0}
  <2>1. d \in S
    <3>1. d \in d .. l /\ d - 1 \in 0 .. l
      BY <1>1
    <3>2. n[d] = 10 * n[d - 1] + DigitOf(text[d]) /\ DigitOf(text[d]) \in 0 .. 9 /\ DigitOf(text[d]) # 0 /\ n[d - 1] \in Nat
      BY <1>3, <1>4, <1>5, <1>7, <3>1
    <3>3. n[d] # 0
      BY <3>2
    <3> QED
      BY <3>1, <3>3
  <2>2. ASSUME NEW i \in d + 1 .. l, i - 1 \in S PROVE i \in S
    <3>1. i \in 1 .. l /\ i \in d .. l /\ i - 1 \in 0 .. l
      BY <1>1
    <3>2. n[i] = 10 * n[i - 1] + DigitOf(text[i]) /\ DigitOf(text[i]) \in 0 .. 9 /\ n[i - 1] # 0 /\ n[i - 1] \in Nat
      BY <1>3, <1>4, <2>2, <3>1
    <3>3. n[i] # 0
      BY <3>2
    <3> QED
      BY <3>1, <3>3
  <2> HIDE DEF S
  <2>3. d \in Nat /\ d <= l
    BY <1>1
  <2>4. d .. l \subseteq S
    BY <1>1, <2>1, <2>2, <2>3, Upwards
  <2>5. l \in d .. l
    BY <1>1
  <2> QED
    BY <2>4, <2>5 DEF S
<1>8. l \in 0 .. l
  BY <1>1
<1> QED
  BY <1>2, <1>4, <1>6, <1>7, <1>8 DEF l

\* check_port() takes the ports there are.
LEMMA PortIs ==
    ASSUME NEW text \in Text
    PROVE  Port(text) <=> UpTo(text, <<"6", "5", "5", "3", "5">>) /\ \E i \in DOMAIN text : text[i] # "0"
<1> DEFINE limit == <<"6", "5", "5", "3", "5">>
<1>1. limit \in Text /\ Numeral(limit) /\ Number(limit) = 65535 /\ Len(limit) = 5
  BY LimitsAre
<1>2. DOMAIN text = 1 .. Len(text) /\ (AllDigits(text) <=> Numeral(text))
  BY NumeralIs, LenProperties DEF Text
<1> HIDE DEF limit
<1>3. CASE Numeral(text)
  <2>1. PICK m \in Nat : m = Number(text)
    BY <1>3, Counted
  <2>2. AllDigits(text)
    BY <1>2, <1>3
  <2>3. /\ Len(text) = 5 => (UpTo(text, limit) <=> m <= 65535)
        /\ Len(text) # 5 => (UpTo(text, limit) <=> Len(text) \in 1 .. 5)
    <3>1. limit \in Text /\ Numeral(limit)
      BY <1>1
    <3>2. /\ Len(text) = Len(limit) /\ Len(text) # 0 => (UpTo(text, limit) <=> AllDigits(text) /\ Number(text) <= Number(limit))
          /\ Len(text) # Len(limit) => (UpTo(text, limit) <=> Len(text) \in 1 .. Len(limit) /\ AllDigits(text))
      BY <3>1, UpToIs
    <3> QED
      BY <1>1, <2>1, <2>2, <3>2
  <2>4. m = 0 <=> \A i \in DOMAIN text : text[i] = "0"
    BY <1>2, <1>3, <2>1, ZeroIs
  <2>5. Port(text) <=> Len(text) \in 1 .. 5 /\ m \in 1 .. 65535
    BY <2>1, <2>2 DEF Port
  <2>6. m \in 1 .. 65535 <=> m <= 65535 /\ m # 0
    OBVIOUS
  <2>7. Len(text) \in 1 .. 5 /\ Len(text) # 5 => m <= 65535
    <3>1. SUFFICES ASSUME Len(text) \in 1 .. 5, Len(text) # 5 PROVE m <= 65535
      OBVIOUS
    <3>2. Len(text) \in 1 .. 4
      BY <3>1
    <3>3. m <= 9999
      BY <1>3, <2>1, <3>2, FewDigits
    <3> QED
      BY <3>3
  <2>8. 5 \in 1 .. 5
    OBVIOUS
  <2> QED
    BY <2>3, <2>4, <2>5, <2>6, <2>7, <2>8 DEF limit
<1>4. CASE ~Numeral(text)
  <2>1. ~Port(text)
    BY <1>2, <1>4 DEF Port
  <2>2. ~UpTo(text, limit)
    BY <1>2, <1>4 DEF UpTo, Numeral
  <2> QED
    BY <2>1, <2>2 DEF limit
<1> QED
  BY <1>3, <1>4

\* The largest number of the table, and the test for it in two parts
LEMMA Largest ==
    ASSUME NEW f \in Nat, NEW d \in 0 .. 9
    PROVE  10 * f + d <= 2147483647 <=> ~(f > 214748364 \/ (f = 214748364 /\ d > 7))
  OBVIOUS

\* The digits of the largest number
LEMMA LargestIs ==
    ASSUME NEW s \in Text, s = <<"2", "1", "4", "7", "4", "8", "3", "6", "4", "7">>
    PROVE  Len(s) = 10 /\ Numeral(s) /\ Number(s) = 2147483647
<1>1. /\ Len(s) = 10 /\ s[1] = "2" /\ s[2] = "1" /\ s[3] = "4" /\ s[4] = "7" /\ s[5] = "4"
      /\ s[6] = "8" /\ s[7] = "3" /\ s[8] = "6" /\ s[9] = "4" /\ s[10] = "7"
  OBVIOUS
<1>2. /\ Digits[2] = "1" /\ Digits[3] = "2" /\ Digits[4] = "3" /\ Digits[5] = "4"
      /\ Digits[7] = "6" /\ Digits[8] = "7" /\ Digits[9] = "8"
  BY DEF Digits
<1>3. /\ DigitOf("1") = 1 /\ DigitOf("2") = 2 /\ DigitOf("3") = 3 /\ DigitOf("4") = 4
      /\ DigitOf("6") = 6 /\ DigitOf("7") = 7 /\ DigitOf("8") = 8
  BY <1>2, DigitIs
<1>4. Numeral(s)
  <2>1. \A i \in 1 .. 10 : i = 1 \/ i = 2 \/ i = 3 \/ i = 4 \/ i = 5 \/ i = 6 \/ i = 7 \/ i = 8 \/ i = 9 \/ i = 10
    OBVIOUS
  <2>2. \A i \in 1 .. 10 : \E d \in 1 .. 10 : s[i] = Digits[d]
    BY <1>1, <1>2, <2>1
  <2> QED
    BY <1>1, <2>2, DigitIs DEF Numeral
<1>5. PICK n : Counts(s, n) /\ Number(s) = n[Len(s)]
  BY <1>4, NumberIs
<1>6. n[0] = 0 /\ \A i \in 1 .. 10 : n[i] = 10 * n[i - 1] + DigitOf(s[i])
  BY <1>1, <1>5 DEF Counts
<1>7. n[1] = 10 * n[0] + 2 /\ n[2] = 10 * n[1] + 1 /\ n[3] = 10 * n[2] + 4
  BY <1>1, <1>3, <1>6
<1>8. n[4] = 10 * n[3] + 7 /\ n[5] = 10 * n[4] + 4 /\ n[6] = 10 * n[5] + 8
  BY <1>1, <1>3, <1>6
<1>9. n[7] = 10 * n[6] + 3 /\ n[8] = 10 * n[7] + 6 /\ n[9] = 10 * n[8] + 4 /\ n[10] = 10 * n[9] + 7
  BY <1>1, <1>3, <1>6
<1>10. n[3] = 214 /\ n[6] = 214748
  BY <1>6, <1>7, <1>8
<1>11. n[10] = 2147483647
  BY <1>9, <1>10
<1> QED
  BY <1>1, <1>4, <1>5, <1>11

\* The largest number is a text.
LEMMA LargestText == <<"2", "1", "4", "7", "4", "8", "3", "6", "4", "7">> \in Text
<1>1. /\ Digits[2] = "1" /\ Digits[3] = "2" /\ Digits[4] = "3" /\ Digits[5] = "4"
      /\ Digits[7] = "6" /\ Digits[8] = "7" /\ Digits[9] = "8"
  BY DEF Digits
<1>2. "1" \in Symbol /\ "2" \in Symbol /\ "3" \in Symbol /\ "4" \in Symbol /\ "6" \in Symbol /\ "7" \in Symbol /\ "8" \in Symbol
  BY <1>1, DigitIs DEF Symbol
<1>3. ASSUME NEW S, NEW a \in S, NEW b \in S, NEW c \in S, NEW d \in S, NEW e \in S, NEW f \in S, NEW g \in S
      PROVE  <<b, a, c, f, c, g, d, e, c, f>> \in Seq(S)
  OBVIOUS
<1> QED
  BY <1>2, <1>3 DEF Text

\* The number of a text of several digits, from its front and its last digit
LEMMA FrontAndLast ==
    ASSUME NEW text \in Text, Numeral(text), Len(text) > 1
    PROVE  /\ Number(Front(text)) \in Nat /\ Number(<<Last(text)>>) \in 0 .. 9
           /\ Number(text) = 10 * Number(Front(text)) + Number(<<Last(text)>>)
<1> DEFINE f == SubSeq(text, 1, Len(text) - 1)
           e == <<text[Len(text)]>>
<1>1. /\ Len(text) \in Nat /\ \A i \in 1 .. Len(text) : text[i] \in Symbol
      /\ Len(text) \in 1 .. Len(text) /\ Len(text) - 1 \in Nat
  BY LenProperties DEF Text
<1>2. f \in Text /\ Len(f) = Len(text) - 1 /\ \A i \in 1 .. Len(f) : f[i] = text[i]
  <2>1. 0 \in 0 .. Len(text) /\ Len(text) - 1 \in 0 .. Len(text) /\ 0 + 1 = 1 /\ Len(text) - 1 - 0 = Len(text) - 1
        /\ \A i : 0 + i = 0 + i
    BY <1>1
  <2>2. /\ SubSeq(text, 0 + 1, Len(text) - 1) \in Text
        /\ Len(SubSeq(text, 0 + 1, Len(text) - 1)) = Len(text) - 1 - 0
        /\ \A m \in 1 .. Len(text) - 1 - 0 : SubSeq(text, 0 + 1, Len(text) - 1)[m] = text[0 + m]
    BY <2>1, PartIs
  <2> QED
    BY <1>1, <2>1, <2>2
<1>3. e \in Text /\ Len(e) = 1 /\ e[1] = text[Len(text)]
  BY <1>1 DEF Text
<1> HIDE DEF e, f
<1>4. Numeral(f)
  BY <1>1, <1>2 DEF Numeral
<1>5. Numeral(e)
  <2>1. \A i \in 1 .. 1 : i = 1
    OBVIOUS
  <2> QED
    BY <1>1, <1>3, <2>1 DEF Numeral
<1>6. PICK n : Counts(text, n) /\ Number(text) = n[Len(text)]
  BY NumberIs
<1>7. PICK m : Counts(f, m) /\ Number(f) = m[Len(f)]
  BY <1>2, <1>4, NumberIs
<1>8. PICK q : Counts(e, q) /\ Number(e) = q[1]
  BY <1>3, <1>5, NumberIs
<1>9. Number(f) = n[Len(text) - 1]
  <2>1. PICK l \in Nat : l = Len(f)
    BY <1>1, <1>2
  <2>2. l <= Len(f) /\ l <= Len(text) /\ Len(f) \in Nat /\ Len(text) \in Nat /\ \A j \in 1 .. l : f[j] = text[j]
    BY <1>1, <1>2, <2>1
  <2>3. m[l] = n[l]
    BY <1>6, <1>7, <2>2, SameSoFar
  <2> QED
    BY <1>2, <1>7, <2>1, <2>3
<1>10. Number(e) = DigitOf(text[Len(text)])
  <2>1. q[0] = 0 /\ q[1] = 10 * q[0] + DigitOf(e[1])
    BY <1>3, <1>8 DEF Counts
  <2>2. DigitOf(e[1]) \in 0 .. 9
    BY <1>3, <1>5, DigitRange
  <2> QED
    BY <1>3, <1>8, <2>1, <2>2
<1>11. DigitOf(text[Len(text)]) \in 0 .. 9
  BY <1>1, DigitRange
<1>12. Number(text) = 10 * n[Len(text) - 1] + DigitOf(text[Len(text)])
  BY <1>1, <1>6 DEF Counts
<1>13. Number(f) \in Nat
  BY <1>2, <1>4, Counted
<1>14. Front(text) = f /\ <<Last(text)>> = e
  BY DEF Front, Last, e, f
<1> QED
  BY <1>9, <1>10, <1>11, <1>12, <1>13, <1>14

\* check_number() takes the numbers of 31 bits.
LEMMA NumIs ==
    ASSUME NEW text \in Text
    PROVE  Num(text) <=> UpTo(text, <<"2", "1", "4", "7", "4", "8", "3", "6", "4", "7">>)
<1> DEFINE limit == <<"2", "1", "4", "7", "4", "8", "3", "6", "4", "7">>
<1>1. limit \in Text /\ Numeral(limit) /\ Number(limit) = 2147483647 /\ Len(limit) = 10
  BY LargestText, LargestIs
<1> HIDE DEF limit
<1>2. /\ Len(text) = 10 => (UpTo(text, limit) <=> AllDigits(text) /\ Number(text) <= 2147483647)
      /\ Len(text) # 10 => (UpTo(text, limit) <=> Len(text) \in 1 .. 10 /\ AllDigits(text))
  <2>1. limit \in Text /\ Numeral(limit)
    BY <1>1
  <2>2. /\ Len(text) = Len(limit) /\ Len(text) # 0 => (UpTo(text, limit) <=> AllDigits(text) /\ Number(text) <= Number(limit))
        /\ Len(text) # Len(limit) => (UpTo(text, limit) <=> Len(text) \in 1 .. Len(limit) /\ AllDigits(text))
    BY <2>1, UpToIs
  <2> QED
    BY <1>1, <2>2
<1>3. Len(text) # 10 => (Num(text) <=> UpTo(text, limit))
  BY <1>2 DEF Num
<1>4. ASSUME Len(text) = 10, AllDigits(text) PROVE Number(text) <= 2147483647 <=> ~TooBig(text)
  <2>1. Numeral(text) /\ Len(text) > 1
    BY <1>4, NumeralIs
  <2>2. PICK x \in Nat, d \in 0 .. 9 : x = Number(Front(text)) /\ d = Number(<<Last(text)>>) /\ Number(text) = 10 * x + d
    BY <2>1, FrontAndLast
  <2>3. Number(text) <= 2147483647 <=> ~(x > 214748364 \/ (x = 214748364 /\ d > 7))
    BY <2>2, Largest
  <2> QED
    BY <2>2, <2>3 DEF TooBig
<1>5. Len(text) = 10 => (Num(text) <=> AllDigits(text) /\ ~TooBig(text))
  <2>1. 10 \in 1 .. 10
    OBVIOUS
  <2> QED
    BY <2>1 DEF Num
<1>6. Len(text) = 10 => (Num(text) <=> UpTo(text, limit))
  <2>1. SUFFICES ASSUME Len(text) = 10 PROVE Num(text) <=> UpTo(text, limit)
    OBVIOUS
  <2>2. CASE AllDigits(text)
    BY <1>2, <1>4, <1>5, <2>1, <2>2
  <2>3. CASE ~AllDigits(text)
    BY <1>2, <1>5, <2>1, <2>3
  <2> QED
    BY <2>2, <2>3
<1> QED
  BY <1>3, <1>6 DEF limit

\* The dots of a text, with the places before its first and after its last
\* symbol; two of them with none between; what is left after place e of the
\* text and one more dot, as check_ipv4() looks at it.
Dots(text) == {i \in DOMAIN text : text[i] = "."} \cup {0, Len(text) + 1}
Gap(text, a, b) == a < b /\ (a + 1 .. b - 1) \cap Dots(text) = {}
Part(text, a, b) == UpTo(SubSeq(text, a + 1, b - 1), <<"2", "5", "5">>)
Rest(text, e) == SubSeq(Append(text, "."), e + 1, Len(text) + 1)

\* A text and one more dot
LEMMA DotAdded ==
    ASSUME NEW text \in Text
    PROVE  /\ Append(text, ".") \in Text
           /\ Len(Append(text, ".")) = Len(text) + 1
           /\ \A i \in 1 .. Len(text) : Append(text, ".")[i] = text[i]
           /\ Append(text, ".")[Len(text) + 1] = "."
<1>1. "." \in Symbol
  BY DEF Symbol
<1> QED
  BY <1>1, AppendProperties DEF Text

\* The loop of check_ipv4() at one part of the address
LEMMA PartIsOctet ==
    ASSUME NEW text \in Text, NEW e \in 0 .. Len(text)
    PROVE  \E b \in e + 1 .. Len(text) + 1 :
              /\ b \in Dots(text) /\ \A m \in e + 1 .. b - 1 : m \notin Dots(text)
              /\ Octet(Rest(text, e)) <=> Part(text, e, b)
              /\ NextPart(Rest(text, e)) = Rest(text, b)
<1> DEFINE one == Append(text, ".")
           l == Len(text) + 1
           s == SubSeq(one, e + 1, l)
<1>1. /\ one \in Text /\ Len(one) = l /\ Len(text) \in Nat /\ l = Len(text) + 1
      /\ \A i \in 1 .. Len(text) : one[i] = text[i]
      /\ one[l] = "." /\ DOMAIN text = 1 .. Len(text)
  BY DotAdded, LenProperties DEF Text
<1>2. s = Rest(text, e)
  BY DEF Rest
<1> HIDE DEF one, l
<1>3. e \in 0 .. Len(one) /\ l \in e .. Len(one) /\ e \in Nat /\ l \in Nat /\ e < l
  BY <1>1
<1>4. PICK x : /\ Cut(one, e, l, {"."}, x)
               /\ Word(s, {"."}) = SubSeq(one, e + 1, x)
  <2>1. one \in Text /\ e \in 0 .. Len(one) /\ l \in e .. Len(one)
    BY <1>1, <1>3
  <2> DEFINE dot == {"."}
  <2> HIDE DEF dot
  <2>2. \E x : /\ Cut(one, e, l, dot, x)
               /\ Word(SubSeq(one, e + 1, l), dot) = SubSeq(one, e + 1, x)
               /\ After(SubSeq(one, e + 1, l), SubSeq(one, e + 1, x)) = SubSeq(one, x + 1, l)
    BY <2>1, WordIs, ZenonT(60)
  <2> QED
    BY <2>2 DEF dot
<1>5. x \in e .. l - 1 /\ one[x + 1] = "." /\ \A m \in e + 1 .. x : one[m] # "."
  <2>1. x \in e .. l /\ (\A m \in e + 1 .. x : one[m] \notin {"."}) /\ (x < l => one[x + 1] \in {"."})
    BY <1>4 DEF Cut
  <2>2. x # l
    <3>1. l \in e + 1 .. l
      BY <1>3
    <3> QED
      BY <1>1, <2>1, <3>1
  <2>3. x < l /\ x \in e .. l - 1
    BY <1>3, <2>1, <2>2
  <2> QED
    BY <2>1, <2>3
<1> DEFINE b == x + 1
           part == SubSeq(one, e + 1, x)
<1>6. b \in e + 1 .. l /\ b - 1 = x /\ x \in Nat /\ x <= Len(text) /\ b \in Nat /\ b <= l
  BY <1>1, <1>3, <1>5
<1>7. b \in Dots(text)
  BY <1>1, <1>5, <1>6 DEF Dots
<1>8. \A m \in e + 1 .. b - 1 : m \notin Dots(text)
  <2> TAKE m \in e + 1 .. b - 1
  <2>1. m \in 1 .. Len(text) /\ m # 0 /\ m # Len(text) + 1 /\ m \in e + 1 .. x
    BY <1>3, <1>6
  <2>2. text[m] # "."
    BY <1>1, <1>5, <2>1
  <2> QED
    BY <2>1, <2>2 DEF Dots
<1>9. part \in Text /\ Len(part) = x - e /\ \A m \in 1 .. x - e : part[m] = one[e + m]
  <2>1. e \in 0 .. Len(one) /\ x \in e .. Len(one)
    BY <1>1, <1>3, <1>5
  <2> QED
    BY <1>1, <2>1, PartIs
<1>10. part = SubSeq(text, e + 1, b - 1)
  <2> DEFINE p == SubSeq(text, e + 1, x)
  <2>1. e \in 0 .. Len(text) /\ x \in e .. Len(text)
    BY <1>3, <1>5, <1>6
  <2>2. p \in Text /\ Len(p) = x - e /\ \A m \in 1 .. x - e : p[m] = text[e + m]
    BY <2>1, PartIs
  <2>3. \A m \in 1 .. x - e : e + m \in 1 .. Len(text)
    BY <1>3, <1>6
  <2> HIDE DEF p, part
  <2>4. \A m \in 1 .. Len(part) : part[m] = p[m]
    BY <1>1, <1>9, <2>2, <2>3
  <2>5. part = p
    BY <1>9, <2>2, <2>4, SeqEqual DEF Text
  <2> QED
    BY <1>6, <2>5 DEF p
<1> HIDE DEF part
<1>11. /\ s \in Text /\ Len(s) = l - e
       /\ SubSeq(s, b - e + 1, l - e) = SubSeq(one, b + 1, l)
  <2>1. b \in e .. l
    BY <1>3, <1>6
  <2> QED
    BY <1>1, <1>3, <2>1, PartOf
<1> HIDE DEF s, b
<1>12. Word(s, {"."}) = part
  BY <1>4 DEF part
<1>13. Octet(s) <=> Part(text, e, b)
  <2>1. Len(part) < Len(s)
    BY <1>3, <1>6, <1>9, <1>11
  <2>2. Octet(s) <=> Len(part) \in 1 .. 3 /\ AllDigits(part) /\ Number(part) <= 255
    BY <1>12, <2>1 DEF Octet
  <2>3. UpTo(part, <<"2", "5", "5">>) <=> Len(part) \in 1 .. 3 /\ AllDigits(part) /\ Number(part) <= 255
    BY <1>9, OctetIs
  <2> QED
    BY <1>10, <2>2, <2>3 DEF Part
<1>14. NextPart(s) = SubSeq(one, b + 1, l)
  <2>1. part \o <<".">> \in Text /\ Len(part \o <<".">>) = x - e + 1
    <3>1. <<".">> \in Seq(Symbol) /\ Len(<<".">>) = 1
      BY DEF Symbol
    <3> QED
      BY <1>9, <3>1, ConcatProperties DEF Text
  <2>2. NextPart(s) = SubSeq(s, Len(part \o <<".">>) + 1, Len(s))
    BY <1>12 DEF NextPart, After
  <2>3. Len(part \o <<".">>) + 1 = b - e + 1
    BY <1>3, <1>6, <2>1
  <2> QED
    BY <1>11, <2>2, <2>3
<1>15. SubSeq(one, b + 1, l) = Rest(text, b)
  BY DEF Rest, one, l
<1> QED
  BY <1>1, <1>2, <1>6, <1>7, <1>8, <1>13, <1>14, <1>15

\* There is no part after the last dot.
LEMMA NoPart ==
    ASSUME NEW text \in Text
    PROVE  ~Octet(Rest(text, Len(text) + 1))
<1> DEFINE one == Append(text, ".")
           l == Len(text) + 1
           s == SubSeq(one, l + 1, l)
<1>1. one \in Text /\ Len(one) = l /\ l \in Nat
  BY DotAdded, LenProperties DEF Text
<1> HIDE DEF one, l
<1>2. l \in 0 .. Len(one) /\ l \in l .. Len(one)
  BY <1>1
<1>3. PICK x : Cut(one, l, l, {"."}, x) /\ Word(s, {"."}) = SubSeq(one, l + 1, x)
  <2> DEFINE dot == {"."}
  <2> HIDE DEF dot
  <2>1. \E x : /\ Cut(one, l, l, dot, x)
               /\ Word(SubSeq(one, l + 1, l), dot) = SubSeq(one, l + 1, x)
               /\ After(SubSeq(one, l + 1, l), SubSeq(one, l + 1, x)) = SubSeq(one, x + 1, l)
    BY <1>1, <1>2, WordIs, ZenonT(60)
  <2> QED
    BY <2>1 DEF dot
<1>4. x = l
  BY <1>1, <1>3 DEF Cut
<1>5. Len(SubSeq(one, l + 1, x)) = l - l
  BY <1>1, <1>2, <1>4, PartIs
<1>6. Len(Word(s, {"."})) = 0
  <2>1. l - l = 0
    BY <1>1
  <2> QED
    BY <1>3, <1>5, <2>1
<1>7. ~Octet(s)
  BY <1>6 DEF Octet
<1> QED
  BY <1>7 DEF Rest, one, l

\* The dot after a place is the only one there.
LEMMA GapOnce ==
    ASSUME NEW text \in Text, NEW e \in Nat, NEW b \in Dots(text), NEW c \in Dots(text),
           e < b, \A m \in e + 1 .. b - 1 : m \notin Dots(text), Gap(text, e, c)
    PROVE  b = c
<1>1. b \in Nat /\ c \in Nat
  BY LenProperties DEF Dots, Text
<1>2. e < c /\ \A m \in e + 1 .. c - 1 : m \notin Dots(text)
  BY DEF Gap
<1>3. ~(b < c)
  <2>1. b < c => b \in e + 1 .. c - 1
    BY <1>1
  <2> QED
    BY <1>2, <2>1
<1>4. ~(c < b)
  <2>1. c < b => c \in e + 1 .. b - 1
    BY <1>1, <1>2
  <2> QED
    BY <2>1
<1> QED
  BY <1>1, <1>3, <1>4

\* A part of an address that check_ipv4() takes
LEMMA PartTaken ==
    ASSUME NEW text \in Text, NEW e \in 0 .. Len(text) + 1
    PROVE  /\ Octet(Rest(text, e)) =>
                 \E b \in Dots(text) : /\ Gap(text, e, b) /\ Part(text, e, b)
                                       /\ NextPart(Rest(text, e)) = Rest(text, b)
           /\ \A c \in Dots(text) : Gap(text, e, c) =>
                 /\ Octet(Rest(text, e)) <=> Part(text, e, c)
                 /\ NextPart(Rest(text, e)) = Rest(text, c)
<1>1. Len(text) \in Nat /\ DOMAIN text = 1 .. Len(text)
  BY LenProperties DEF Text
<1>2. CASE e = Len(text) + 1
  <2>1. ~Octet(Rest(text, e))
    BY <1>2, NoPart
  <2>2. \A c \in Dots(text) : ~Gap(text, e, c)
    BY <1>1, <1>2 DEF Dots, Gap
  <2> QED
    BY <2>1, <2>2
<1>3. CASE e # Len(text) + 1
  <2>1. e \in 0 .. Len(text)
    BY <1>1, <1>3
  <2>2. PICK b \in e + 1 .. Len(text) + 1 :
              /\ b \in Dots(text) /\ \A m \in e + 1 .. b - 1 : m \notin Dots(text)
              /\ Octet(Rest(text, e)) <=> Part(text, e, b)
              /\ NextPart(Rest(text, e)) = Rest(text, b)
    BY <2>1, PartIsOctet
  <2>3. e \in Nat /\ e < b
    BY <1>1
  <2>4. Gap(text, e, b)
    BY <2>2, <2>3 DEF Gap
  <2>5. ASSUME NEW c \in Dots(text), Gap(text, e, c) PROVE b = c
    BY <2>2, <2>3, <2>5, GapOnce
  <2> QED
    BY <2>2, <2>4, <2>5
<1> QED
  BY <1>2, <1>3

\* Four parts, in terms of these
LEMMA FourPartsAre ==
    ASSUME NEW text
    PROVE  (\E d \in Dots(text) : FourParts(text, d)) <=>
              /\ Len(text) \in 7 .. 15
              /\ \E a, b, c, d \in Dots(text) :
                    /\ Gap(text, 0, a) /\ Gap(text, a, b) /\ Gap(text, b, c) /\ Gap(text, c, d)
                    /\ Part(text, 0, a) /\ Part(text, a, b) /\ Part(text, b, c) /\ Part(text, c, d)
<1>1. ASSUME NEW a, NEW b, NEW c, NEW d
      PROVE  (\A g \in {<<0, a>>, <<a, b>>, <<b, c>>, <<c, d>>} :
                    UpTo(SubSeq(text, g[1] + 1, g[2] - 1), <<"2", "5", "5">>))
             <=> Part(text, 0, a) /\ Part(text, a, b) /\ Part(text, b, c) /\ Part(text, c, d)
  BY DEF Part
<1> DEFINE Four == \E a, b, c, d \in Dots(text) :
                    /\ Gap(text, 0, a) /\ Gap(text, a, b) /\ Gap(text, b, c) /\ Gap(text, c, d)
                    /\ \A g \in {<<0, a>>, <<a, b>>, <<b, c>>, <<c, d>>} :
                          UpTo(SubSeq(text, g[1] + 1, g[2] - 1), <<"2", "5", "5">>)
<1> DEFINE FourAt(d) == \E a, b, c \in Dots(text) :
                    /\ Gap(text, 0, a) /\ Gap(text, a, b) /\ Gap(text, b, c) /\ Gap(text, c, d)
                    /\ \A g \in {<<0, a>>, <<a, b>>, <<b, c>>, <<c, d>>} :
                          UpTo(SubSeq(text, g[1] + 1, g[2] - 1), <<"2", "5", "5">>)
<1>2. (\E d \in Dots(text) : FourParts(text, d)) <=> Len(text) \in 7 .. 15 /\ Four
  <2>1. ASSUME NEW d
        PROVE  FourParts(text, d) <=> Len(text) \in 7 .. 15 /\ d \in Dots(text) /\ FourAt(d)
    BY Zenon DEF FourParts, Dots, Gap
  <2>2. ASSUME Four PROVE \E d \in Dots(text) : FourAt(d)
    BY <2>2
  <2>3. ASSUME NEW d \in Dots(text), FourAt(d) PROVE Four
    BY <2>3
  <2> HIDE DEF Four, FourAt
  <2> QED
    BY <2>1, <2>2, <2>3, Zenon
<1>3. ASSUME Four
      PROVE  \E a, b, c, d \in Dots(text) :
                    /\ Gap(text, 0, a) /\ Gap(text, a, b) /\ Gap(text, b, c) /\ Gap(text, c, d)
                    /\ Part(text, 0, a) /\ Part(text, a, b) /\ Part(text, b, c) /\ Part(text, c, d)
  <2>1. PICK a \in Dots(text), b \in Dots(text), c \in Dots(text), d \in Dots(text) :
              /\ Gap(text, 0, a) /\ Gap(text, a, b) /\ Gap(text, b, c) /\ Gap(text, c, d)
              /\ \A g \in {<<0, a>>, <<a, b>>, <<b, c>>, <<c, d>>} :
                    UpTo(SubSeq(text, g[1] + 1, g[2] - 1), <<"2", "5", "5">>)
    BY <1>3
  <2>2. Part(text, 0, a) /\ Part(text, a, b) /\ Part(text, b, c) /\ Part(text, c, d)
    BY <2>1 DEF Part
  <2> QED
    BY <2>1, <2>2
<1>4. ASSUME \E a, b, c, d \in Dots(text) :
                    /\ Gap(text, 0, a) /\ Gap(text, a, b) /\ Gap(text, b, c) /\ Gap(text, c, d)
                    /\ Part(text, 0, a) /\ Part(text, a, b) /\ Part(text, b, c) /\ Part(text, c, d)
      PROVE  Four
  BY <1>1, <1>4
<1> HIDE DEF Four
<1> QED
  BY <1>2, <1>3, <1>4

\* check_ipv4() takes addresses, and those that go on after their fourth part.
LEMMA Ipv4Is ==
    ASSUME NEW text \in Text
    PROVE  Ipv4(text) <=> Address(text) \/ LongAddress(text)
<1> DEFINE two == NextPart(Append(text, "."))
           three == NextPart(two)
           four == NextPart(three)
           All == Octet(Append(text, ".")) /\ Octet(two) /\ Octet(three) /\ Octet(four)
           Four == \E a, b, c, d \in Dots(text) :
                    /\ Gap(text, 0, a) /\ Gap(text, a, b) /\ Gap(text, b, c) /\ Gap(text, c, d)
                    /\ Part(text, 0, a) /\ Part(text, a, b) /\ Part(text, b, c) /\ Part(text, c, d)
<1>1. Ipv4(text) <=> Len(text) \in 7 .. 15 /\ All
  BY DEF Ipv4
<1>2. Append(text, ".") = Rest(text, 0)
  <2>1. /\ Append(text, ".") \in Text /\ Len(Append(text, ".")) = Len(text) + 1
    BY DotAdded
  <2> QED
    BY <2>1, SubSeqFull DEF Rest, Text
<1>3. Len(text) \in Nat /\ 0 \in 0 .. Len(text) + 1 /\ \A b \in Dots(text) : b \in 0 .. Len(text) + 1
  BY LenProperties DEF Text, Dots
<1>4. ASSUME All PROVE Four
  <2>1. PICK a \in Dots(text) : Gap(text, 0, a) /\ Part(text, 0, a) /\ two = Rest(text, a)
    BY <1>2, <1>3, <1>4, PartTaken
  <2>2. PICK b \in Dots(text) : Gap(text, a, b) /\ Part(text, a, b) /\ three = Rest(text, b)
    BY <1>3, <1>4, <2>1, PartTaken
  <2>3. PICK c \in Dots(text) : Gap(text, b, c) /\ Part(text, b, c) /\ four = Rest(text, c)
    BY <1>3, <1>4, <2>2, PartTaken
  <2>4. PICK d \in Dots(text) : Gap(text, c, d) /\ Part(text, c, d)
    BY <1>3, <1>4, <2>3, PartTaken
  <2> QED
    BY <2>1, <2>2, <2>3, <2>4
<1>5. ASSUME Four PROVE All
  <2>1. PICK a \in Dots(text), b \in Dots(text), c \in Dots(text), d \in Dots(text) :
                    /\ Gap(text, 0, a) /\ Gap(text, a, b) /\ Gap(text, b, c) /\ Gap(text, c, d)
                    /\ Part(text, 0, a) /\ Part(text, a, b) /\ Part(text, b, c) /\ Part(text, c, d)
    BY <1>5
  <2>2. Octet(Append(text, ".")) /\ two = Rest(text, a)
    <3>1. Octet(Rest(text, 0)) /\ NextPart(Rest(text, 0)) = Rest(text, a)
      BY <1>3, <2>1, PartTaken
    <3> QED
      BY <1>2, <3>1
  <2>3. Octet(two) /\ three = Rest(text, b)
    BY <1>3, <2>1, <2>2, PartTaken
  <2>4. Octet(three) /\ four = Rest(text, c)
    BY <1>3, <2>1, <2>3, PartTaken
  <2>5. Octet(four)
    BY <1>3, <2>1, <2>4, PartTaken
  <2> QED
    BY <2>2, <2>3, <2>4, <2>5
<1> HIDE DEF All, Four
<1>6. (\E d \in Dots(text) : FourParts(text, d)) <=> Len(text) \in 7 .. 15 /\ Four
  BY FourPartsAre DEF Four
<1>7. (\E d \in Dots(text) : FourParts(text, d)) <=> Address(text) \/ LongAddress(text)
  <2>1. \A d : FourParts(text, d) => d \in Dots(text)
    BY DEF FourParts, Dots
  <2>2. ~FourParts(text, 0)
    <3>1. \A c \in Dots(text) : c >= 0 /\ ~(c < 0)
      BY <1>3
    <3> QED
      BY <3>1 DEF FourParts, Dots
  <2>3. \A d \in Dots(text) : d \in DOMAIN text \/ d = 0 \/ d = Len(text) + 1
    BY DEF Dots
  <2> QED
    BY <2>1, <2>2, <2>3 DEF Address, LongAddress
<1> QED
  BY <1>1, <1>4, <1>5, <1>6, <1>7

\* A text of one symbol
LEMMA OneSymbol ==
    ASSUME NEW S, NEW text \in Seq(S), NEW c
    PROVE  text = <<c>> <=> Len(text) = 1 /\ text[1] = c
  OBVIOUS

\* The number of one digit
LEMMA OneDigit ==
    ASSUME NEW d \in 1 .. 10
    PROVE  Number(<<Digits[d]>>) = d - 1
<1> DEFINE e == <<Digits[d]>>
<1>1. e \in Text /\ Len(e) = 1 /\ e[1] = Digits[d]
  <2>1. Digits[d] \in Symbol
    BY DigitIs DEF Symbol
  <2> QED
    BY <2>1 DEF Text
<1> HIDE DEF e
<1>2. Numeral(e)
  <2>1. \A i \in 1 .. 1 : i = 1
    OBVIOUS
  <2> QED
    BY <1>1, <2>1, DigitIs DEF Numeral
<1>3. PICK n : Counts(e, n) /\ Number(e) = n[1]
  BY <1>1, <1>2, NumberIs
<1>4. n[0] = 0 /\ n[1] = 10 * n[0] + DigitOf(e[1])
  BY <1>1, <1>3 DEF Counts
<1>5. DigitOf(e[1]) = d - 1
  BY <1>1, DigitIs
<1> QED
  BY <1>3, <1>4, <1>5 DEF e

\* The names of the levels
LEMMA LevelNames == DOMAIN Levels = 1 .. 10
  BY DEF Levels

\* What an item of a kind can be given without an error
Tolerated(kind, text) == Valid(kind, text) \/ (kind = "ipv4" /\ LongAddress(text))

\* The check functions take exactly what is valid, and besides it the addresses
\* that go on after their fourth part (ms_config.c 216-541).
THEOREM ValidIs ==
    ASSUME NEW kind \in Kinds, NEW text \in Text, text # <<>>
    PROVE  Passes(kind, text) <=> Valid(kind, text) \/ (kind = "ipv4" /\ LongAddress(text))
<1>1. Head(text) = text[1] /\ Last(text) = text[Len(text)] /\ Len(text) \in Nat
  BY LenProperties DEF Last, Text
<1>2. CASE kind = "ipv4"
  BY <1>2, Ipv4Is DEF Passes, Valid
<1>3. CASE kind = "port"
  BY <1>3, PortIs DEF Passes, Valid
<1>4. CASE kind = "num"
  BY <1>4, NumIs DEF Passes, Valid
<1>5. CASE kind = "level"
  <2>1. Level(text) <=> Len(text) = 1 /\ \E i \in DOMAIN Levels : Levels[i] = text[1]
    <3>1. \A c : text = <<c>> <=> Len(text) = 1 /\ text[1] = c
      BY OneSymbol DEF Text
    <3> QED
      BY <3>1 DEF Level
  <2> QED
    BY <1>5, <2>1 DEF Passes, Valid
<1>6. CASE kind = "dir"
  BY <1>1, <1>6 DEF Passes, Valid, Dir, Absolute
<1>7. CASE kind = "file"
  BY <1>1, <1>7 DEF Passes, Valid, FileName, Absolute
<1>8. CASE kind = "str"
  BY <1>8 DEF Passes, Valid
<1> QED
  BY <1>2, <1>3, <1>4, <1>5, <1>6, <1>7, <1>8 DEF Kinds

\* What is copied is not empty.
LEMMA CopyIs ==
    ASSUME NEW kind, NEW text, text # <<>>
    PROVE  Copy(kind, text) # <<>>
  BY DEF Copy

\* What main() makes of the copy of a level is its place among the levels.
LEMMA LevelIs ==
    ASSUME NEW text, Level(text)
    PROVE  text = <<Levels[Number(Copy("level", text)) + 1]>>
<1> DEFINE i == CHOOSE i \in DOMAIN Levels : text = <<Levels[i]>>
<1>1. i \in 1 .. 10 /\ text = <<Levels[i]>>
  BY LevelNames DEF Level
<1>2. Copy("level", text) = <<Digits[i]>>
  BY DEF Copy
<1> HIDE DEF i
<1>3. Number(Copy("level", text)) + 1 = i
  BY <1>1, <1>2, OneDigit
<1> QED
  BY <1>1, <1>3

-----------------------------------------------------------------------------
(* Lines of the file                                                       *)

Keys == STRING \ (Delims \cup {"#"})

\* Line n gives a value to item k; it is one that the parser goes on after.
Has(n, k) == Key(file[n]) = <<k>> /\ Val(file[n]) # <<>>
Good(n) ==
    /\ Len(file[n]) < BuffSize - 2
    /\ Content(file[n]) = <<>> \/ \E k \in DOMAIN items : Has(n, k) /\ Passes(items[k], Val(file[n]))

Typed ==
    /\ items \in [DOMAIN items -> Kinds] /\ DOMAIN items \subseteq Keys /\ IsFiniteSet(DOMAIN items)
    /\ file \in Seq(Text)

\* What a line says is its key and its value, as the parser cuts it.
LEMMA Giving ==
    ASSUME NEW line \in Text, NEW k \in Keys
    PROVE  \A text : text \in Parts(line) /\ Says(line, k, text) <=>
                        Key(line) = <<k>> /\ Val(line) # <<>> /\ text = Val(line)
<1>1. k \in Symbol
  BY DEF Keys, Symbol
<1>2. ASSUME NEW text, text \in Parts(line), Says(line, k, text)
      PROVE  Key(line) = <<k>> /\ Val(line) # <<>> /\ text = Val(line)
  <2>1. text \in Text
    BY <1>2, PartsText
  <2>2. k \in Symbol \ (Delims \cup {"#"})
    BY <1>1 DEF Keys
  <2>3. Key(line) = <<k>> /\ Val(line) = text /\ text # <<>> /\ Content(line) # <<>>
    BY <1>2, <2>1, <2>2, SaysIs
  <2> QED
    BY <2>3
<1>3. Key(line) = <<k>> /\ Val(line) # <<>> => Val(line) \in Parts(line) /\ Says(line, k, Val(line))
  BY <1>1, SaysOf
<1> QED
  BY <1>2, <1>3

\* The same of the lines of the file
LEMMA HasIs ==
    ASSUME Typed, NEW n \in 1 .. Len(file), NEW k \in DOMAIN items
    PROVE  /\ \A text : text \in Parts(file[n]) /\ Says(file[n], k, text) <=> Has(n, k) /\ text = Val(file[n])
           /\ Has(n, k) => Content(file[n]) # <<>> /\ Val(file[n]) \in Text /\ Val(file[n]) # <<>>
           /\ \A j : Has(n, j) /\ Has(n, k) => j = k
<1>1. file[n] \in Text /\ k \in Keys
  BY DEF Typed
<1>2. \A text : text \in Parts(file[n]) /\ Says(file[n], k, text) <=> Has(n, k) /\ text = Val(file[n])
  BY <1>1, Giving DEF Has
<1>3. ASSUME Has(n, k) PROVE Content(file[n]) # <<>> /\ Val(file[n]) \in Text /\ Val(file[n]) # <<>>
  <2>1. Val(file[n]) \in Parts(file[n]) /\ Says(file[n], k, Val(file[n]))
    BY <1>2, <1>3
  <2>2. Val(file[n]) \in Text
    BY <1>1, <2>1, PartsText
  <2>3. k \in Symbol \ (Delims \cup {"#"})
    BY <1>1 DEF Keys, Symbol
  <2>4. Content(file[n]) # <<>>
    BY <1>1, <2>1, <2>2, <2>3, SaysIs
  <2> QED
    BY <1>3, <2>2, <2>4 DEF Has
<1>4. \A j : Has(n, j) /\ Has(n, k) => j = k
  BY DEF Has
<1> QED
  BY <1>2, <1>3, <1>4

\* A file is as good as well-formed if the parser goes on after each line and each
\* item is given on exactly one.
LEMMA NearlyWellFormedIs ==
    ASSUME Typed
    PROVE  NearlyWellFormed <=>
              /\ \A n \in 1 .. Len(file) : Good(n)
              /\ \A k \in DOMAIN items : \E n \in 1 .. Len(file) :
                    Has(n, k) /\ \A m \in 1 .. Len(file) : Has(m, k) => m = n
<1> DEFINE Shape(n) == /\ Len(file[n]) < BuffSize - 2
                       /\ \/ Idle(file[n])
                          \/ \E k \in DOMAIN items, text \in Parts(file[n]) : Says(file[n], k, text)
           Fine == \A k \in DOMAIN items : \A text \in Given(k) : Tolerated(items[k], text)
           Once(k) == \E n \in 1 .. Len(file) :
                         Has(n, k) /\ \A m \in 1 .. Len(file) : Has(m, k) => m = n
<1>1. DOMAIN file = 1 .. Len(file) /\ Len(file) \in Nat /\ \A n \in 1 .. Len(file) : file[n] \in Text
  BY LenProperties DEF Typed
<1>2. \A n \in 1 .. Len(file) :
         Shape(n) <=> /\ Len(file[n]) < BuffSize - 2
                      /\ Content(file[n]) = <<>> \/ \E k \in DOMAIN items : Has(n, k)
  <2> SUFFICES ASSUME NEW n \in 1 .. Len(file)
               PROVE  Shape(n) <=> /\ Len(file[n]) < BuffSize - 2
                                   /\ Content(file[n]) = <<>> \/ \E k \in DOMAIN items : Has(n, k)
    OBVIOUS
  <2>1. Idle(file[n]) <=> Content(file[n]) = <<>>
    BY <1>1, IdleIs
  <2>2. \A k \in DOMAIN items : (\E text \in Parts(file[n]) : Says(file[n], k, text)) <=> Has(n, k)
    BY HasIs
  <2> QED
    BY <2>1, <2>2
<1>4. Fine <=> \A n \in 1 .. Len(file), k \in DOMAIN items : Has(n, k) => Passes(items[k], Val(file[n]))
  <2>1. \A k \in DOMAIN items : \A text :
           text \in Given(k) <=> \E n \in 1 .. Len(file) : Has(n, k) /\ text = Val(file[n])
    BY <1>1, HasIs DEF Given
  <2>2. \A n \in 1 .. Len(file), k \in DOMAIN items :
           Has(n, k) => (Passes(items[k], Val(file[n])) <=> Tolerated(items[k], Val(file[n])))
    <3> SUFFICES ASSUME NEW n \in 1 .. Len(file), NEW k \in DOMAIN items, Has(n, k)
                 PROVE  Passes(items[k], Val(file[n])) <=> Tolerated(items[k], Val(file[n]))
      OBVIOUS
    <3>1. Val(file[n]) \in Text /\ Val(file[n]) # <<>> /\ items[k] \in Kinds
      BY HasIs DEF Typed
    <3> QED
      BY <3>1, ValidIs DEF Tolerated
  <2> QED
    BY <2>1, <2>2
<1>5. (\A n \in 1 .. Len(file) : Shape(n)) /\ Fine <=> \A n \in 1 .. Len(file) : Good(n)
  <2>1. \A n \in 1 .. Len(file), k \in DOMAIN items :
           Has(n, k) => Content(file[n]) # <<>> /\ \A j \in DOMAIN items : Has(n, j) => j = k
    BY HasIs
  <2> HIDE DEF Shape, Fine
  <2> QED
    BY <1>2, <1>4, <2>1 DEF Good
<1>3. ASSUME NEW k \in DOMAIN items
      PROVE  Cardinality({n \in DOMAIN file : \E text \in Parts(file[n]) : Says(file[n], k, text)}) = 1 <=>
             \E n \in 1 .. Len(file) : Has(n, k) /\ \A m \in 1 .. Len(file) : Has(m, k) => m = n
  <2> DEFINE S == {n \in DOMAIN file : \E text \in Parts(file[n]) : Says(file[n], k, text)}
  <2>1. \A n : n \in S <=> n \in 1 .. Len(file) /\ Has(n, k)
    BY <1>1, HasIs
  <2>2. IsFiniteSet(S)
    <3>1. IsFiniteSet(1 .. Len(file))
      BY <1>1, FS_Interval
    <3> QED
      BY <2>1, <3>1, FS_Subset
  <2>3. Cardinality(S) = 1 <=> \E x : S = {x}
    BY <2>2, FS_Singleton
  <2> HIDE DEF S
  <2>4. (\E x : S = {x}) <=> \E n \in S : \A m \in S : m = n
    OBVIOUS
  <2>5. (\E n \in S : \A m \in S : m = n) <=>
        \E n \in 1 .. Len(file) : Has(n, k) /\ \A m \in 1 .. Len(file) : Has(m, k) => m = n
    BY <2>1
  <2> QED
    BY <2>3, <2>4, <2>5 DEF S
<1>6. Complete <=> (\A n \in 1 .. Len(file) : Shape(n)) /\ \A k \in DOMAIN items : Once(k)
  BY <1>1, <1>3 DEF Complete
<1>7. NearlyWellFormed <=> Complete /\ Fine
  BY DEF NearlyWellFormed, Tolerated
<1> HIDE DEF Shape, Fine, Once
<1>8. NearlyWellFormed <=> (\A n \in 1 .. Len(file) : Good(n)) /\ \A k \in DOMAIN items : Once(k)
  BY <1>5, <1>6, <1>7
<1> QED
  BY <1>8 DEF Once

-----------------------------------------------------------------------------
(* The invariant                                                           *)

\* After r lines, the value of item k is empty and no line gave one, or it is
\* the copy of what the only such line says.
Filled(k, r) ==
    \/ vals[k] = <<>> /\ \A n \in 1 .. r : ~Has(n, k)
    \/ /\ vals[k] # <<>>
       /\ \E n \in 1 .. r : /\ Has(n, k) /\ \A m \in 1 .. r : Has(m, k) => m = n
                            /\ Passes(items[k], Val(file[n]))
                            /\ vals[k] = Copy(items[k], Val(file[n]))

\* No error yet: every line read so far is good, and the table holds what
\* these lines say.
SoFar(r) == (\A n \in 1 .. r : Good(n)) /\ \A k \in DOMAIN items : Filled(k, r)

ConfigInv ==
    /\ Typed
    /\ row \in 0 .. Len(file) /\ error \in Nat
    /\ vals \in [DOMAIN items -> Seq(Symbol)]
    /\ pc \in {"open", "parse", "unset", "failed", "ok", "run"}
    /\ error > 0 => ~NearlyWellFormed
    /\ pc = "open" => row = 0
    /\ pc \in {"open", "parse"} /\ error = 0 => SoFar(row)
    /\ pc = "unset" => error > 0
    /\ pc = "failed" => row = 0 \/ ~NearlyWellFormed
    /\ pc \in {"ok", "run"} => /\ NearlyWellFormed /\ SoFar(Len(file))
                               /\ \A k \in DOMAIN items : vals[k] # <<>>
    /\ pc = "run" => \A k \in DOMAIN items : Means(k, cycle[k])

\* The inputs have the types of the invariant.
LEMMA InputTyped ==
    ASSUME NEW i \in Inputs, items = i.items, file = i.file
    PROVE  Typed
<1>1. STRING \subseteq Symbol
  BY DEF Symbol
<1>2. \A S, T : S \subseteq T => Seq(S) \subseteq Seq(T)
  OBVIOUS
<1>3. Seq(Seq(STRING)) \subseteq Seq(Text)
  BY <1>1, <1>2 DEF Text
<1> QED
  BY <1>3, InputAssumption DEF Typed, Keys

\* What depends on the input alone stays.
LEMMA InputStays ==
    ASSUME UNCHANGED <<items, file>>
    PROVE  /\ Typed' = Typed /\ NearlyWellFormed' = NearlyWellFormed
           /\ \A n, k : Has(n, k)' = Has(n, k)
           /\ \A n : Good(n)' = Good(n)
<1>1. \A n, k : Has(n, k)' = Has(n, k)
  BY DEF Has
<1>2. \A n : Good(n)' = Good(n)
  BY DEF Good, Has
<1>3. Typed' = Typed
  BY DEF Typed
<1>4. NearlyWellFormed' = NearlyWellFormed
  BY DEF NearlyWellFormed, Complete, Given
<1> QED
  BY <1>1, <1>2, <1>3, <1>4

\* If the values stay as well, so does what they are so far.
LEMMA FilledStays ==
    ASSUME UNCHANGED <<items, file, vals>>
    PROVE  \A r : SoFar(r)' = SoFar(r)
<1>1. \A k, r : Filled(k, r)' = Filled(k, r)
  BY InputStays DEF Filled
<1> QED
  BY <1>1, InputStays DEF SoFar

\* A line that is not good: the file is not even nearly well-formed.
LEMMA NotGood ==
    ASSUME Typed, NEW n \in 1 .. Len(file), ~Good(n)
    PROVE  ~NearlyWellFormed
  BY NearlyWellFormedIs

\* Two lines for an item: the file is not even nearly well-formed.
LEMMA Twice ==
    ASSUME Typed, NEW k \in DOMAIN items, NEW m \in 1 .. Len(file), NEW n \in 1 .. Len(file),
           m # n, Has(m, k), Has(n, k)
    PROVE  ~NearlyWellFormed
  BY NearlyWellFormedIs

\* No line for an item: the file is not even nearly well-formed.
LEMMA Never ==
    ASSUME Typed, NEW k \in DOMAIN items, \A n \in 1 .. Len(file) : ~Has(n, k)
    PROVE  ~NearlyWellFormed
  BY NearlyWellFormedIs

\* Before a line is read
LEMMA GetsLine ==
    ASSUME ConfigInv, Gets
    PROVE  /\ row' \in 1 .. Len(file) /\ row' \in 0 .. Len(file) /\ row' = row + 1 /\ row \in Nat
           /\ 1 .. row' = (1 .. row) \cup {row'} /\ row' \notin 1 .. row
           /\ Line = file[row'] /\ Typed /\ Typed' /\ NearlyWellFormed' = NearlyWellFormed
           /\ UNCHANGED <<items, file, cycle>> /\ pc = "parse"
<1>1. Len(file) \in Nat
  BY LenProperties DEF ConfigInv, Typed
<1> QED
  BY <1>1, InputStays DEF ConfigInv, Gets, Line

\* One more good line that gives no item a value, or has set one
LEMMA OneMore ==
    ASSUME NEW r \in Nat, row' = r + 1, SoFar(r), Good(r + 1), UNCHANGED <<items, file>>,
           \A k \in DOMAIN items :
              IF Has(r + 1, k)
              THEN /\ vals[k] = <<>> /\ Passes(items[k], Val(file[r + 1]))
                   /\ vals'[k] = Copy(items[k], Val(file[r + 1])) /\ Val(file[r + 1]) # <<>>
              ELSE vals'[k] = vals[k]
    PROVE  SoFar(row)'
<1>1. 1 .. r + 1 = (1 .. r) \cup {r + 1} /\ r + 1 \notin 1 .. r /\ r + 1 \in 1 .. r + 1
  OBVIOUS
<1>2. \A n \in 1 .. r + 1 : Good(n)'
  BY <1>1, InputStays DEF SoFar
<1>3. ASSUME NEW k \in DOMAIN items PROVE Filled(k, r + 1)'
  <2>1. Filled(k, r)
    BY DEF SoFar
  <2>2. CASE Has(r + 1, k)
    <3>1. /\ vals[k] = <<>> /\ Passes(items[k], Val(file[r + 1])) /\ Val(file[r + 1]) # <<>>
          /\ vals'[k] = Copy(items[k], Val(file[r + 1]))
      BY <2>2
    <3>2. \A n \in 1 .. r : ~Has(n, k)
      BY <2>1, <3>1 DEF Filled
    <3>3. vals'[k] # <<>>
      BY <3>1, CopyIs
    <3>4. \A m \in 1 .. r + 1 : Has(m, k) => m = r + 1
      BY <1>1, <3>2
    <3> QED
      BY <1>1, <2>2, <3>1, <3>3, <3>4, InputStays DEF Filled
  <2>3. CASE ~Has(r + 1, k)
    <3>1. vals'[k] = vals[k]
      BY <2>3
    <3>2. CASE vals[k] = <<>> /\ \A n \in 1 .. r : ~Has(n, k)
      BY <1>1, <2>3, <3>1, <3>2, InputStays DEF Filled
    <3>3. CASE vals[k] # <<>>
      <4>1. PICK n \in 1 .. r : /\ Has(n, k) /\ \A m \in 1 .. r : Has(m, k) => m = n
                                /\ Passes(items[k], Val(file[n]))
                                /\ vals[k] = Copy(items[k], Val(file[n]))
        BY <2>1, <3>3 DEF Filled
      <4>2. n \in 1 .. r + 1 /\ \A m \in 1 .. r + 1 : Has(m, k) => m = n
        BY <1>1, <2>3, <4>1
      <4> QED
        BY <3>1, <3>3, <4>1, <4>2, InputStays DEF Filled
    <3> QED
      BY <2>1, <3>2, <3>3 DEF Filled
  <2> QED
    BY <2>2, <2>3
<1>4. SoFar(r + 1)'
  BY <1>2, <1>3 DEF SoFar
<1> QED
  BY <1>4 DEF SoFar, Filled

\* What check_ functions copy is a text.
LEMMA CopyText ==
    ASSUME NEW kind \in Kinds, NEW text \in Text, Copied(kind, text)
    PROVE  Copy(kind, text) \in Text
<1>1. CASE kind = "level"
  <2> DEFINE i == CHOOSE i \in DOMAIN Levels : text = <<Levels[i]>>
  <2>1. Level(text)
    BY <1>1 DEF Copied, Passes
  <2>2. i \in 1 .. 10
    BY <2>1, LevelNames DEF Level
  <2> HIDE DEF i
  <2>3. <<Digits[i]>> \in Text
    BY <2>2, DigitIs DEF Symbol, Text
  <2> QED
    BY <1>1, <2>3 DEF Copy, i
<1>2. CASE kind # "level"
  BY <1>2 DEF Copy
<1> QED
  BY <1>1, <1>2

\* Init establishes the invariant.
LEMMA InitInv == Init => ConfigInv
<1> SUFFICES ASSUME Init PROVE ConfigInv
  OBVIOUS
<1>1. Typed
  BY InputTyped DEF Init
<1>2. row = 0 /\ error = 0 /\ pc = "open" /\ vals = [k \in DOMAIN items |-> <<>>]
  BY DEF Init
<1>3. row \in 0 .. Len(file)
  BY <1>1, <1>2, LenProperties DEF Typed
<1>4. vals \in [DOMAIN items -> Seq(Symbol)]
  BY <1>2
<1>5. SoFar(0)
  BY <1>2 DEF SoFar, Filled
<1> QED
  BY <1>1, <1>2, <1>3, <1>4, <1>5 DEF ConfigInv

\* The file is opened, or cannot be.
LEMMA OpenInv == ConfigInv /\ Open => ConfigInv'
<1> SUFFICES ASSUME ConfigInv, Open PROVE ConfigInv'
  OBVIOUS
<1>1. Typed' = Typed /\ NearlyWellFormed' = NearlyWellFormed /\ SoFar(row)' = SoFar(row)
  BY InputStays, FilledStays DEF Open
<1>2. UNCHANGED <<items, file, row, vals, error>> /\ pc = "open" /\ pc' \in {"parse", "failed"}
  BY DEF Open
<1> QED
  BY <1>1, <1>2 DEF ConfigInv

\* A line that fills the buffer
LEMMA LongLineInv == ConfigInv /\ LongLine => ConfigInv'
<1> SUFFICES ASSUME ConfigInv, LongLine PROVE ConfigInv'
  OBVIOUS
<1>1. Gets /\ Len(Line) >= BuffSize - 2 /\ error' = error + 1 /\ pc' = "unset" /\ UNCHANGED vals
  BY DEF LongLine
<1>2. /\ row' \in 1 .. Len(file) /\ row' \in 0 .. Len(file) /\ Line = file[row'] /\ Typed /\ Typed'
      /\ NearlyWellFormed' = NearlyWellFormed /\ UNCHANGED <<items, file>>
  BY <1>1, GetsLine
<1>3. Len(file[row']) \in Nat
  BY <1>2, LenProperties DEF Typed, Text
<1>4. ~Good(row')
  BY <1>1, <1>2, <1>3, BuffAssumption DEF Good
<1>5. ~NearlyWellFormed
  BY <1>2, <1>4, NotGood
<1>6. error \in Nat /\ vals \in [DOMAIN items -> Seq(Symbol)]
  BY DEF ConfigInv
<1>7. error' \in Nat /\ error' > 0
  BY <1>1, <1>6
<1> QED
  BY <1>1, <1>2, <1>5, <1>6, <1>7 DEF ConfigInv

\* A line without a key
LEMMA EmptyLineInv == ConfigInv /\ EmptyLine => ConfigInv'
<1> SUFFICES ASSUME ConfigInv, EmptyLine PROVE ConfigInv'
  OBVIOUS
<1>1. Gets /\ Len(Line) < BuffSize - 2 /\ Content(Line) = <<>> /\ UNCHANGED <<vals, error, pc>>
  BY DEF EmptyLine, Reads
<1>2. /\ row' \in 1 .. Len(file) /\ row' \in 0 .. Len(file) /\ row' = row + 1 /\ row \in Nat
      /\ Line = file[row'] /\ Typed /\ Typed'
      /\ NearlyWellFormed' = NearlyWellFormed /\ UNCHANGED <<items, file>> /\ pc = "parse"
  BY <1>1, GetsLine
<1>3. Good(row')
  BY <1>1, <1>2 DEF Good
<1>4. \A k \in DOMAIN items : ~Has(row', k)
  BY <1>1, <1>2, HasIs
<1>5. error = 0 => SoFar(row)'
  <2>1. SUFFICES ASSUME error = 0 PROVE SoFar(row)'
    OBVIOUS
  <2>2. PICK r \in Nat : r = row /\ row' = r + 1
    BY <1>2
  <2>3. SoFar(r) /\ Good(r + 1)
    BY <1>2, <1>3, <2>1, <2>2 DEF ConfigInv
  <2>4. \A k \in DOMAIN items : ~Has(r + 1, k) /\ vals'[k] = vals[k]
    BY <1>1, <1>4, <2>2
  <2> QED
    BY <1>2, <2>2, <2>3, <2>4, OneMore
<1> QED
  BY <1>1, <1>2, <1>5 DEF ConfigInv

\* A line that the parser cannot use
LEMMA BadLineInv == ConfigInv /\ BadLine => ConfigInv'
<1> SUFFICES ASSUME ConfigInv, BadLine PROVE ConfigInv'
  OBVIOUS
<1>1. /\ Gets /\ Content(Line) # <<>> /\ error' = error + 1 /\ UNCHANGED <<vals, pc>>
      /\ Val(Line) = <<>> \/ \A k \in DOMAIN items : Key(Line) # <<k>>
  BY DEF BadLine, Reads
<1>2. /\ row' \in 1 .. Len(file) /\ row' \in 0 .. Len(file) /\ row' = row + 1
      /\ Line = file[row'] /\ Typed /\ Typed'
      /\ NearlyWellFormed' = NearlyWellFormed /\ UNCHANGED <<items, file>> /\ pc = "parse"
  BY <1>1, GetsLine
<1>3. ~Good(row')
  BY <1>1, <1>2 DEF Good, Has
<1>4. ~NearlyWellFormed
  BY <1>2, <1>3, NotGood
<1>5. error \in Nat /\ vals \in [DOMAIN items -> Seq(Symbol)]
  BY DEF ConfigInv
<1>6. error' \in Nat /\ error' > 0
  BY <1>1, <1>5
<1> QED
  BY <1>1, <1>2, <1>4, <1>5, <1>6 DEF ConfigInv

\* A line that gives item k a value
LEMMA ItemInv == ASSUME NEW k \in DOMAIN items PROVE ConfigInv /\ Item(k) => ConfigInv'
<1> SUFFICES ASSUME ConfigInv, Item(k) PROVE ConfigInv'
  OBVIOUS
<1> DEFINE text == Val(Line)
           passes == Unset(k) /\ Passes(items[k], text)
<1>1. /\ Gets /\ Len(Line) < BuffSize - 2 /\ UNCHANGED pc
      /\ Key(Line) = <<k>> /\ text # <<>>
      /\ vals' = IF Unset(k) /\ Copied(items[k], text)
                 THEN [vals EXCEPT ![k] = Copy(items[k], text)] ELSE vals
      /\ error' = IF passes THEN error ELSE error + 1
  BY DEF Item, Reads
<1>2. /\ row' \in 1 .. Len(file) /\ row' \in 0 .. Len(file) /\ row' = row + 1 /\ row \in Nat
      /\ 1 .. row' = (1 .. row) \cup {row'} /\ row' \notin 1 .. row
      /\ Line = file[row'] /\ Typed /\ Typed'
      /\ NearlyWellFormed' = NearlyWellFormed /\ UNCHANGED <<items, file>> /\ pc = "parse"
  BY <1>1, GetsLine
<1>3. Has(row', k)
  BY <1>1, <1>2 DEF Has
<1>4. /\ \A j : Has(row', j) => j = k
      /\ Content(file[row']) # <<>> /\ Val(file[row']) \in Text /\ Val(file[row']) # <<>>
  BY <1>2, <1>3, HasIs
<1>5. Good(row') <=> Passes(items[k], Val(file[row']))
  BY <1>1, <1>2, <1>3, <1>4 DEF Good
<1>6. error \in Nat /\ vals \in [DOMAIN items -> Seq(Symbol)] /\ items[k] \in Kinds
  BY <1>2 DEF ConfigInv, Typed
<1>7. vals' \in [DOMAIN items' -> Seq(Symbol)]
  <2>1. Copied(items[k], text) => Copy(items[k], text) \in Seq(Symbol)
    BY <1>2, <1>4, <1>6, CopyText DEF Text
  <2> QED
    BY <1>1, <1>2, <1>6, <2>1
<1>8. error' \in Nat /\ (error = 0 => (error' = 0 <=> passes)) /\ (error > 0 => error' > 0)
  BY <1>1, <1>6
<1>9. ASSUME error = 0, passes PROVE SoFar(row)'
  <2>1. SoFar(row) /\ row' = row + 1
    BY <1>2, <1>9 DEF ConfigInv
  <2>2. vals[k] = <<>> /\ Passes(items[k], Val(file[row'])) /\ Copied(items[k], text)
    BY <1>2, <1>9 DEF Unset, Copied
  <2>3. vals' = [vals EXCEPT ![k] = Copy(items[k], Val(file[row']))]
    BY <1>1, <1>2, <1>9, <2>2
  <2>4. vals'[k] = Copy(items[k], Val(file[row'])) /\ \A j \in DOMAIN items : j # k => vals'[j] = vals[j]
    BY <1>6, <2>3
  <2>5. PICK r \in Nat : r = row /\ row' = r + 1
    BY <1>2
  <2>6. \A j \in DOMAIN items :
           IF Has(r + 1, j)
           THEN /\ vals[j] = <<>> /\ Passes(items[j], Val(file[r + 1]))
                /\ vals'[j] = Copy(items[j], Val(file[r + 1])) /\ Val(file[r + 1]) # <<>>
           ELSE vals'[j] = vals[j]
    BY <1>3, <1>4, <2>2, <2>4, <2>5
  <2>7. SoFar(r) /\ Good(r + 1)
    BY <1>5, <2>1, <2>2, <2>5
  <2> QED
    BY <1>2, <2>5, <2>6, <2>7, OneMore
<1>10. ASSUME error = 0, ~passes PROVE ~NearlyWellFormed
  <2>1. CASE ~Unset(k)
    <3>1. Filled(k, row) /\ vals[k] # <<>>
      BY <1>2, <1>10, <2>1 DEF ConfigInv, SoFar, Unset
    <3>2. PICK n \in 1 .. row : Has(n, k)
      BY <3>1 DEF Filled
    <3>3. n \in 1 .. Len(file) /\ n # row'
      BY <1>2
    <3> QED
      BY <1>2, <1>3, <3>2, <3>3, Twice
  <2>2. CASE Unset(k)
    <3>1. ~Good(row')
      BY <1>2, <1>5, <1>10, <2>2
    <3> QED
      BY <1>2, <3>1, NotGood
  <2> QED
    BY <2>1, <2>2
<1>11. error > 0 => ~NearlyWellFormed
  BY DEF ConfigInv
<1>12. error = 0 \/ error > 0
  BY <1>6
<1> HIDE DEF passes
<1>13. error' > 0 => ~NearlyWellFormed
  BY <1>8, <1>10, <1>11, <1>12
<1>14. error' = 0 => SoFar(row)'
  BY <1>8, <1>9, <1>12
<1> QED
  BY <1>1, <1>2, <1>7, <1>8, <1>13, <1>14 DEF ConfigInv

\* The end of the file, or of the reading
LEMMA FinishInv == ConfigInv /\ Finish => ConfigInv'
<1> SUFFICES ASSUME ConfigInv, Finish PROVE ConfigInv'
  OBVIOUS
<1>1. /\ pc = "unset" \/ (pc = "parse" /\ row = Len(file))
      /\ error' = IF error = 0 THEN Cardinality(Missing) ELSE error
      /\ pc' = IF error' = 0 THEN "ok" ELSE "failed"
      /\ UNCHANGED <<items, file, row, vals>>
  BY DEF Finish
<1>2. Typed' = Typed /\ NearlyWellFormed' = NearlyWellFormed /\ \A r : SoFar(r)' = SoFar(r)
  BY <1>1, InputStays, FilledStays
<1>3. Typed /\ error \in Nat /\ vals \in [DOMAIN items -> Seq(Symbol)] /\ row \in 0 .. Len(file)
  BY DEF ConfigInv
<1>4. Cardinality(Missing) \in Nat /\ (Cardinality(Missing) = 0 <=> Missing = {})
  <2>1. IsFiniteSet(Missing)
    <3>1. Missing \subseteq DOMAIN items /\ IsFiniteSet(DOMAIN items)
      BY <1>3 DEF Missing, Typed
    <3> QED
      BY <3>1, FS_Subset
  <2> QED
    BY <2>1, FS_CardinalityType, FS_EmptySet
<1>5. CASE error > 0
  BY <1>1, <1>2, <1>3, <1>5 DEF ConfigInv
<1>6. CASE error = 0
  <2>1. pc = "parse" /\ row = Len(file) /\ SoFar(Len(file))
    BY <1>1, <1>6 DEF ConfigInv
  <2>2. CASE Missing = {}
    <3>1. error' = 0 /\ pc' = "ok"
      BY <1>1, <1>4, <1>6, <2>2
    <3>2. \A k \in DOMAIN items : vals[k] # <<>>
      BY <2>2 DEF Missing
    <3>3. NearlyWellFormed
      BY <1>3, <2>1, <3>2, NearlyWellFormedIs DEF SoFar, Filled
    <3> QED
      BY <1>1, <1>2, <1>3, <2>1, <3>1, <3>2, <3>3 DEF ConfigInv
  <2>3. CASE Missing # {}
    <3>1. error' \in Nat /\ error' > 0 /\ pc' = "failed"
      BY <1>1, <1>4, <1>6, <2>3
    <3>2. PICK k \in DOMAIN items : vals[k] = <<>>
      BY <2>3 DEF Missing
    <3>3. \A n \in 1 .. Len(file) : ~Has(n, k)
      BY <2>1, <3>2 DEF SoFar, Filled
    <3>4. ~NearlyWellFormed
      BY <1>3, <3>3, Never
    <3> QED
      BY <1>1, <1>2, <1>3, <3>1, <3>4 DEF ConfigInv
  <2> QED
    BY <2>2, <2>3
<1> QED
  BY <1>3, <1>5, <1>6

\* main() takes the values.
LEMMA TakeValuesInv == ConfigInv /\ TakeValues => ConfigInv'
<1> SUFFICES ASSUME ConfigInv, TakeValues PROVE ConfigInv'
  OBVIOUS
<1>1. /\ pc = "ok" /\ pc' = "run" /\ UNCHANGED <<items, file, row, vals, error>>
      /\ cycle' = [k \in DOMAIN items |->
                    IF items[k] \in {"port", "num", "level"} THEN Number(vals[k]) ELSE vals[k]]
  BY DEF TakeValues
<1>2. Typed' = Typed /\ NearlyWellFormed' = NearlyWellFormed /\ \A r : SoFar(r)' = SoFar(r)
  BY <1>1, InputStays, FilledStays
<1>3. Typed /\ SoFar(Len(file)) /\ \A k \in DOMAIN items : vals[k] # <<>>
  BY <1>1 DEF ConfigInv
<1>4. ASSUME NEW k \in DOMAIN items PROVE Means(k, cycle[k])'
  <2>1. PICK n \in 1 .. Len(file) : /\ Has(n, k) /\ Passes(items[k], Val(file[n]))
                                    /\ vals[k] = Copy(items[k], Val(file[n]))
    BY <1>3 DEF SoFar, Filled
  <2>2. /\ Val(file[n]) \in Parts(file[n]) /\ Says(file[n], k, Val(file[n]))
        /\ n \in DOMAIN file
    BY <1>3, <2>1, HasIs, LenProperties DEF Typed
  <2> DEFINE text == Val(file[n])
             value == cycle'[k]
  <2>3. value = IF items[k] \in {"port", "num", "level"} THEN Number(vals[k]) ELSE vals[k]
    BY <1>1
  <2>4. vals[k] = Copy(items[k], text)
    BY <2>1
  <2>5. items[k] = "level" => Level(text)
    BY <2>1 DEF Passes
  <2> HIDE DEF text, value
  <2>6. (CASE items[k] = "level" -> text = <<Levels[value + 1]>>
           [] items[k] \in {"port", "num"} -> value = Number(text)
           [] OTHER -> value = text)
    <3>1. CASE items[k] = "level"
      BY <2>3, <2>4, <2>5, <3>1, LevelIs
    <3>2. CASE items[k] \in {"port", "num"}
      BY <2>3, <2>4, <3>2 DEF Copy
    <3>3. CASE items[k] \notin {"level", "port", "num"}
      BY <2>3, <2>4, <3>3 DEF Copy
    <3> QED
      BY <3>1, <3>2, <3>3
  <2> QED
    BY <1>1, <2>2, <2>6 DEF Means, text, value
<1> QED
  BY <1>1, <1>2, <1>3, <1>4 DEF ConfigInv

\* The verdict and the values of the parser: the invariant of every table and
\* file.
THEOREM ConfigInvariant == Spec => []ConfigInv
<1>1. Init => ConfigInv
  BY InitInv
<1>2. ConfigInv /\ [Next]_vars => ConfigInv'
  <2> SUFFICES ASSUME ConfigInv, [Next]_vars PROVE ConfigInv'
    OBVIOUS
  <2>1. CASE Open
    BY <2>1, OpenInv
  <2>2. CASE LongLine
    BY <2>2, LongLineInv
  <2>3. CASE EmptyLine
    BY <2>3, EmptyLineInv
  <2>4. CASE BadLine
    BY <2>4, BadLineInv
  <2>5. CASE \E k \in DOMAIN items : Item(k)
    BY <2>5, ItemInv
  <2>6. CASE Finish
    BY <2>6, FinishInv
  <2>7. CASE TakeValues
    BY <2>7, TakeValuesInv
  <2>8. CASE UNCHANGED vars
    <3>1. UNCHANGED <<items, file, row, vals, error, cycle, pc>>
      BY <2>8 DEF vars
    <3>2. Typed' = Typed /\ NearlyWellFormed' = NearlyWellFormed /\ \A r : SoFar(r)' = SoFar(r)
      BY <3>1, InputStays, FilledStays
    <3>3. \A k : Means(k, cycle[k])' = Means(k, cycle[k])
      BY <3>1 DEF Means
    <3> QED
      BY <3>1, <3>2, <3>3 DEF ConfigInv
  <2> QED
    BY <2>1, <2>2, <2>3, <2>4, <2>5, <2>6, <2>7, <2>8 DEF Next
<1> QED
  BY <1>1, <1>2, PTL DEF Spec

\* The verdict of the parser is right for every table and every file, but for
\* addresses that go on after their fourth part: no file without an error is
\* refused, and what a file that is accepted gives to its items is valid.
THEOREM VerdictHolds == Spec => []Verdict
<1>1. ConfigInv => Verdict
  <2> SUFFICES ASSUME ConfigInv PROVE Verdict
    OBVIOUS
  <2>1. row > 0 => row # 0
    BY DEF ConfigInv
  <2> QED
    BY <2>1 DEF ConfigInv, Verdict
<1> QED
  BY <1>1, ConfigInvariant, PTL
=============================================================================
