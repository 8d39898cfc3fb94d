------------------------- MODULE CommandFilter_proofs -------------------------
(***************************************************************************)
(* Proofs about CommandFilter for every set of characters, every rule and  *)
(* every number of keys: its copy of a line of ASCII is the target's line, *)
(* its copy of any line long enough to erase it by, and it implements      *)
(* CommandGate.                                                            *)
(***************************************************************************)
EXTENDS CommandFilter, WellFoundedInduction, SequenceTheorems, TLAPS

Shells == [line : Seq(Text), ran : Seq(Seq(Text))]

-----------------------------------------------------------------------------
(* Reading keys.                                                            *)

\* Every set of numbers that is not empty has a least one.
LEMMA LeastNumber ==
  ASSUME NEW T \in SUBSET Nat, T # {}
  PROVE  \E m \in T : \A n \in T : m <= n
<1> DEFINE Less == OpToRel(<, Nat)
<1>1. IsWellFoundedOn(Less, Nat)
  BY NatLessThanWellFounded
<1>2. \A m, n \in Nat : <<n, m>> \in Less <=> n < m
  BY DEF OpToRel
<1> HIDE DEF Less
<1>3. PICK m \in T : \A n \in T : ~(<<n, m>> \in Less)
  BY <1>1, WFMin
<1>4. ASSUME NEW n \in T
      PROVE  m <= n
  <2>1. m \in Nat /\ n \in Nat
    OBVIOUS
  <2>2. ~(n < m)
    BY <1>2, <1>3, <2>1
  <2> QED
    BY <2>1, <2>2
<1> QED
  BY <1>4

\* f[i] is the target after the first i of n keys.
Reading(f, sh, sent, n) ==
  f = [i \in 0 .. n |-> IF i = 0 THEN sh ELSE ShellReads(f[i - 1], sent[i])]

LEMMA ReadingSteps ==
  ASSUME NEW n \in Nat, NEW f, NEW sh, NEW sent
  PROVE  Reading(f, sh, sent, n) <=>
           /\ f = [i \in 0 .. n |-> f[i]] /\ f[0] = sh
           /\ \A i \in 1 .. n : f[i] = ShellReads(f[i - 1], sent[i])
<1>1. ASSUME Reading(f, sh, sent, n)
      PROVE  /\ f = [i \in 0 .. n |-> f[i]] /\ f[0] = sh
             /\ \A i \in 1 .. n : f[i] = ShellReads(f[i - 1], sent[i])
  BY <1>1 DEF Reading
<1>2. ASSUME f = [i \in 0 .. n |-> f[i]], f[0] = sh,
             \A i \in 1 .. n : f[i] = ShellReads(f[i - 1], sent[i])
      PROVE  Reading(f, sh, sent, n)
  <2> DEFINE step(i) == IF i = 0 THEN sh ELSE ShellReads(f[i - 1], sent[i])
  <2>1. ASSUME NEW i \in 0 .. n
        PROVE  f[i] = step(i)
    <3>1. CASE i = 0
      BY <1>2, <3>1
    <3>2. CASE i # 0
      <4>1. i \in 1 .. n
        BY <3>2
      <4> QED
        BY <1>2, <3>2, <4>1
    <3> QED
      BY <3>1, <3>2
  <2>2. [i \in 0 .. n |-> f[i]] = [i \in 0 .. n |-> step(i)]
    <3> HIDE DEF step
    <3> QED
      BY <2>1
  <2>3. f = [i \in 0 .. n |-> step(i)]
    BY <1>2, <2>2
  <2> QED
    BY <2>3 DEF Reading
<1> QED
  BY <1>1, <1>2

\* A reading can be continued by a key, so that a shortest sequence without one
\* is not empty and has one.
LEMMA ReadingExists ==
  ASSUME NEW n \in Nat, NEW sh, NEW sent
  PROVE  \E f : Reading(f, sh, sent, n)
<1> DEFINE Bad == {m \in Nat : ~ \E f : Reading(f, sh, sent, m)}
<1> SUFFICES ASSUME Bad # {}
             PROVE  FALSE
  OBVIOUS
<1>1. PICK m \in Bad : \A k \in Bad : m <= k
  BY LeastNumber
<1>2. m \in Nat /\ ~ \E f : Reading(f, sh, sent, m)
  OBVIOUS
<1> HIDE DEF Bad
<1>3. m # 0
  <2> DEFINE f == [i \in 0 .. 0 |-> sh]
  <2>1. f[0] = sh /\ f = [i \in 0 .. 0 |-> f[i]]
    OBVIOUS
  <2> HIDE DEF f
  <2>2. \A i \in 1 .. 0 : f[i] = ShellReads(f[i - 1], sent[i])
    OBVIOUS
  <2>3. Reading(f, sh, sent, 0)
    BY <2>1, <2>2, ReadingSteps
  <2> QED
    BY <1>2, <2>3
<1>4. m - 1 \in Nat /\ m - 1 \notin Bad
  BY <1>1, <1>2, <1>3
<1>5. PICK f : Reading(f, sh, sent, m - 1)
  BY <1>4 DEF Bad
<1> DEFINE g == [i \in 0 .. m |-> IF i = m THEN ShellReads(f[m - 1], sent[m]) ELSE f[i]]
<1>6. /\ f[0] = sh
      /\ \A i \in 1 .. m - 1 : f[i] = ShellReads(f[i - 1], sent[i])
  BY <1>4, <1>5, ReadingSteps
<1>7. g = [i \in 0 .. m |-> g[i]] /\ g[0] = sh /\ g[m] = ShellReads(g[m - 1], sent[m])
  BY <1>2, <1>3, <1>6
<1>8. ASSUME NEW i \in 1 .. m - 1
      PROVE  g[i] = ShellReads(g[i - 1], sent[i])
  BY <1>2, <1>6
<1> HIDE DEF g
<1>9. ASSUME NEW i \in 1 .. m
      PROVE  g[i] = ShellReads(g[i - 1], sent[i])
  <2>1. CASE i = m
    BY <1>7, <2>1
  <2>2. CASE i # m
    <3>1. i \in 1 .. m - 1
      BY <1>2, <2>2
    <3> QED
      BY <1>8, <3>1
  <2> QED
    BY <2>1, <2>2
<1>10. Reading(g, sh, sent, m)
  BY <1>2, <1>7, <1>9, ReadingSteps
<1> QED
  BY <1>2, <1>10

\* There is only one: take the first place where two differ.
LEMMA ReadingUnique ==
  ASSUME NEW n \in Nat, NEW sh, NEW sent, NEW f, NEW g,
         Reading(f, sh, sent, n), Reading(g, sh, sent, n)
  PROVE  f = g
<1>1. /\ f = [i \in 0 .. n |-> f[i]] /\ f[0] = sh
      /\ \A i \in 1 .. n : f[i] = ShellReads(f[i - 1], sent[i])
      /\ g = [i \in 0 .. n |-> g[i]] /\ g[0] = sh
      /\ \A i \in 1 .. n : g[i] = ShellReads(g[i - 1], sent[i])
  BY ReadingSteps
<1> DEFINE Bad == {i \in 0 .. n : f[i] # g[i]}
<1>2. ASSUME Bad # {}
      PROVE  FALSE
  <2>1. PICK i \in Bad : \A k \in Bad : i <= k
    <3>1. Bad \in SUBSET Nat
      OBVIOUS
    <3> QED
      BY <1>2, <3>1, LeastNumber
  <2>2. i \in 0 .. n /\ f[i] # g[i]
    OBVIOUS
  <2>3. i # 0
    BY <1>1, <2>2
  <2>4. i - 1 \in 0 .. n /\ i - 1 \notin Bad
    BY <2>1, <2>2, <2>3
  <2>5. f[i - 1] = g[i - 1]
    BY <2>4
  <2>6. i \in 1 .. n
    BY <2>2, <2>3
  <2>7. f[i] = ShellReads(f[i - 1], sent[i]) /\ g[i] = ShellReads(g[i - 1], sent[i])
    BY <1>1, <2>6
  <2> QED
    BY <2>2, <2>5, <2>7
<1>3. \A i \in 0 .. n : f[i] = g[i]
  BY <1>2
<1> QED
  BY <1>1, <1>3

\* Any reading of all the keys tells what the target has read in the end.
LEMMA ReadsTo ==
  ASSUME NEW sh, NEW sent \in Seq(Key), NEW f, Reading(f, sh, sent, Len(sent))
  PROVE  Reads(sh, sent) = f[Len(sent)]
<1>1. Len(sent) \in Nat
  OBVIOUS
<1>2. Reads(sh, sent) = (CHOOSE g : Reading(g, sh, sent, Len(sent)))[Len(sent)]
  BY DEF Reads, Reading
<1>3. Reading(CHOOSE g : Reading(g, sh, sent, Len(sent)), sh, sent, Len(sent))
  BY <1>1, ReadingExists
<1> QED
  BY <1>1, <1>2, <1>3, ReadingUnique

LEMMA ReadsNone ==
  ASSUME NEW sh
  PROVE  Reads(sh, <<>>) = sh
<1> DEFINE none == <<>>
<1>1. none \in Seq(Key) /\ Len(none) = 0
  OBVIOUS
<1>2. PICK f : Reading(f, sh, none, 0)
  BY ReadingExists
<1>3. f[0] = sh
  BY <1>2, ReadingSteps
<1> HIDE DEF none
<1>4. Reads(sh, none) = sh
  BY <1>1, <1>2, <1>3, ReadsTo
<1> QED
  BY <1>4 DEF none

\* A key more is read last ...
LEMMA ReadsAppend ==
  ASSUME NEW sh, NEW sent \in Seq(Key), NEW key \in Key
  PROVE  Reads(sh, Append(sent, key)) = ShellReads(Reads(sh, sent), key)
<1> DEFINE n == Len(sent)
           more == Append(sent, key)
<1>1. /\ n \in Nat /\ more \in Seq(Key) /\ Len(more) = n + 1 /\ more[n + 1] = key
      /\ \A i \in 1 .. n : more[i] = sent[i]
  OBVIOUS
<1> HIDE DEF more
<1>2. PICK f : Reading(f, sh, more, n + 1)
  <2>1. n + 1 \in Nat
    BY <1>1
  <2> QED
    BY <2>1, ReadingExists
<1>3. /\ f = [i \in 0 .. n + 1 |-> f[i]] /\ f[0] = sh
      /\ \A i \in 1 .. n + 1 : f[i] = ShellReads(f[i - 1], more[i])
  BY <1>1, <1>2, ReadingSteps
<1> DEFINE g == [i \in 0 .. n |-> f[i]]
<1>4. /\ g = [i \in 0 .. n |-> g[i]] /\ g[0] = sh /\ g[n] = f[n]
      /\ \A i \in 1 .. n : g[i] = ShellReads(g[i - 1], sent[i])
  <2>1. ASSUME NEW i \in 1 .. n
        PROVE  g[i] = ShellReads(g[i - 1], sent[i])
    <3>1. g[i] = f[i] /\ g[i - 1] = f[i - 1] /\ i \in 1 .. n + 1 /\ more[i] = sent[i]
      BY <1>1
    <3> QED
      BY <1>3, <3>1
  <2>2. g = [i \in 0 .. n |-> g[i]] /\ g[0] = sh /\ g[n] = f[n]
    BY <1>1, <1>3
  <2> HIDE DEF g
  <2> QED
    BY <2>1, <2>2
<1> HIDE DEF g
<1>5. Reading(g, sh, sent, n)
  BY <1>1, <1>4, ReadingSteps
<1>6. Reads(sh, sent) = f[n]
  BY <1>4, <1>5, ReadsTo
<1>7. Reads(sh, more) = f[n + 1]
  BY <1>1, <1>2, ReadsTo
<1> QED
  BY <1>1, <1>3, <1>6, <1>7 DEF more

\* ... and the first key first.
LEMMA ReadsHead ==
  ASSUME NEW sh, NEW sent \in Seq(Key), sent # <<>>
  PROVE  Reads(sh, sent) = Reads(ShellReads(sh, Head(sent)), Tail(sent))
<1> DEFINE n == Len(sent) - 1
           rest == Tail(sent)
           next == ShellReads(sh, Head(sent))
<1>1. /\ n \in Nat /\ Len(sent) = n + 1 /\ rest \in Seq(Key) /\ Len(rest) = n
      /\ Head(sent) = sent[1] /\ \A i \in 1 .. n : rest[i] = sent[i + 1]
  OBVIOUS
<1>2. PICK f : Reading(f, sh, sent, n + 1)
  BY <1>1, ReadingExists
<1>3. f[0] = sh /\ \A i \in 1 .. n + 1 : f[i] = ShellReads(f[i - 1], sent[i])
  BY <1>1, <1>2, ReadingSteps
<1> DEFINE g == [i \in 0 .. n |-> f[i + 1]]
<1>4. /\ g = [i \in 0 .. n |-> g[i]] /\ g[0] = next /\ g[n] = f[n + 1]
      /\ \A i \in 1 .. n : g[i] = ShellReads(g[i - 1], rest[i])
  BY <1>1, <1>3
<1> HIDE DEF g, n, rest, next
<1>5. Reading(g, next, rest, n)
  BY <1>1, <1>4, ReadingSteps
<1>6. Reads(next, rest) = g[n] /\ Reads(sh, sent) = f[n + 1]
  BY <1>1, <1>2, <1>5, ReadsTo
<1> QED
  BY <1>4, <1>6 DEF next, rest

-----------------------------------------------------------------------------
(* The shell.                                                               *)

LEMMA KeysApart ==
  /\ {"del", "intr", "enter"} \subseteq Key /\ Text \subseteq Key
  /\ \A c \in Text : c # "del" /\ c # "intr" /\ c # "enter"
  BY CommandFilterAssumption DEF Key, Text

\* The numbers of a set between 1 and n have a first and a last one.
LEMMA EndsExist ==
  ASSUME NEW n \in Nat, NEW T \in SUBSET (1 .. n), T # {}
  PROVE  Min(T) \in T /\ Max(T) \in T
<1>1. \E m \in T : \A k \in T : m <= k
  <2>1. T \in SUBSET Nat
    OBVIOUS
  <2> QED
    BY <2>1, LeastNumber
<1>2. \E m \in T : \A k \in T : m >= k
  <2> DEFINE U == {n - k : k \in T}
  <2>1. U \in SUBSET Nat /\ U # {}
    <3>1. \A k \in T : n - k \in Nat
      OBVIOUS
    <3> QED
      BY <3>1
  <2>2. PICK u \in U : \A v \in U : u <= v
    BY <2>1, LeastNumber
  <2>3. PICK m \in T : u = n - m
    OBVIOUS
  <2>4. \A k \in T : n - m <= n - k
    BY <2>2, <2>3
  <2>5. n \in Int /\ m \in Int /\ T \subseteq Int
    OBVIOUS
  <2> HIDE DEF U
  <2> QED
    BY <2>4, <2>5
<1> QED
  BY <1>1, <1>2 DEF Min, Max

LEMMA Trimmed ==
  ASSUME NEW X, NEW s \in Seq(X)
  PROVE  TrimSpace(s) \in Seq(X) /\ TrimSpace(<<>>) = <<>>
<1> DEFINE ink == {i \in 1 .. Len(s) : s[i] # Blank}
<1>1. TrimSpace(<<>>) = <<>>
  BY DEF TrimSpace
<1>2. TrimSpace(s) = IF ink = {} THEN <<>> ELSE SubSeq(s, Min(ink), Max(ink))
  BY DEF TrimSpace
<1>3. CASE ink = {}
  BY <1>1, <1>2, <1>3
<1>4. CASE ink # {}
  <2>1. Min(ink) \in 1 .. Len(s) /\ Max(ink) \in 1 .. Len(s)
    <3>1. ink \in SUBSET (1 .. Len(s)) /\ Len(s) \in Nat
      OBVIOUS
    <3> HIDE DEF ink
    <3>2. Min(ink) \in ink /\ Max(ink) \in ink
      BY <1>4, <3>1, EndsExist
    <3> QED
      BY <3>1, <3>2
  <2>2. SubSeq(s, Min(ink), Max(ink)) \in Seq(X)
    <3> HIDE DEF ink
    <3> QED
      BY <2>1, SubSeqProperties
  <2> QED
    BY <1>1, <1>2, <1>4, <2>2
<1> QED
  BY <1>3, <1>4

LEMMA FrontOf ==
  ASSUME NEW X, NEW s \in Seq(X), s # <<>>
  PROVE  Front(s) \in Seq(X) /\ Front(s) = SubSeq(s, 1, Len(s) - 1)
  BY DEF Front

\* What each key does to the line and to the commands that ran.
LEMMA ShellStep ==
  ASSUME NEW sh \in Shells
  PROVE  /\ \A c \in Text : ShellReads(sh, c) = [sh EXCEPT !.line = Append(sh.line, c)]
         /\ ShellReads(sh, "del") =
              [sh EXCEPT !.line = IF sh.line = <<>> THEN sh.line ELSE Front(sh.line)]
         /\ ShellReads(sh, "intr") = [sh EXCEPT !.line = <<>>]
         /\ ShellReads(sh, "enter") =
              [line |-> <<>>, ran |-> IF TrimSpace(sh.line) = <<>> THEN sh.ran
                                      ELSE Append(sh.ran, TrimSpace(sh.line))]
<1>1. ASSUME NEW c \in Text
      PROVE  ShellReads(sh, c) = [sh EXCEPT !.line = Append(sh.line, c)]
  BY KeysApart DEF ShellReads
<1> QED
  BY <1>1 DEF ShellReads

LEMMA ShellRecord ==
  ASSUME NEW l \in Seq(Text), NEW r \in Seq(Seq(Text))
  PROVE  [line |-> l, ran |-> r] \in Shells
  BY DEF Shells

LEMMA WithLine ==
  ASSUME NEW sh \in Shells, NEW l \in Seq(Text)
  PROVE  /\ [sh EXCEPT !.line = l] \in Shells
         /\ [sh EXCEPT !.line = l].line = l /\ [sh EXCEPT !.line = l].ran = sh.ran
  BY DEF Shells

LEMMA ShellType ==
  ASSUME NEW sh \in Shells, NEW key \in Key
  PROVE  ShellReads(sh, key) \in Shells
<1>1. sh.line \in Seq(Text) /\ sh.ran \in Seq(Seq(Text)) /\ <<>> \in Seq(Text)
  BY DEF Shells
<1>2. CASE key \in Text
  <2>1. ShellReads(sh, key) = [sh EXCEPT !.line = Append(sh.line, key)]
    BY <1>2, ShellStep
  <2>2. Append(sh.line, key) \in Seq(Text)
    BY <1>1, <1>2
  <2> QED
    BY <2>1, <2>2, WithLine
<1>3. CASE key = "del"
  <2>1. (IF sh.line = <<>> THEN sh.line ELSE Front(sh.line)) \in Seq(Text)
    BY <1>1, FrontOf
  <2> QED
    BY <1>3, <2>1, ShellStep, WithLine
<1>4. CASE key = "intr"
  BY <1>1, <1>4, ShellStep, WithLine
<1>5. CASE key = "enter"
  <2> DEFINE ran == IF TrimSpace(sh.line) = <<>> THEN sh.ran ELSE Append(sh.ran, TrimSpace(sh.line))
  <2>1. TrimSpace(sh.line) \in Seq(Text)
    BY <1>1, Trimmed
  <2>2. ran \in Seq(Seq(Text))
    BY <1>1, <2>1
  <2>3. ShellReads(sh, "enter") = [line |-> <<>>, ran |-> ran]
    BY ShellStep
  <2> HIDE DEF ran
  <2> QED
    BY <1>1, <1>5, <2>2, <2>3, ShellRecord
<1> QED
  BY <1>2, <1>3, <1>4, <1>5 DEF Key

\* As many backspaces as the line is long, or more, empty it.
LEMMA ReadsDels ==
  ASSUME NEW sh, NEW sent \in Seq(Key), Reads(sh, sent) \in Shells, NEW n \in Nat,
         Len(Reads(sh, sent).line) <= n
  PROVE  Reads(sh, sent \o [i \in 1 .. n |-> "del"]) = [line |-> <<>>, ran |-> Reads(sh, sent).ran]
<1> DEFINE k == Len(sent)
           dels == [i \in 1 .. n |-> "del"]
           more == sent \o dels
           r == Reads(sh, sent)
           m == Len(r.line)
           left(j) == [line |-> IF j < m THEN SubSeq(r.line, 1, m - j) ELSE <<>>, ran |-> r.ran]
<1>1. /\ k \in Nat /\ r.line \in Seq(Text) /\ r.ran \in Seq(Seq(Text)) /\ m \in Nat /\ m <= n
      /\ <<>> \in Seq(Text)
  BY DEF Shells
<1>2. /\ dels \in Seq(Key) /\ Len(dels) = n
      /\ more \in Seq(Key) /\ Len(more) = k + n
  BY KeysApart
<1>3. /\ \A i \in 1 .. k : more[i] = sent[i]
      /\ \A i \in k + 1 .. k + n : more[i] = "del"
  BY <1>2
<1>4. PICK f : Reading(f, sh, sent, k)
  <2> HIDE DEF k, left, more
  <2> QED
    BY <1>1, ReadingExists
<1>5. /\ f[0] = sh /\ f[k] = r
      /\ \A i \in 1 .. k : f[i] = ShellReads(f[i - 1], sent[i])
  BY <1>4, ReadsTo, ReadingSteps
<1>6. left(0) = r
  <2>1. SubSeq(r.line, 1, m) = r.line
    BY <1>1, SubSeqFull
  <2>2. m = 0 => r.line = <<>>
    BY <1>1
  <2>3. r = [line |-> r.line, ran |-> r.ran]
    BY DEF Shells
  <2> HIDE DEF m, r
  <2> QED
    BY <1>1, <2>1, <2>2, <2>3
<1>7. ASSUME NEW j \in Nat
      PROVE  ShellReads(left(j), "del") = left(j + 1)
  <2>1. CASE j < m
    <3> DEFINE l == SubSeq(r.line, 1, m - j)
    <3>1. l \in Seq(Text) /\ Len(l) = m - j /\ \A i \in 1 .. m - j : l[i] = r.line[i]
      BY <1>1, <2>1
    <3>2. SubSeq(l, 1, m - j - 1) = SubSeq(r.line, 1, m - j - 1)
      BY <1>1, <2>1, <3>1
    <3>3. left(j).line = l /\ left(j).ran = r.ran /\ left(j) \in Shells
      BY <1>1, <2>1, <3>1 DEF Shells
    <3> HIDE DEF l
    <3>4. l # <<>> /\ Front(l) = SubSeq(l, 1, m - j - 1)
      BY <1>1, <2>1, <3>1 DEF Front
    <3>5. ShellReads(left(j), "del") = [left(j) EXCEPT !.line = Front(l)]
      <4> HIDE DEF left
      <4> QED
        BY <3>3, <3>4, ShellStep
    <3>6. m - (j + 1) = m - j - 1 /\ (~(j + 1 < m) => m - j - 1 = 0)
      BY <1>1, <2>1
    <3>7. m - j - 1 = 0 => Front(l) = <<>>
      BY <3>4
    <3>8. Front(l) = IF j + 1 < m THEN SubSeq(r.line, 1, m - (j + 1)) ELSE <<>>
      BY <3>2, <3>4, <3>6, <3>7
    <3> QED
      BY <3>5, <3>8
  <2>2. CASE ~(j < m)
    <3>1. left(j).line = <<>> /\ left(j) \in Shells /\ left(j + 1) = left(j)
      BY <1>1, <2>2 DEF Shells
    <3>2. ShellReads(left(j), "del") = [left(j) EXCEPT !.line = <<>>]
      <4> HIDE DEF left
      <4> QED
        BY <3>1, ShellStep
    <3>3. [left(j) EXCEPT !.line = <<>>] = left(j)
      BY <1>1, <2>2
    <3> QED
      BY <3>1, <3>2, <3>3
  <2> QED
    BY <2>1, <2>2
<1>8. left(n) = [line |-> <<>>, ran |-> r.ran]
  BY <1>1
<1> HIDE DEF r, left, dels, more, m
<1> DEFINE g == [i \in 0 .. k + n |-> IF i <= k THEN f[i] ELSE left(i - k)]
<1>9. g = [i \in 0 .. k + n |-> g[i]] /\ g[0] = sh
  BY <1>1, <1>5
<1>10. ASSUME NEW i \in 1 .. k + n
       PROVE  g[i] = ShellReads(g[i - 1], more[i])
  <2>1. CASE i <= k
    <3>1. g[i] = f[i] /\ g[i - 1] = f[i - 1] /\ i \in 1 .. k
      BY <1>1, <2>1
    <3> QED
      BY <1>3, <1>5, <3>1
  <2>2. CASE i = k + 1
    <3>1. g[i] = left(1) /\ g[i - 1] = r /\ more[i] = "del"
      BY <1>1, <1>3, <1>5, <2>2
    <3>2. ShellReads(left(0), "del") = left(0 + 1)
      BY <1>7
    <3> QED
      BY <1>6, <3>1, <3>2
  <2>3. CASE i > k + 1
    <3> DEFINE j == i - 1 - k
    <3>1. j \in Nat /\ j + 1 = i - k /\ more[i] = "del"
      BY <1>1, <1>3, <2>3
    <3>2. g[i] = left(j + 1) /\ g[i - 1] = left(j)
      BY <1>1, <2>3, <3>1
    <3> QED
      BY <1>7, <3>1, <3>2
  <2> QED
    BY <1>1, <2>1, <2>2, <2>3
<1>11. g[k + n] = left(n) /\ k + n \in Nat
  <2>1. CASE n = 0
    BY <1>1, <1>5, <1>6, <2>1
  <2>2. CASE n # 0
    BY <1>1, <2>2
  <2> QED
    BY <2>1, <2>2
<1> HIDE DEF g
<1>12. Reading(g, sh, more, k + n)
  BY <1>9, <1>10, <1>11, ReadingSteps
<1>13. Reads(sh, more) = left(n)
  BY <1>2, <1>11, <1>12, ReadsTo
<1> QED
  BY <1>8, <1>13 DEF more, dels, r

-----------------------------------------------------------------------------
(* The filter.                                                              *)

\* What a key of the user does to the target once everything has arrived.
LEMMA PressedOne ==
  ASSUME pipe \in Seq(Key), NEW key \in Key, Press(<<key>>)
  PROVE  Settled' = ShellReads(Settled, key) /\ pipe' \in Seq(Key)
<1>1. pipe' = Append(pipe, key) /\ shell' = shell
  BY DEF Press
<1> QED
  BY <1>1, ReadsAppend DEF Settled

\* What both filters send after a refused command empties the line and runs
\* nothing.
LEMMA Erased ==
  ASSUME kind \in {"gateway", "web"}, pipe \in Seq(Key), Settled \in Shells,
         buffer \in Seq(Bytes), ErasesWholeLine, Press(Eraser)
  PROVE  /\ Settled' \in Shells /\ Settled'.line = <<>> /\ Settled'.ran = Settled.ran
         /\ pipe' \in Seq(Key)
<1>1. {"del", "intr", "enter"} \subseteq Key /\ <<>> \in Seq(Text)
  BY KeysApart
<1>2. Settled.ran \in Seq(Seq(Text)) /\ Settled.line \in Seq(Text)
  BY DEF Shells
<1>3. CASE kind = "gateway"
  <2>1. Press(<<"intr">>)
    BY <1>3 DEF Eraser
  <2>2. Settled' = [Settled EXCEPT !.line = <<>>] /\ pipe' \in Seq(Key)
    BY <1>1, <2>1, PressedOne, ShellStep
  <2> QED
    BY <1>1, <2>2, WithLine
<1>4. CASE kind # "gateway"
  <2> DEFINE n == Len(buffer)
             dels == [i \in 1 .. n |-> "del"]
             gone == [line |-> <<>>, ran |-> Settled.ran]
  <2>1. n \in Nat /\ dels \in Seq(Key) /\ pipe \o dels \in Seq(Key)
    BY <1>1, <1>2
  <2>2. pipe' = pipe \o (dels \o <<"enter">>) /\ shell' = shell
    BY <1>4 DEF Press, Eraser
  <2>3. gone \in Shells /\ gone.line = <<>> /\ gone.ran = Settled.ran
    BY <1>1, <1>2, ShellRecord
  <2>4. Reads(shell, pipe \o dels) = gone
    <3>1. Len(Settled.line) <= n
      BY <1>4 DEF ErasesWholeLine
    <3> QED
      BY <2>1, <3>1, ReadsDels DEF Settled
  <2>5. ShellReads(gone, "enter") = gone
    <3>1. TrimSpace(gone.line) = <<>>
      BY <1>1, <2>3, Trimmed
    <3>2. ShellReads(gone, "enter") =
            [line |-> <<>>, ran |-> IF TrimSpace(gone.line) = <<>> THEN gone.ran
                                    ELSE Append(gone.ran, TrimSpace(gone.line))]
      <4> HIDE DEF gone
      <4> QED
        BY <2>3, ShellStep
    <3> QED
      BY <2>3, <3>1, <3>2
  <2> HIDE DEF dels, gone
  <2>6. pipe' = Append(pipe \o dels, "enter")
    BY <1>1, <2>1, <2>2
  <2>7. Settled' = gone
    BY <1>1, <2>1, <2>2, <2>4, <2>5, <2>6, ReadsAppend DEF Settled
  <2>8. pipe' \in Seq(Key)
    BY <1>1, <2>1, <2>6
  <2> QED
    BY <2>3, <2>7, <2>8
<1> QED
  BY <1>3, <1>4

\* What the target will hold is a line and commands.
FilterInv == TypeOK /\ Settled \in Shells /\ BufferIsLine /\ ErasesWholeLine

LEMMA FilterInit == Init => FilterInv /\ Settled.line = <<>> /\ Settled.ran = <<>>
<1> SUFFICES ASSUME Init
             PROVE  FilterInv /\ Settled.line = <<>> /\ Settled.ran = <<>>
  OBVIOUS
<1>1. Settled = [line |-> <<>>, ran |-> <<>>]
  BY ReadsNone DEF Init, Settled
<1>2. /\ <<>> \in Seq(Text) /\ <<>> \in Seq(Seq(Text)) /\ <<>> \in Seq(Key)
      /\ <<>> \in Seq(Bytes) /\ <<>> \in Seq(Seq(Bytes))
  OBVIOUS
<1>3. Settled \in Shells /\ Settled.line = <<>> /\ Settled.ran = <<>> /\ shell \in Shells
  BY <1>1, <1>2, ShellRecord DEF Init
<1>4. keys \in 0 .. MaxKeys /\ edits \in 0 .. MaxEdits /\ faults \in 0 .. MaxFaults
  BY CommandFilterAssumption DEF Init
<1>5. TypeOK
  BY <1>2, <1>3, <1>4 DEF Init, TypeOK, Shells
<1>6. buffer = <<>> /\ Len(buffer) <= Len(buffer)
  BY DEF Init
<1> QED
  BY <1>3, <1>5, <1>6 DEF FilterInv, BufferIsLine, ErasesWholeLine

\* What a step does to the filter, in terms of the target that has read it all.
Moves ==
  \/ /\ \E c \in Text : Settled'.line = Append(Settled.line, c) /\ wide' = (wide \/ c \in Wide)
     /\ Settled'.ran = Settled.ran /\ UNCHANGED <<refused, rules>>
  \/ /\ Settled.line # <<>>
     /\ Settled'.line = SubSeq(Settled.line, 1, Len(Settled.line) - 1) /\ UNCHANGED wide
     /\ Settled'.ran = Settled.ran /\ UNCHANGED <<refused, rules>>
  \/ /\ Settled'.line = <<>> /\ wide' = FALSE
     /\ Settled'.ran = Settled.ran /\ UNCHANGED <<refused, rules>>
  \/ /\ wide \/ ~checkBlocked(rules, Settled.line, User)
     /\ Settled'.line = <<>> /\ wide' = FALSE
     /\ Settled'.ran = IF TrimSpace(Settled.line) = <<>> THEN Settled.ran
                       ELSE Append(Settled.ran, TrimSpace(Settled.line))
     /\ UNCHANGED <<refused, rules>>
  \/ /\ wide \/ checkBlocked(rules, Settled.line, User)
     /\ Settled'.line = <<>> /\ wide' = FALSE
     /\ Len(refused') = Len(refused) + 1 /\ SubSeq(refused', 1, Len(refused)) = refused
     /\ wide \/ refused' = Append(refused, TrimSpace(Settled.line))
     /\ Settled'.ran = Settled.ran /\ UNCHANGED rules
  \/ /\ rules' \in RuleSets \cup {Defaults}
     /\ Settled'.line = Settled.line /\ Settled'.ran = Settled.ran /\ UNCHANGED <<wide, refused>>

LEMMA FilterStep == FilterInv /\ [Next]_vars => FilterInv' /\ Moves
<1> SUFFICES ASSUME FilterInv, [Next]_vars
             PROVE  FilterInv' /\ Moves
  OBVIOUS
<1>1. /\ kind \in {"gateway", "web"} /\ buffer \in Seq(Bytes) /\ wide \in BOOLEAN
      /\ pipe \in Seq(Key)
      /\ shell \in Shells /\ refused \in Seq(Seq(Bytes)) /\ table \in RuleSets
      /\ rules \in RuleSets \cup {Defaults}
      /\ keys \in 0 .. MaxKeys /\ edits \in 0 .. MaxEdits /\ faults \in 0 .. MaxFaults
      /\ Settled \in Shells /\ Settled.line \in Seq(Text) /\ Len(Settled.line) \in Nat
      /\ Len(buffer) \in Nat
      /\ ~wide => Settled.line = buffer
      /\ kind = "web" => Len(Settled.line) <= Len(buffer)
  BY DEF FilterInv, TypeOK, BufferIsLine, ErasesWholeLine, Shells
<1>2. /\ MaxKeys \in Nat /\ MaxEdits \in Nat /\ MaxFaults \in Nat
      /\ <<>> \in Seq(Text) /\ <<>> \in Seq(Bytes) /\ Len(<<>>) = 0 /\ 0 <= 0
      /\ {"del", "intr", "enter"} \subseteq Key /\ Text \subseteq Key
  BY CommandFilterAssumption, KeysApart
\* The user's keys leave the tables alone.
<1>3. ASSUME NEW sent, Press(sent), pipe' \in Seq(Key), buffer' \in Seq(Bytes), wide' \in BOOLEAN,
             refused' \in Seq(Seq(Bytes)), Settled' \in Shells,
             ~wide' => Settled'.line = buffer',
             kind = "web" => Len(Settled'.line) <= Len(buffer')
      PROVE  FilterInv'
  <2>1. /\ UNCHANGED <<kind, shell, table, rules, edits, faults>> /\ keys' \in 0 .. MaxKeys
    BY <1>1, <1>2, <1>3 DEF Press, rulesVars
  <2>2. TypeOK'
    BY <1>1, <1>3, <2>1 DEF TypeOK, Shells
  <2> QED
    BY <1>3, <2>1, <2>2 DEF FilterInv, BufferIsLine, ErasesWholeLine
<1>4. ASSUME NEW sent, Press(sent)
      PROVE  UNCHANGED rules
  BY <1>4 DEF Press, rulesVars
<1>5. ASSUME NEW c \in Text, TypeChar(c)
      PROVE  FilterInv' /\ Moves
  <2>1. Press(<<c>>) /\ buffer' = buffer \o Copy(c) /\ UNCHANGED refused
        /\ wide' = (wide \/ c \in Wide)
    BY <1>5 DEF TypeChar
  <2>2. Settled' = [Settled EXCEPT !.line = Append(Settled.line, c)] /\ pipe' \in Seq(Key)
    BY <1>1, <1>2, <2>1, PressedOne, ShellStep
  <2>3. Append(Settled.line, c) \in Seq(Text) /\ Len(Append(Settled.line, c)) = Len(Settled.line) + 1
    BY <1>1
  <2>4. Settled' \in Shells /\ Settled'.line = Append(Settled.line, c) /\ Settled'.ran = Settled.ran
    BY <1>1, <2>2, <2>3, WithLine
  <2>5. /\ Copy(c) \in Seq(Bytes) /\ (c \in Chars => Copy(c) = <<c>>)
        /\ kind = "web" => Len(Copy(c)) >= 1
    <3>1. c \in Bytes /\ "tail" \in Bytes
      BY DEF Bytes
    <3> QED
      BY <3>1 DEF Copy
  <2>6. buffer' \in Seq(Bytes) /\ (kind = "web" => Len(buffer') >= Len(buffer) + 1)
    BY <1>1, <2>1, <2>5
  <2>7. ASSUME ~wide'
        PROVE  Settled'.line = buffer'
    <3>1. ~wide /\ c \in Chars
      BY <2>1, <2>7 DEF Text
    <3>2. buffer \o <<c>> = Append(buffer, c)
      BY <1>1
    <3> QED
      BY <1>1, <2>1, <2>4, <2>5, <3>1, <3>2
  <2>8. kind = "web" => Len(Settled'.line) <= Len(buffer')
    <3> DEFINE a == Len(Settled.line)
               b == Len(buffer)
               d == Len(buffer')
    <3>1. a \in Nat /\ b \in Nat /\ d \in Nat /\ (kind = "web" => a <= b /\ d >= b + 1)
      BY <1>1, <2>6
    <3>2. Len(Settled'.line) = a + 1
      BY <2>3, <2>4
    <3> HIDE DEF a, b, d
    <3>3. kind = "web" => a + 1 <= d
      BY <3>1
    <3> QED
      BY <3>2, <3>3 DEF d
  <2>9. FilterInv' /\ UNCHANGED rules
    <3>1. wide' \in BOOLEAN
      BY <2>1
    <3> QED
      BY <1>1, <1>3, <1>4, <2>1, <2>2, <2>4, <2>6, <2>7, <2>8, <3>1
  <2> QED
    BY <2>1, <2>4, <2>9 DEF Moves
<1>6. CASE Backspace
  <2> DEFINE rest == IF Settled.line = <<>> THEN Settled.line ELSE Front(Settled.line)
  <2>1. Press(<<"del">>) /\ UNCHANGED <<wide, refused>>
        /\ buffer' = IF buffer = <<>> THEN buffer ELSE Front(buffer)
    BY <1>6 DEF Backspace
  <2>2. Settled' = [Settled EXCEPT !.line = rest] /\ pipe' \in Seq(Key)
    BY <1>1, <1>2, <2>1, PressedOne, ShellStep
  <2>3. /\ rest \in Seq(Text)
        /\ Settled.line # <<>> => /\ rest = SubSeq(Settled.line, 1, Len(Settled.line) - 1)
                                  /\ Len(Settled.line) # 0
                                  /\ Len(rest) = Len(Settled.line) - 1
    BY <1>1, FrontOf
  <2>4. /\ buffer' \in Seq(Bytes)
        /\ buffer = <<>> => Len(buffer) = 0 /\ buffer' = buffer
        /\ buffer # <<>> => Len(buffer') = Len(buffer) - 1 /\ Len(buffer) # 0
    BY <1>1, <2>1, FrontOf
  <2>5. Settled' \in Shells /\ Settled'.line = rest /\ Settled'.ran = Settled.ran
    <3> HIDE DEF rest
    <3> QED
      BY <1>1, <2>2, <2>3, WithLine
  <2>6. ~wide' => Settled'.line = buffer'
    BY <1>1, <2>1, <2>5
  <2>7. kind = "web" => Len(Settled'.line) <= Len(buffer')
    <3>1. CASE Settled.line = <<>>
      BY <1>1, <2>4, <2>5, <3>1
    <3>2. CASE Settled.line # <<>>
      <4> HIDE DEF rest
      <4> QED
        BY <1>1, <2>3, <2>4, <2>5, <3>2
    <3> QED
      BY <3>1, <3>2
  <2>8. FilterInv' /\ UNCHANGED rules
    BY <1>1, <1>3, <1>4, <2>1, <2>2, <2>4, <2>5, <2>6, <2>7
  <2>9. Moves
    <3>1. CASE Settled.line = <<>>
      BY <1>1, <2>1, <2>5, <2>8, <3>1 DEF Moves
    <3>2. CASE Settled.line # <<>>
      <4> HIDE DEF rest
      <4> QED
        BY <2>1, <2>3, <2>5, <2>8, <3>2 DEF Moves
    <3> QED
      BY <3>1, <3>2
  <2> QED
    BY <2>8, <2>9
<1>7. CASE CtrlC
  <2>1. Press(<<"intr">>) /\ UNCHANGED refused /\ buffer' = <<>> /\ wide' = FALSE
    BY <1>7 DEF CtrlC
  <2>2. Settled' = [Settled EXCEPT !.line = <<>>] /\ pipe' \in Seq(Key)
    BY <1>1, <1>2, <2>1, PressedOne, ShellStep
  <2>3. Settled' \in Shells /\ Settled'.line = <<>> /\ Settled'.ran = Settled.ran
    BY <1>1, <1>2, <2>2, WithLine
  <2>4. FilterInv' /\ UNCHANGED rules
    BY <1>1, <1>2, <1>3, <1>4, <2>1, <2>2, <2>3
  <2> QED
    BY <2>1, <2>3, <2>4 DEF Moves
<1>8. CASE EnterBlocked
  <2>1. /\ Press(Eraser) /\ checkBlocked(rules, buffer, User) /\ buffer' = <<>> /\ wide' = FALSE
        /\ refused' = Append(refused, TrimSpace(buffer))
    BY <1>8 DEF EnterBlocked
  <2>2. /\ Settled' \in Shells /\ Settled'.line = <<>> /\ Settled'.ran = Settled.ran
        /\ pipe' \in Seq(Key)
    BY <1>1, <2>1, Erased DEF ErasesWholeLine
  <2>3. TrimSpace(buffer) \in Seq(Bytes)
    BY <1>1, Trimmed
  <2>4. /\ refused' \in Seq(Seq(Bytes))
        /\ Len(refused') = Len(refused) + 1 /\ SubSeq(refused', 1, Len(refused)) = refused
    BY <1>1, <2>1, <2>3
  <2>5. FilterInv' /\ UNCHANGED rules
    BY <1>2, <1>3, <1>4, <2>1, <2>2, <2>4
  <2>6. /\ wide \/ checkBlocked(rules, Settled.line, User)
        /\ wide \/ refused' = Append(refused, TrimSpace(Settled.line))
    BY <1>1, <2>1
  <2> QED
    BY <2>1, <2>2, <2>4, <2>5, <2>6 DEF Moves
<1>9. CASE EnterPassed
  <2> DEFINE ran == IF TrimSpace(Settled.line) = <<>> THEN Settled.ran
                    ELSE Append(Settled.ran, TrimSpace(Settled.line))
  <2>1. /\ Press(<<"enter">>) /\ ~checkBlocked(rules, buffer, User) /\ buffer' = <<>>
        /\ wide' = FALSE /\ UNCHANGED refused
    BY <1>9 DEF EnterPassed
  <2>2. Settled' = [line |-> <<>>, ran |-> ran] /\ pipe' \in Seq(Key)
    BY <1>1, <1>2, <2>1, PressedOne, ShellStep
  <2>3. ran \in Seq(Seq(Text))
    BY <1>1, Trimmed DEF Shells
  <2>4. Settled' \in Shells /\ Settled'.line = <<>> /\ Settled'.ran = ran
    <3> HIDE DEF ran
    <3> QED
      BY <1>2, <2>2, <2>3, ShellRecord
  <2>5. FilterInv' /\ UNCHANGED rules
    BY <1>1, <1>2, <1>3, <1>4, <2>1, <2>2, <2>4
  <2>6. wide \/ ~checkBlocked(rules, Settled.line, User)
    BY <1>1, <2>1
  <2> QED
    BY <2>1, <2>4, <2>5, <2>6 DEF Moves
<1>10. CASE Deliver
  <2>1. /\ pipe # <<>> /\ shell' = ShellReads(shell, Head(pipe)) /\ pipe' = Tail(pipe)
        /\ UNCHANGED <<kind, buffer, wide, refused, keys, table, rules, edits, faults>>
    BY <1>10 DEF Deliver, rulesVars
  <2>2. Head(pipe) \in Key /\ pipe' \in Seq(Key)
    BY <1>1, <2>1
  <2>3. Settled' = Settled
    BY <1>1, <2>1, ReadsHead DEF Settled
  <2>4. shell' \in Shells
    BY <1>1, <2>1, <2>2, ShellType
  <2>5. TypeOK'
    BY <1>1, <2>1, <2>2, <2>4 DEF TypeOK, Shells
  <2>6. FilterInv'
    BY <1>1, <2>1, <2>3, <2>5 DEF FilterInv, BufferIsLine, ErasesWholeLine
  <2> QED
    BY <1>1, <2>1, <2>3, <2>6 DEF Moves
<1>11. ASSUME UNCHANGED <<kind, buffer, wide, pipe, shell, refused, keys>>, table' \in RuleSets,
              rules' \in RuleSets \cup {Defaults}, edits' \in 0 .. MaxEdits,
              faults' \in 0 .. MaxFaults
       PROVE  FilterInv' /\ Moves
  <2>1. Settled' = Settled
    BY <1>11 DEF Settled
  <2>2. TypeOK'
    BY <1>1, <1>11 DEF TypeOK, Shells
  <2>3. FilterInv'
    BY <1>1, <1>11, <2>1, <2>2 DEF FilterInv, BufferIsLine, ErasesWholeLine
  <2> QED
    BY <1>11, <2>1, <2>3 DEF Moves
<1>12. CASE EditRules \/ Refresh
  BY <1>1, <1>2, <1>11, <1>12 DEF EditRules, Refresh
<1>13. CASE UNCHANGED vars
  BY <1>1, <1>11, <1>13 DEF vars
<1> QED
  BY <1>5, <1>6, <1>7, <1>8, <1>9, <1>10, <1>12, <1>13 DEF Next

\* The copy of a line of ASCII that the filter checks at Enter is the line the
\* target will hold when it has read the keys on their way, however many there
\* are, and the web terminal's copy is long enough to erase any line by.
THEOREM FilterSoundHolds == Spec => []FilterSound
<1>1. FilterInv => FilterSound
  BY DEF FilterInv, FilterSound
<1> QED
  BY <1>1, FilterInit, FilterStep, PTL DEF Spec

\* The filter implements CommandGate: with its copies, its delays and its cleaning
\* up, of the gateway and of the web terminal, it behaves as if it were the shell:
\* the rules decide on a line of ASCII, and a refused line never runs, whatever
\* characters it has and whatever the rules and the matching are.
THEOREM ImplementsGateHolds == Spec => ImplementsGate
<1>1. Init => Gate!Init
  <2> SUFFICES ASSUME Init
               PROVE  Gate!Init
    OBVIOUS
  <2>1. Settled.line = <<>> /\ Settled.ran = <<>>
    BY FilterInit
  <2> QED
    BY <2>1 DEF Init, Gate!Init
<1>2. Moves => [Gate!Next]_<<Settled.line, wide, Settled.ran, refused, rules>>
  BY DEF Moves, Text, Gate!Next, Gate!Type, Gate!Erase, Gate!Run, Gate!Refuse, Gate!ChangeRules
<1> QED
  BY <1>1, <1>2, FilterInit, FilterStep, PTL DEF Spec, ImplementsGate, Gate!Spec

-----------------------------------------------------------------------------
(* Matching.                                                                *)

\* f is computed from a, with the function step[i] in the i-th round.
Computes(f, a, step, n, T) ==
  /\ f \in [0 .. n -> T] /\ f[0] = a
  /\ \A i \in 1 .. n : f[i] = step[i][f[i - 1]]

\* Such a computation exists: the least number of rounds without one would be
\* one more than a number with one.
LEMMA ComputationExists ==
  ASSUME NEW n \in Nat, NEW T, NEW a \in T, NEW step \in [1 .. n -> [T -> T]]
  PROVE  \E f : Computes(f, a, step, n, T)
<1> DEFINE Bad == {m \in 0 .. n : ~ \E f : Computes(f, a, step, m, T)}
<1> SUFFICES ASSUME Bad # {}
             PROVE  FALSE
  OBVIOUS
<1>1. PICK m \in Bad : \A k \in Bad : m <= k
  <2>1. Bad \in SUBSET Nat
    OBVIOUS
  <2> QED
    BY <2>1, LeastNumber
<1>2. m \in 0 .. n /\ ~ \E f : Computes(f, a, step, m, T)
  OBVIOUS
<1> HIDE DEF Bad
<1>3. m # 0
  <2> DEFINE f == [i \in 0 .. 0 |-> a]
  <2>1. Computes(f, a, step, 0, T)
    BY DEF Computes
  <2> HIDE DEF f
  <2> QED
    BY <1>2, <2>1
<1>4. m - 1 \in 0 .. n /\ m - 1 \notin Bad
  BY <1>1, <1>2, <1>3
<1>5. PICK f : Computes(f, a, step, m - 1, T)
  BY <1>4 DEF Bad
<1> DEFINE g == [i \in 0 .. m |-> IF i = m THEN step[m][f[m - 1]] ELSE f[i]]
<1>6. /\ f \in [0 .. m - 1 -> T] /\ f[0] = a
      /\ \A i \in 1 .. m - 1 : f[i] = step[i][f[i - 1]]
  BY <1>5 DEF Computes
<1>7. step[m] \in [T -> T] /\ f[m - 1] \in T
  BY <1>2, <1>3, <1>6
<1>8. g \in [0 .. m -> T] /\ g[0] = a /\ g[m] = step[m][g[m - 1]]
  BY <1>2, <1>3, <1>6, <1>7
<1>9. ASSUME NEW i \in 1 .. m - 1
      PROVE  g[i] = step[i][g[i - 1]]
  BY <1>2, <1>6
<1> HIDE DEF g
<1>10. ASSUME NEW i \in 1 .. m
       PROVE  g[i] = step[i][g[i - 1]]
  <2>1. i = m \/ i \in 1 .. m - 1
    BY <1>2
  <2> QED
    BY <1>8, <1>9, <2>1
<1>11. Computes(g, a, step, m, T)
  BY <1>8, <1>10 DEF Computes
<1> QED
  BY <1>2, <1>11

\* The same, with nothing said about what the values are.
Follows(g, a, step, n, T) ==
  /\ g = [i \in 0 .. n |-> g[i]] /\ g[0] = a
  /\ \A i \in 1 .. n : g[i - 1] \in T => g[i] = step[i][g[i - 1]]

\* What follows the same rounds is the same computation.
LEMMA ComputationUnique ==
  ASSUME NEW n \in Nat, NEW T, NEW a \in T, NEW step \in [1 .. n -> [T -> T]],
         NEW f, Computes(f, a, step, n, T),
         NEW g, Follows(g, a, step, n, T)
  PROVE  g = f
<1>1. /\ f \in [0 .. n -> T] /\ f[0] = a
      /\ \A i \in 1 .. n : f[i] = step[i][f[i - 1]]
      /\ g = [i \in 0 .. n |-> g[i]] /\ g[0] = a
      /\ \A i \in 1 .. n : g[i - 1] \in T => g[i] = step[i][g[i - 1]]
  BY DEF Computes, Follows
<1> DEFINE Bad == {i \in 0 .. n : f[i] # g[i]}
<1>2. ASSUME Bad # {}
      PROVE  FALSE
  <2>1. PICK i \in Bad : \A k \in Bad : i <= k
    <3>1. Bad \in SUBSET Nat
      OBVIOUS
    <3> QED
      BY <1>2, <3>1, LeastNumber
  <2>2. i \in 0 .. n /\ f[i] # g[i]
    OBVIOUS
  <2>3. i \in 1 .. n
    BY <1>1, <2>2
  <2>4. i - 1 \in 0 .. n /\ i - 1 \notin Bad
    BY <2>1, <2>2, <2>3
  <2>5. f[i - 1] = g[i - 1] /\ f[i - 1] \in T
    BY <1>1, <2>4
  <2> QED
    BY <1>1, <2>2, <2>3, <2>5
<1>3. \A i \in 0 .. n : f[i] = g[i]
  BY <1>2
<1> QED
  BY <1>1, <1>3

\* What Split works with: the parts so far, at least one.
PartsOf(X) == Seq(Seq(X)) \ {<<>>}

\* What a character of the pattern does to the parts.
SplitRound(parts, c) ==
  IF c = Star THEN Append(parts, <<>>)
  ELSE [parts EXCEPT ![Len(parts)] = Append(@, c)]

LEMMA SplitRoundType ==
  ASSUME NEW X, NEW c \in X, NEW parts \in PartsOf(X)
  PROVE  /\ SplitRound(parts, c) \in PartsOf(X)
         /\ Len(parts) \in Nat \ {0}
         /\ Len(SplitRound(parts, c)) = IF c = Star THEN Len(parts) + 1 ELSE Len(parts)
         /\ \A t \in 1 .. Len(parts) - 1 : SplitRound(parts, c)[t] = parts[t]
         /\ c = Star => /\ SplitRound(parts, c)[Len(parts)] = parts[Len(parts)]
                        /\ SplitRound(parts, c)[Len(parts) + 1] = <<>>
         /\ c # Star => SplitRound(parts, c)[Len(parts)] = Append(parts[Len(parts)], c)
<1>1. parts \in Seq(Seq(X)) /\ Len(parts) \in Nat \ {0} /\ parts[Len(parts)] \in Seq(X)
  BY DEF PartsOf
<1>2. CASE c = Star
  <2> DEFINE n == Len(parts)
             q == Append(parts, <<>>)
  <2>1. /\ q \in Seq(Seq(X)) /\ Len(q) = n + 1 /\ q[n] = parts[n] /\ q[n + 1] = <<>>
        /\ \A t \in 1 .. n - 1 : q[t] = parts[t]
    BY <1>1
  <2>2. SplitRound(parts, c) = q
    BY <1>2 DEF SplitRound
  <2> HIDE DEF q
  <2> QED
    BY <1>1, <1>2, <2>1, <2>2 DEF PartsOf
<1>3. CASE c # Star
  <2> DEFINE n == Len(parts)
             l == Append(parts[n], c)
             q == [parts EXCEPT ![n] = l]
  <2>1. l \in Seq(X)
    BY <1>1
  <2>2. q \in Seq(Seq(X)) /\ Len(q) = n /\ q[n] = l /\ \A t \in 1 .. n - 1 : q[t] = parts[t]
    <3> HIDE DEF l
    <3> QED
      BY <1>1, <2>1
  <2>3. SplitRound(parts, c) = q
    BY <1>3 DEF SplitRound
  <2> HIDE DEF q, l
  <2> QED
    BY <1>1, <1>3, <2>2, <2>3 DEF PartsOf, l
<1> QED
  BY <1>2, <1>3

Splitting(f, p) ==
  f = [i \in 0 .. Len(p) |->
         IF i = 0 THEN <<<<>>>>
         ELSE IF p[i] = Star THEN Append(f[i - 1], <<>>)
         ELSE [f[i - 1] EXCEPT ![Len(f[i - 1])] = Append(@, p[i])]]

\* f[i] are the parts of the first i characters.
PartsUpTo(f, p, X) ==
  /\ f \in [0 .. Len(p) -> PartsOf(X)] /\ f[0] = <<<<>>>>
  /\ \A i \in 1 .. Len(p) : f[i] = SplitRound(f[i - 1], p[i])

LEMMA SplitParts ==
  ASSUME NEW X, NEW p \in Seq(X)
  PROVE  \E f : PartsUpTo(f, p, X) /\ Split(p) = f[Len(p)]
<1> DEFINE n == Len(p)
           T == PartsOf(X)
           step == [i \in 1 .. n |-> [t \in T |-> SplitRound(t, p[i])]]
<1>1. n \in Nat /\ <<<<>>>> \in T /\ \A i \in 1 .. n : p[i] \in X
  BY DEF PartsOf
<1>2. \A i \in 1 .. n, t \in T : SplitRound(t, p[i]) \in T
  BY <1>1, SplitRoundType
<1>3. step \in [1 .. n -> [T -> T]] /\ \A i \in 1 .. n, t \in T : step[i][t] = SplitRound(t, p[i])
  BY <1>2
<1> HIDE DEF step, n, T
<1>4. PICK f : Computes(f, <<<<>>>>, step, n, T)
  BY <1>1, <1>3, ComputationExists
<1>5. /\ f \in [0 .. n -> T] /\ f[0] = <<<<>>>>
      /\ \A i \in 1 .. n : f[i] = SplitRound(f[i - 1], p[i])
  <2>1. ASSUME NEW i \in 1 .. n
        PROVE  f[i - 1] \in T
    BY <1>1, <1>4 DEF Computes
  <2> QED
    BY <1>3, <1>4, <2>1 DEF Computes
<1>6. ASSUME NEW g, g = [i \in 0 .. n |-> IF i = 0 THEN <<<<>>>> ELSE SplitRound(g[i - 1], p[i])]
      PROVE  g = f
  <2>1. /\ g = [i \in 0 .. n |-> g[i]] /\ g[0] = <<<<>>>>
        /\ \A i \in 1 .. n : g[i] = SplitRound(g[i - 1], p[i])
    BY <1>1, <1>6
  <2>2. Follows(g, <<<<>>>>, step, n, T)
    BY <1>3, <2>1 DEF Follows
  <2> QED
    BY <1>1, <1>3, <1>4, <2>2, ComputationUnique
<1>7. f = [i \in 0 .. n |-> IF i = 0 THEN <<<<>>>> ELSE SplitRound(f[i - 1], p[i])]
  BY <1>1, <1>5
<1>8. \A g : Splitting(g, p) <=>
        g = [i \in 0 .. n |-> IF i = 0 THEN <<<<>>>> ELSE SplitRound(g[i - 1], p[i])]
  BY DEF Splitting, SplitRound, n
<1>9. Splitting(CHOOSE g : Splitting(g, p), p)
  BY <1>7, <1>8
<1>10. (CHOOSE g : Splitting(g, p)) = f
  BY <1>6, <1>8, <1>9
<1>11. Split(p) = (CHOOSE g : Splitting(g, p))[n]
  BY DEF Split, Splitting, n
<1> QED
  BY <1>5, <1>10, <1>11 DEF PartsUpTo, n, T

\* What a round of matchPattern's loop does to the position.
AfterPart(str, pos, part) ==
  IF pos = -1 \/ part = <<>> THEN pos ELSE Advance(str, pos, part)

\* The part lies in str right before position i, and not before pos.
At(str, i, pos, part) ==
  /\ pos # -1 /\ i >= pos + Len(part)
  /\ \A k \in 1 .. Len(part) : str[i - Len(part) + k] = part[k]

\* The part is found where it ends first: it ends somewhere up to i iff the
\* position after it is one up to i.
LEMMA FoundFirst ==
  ASSUME NEW X, NEW str \in Seq(X), NEW part \in Seq(X), NEW pos \in -1 .. Len(str)
  PROVE  /\ AfterPart(str, pos, part) \in -1 .. Len(str)
         /\ \A i \in 0 .. Len(str) :
              (\E k \in 0 .. i : At(str, k, pos, part))
                <=> AfterPart(str, pos, part) # -1 /\ i >= AfterPart(str, pos, part)
<1> DEFINE l == Len(part)
           n == Len(str)
           next == AfterPart(str, pos, part)
           at == {i \in pos .. n - l : SubSeq(str, i + 1, i + l) = part}
<1>1. l \in Nat /\ n \in Nat
  OBVIOUS
<1>2. CASE pos = -1
  BY <1>1, <1>2 DEF AfterPart, At
<1>3. CASE pos # -1 /\ part = <<>>
  <2>1. next = pos /\ l = 0 /\ pos \in 0 .. n
    BY <1>1, <1>3 DEF AfterPart
  <2>2. \A k \in 0 .. n : At(str, k, pos, part) <=> k >= pos
    BY <1>1, <1>3, <2>1 DEF At
  <2> HIDE DEF next, l, n
  <2>3. ASSUME NEW i \in 0 .. n
        PROVE  (\E k \in 0 .. i : At(str, k, pos, part)) <=> next # -1 /\ i >= next
    BY <1>1, <2>1, <2>2
  <2> QED
    BY <1>1, <2>1, <2>3 DEF next, l, n
<1>4. CASE pos # -1 /\ part # <<>>
  <2>1. pos \in 0 .. n /\ l > 0
    BY <1>1, <1>4
  <2>2. ASSUME NEW i \in pos .. n - l
        PROVE  SubSeq(str, i + 1, i + l) = part <=> \A k \in 1 .. l : str[i + k] = part[k]
    <3> DEFINE sub == SubSeq(str, i + 1, i + l)
    <3>1. sub \in Seq(X) /\ Len(sub) = l /\ \A k \in 1 .. l : sub[k] = str[i + k]
      BY <1>1, <2>1
    <3> HIDE DEF sub
    <3>2. ASSUME \A k \in 1 .. l : str[i + k] = part[k]
          PROVE  sub = part
      BY <3>1, <3>2, SeqEqual
    <3> QED
      BY <3>1, <3>2 DEF sub
  <2>3. \A i \in pos .. n - l : i \in at <=> At(str, i + l, pos, part)
    <3>1. ASSUME NEW i \in pos .. n - l
          PROVE  At(str, i + l, pos, part) <=> \A k \in 1 .. l : str[i + k] = part[k]
      <4>1. i + l >= pos + l /\ i + l - l = i
        BY <1>1, <2>1
      <4> QED
        BY <1>4, <4>1 DEF At
    <3> QED
      BY <2>2, <3>1
  <2>4. \A k \in 0 .. n : At(str, k, pos, part) => k - l \in at
    <3>1. ASSUME NEW k \in 0 .. n, At(str, k, pos, part)
          PROVE  k - l \in pos .. n - l /\ k - l + l = k
      BY <1>1, <2>1, <3>1 DEF At
    <3> QED
      BY <2>3, <3>1
  <2>5. at \in SUBSET Nat /\ at \subseteq pos .. n - l
    BY <1>1, <2>1
  <2>6. next = IF Index(str, pos, part) = -1 THEN -1 ELSE Index(str, pos, part) + l
    BY <1>4 DEF AfterPart, Advance
  <2>7. Index(str, pos, part) = IF at = {} THEN -1 ELSE Min(at)
    BY DEF Index
  <2> HIDE DEF at, next, l, n
  <2>8. CASE at = {}
    <3>1. next = -1
      BY <2>6, <2>7, <2>8
    <3>2. \A k \in 0 .. n : ~At(str, k, pos, part)
      BY <2>4, <2>8
    <3>3. \A i \in 0 .. n : \A k \in 0 .. i : k \in 0 .. n
      BY <1>1
    <3> QED
      BY <1>1, <3>1, <3>2, <3>3 DEF next, n
  <2>9. CASE at # {}
    <3>1. \E m \in at : \A k \in at : m <= k
      BY <2>5, <2>9, LeastNumber
    <3>2. Min(at) \in at /\ \A k \in at : Min(at) <= k
      BY <3>1 DEF Min
    <3>3. PICK m \in Nat : m = Min(at) /\ m \in pos .. n - l
      BY <2>5, <3>2
    <3>4. next = m + l /\ next \in 0 .. n
      BY <1>1, <2>1, <2>6, <2>7, <2>9, <3>3
    <3>5. At(str, next, pos, part)
      BY <2>3, <3>2, <3>3, <3>4
    <3>6. ASSUME NEW k \in 0 .. n, At(str, k, pos, part)
          PROVE  k >= next
      <4>1. m <= k - l
        BY <2>4, <3>2, <3>3, <3>6
      <4> QED
        BY <1>1, <3>3, <3>4, <4>1
    <3>7. ASSUME NEW i \in 0 .. n
          PROVE  (\E k \in 0 .. i : At(str, k, pos, part)) <=> next # -1 /\ i >= next
      <4>1. ASSUME NEW k \in 0 .. i, At(str, k, pos, part)
            PROVE  i >= next
        <5>1. k \in 0 .. n
          BY <1>1
        <5> QED
          BY <1>1, <3>4, <3>6, <4>1, <5>1
      <4>2. ASSUME i >= next
            PROVE  \E k \in 0 .. i : At(str, k, pos, part)
        BY <1>1, <3>4, <3>5, <4>2
      <4> QED
        BY <3>4, <4>1, <4>2
    <3> QED
      BY <1>1, <3>4, <3>7 DEF next, n
  <2> QED
    BY <2>8, <2>9
<1> QED
  BY <1>2, <1>3, <1>4

\* A part is longer by a character: it ends one further.
LEMMA OneFurther ==
  ASSUME NEW X, NEW str \in Seq(X), NEW part \in Seq(X), NEW c \in X,
         NEW pos \in -1 .. Len(str), NEW i \in 0 .. Len(str)
  PROVE  At(str, i, pos, Append(part, c))
           <=> i > 0 /\ str[i] = c /\ At(str, i - 1, pos, part)
<1> DEFINE l == Len(part)
           more == Append(part, c)
<1>1. /\ l \in Nat /\ Len(more) = l + 1 /\ more[l + 1] = c
      /\ \A k \in 1 .. l : more[k] = part[k]
  OBVIOUS
<1> HIDE DEF more, l
<1>2. Len(str) \in Nat /\ i \in Int /\ pos \in Int
  OBVIOUS
<1>3. CASE pos = -1
  BY <1>3 DEF At
<1>4. CASE pos # -1
  <2>1. pos >= 0
    BY <1>2, <1>4
  <2>2. i >= pos + Len(more) <=> i > 0 /\ i - 1 >= pos + l
    BY <1>1, <1>2, <2>1
  <2>3. /\ i - Len(more) + (l + 1) = i
        /\ \A k \in 1 .. l : i - Len(more) + k = i - 1 - l + k
    BY <1>1, <1>2
  <2>4. (\A k \in 1 .. Len(more) : str[i - Len(more) + k] = more[k])
          <=> str[i] = c /\ \A k \in 1 .. l : str[i - 1 - l + k] = part[k]
    <3>1. 1 .. Len(more) = 1 .. l \cup {l + 1}
      BY <1>1
    <3> QED
      BY <1>1, <2>3, <3>1
  <2> QED
    BY <1>4, <2>2, <2>4 DEF At, more, l
<1> QED
  BY <1>3, <1>4

Searching(f, str, parts) ==
  f = [i \in 0 .. Len(parts) |->
         IF i = 0 THEN 0
         ELSE IF f[i - 1] = -1 \/ parts[i] = <<>> THEN f[i - 1]
         ELSE Advance(str, f[i - 1], parts[i])]

\* f[i] is the position after the first i parts.
PositionsUpTo(f, str, parts) ==
  /\ f \in [0 .. Len(parts) -> -1 .. Len(str)] /\ f[0] = 0
  /\ \A i \in 1 .. Len(parts) : f[i] = AfterPart(str, f[i - 1], parts[i])

LEMMA MatchPositions ==
  ASSUME NEW X, NEW str \in Seq(X), NEW p, Split(p) \in Seq(Seq(X))
  PROVE  \E f : /\ PositionsUpTo(f, str, Split(p))
                /\ matchPattern(str, p) <=> f[Len(Split(p))] # -1
<1> DEFINE parts == Split(p)
           n == Len(parts)
           T == -1 .. Len(str)
           step == [i \in 1 .. n |-> [t \in T |-> AfterPart(str, t, parts[i])]]
<1>1. n \in Nat /\ 0 \in T /\ \A i \in 1 .. n : parts[i] \in Seq(X)
  OBVIOUS
<1>2. \A i \in 1 .. n, t \in T : AfterPart(str, t, parts[i]) \in T
  BY <1>1, FoundFirst
<1>3. step \in [1 .. n -> [T -> T]] /\ \A i \in 1 .. n, t \in T : step[i][t] = AfterPart(str, t, parts[i])
  BY <1>2
<1> HIDE DEF step, n, T, parts
<1>4. PICK f : Computes(f, 0, step, n, T)
  BY <1>1, <1>3, ComputationExists
<1>5. /\ f \in [0 .. n -> T] /\ f[0] = 0
      /\ \A i \in 1 .. n : f[i] = AfterPart(str, f[i - 1], parts[i])
  <2>1. ASSUME NEW i \in 1 .. n
        PROVE  f[i - 1] \in T
    BY <1>1, <1>4 DEF Computes
  <2> QED
    BY <1>3, <1>4, <2>1 DEF Computes
<1>6. ASSUME NEW g, g = [i \in 0 .. n |-> IF i = 0 THEN 0 ELSE AfterPart(str, g[i - 1], parts[i])]
      PROVE  g = f
  <2> DEFINE body(i) == IF i = 0 THEN 0 ELSE AfterPart(str, g[i - 1], parts[i])
  <2>1. /\ g = [i \in 0 .. n |-> g[i]] /\ g[0] = 0
        /\ \A i \in 1 .. n : g[i] = AfterPart(str, g[i - 1], parts[i])
    <3>1. g = [i \in 0 .. n |-> body(i)]
      BY <1>6
    <3>2. body(0) = 0 /\ \A i \in 1 .. n : body(i) = AfterPart(str, g[i - 1], parts[i])
      BY <1>1
    <3> HIDE DEF body
    <3> QED
      BY <1>1, <3>1, <3>2
  <2>2. Follows(g, 0, step, n, T)
    BY <1>3, <2>1 DEF Follows
  <2> QED
    BY <1>1, <1>3, <1>4, <2>2, ComputationUnique
<1>7. f = [i \in 0 .. n |-> IF i = 0 THEN 0 ELSE AfterPart(str, f[i - 1], parts[i])]
  BY <1>1, <1>5
<1>8. \A g : Searching(g, str, parts) <=>
        g = [i \in 0 .. n |-> IF i = 0 THEN 0 ELSE AfterPart(str, g[i - 1], parts[i])]
  BY DEF Searching, AfterPart, n
<1>9. Searching(CHOOSE g : Searching(g, str, parts), str, parts)
  BY <1>7, <1>8
<1>10. (CHOOSE g : Searching(g, str, parts)) = f
  BY <1>6, <1>8, <1>9
<1>11. matchPattern(str, p) <=> (CHOOSE g : Searching(g, str, parts))[n] # -1
  BY DEF matchPattern, Searching, n, parts
<1> QED
  BY <1>5, <1>10, <1>11 DEF PositionsUpTo, n, T, parts

\* What a character of the pattern does to the lengths that match.
GlobRound(s, col, c) ==
  IF c = Star THEN [i \in 0 .. Len(s) |-> \E k \in 0 .. i : col[k]]
  ELSE [i \in 0 .. Len(s) |-> i > 0 /\ s[i] = c /\ col[i - 1]]

Globbing(f, s, p) ==
  f = [j \in 0 .. Len(p) |->
         IF j = 0 THEN [i \in 0 .. Len(s) |-> i = 0]
         ELSE IF p[j] = Star THEN [i \in 0 .. Len(s) |-> \E k \in 0 .. i : f[j - 1][k]]
         ELSE [i \in 0 .. Len(s) |-> i > 0 /\ s[i] = p[j] /\ f[j - 1][i - 1]]]

ColumnsUpTo(f, s, p) ==
  /\ f \in [0 .. Len(p) -> [0 .. Len(s) -> BOOLEAN]]
  /\ f[0] = [i \in 0 .. Len(s) |-> i = 0]
  /\ \A j \in 1 .. Len(p) : f[j] = GlobRound(s, f[j - 1], p[j])

LEMMA GlobColumns ==
  ASSUME NEW X, NEW s \in Seq(X), NEW p \in Seq(X)
  PROVE  \E f : ColumnsUpTo(f, s, p) /\ Glob(s, p) = f[Len(p)][Len(s)]
<1> DEFINE n == Len(p)
           T == [0 .. Len(s) -> BOOLEAN]
           first == [i \in 0 .. Len(s) |-> i = 0]
           step == [j \in 1 .. n |-> [t \in T |-> GlobRound(s, t, p[j])]]
<1>1. n \in Nat /\ first \in T
  OBVIOUS
<1>2. \A j \in 1 .. n, t \in T : GlobRound(s, t, p[j]) \in T
  <2>1. ASSUME NEW c, NEW t
        PROVE  GlobRound(s, t, c) \in T
    <3>1. CASE c = Star
      <4> DEFINE F(i) == \E k \in 0 .. i : t[k]
      <4>1. [i \in 0 .. Len(s) |-> F(i)] \in T
        OBVIOUS
      <4> QED
        BY <3>1, <4>1 DEF GlobRound
    <3>2. CASE c # Star
      <4> DEFINE F(i) == i > 0 /\ s[i] = c /\ t[i - 1]
      <4>1. [i \in 0 .. Len(s) |-> F(i)] \in T
        OBVIOUS
      <4> QED
        BY <3>2, <4>1 DEF GlobRound
    <3> QED
      BY <3>1, <3>2
  <2> QED
    BY <2>1
<1>3. step \in [1 .. n -> [T -> T]] /\ \A j \in 1 .. n, t \in T : step[j][t] = GlobRound(s, t, p[j])
  <2> HIDE DEF T
  <2> QED
    BY <1>2
<1> HIDE DEF step, n, T, first
<1>4. PICK f : Computes(f, first, step, n, T)
  BY <1>1, <1>3, ComputationExists
<1>5. /\ f \in [0 .. n -> T] /\ f[0] = first
      /\ \A j \in 1 .. n : f[j] = GlobRound(s, f[j - 1], p[j])
  <2>1. ASSUME NEW j \in 1 .. n
        PROVE  f[j - 1] \in T
    BY <1>1, <1>4 DEF Computes
  <2> QED
    BY <1>3, <1>4, <2>1 DEF Computes
<1>6. ASSUME NEW g, g = [j \in 0 .. n |-> IF j = 0 THEN first ELSE GlobRound(s, g[j - 1], p[j])]
      PROVE  g = f
  <2> DEFINE body(j) == IF j = 0 THEN first ELSE GlobRound(s, g[j - 1], p[j])
  <2>1. /\ g = [j \in 0 .. n |-> g[j]] /\ g[0] = first
        /\ \A j \in 1 .. n : g[j] = GlobRound(s, g[j - 1], p[j])
    <3>1. g = [j \in 0 .. n |-> body(j)]
      BY <1>6
    <3>2. body(0) = first /\ \A j \in 1 .. n : body(j) = GlobRound(s, g[j - 1], p[j])
      BY <1>1
    <3> HIDE DEF body
    <3> QED
      BY <1>1, <3>1, <3>2
  <2>2. Follows(g, first, step, n, T)
    BY <1>3, <2>1 DEF Follows
  <2> QED
    BY <1>1, <1>3, <1>4, <2>2, ComputationUnique
<1>7. f = [j \in 0 .. n |-> IF j = 0 THEN first ELSE GlobRound(s, f[j - 1], p[j])]
  BY <1>1, <1>5
<1>8. \A g : Globbing(g, s, p) <=>
        g = [j \in 0 .. n |-> IF j = 0 THEN first ELSE GlobRound(s, g[j - 1], p[j])]
  BY DEF Globbing, GlobRound, n, first
<1>9. Globbing(CHOOSE g : Globbing(g, s, p), s, p)
  BY <1>7, <1>8
<1>10. (CHOOSE g : Globbing(g, s, p)) = f
  BY <1>6, <1>8, <1>9
<1>11. Glob(s, p) = (CHOOSE g : Globbing(g, s, p))[n][Len(s)]
  BY DEF Glob, Globbing, n
<1> QED
  BY <1>5, <1>10, <1>11 DEF ColumnsUpTo, n, T, first

\* A part that is complete stays: only the last one grows.
LEMMA PartsKept ==
  ASSUME NEW X, NEW p \in Seq(X), NEW f, PartsUpTo(f, p, X)
  PROVE  \A j \in 0 .. Len(p) :
           /\ Len(f[j]) \in 1 .. Len(f[Len(p)])
           /\ \A t \in 1 .. Len(f[j]) - 1 : f[Len(p)][t] = f[j][t]
<1> DEFINE n == Len(p)
           Kept(j) == /\ Len(f[j]) \in 1 .. Len(f[n])
                      /\ \A t \in 1 .. Len(f[j]) - 1 : f[n][t] = f[j][t]
           Bad == {d \in 0 .. n : ~Kept(n - d)}
<1>1. n \in Nat /\ \A i \in 1 .. n : p[i] \in X
  OBVIOUS
<1>2. /\ \A j \in 0 .. n : f[j] \in PartsOf(X) /\ Len(f[j]) \in Nat \ {0}
      /\ \A i \in 1 .. n : f[i - 1] \in PartsOf(X) /\ f[i] = SplitRound(f[i - 1], p[i])
  <2>1. /\ \A j \in 0 .. n : f[j] \in PartsOf(X)
        /\ \A i \in 1 .. n : i - 1 \in 0 .. n /\ f[i] = SplitRound(f[i - 1], p[i])
    BY <1>1 DEF PartsUpTo
  <2>2. \A j \in 0 .. n : Len(f[j]) \in Nat \ {0}
    BY <2>1 DEF PartsOf
  <2> QED
    BY <2>1, <2>2
<1>3. ASSUME NEW d \in Bad, \A k \in Bad : d <= k
      PROVE  FALSE
  <2> DEFINE j == n - d
  <2>1. d \in 0 .. n /\ ~Kept(j)
    OBVIOUS
  <2>2. d # 0
    <3>1. Kept(n)
      BY <1>1, <1>2
    <3>2. n - 0 = n
      BY <1>1
    <3> QED
      BY <2>1, <3>1, <3>2
  <2>3. d - 1 \in 0 .. n /\ d - 1 \notin Bad /\ n - (d - 1) = j + 1
    <3>1. d - 1 \in 0 .. n /\ ~(d <= d - 1) /\ n - (d - 1) = j + 1
      BY <1>1, <2>1, <2>2
    <3> HIDE DEF Bad
    <3> QED
      BY <1>3, <3>1
  <2>4. Kept(j + 1)
    BY <2>3
  <2>5. j + 1 \in 1 .. n /\ j + 1 - 1 = j /\ j \in 0 .. n
    BY <1>1, <2>1, <2>2
  <2> HIDE DEF Bad, j
  <2>6. f[j] \in PartsOf(X) /\ f[j + 1] = SplitRound(f[j], p[j + 1]) /\ p[j + 1] \in X
    BY <1>1, <1>2, <2>5
  <2>7. /\ Len(f[j]) \in Nat \ {0}
        /\ Len(f[j + 1]) \in {Len(f[j]), Len(f[j]) + 1}
        /\ \A t \in 1 .. Len(f[j]) - 1 : f[j + 1][t] = f[j][t]
    BY <2>6, SplitRoundType
  <2>8. Len(f[n]) \in Nat
    BY <1>1, <1>2
  <2>9. Len(f[j]) \in 1 .. Len(f[n])
    BY <2>4, <2>7, <2>8
  <2>10. ASSUME NEW t \in 1 .. Len(f[j]) - 1
         PROVE  f[n][t] = f[j][t]
    <3>1. t \in 1 .. Len(f[j + 1]) - 1
      BY <2>7
    <3> QED
      BY <2>4, <2>7, <3>1
  <2> QED
    BY <2>1, <2>9, <2>10
<1>4. Bad = {}
  <2>1. Bad \in SUBSET Nat
    OBVIOUS
  <2> HIDE DEF Bad
  <2> QED
    BY <1>3, <2>1, LeastNumber
<1>5. ASSUME NEW j \in 0 .. n
      PROVE  Kept(j)
  <2>1. n - j \in 0 .. n /\ n - (n - j) = j
    BY <1>1
  <2> QED
    BY <1>4, <2>1
<1> QED
  BY <1>5

\* A string meets the greedy search iff it matches the pattern between two
\* stars, whatever the characters are.
LEMMA GreedyMatch ==
  ASSUME NEW X, Star \in X, NEW str \in Seq(X), NEW p \in Seq(X)
  PROVE  matchPattern(str, p) <=> Glob(str, <<Star>> \o p \o <<Star>>)
<1> DEFINE n == Len(p)
           L == Len(str)
           whole == <<Star>> \o p \o <<Star>>
<1>1. /\ n \in Nat /\ L \in Nat /\ whole \in Seq(X) /\ Len(whole) = n + 2
      /\ whole[1] = Star /\ whole[n + 2] = Star
      /\ \A j \in 1 .. n : whole[j + 1] = p[j] /\ p[j] \in X
  OBVIOUS
<1> HIDE DEF n, L, whole
<1>2. PICK P : PartsUpTo(P, p, X) /\ Split(p) = P[n]
  BY SplitParts DEF n
<1> DEFINE q(j) == Len(P[j])
           last(j) == P[j][q(j)]
<1>3. \A j \in 0 .. n : /\ P[j] \in PartsOf(X) /\ q(j) \in 1 .. q(n) /\ last(j) \in Seq(X)
                        /\ \A t \in 1 .. q(j) - 1 : P[n][t] = P[j][t]
  <2>1. \A j \in 0 .. n : P[j] \in PartsOf(X)
    BY <1>2 DEF PartsUpTo, n
  <2>2. \A j \in 0 .. n : P[j][Len(P[j])] \in Seq(X)
    BY <2>1 DEF PartsOf
  <2> QED
    BY <1>2, <2>1, <2>2, PartsKept DEF n
<1>4. P[n] \in Seq(Seq(X)) /\ q(n) \in Nat \ {0} /\ n \in 0 .. n
  BY <1>1, <1>3 DEF PartsOf
<1>5. PICK pos : PositionsUpTo(pos, str, P[n]) /\ (matchPattern(str, p) <=> pos[q(n)] # -1)
  BY <1>2, <1>4, MatchPositions
<1>6. /\ \A t \in 0 .. q(n) : pos[t] \in -1 .. L
      /\ pos[0] = 0
      /\ \A t \in 1 .. q(n) : pos[t] = AfterPart(str, pos[t - 1], P[n][t])
  BY <1>5 DEF PositionsUpTo, L
<1>7. PICK m : ColumnsUpTo(m, str, whole) /\ Glob(str, whole) = m[n + 2][L]
  BY <1>1, GlobColumns DEF L
<1>8. ASSUME NEW j \in 1 .. n + 2, NEW i \in 0 .. L
      PROVE  /\ whole[j] = Star => (m[j][i] <=> \E k \in 0 .. i : m[j - 1][k])
             /\ whole[j] # Star => (m[j][i] <=> i > 0 /\ str[i] = whole[j] /\ m[j - 1][i - 1])
  <2>1. m[j] = GlobRound(str, m[j - 1], whole[j])
    BY <1>1, <1>7 DEF ColumnsUpTo
  <2>2. CASE whole[j] = Star
    BY <2>1, <2>2 DEF GlobRound, L
  <2>3. CASE whole[j] # Star
    BY <2>1, <2>3 DEF GlobRound, L
  <2> QED
    BY <2>2, <2>3
<1>9. \A i \in 0 .. L : m[0][i] <=> i = 0
  BY <1>7 DEF ColumnsUpTo, L
\* After j characters of the pattern, a length matches iff the last part ends
\* there, behind the place where the parts before it were found.
<1> DEFINE Found(j) == \A i \in 0 .. L : m[j + 1][i] <=> At(str, i, pos[q(j) - 1], last(j))
           Bad == {j \in 0 .. n : ~Found(j)}
<1>10. \A j \in 0 .. n : pos[q(j) - 1] \in -1 .. L
  <2>1. ASSUME NEW j \in 0 .. n
        PROVE  q(j) - 1 \in 0 .. q(n)
    <3> HIDE DEF q
    <3> QED
      BY <1>3, <1>4
  <2> QED
    BY <1>6, <2>1
<1>11. Found(0)
  <2>1. q(0) = 1 /\ last(0) = <<>>
    BY <1>2 DEF PartsUpTo
  <2>2. ASSUME NEW i \in 0 .. L
        PROVE  m[1][i] /\ At(str, i, 0, <<>>)
    <3>1. 1 \in 1 .. n + 2 /\ 0 \in 0 .. i /\ 0 \in 0 .. L
      BY <1>1
    <3>2. m[1][i]
      BY <1>1, <1>8, <1>9, <3>1
    <3>3. At(str, i, 0, <<>>)
      BY <1>1 DEF At
    <3> QED
      BY <3>2, <3>3
  <2> QED
    BY <1>6, <2>1, <2>2
<1>12. ASSUME NEW j \in 0 .. n - 1, Found(j)
       PROVE  Found(j + 1)
  <2> DEFINE c == p[j + 1]
  <2>1. /\ j + 1 \in 1 .. n /\ j + 1 \in 0 .. n /\ j \in 0 .. n /\ j + 1 - 1 = j
        /\ j + 2 \in 1 .. n + 2 /\ j + 2 - 1 = j + 1 /\ j + 1 + 1 = j + 2
    BY <1>1
  <2>2. c \in X /\ whole[j + 2] = c
    BY <1>1, <2>1
  <2>3. P[j + 1] = SplitRound(P[j], c) /\ P[j] \in PartsOf(X)
    BY <1>2, <1>3, <2>1 DEF PartsUpTo, n
  <2>4. last(j) \in Seq(X) /\ pos[q(j) - 1] \in -1 .. L /\ q(j) \in Nat \ {0}
    BY <1>3, <1>10, <2>1, <2>3, SplitRoundType
  <2>5. CASE c # Star
    <3>1. q(j + 1) = q(j) /\ last(j + 1) = Append(last(j), c)
      <4> DEFINE old == P[j]
                 new == P[j + 1]
      <4>1. new = SplitRound(old, c) /\ old \in PartsOf(X)
        BY <2>3
      <4> HIDE DEF old, new
      <4>2. Len(new) = Len(old) /\ new[Len(old)] = Append(old[Len(old)], c)
        <5> HIDE DEF c
        <5> QED
          BY <2>2, <2>5, <4>1, SplitRoundType
      <4> QED
        BY <4>2 DEF old, new
    <3> HIDE DEF last, q, c
    <3>2. ASSUME NEW i \in 0 .. L
          PROVE  m[j + 2][i] <=> At(str, i, pos[q(j) - 1], Append(last(j), c))
      <4>1. m[j + 2][i] <=> i > 0 /\ str[i] = c /\ m[j + 1][i - 1]
        BY <1>8, <2>1, <2>2, <2>5
      <4>2. i > 0 => i - 1 \in 0 .. L
        BY <1>1
      <4>3. i > 0 => (m[j + 1][i - 1] <=> At(str, i - 1, pos[q(j) - 1], last(j)))
        BY <1>12, <4>2
      <4>4. At(str, i, pos[q(j) - 1], Append(last(j), c))
              <=> i > 0 /\ str[i] = c /\ At(str, i - 1, pos[q(j) - 1], last(j))
        BY <2>2, <2>4, OneFurther DEF L
      <4> QED
        BY <4>1, <4>3, <4>4
    <3> QED
      BY <2>1, <3>1, <3>2
  <2>6. CASE c = Star
    <3>1. q(j + 1) = q(j) + 1 /\ last(j + 1) = <<>> /\ P[j + 1][q(j)] = last(j)
      BY <2>2, <2>3, <2>6, SplitRoundType
    <3>2. q(j) \in 1 .. q(j + 1) - 1 /\ q(j + 1) \in 1 .. q(n) /\ q(j) \in 1 .. q(n)
      BY <1>3, <1>4, <2>1, <2>4, <3>1
    <3>3. P[n][q(j)] = last(j)
      BY <1>3, <2>1, <3>1, <3>2
    <3> DEFINE next == AfterPart(str, pos[q(j) - 1], last(j))
    <3>4. pos[q(j)] = next
      BY <1>6, <3>2, <3>3
    <3>5. q(j + 1) - 1 = q(j)
      BY <2>4, <3>1
    <3> HIDE DEF last, q, c
    <3>6. /\ next \in -1 .. L
          /\ \A i \in 0 .. L : (\E k \in 0 .. i : At(str, k, pos[q(j) - 1], last(j)))
                                 <=> next # -1 /\ i >= next
      BY <2>4, FoundFirst DEF L
    <3> HIDE DEF next
    <3>7. ASSUME NEW i \in 0 .. L
          PROVE  m[j + 2][i] <=> At(str, i, next, <<>>)
      <4>1. m[j + 2][i] <=> \E k \in 0 .. i : m[j + 1][k]
        BY <1>8, <2>1, <2>2, <2>6
      <4>2. \A k \in 0 .. i : k \in 0 .. L
        BY <1>1
      <4>3. m[j + 2][i] <=> \E k \in 0 .. i : At(str, k, pos[q(j) - 1], last(j))
        BY <1>12, <4>1, <4>2
      <4>4. At(str, i, next, <<>>) <=> next # -1 /\ i >= next
        BY <1>1, <3>6 DEF At
      <4> QED
        BY <3>6, <4>3, <4>4
    <3> QED
      BY <2>1, <3>1, <3>4, <3>5, <3>7
  <2> QED
    BY <2>5, <2>6
<1> HIDE DEF Found
<1>13. Bad = {}
  <2> SUFFICES ASSUME Bad # {}
               PROVE  FALSE
    OBVIOUS
  <2>1. Bad \in SUBSET Nat
    OBVIOUS
  <2>2. PICK j \in Bad : \A k \in Bad : j <= k
    BY <2>1, LeastNumber
  <2>3. j \in 0 .. n /\ ~Found(j) /\ j # 0
    BY <1>11
  <2>4. j - 1 \in 0 .. n - 1 /\ j - 1 \in 0 .. n /\ j - 1 \notin Bad /\ j - 1 + 1 = j
    BY <1>1, <2>2, <2>3
  <2>5. Found(j - 1)
    BY <2>4
  <2> QED
    BY <1>12, <2>3, <2>4, <2>5
<1>14. Found(n)
  BY <1>4, <1>13
\* The last star takes what is left.
<1> DEFINE end == AfterPart(str, pos[q(n) - 1], last(n))
<1>15. pos[q(n)] = end /\ pos[q(n) - 1] \in -1 .. L /\ last(n) \in Seq(X)
  BY <1>3, <1>4, <1>6, <1>10
<1> HIDE DEF q, last
<1>16. /\ end \in -1 .. L
       /\ (\E k \in 0 .. L : At(str, k, pos[q(n) - 1], last(n))) <=> end # -1 /\ L >= end
  <2>1. L \in 0 .. L
    BY <1>1
  <2> QED
    BY <1>15, <2>1, FoundFirst DEF L
<1> HIDE DEF end
<1>17. m[n + 2][L] <=> \E k \in 0 .. L : m[n + 1][k]
  <2> DEFINE j == n + 2
  <2>1. j \in 1 .. n + 2 /\ j - 1 = n + 1 /\ L \in 0 .. L /\ whole[j] = Star
    BY <1>1
  <2> HIDE DEF j
  <2>2. m[j][L] <=> \E k \in 0 .. L : m[j - 1][k]
    BY <1>8, <2>1
  <2> QED
    BY <2>1, <2>2 DEF j
<1>18. m[n + 2][L] <=> end # -1
  BY <1>1, <1>14, <1>16, <1>17 DEF Found
<1> QED
  BY <1>5, <1>7, <1>15, <1>18 DEF whole

\* What matchPattern's loop finds without ever going back is all there is to
\* find, for every line that can be typed and every pattern (manager.go 388-410).
THEOREM GreedyFindsEveryMatchHolds == Spec => []GreedyFindsEveryMatch
<1>1. FilterInv => GreedyFindsEveryMatch
  <2> SUFFICES ASSUME FilterInv, NEW p \in Patterns
               PROVE  matchPattern(buffer, p) <=> Glob(buffer, <<Star>> \o p \o <<Star>>)
    BY DEF GreedyFindsEveryMatch
  <2> DEFINE X == Range(p) \cup Bytes \cup {Star}
  <2>1. buffer \in Seq(Bytes) /\ p \in Seq(Range(p))
    BY CommandFilterAssumption DEF FilterInv, TypeOK
  <2>2. Range(p) \subseteq X /\ Bytes \subseteq X /\ Star \in X
    OBVIOUS
  <2> HIDE DEF X
  <2>3. buffer \in Seq(X) /\ p \in Seq(X)
    BY <2>1, <2>2
  <2> QED
    BY <2>2, <2>3, GreedyMatch
<1> QED
  BY <1>1, FilterInit, FilterStep, PTL DEF Spec

=============================================================================
