------------------------- MODULE SessionNameProofs -------------------------
(***************************************************************************)
(* Theorems about SessionName, for every limit on names and parts.         *)
(***************************************************************************)
EXTENDS SessionName, SequenceTheorems, WellFoundedInduction, TLAPS

-----------------------------------------------------------------------------
(* Sequences. *)

\* The pieces normalizePath takes a list of levels apart into.
LEMMA FrontAndLast ==
  ASSUME NEW S, NEW s \in Seq(S), s # <<>>
  PROVE  /\ Front(s) \in Seq(S)
         /\ Len(Front(s)) = Len(s) - 1
         /\ \A i \in 1 .. Len(s) - 1 : Front(s)[i] = s[i]
         /\ Last(s) = s[Len(s)]
         /\ Last(s) \in S
<1>1. Len(s) \in Nat /\ Len(s) > 0
  OBVIOUS
<1>2. \A i \in 1 .. Len(s) : s[i] \in S
  OBVIOUS
<1>3. \A i \in 1 .. Len(s) - 1 : s[i] \in S
  BY <1>1, <1>2
<1>4. /\ SubSeq(s, 1, Len(s) - 1) \in Seq(S)
      /\ Len(SubSeq(s, 1, Len(s) - 1)) =
           IF 1 <= Len(s) - 1 THEN Len(s) - 1 - 1 + 1 ELSE 0
      /\ \A i \in 1 .. Len(s) - 1 - 1 + 1 :
            SubSeq(s, 1, Len(s) - 1)[i] = s[1 + i - 1]
  BY <1>1, <1>3, SubSeqProperties
<1>5. Front(s) = SubSeq(s, 1, Len(s) - 1)
  BY DEF Front
<1>6. Len(Front(s)) = Len(s) - 1
  <2>1. \A n \in Nat : n > 0 => (IF 1 <= n - 1 THEN n - 1 - 1 + 1 ELSE 0) = n - 1
    OBVIOUS
  <2>2. Len(SubSeq(s, 1, Len(s) - 1)) = Len(s) - 1
    BY <1>1, <1>4, <2>1
  <2> QED
    BY <1>5, <2>2
<1>7. \A i \in 1 .. Len(s) - 1 : Front(s)[i] = s[i]
  BY <1>1, <1>4, <1>5
<1>8. Last(s) = s[Len(s)] /\ Last(s) \in S
  BY <1>1, <1>2 DEF Last
<1> QED
  BY <1>4, <1>5, <1>6, <1>7, <1>8

\* A piece put in front of those taken before.
LEMMA Pushed ==
  ASSUME NEW S, NEW s \in Seq(S), NEW e \in S
  PROVE  /\ <<e>> \o s \in Seq(S)
         /\ Len(<<e>> \o s) = Len(s) + 1
         /\ (<<e>> \o s)[1] = e
         /\ \A i \in 2 .. Len(s) + 1 : (<<e>> \o s)[i] = s[i - 1]
         /\ <<e>> \o s # <<>>
OBVIOUS

\* A sequence is one over any set its elements are in.
LEMMA Narrowed ==
  ASSUME NEW S, NEW T, NEW s \in Seq(T), \A i \in 1 .. Len(s) : s[i] \in S
  PROVE  s \in Seq(S)
<1>1. Len(s) \in Nat /\ s \in [1 .. Len(s) -> T]
  BY LenProperties
<1>2. s \in [1 .. Len(s) -> S]
  BY <1>1
<1> QED
  BY <1>1, <1>2, SeqDef

\* A string has a first part, and all its parts are lengths.
LEMMA StringFacts ==
  ASSUME NEW s \in Strings
  PROVE  s \in Seq(Lengths) /\ s # <<>> /\ Len(s) > 0 /\ s[1] \in Lengths
<1>1. s \in Seq(Lengths) /\ s # <<>>
  BY SeqDef, SessionNameAssumption DEF Strings, BoundedSeq, SeqOf
<1> QED
  BY <1>1

-----------------------------------------------------------------------------
(* Induction.  The theorems of the library take the property as an         *)
(* operator, which the provers cannot instantiate; a set they can.         *)

\* A set of numbers has a least one.
LEMMA LeastNat ==
  ASSUME NEW T, T \subseteq Nat, T # {}
  PROVE  \E x \in T : \A y \in T : x <= y
<1> DEFINE Less == {p \in Nat \X Nat : p[1] < p[2]}
<1>1. IsWellFoundedOn(Less, Nat)
  BY NatLessThanWellFounded DEF OpToRel
<1>2. \A x, y \in Nat : y < x => <<y, x>> \in Less
  OBVIOUS
<1> HIDE DEF Less
<1>3. \E x \in T : \A y \in T : ~(<<y, x>> \in Less)
  BY <1>1, WFMin
<1>4. \A x, y \in Nat : ~(y < x) => x <= y
  OBVIOUS
<1> QED
  BY <1>2, <1>3, <1>4

\* Induction on a number, with a set for the property.
LEMMA SetInduction ==
  ASSUME NEW S, 0 \in S, \A n \in Nat : n \in S => n + 1 \in S
  PROVE  \A n \in Nat : n \in S
<1> SUFFICES ASSUME Nat \ S # {} PROVE FALSE
  OBVIOUS
<1>1. PICK x \in Nat \ S : \A y \in Nat \ S : x <= y
  BY LeastNat
<1>2. x # 0 /\ x - 1 \in Nat /\ x - 1 + 1 = x /\ ~(x <= x - 1)
  BY <1>1
<1>3. x - 1 \in S
  BY <1>1, <1>2
<1> QED
  BY <1>1, <1>2, <1>3

-----------------------------------------------------------------------------
(* The length of a name. *)

\* Sums: f is what the numbers in d add up to, up to each index.
Sums(f, d, n) ==
    /\ f[0] = 0
    /\ \A i \in 1 .. n : f[i] = f[i - 1] + d[i]

LEMMA SumsExist ==
  ASSUME NEW n \in Nat, NEW d \in [1 .. n -> Nat]
  PROVE  \E f \in [0 .. n -> Nat] : Sums(f, d, n)
<1> DEFINE S == {m \in Nat : m <= n => \E f \in [0 .. m -> Nat] : Sums(f, d, m)}
<1>1. 0 \in S
  <2> DEFINE f == [i \in 0 .. 0 |-> 0]
  <2>1. Sums(f, d, 0)
    BY DEF Sums
  <2>2. f \in [0 .. 0 -> Nat]
    OBVIOUS
  <2> QED
    BY <2>1, <2>2
<1>2. ASSUME NEW m \in Nat, m \in S
      PROVE  m + 1 \in S
  <2> SUFFICES ASSUME m + 1 <= n
               PROVE  \E f \in [0 .. m + 1 -> Nat] : Sums(f, d, m + 1)
    OBVIOUS
  <2>1. PICK f \in [0 .. m -> Nat] : Sums(f, d, m)
    BY <1>2
  <2> DEFINE g == [i \in 0 .. m + 1 |-> IF i = m + 1 THEN f[m] + d[m + 1]
                                                     ELSE f[i]]
  <2>2. /\ \A i \in 0 .. m : f[i] \in Nat
        /\ f[0] = 0
        /\ \A i \in 1 .. m : f[i] = f[i - 1] + d[i]
    BY <2>1 DEF Sums
  <2>3. m \in 0 .. m /\ m + 1 \in 1 .. n /\ d[m + 1] \in Nat
    OBVIOUS
  <2>4. f[m] + d[m + 1] \in Nat
    BY <2>2, <2>3
  <2>5. g \in [0 .. m + 1 -> Nat]
    BY <2>2, <2>4
  <2>6. g[m + 1] = f[m] + d[m + 1] /\ \A i \in 0 .. m : g[i] = f[i]
    OBVIOUS
  <2> HIDE DEF g
  <2>7. g[0] = 0
    BY <2>2, <2>6
  <2>8. ASSUME NEW i \in 1 .. m + 1
        PROVE  g[i] = g[i - 1] + d[i]
    <3>1. CASE i = m + 1
      BY <2>6, <3>1
    <3>2. CASE i # m + 1
      <4>1. i \in 1 .. m /\ i \in 0 .. m /\ i - 1 \in 0 .. m
        BY <3>2
      <4>2. g[i] = f[i] /\ g[i - 1] = f[i - 1]
        BY <2>6, <4>1
      <4> QED
        BY <2>2, <4>1, <4>2
    <3> QED
      BY <3>1, <3>2
  <2>9. Sums(g, d, m + 1)
    BY <2>7, <2>8 DEF Sums
  <2> QED
    BY <2>5, <2>9
<1> HIDE DEF S
<1>3. n \in S
  BY <1>1, <1>2, SetInduction
<1> QED
  BY <1>3 DEF S

\* Two sums agree as far as what they add does.
LEMMA SumsAgree ==
  ASSUME NEW m \in Nat, NEW n \in Nat, m <= n, NEW d, NEW e, NEW f, NEW g,
         Sums(f, d, m), Sums(g, e, n),
         \A i \in 1 .. m : d[i] = e[i]
  PROVE  \A i \in 0 .. m : f[i] = g[i]
<1> DEFINE S == {i \in Nat : i <= m => f[i] = g[i]}
<1>1. 0 \in S
  BY DEF Sums
<1>2. ASSUME NEW i \in Nat, i \in S
      PROVE  i + 1 \in S
  <2> SUFFICES ASSUME i + 1 <= m
               PROVE  f[i + 1] = g[i + 1]
    OBVIOUS
  <2>1. i + 1 \in 1 .. m /\ i + 1 \in 1 .. n /\ i + 1 - 1 = i /\ i <= m
    OBVIOUS
  <2>2. f[i + 1] = f[i] + d[i + 1] /\ g[i + 1] = g[i] + e[i + 1]
    BY <2>1 DEF Sums
  <2> QED
    BY <1>2, <2>1, <2>2
<1> HIDE DEF S
<1>3. \A i \in Nat : i \in S
  BY <1>1, <1>2, SetInduction
<1> QED
  BY <1>3 DEF S

\* What each level that normalizePath takes adds to the name.
Added(pieces) == [i \in 1 .. Len(pieces) |-> pieces[Len(pieces) - i + 1] + 1]

\* The recursive function of Total exists and is the sum of what is added.
LEMMA TotalIsSum ==
  ASSUME NEW s \in Seq(Nat)
  PROVE  \E f \in [0 .. Len(s) -> Nat] :
             Sums(f, Added(s), Len(s)) /\ Total(s) = f[Len(s)]
<1> DEFINE n == Len(s)
           Body(g) == [i \in 0 .. n |-> IF i = 0 THEN 0
                                        ELSE g[i - 1] + (s[n - i + 1] + 1)]
           sum == CHOOSE g : g = Body(g)
<1>1. Total(s) = sum[n]
  BY DEF Total
<1>2. n \in Nat /\ \A i \in 1 .. n : n - i + 1 \in 1 .. n
  OBVIOUS
<1>3. \A i \in 1 .. n : s[n - i + 1] \in Nat
  BY <1>2
<1>4. \A i \in 1 .. n : /\ Added(s)[i] = s[n - i + 1] + 1
                        /\ Added(s)[i] \in Nat
  BY <1>3 DEF Added
<1>5. Added(s) \in [1 .. n -> Nat]
  BY <1>4 DEF Added
<1>6. PICK f \in [0 .. n -> Nat] : Sums(f, Added(s), n)
  BY <1>2, <1>5, SumsExist
<1>7. f = Body(f)
  <2>1. ASSUME NEW i \in 0 .. n
        PROVE  f[i] = Body(f)[i]
    BY <1>4, <1>6 DEF Sums
  <2> QED
    BY <2>1
<1>8. sum = Body(sum)
  <2> HIDE DEF Body
  <2> QED
    BY <1>7
<1>9. ASSUME NEW g, g = Body(g)
      PROVE  Sums(g, Added(s), n)
  <2>1. \A i \in 0 .. n : Body(g)[i] = IF i = 0 THEN 0
                                       ELSE g[i - 1] + (s[n - i + 1] + 1)
    OBVIOUS
  <2> HIDE DEF Body
  <2>2. \A i \in 0 .. n : g[i] = IF i = 0 THEN 0
                                 ELSE g[i - 1] + (s[n - i + 1] + 1)
    BY <1>9, <2>1
  <2>3. g[0] = 0
    BY <1>2, <2>2
  <2> QED
    BY <1>4, <2>2, <2>3 DEF Sums
<1> HIDE DEF sum, Body
<1>10. \A i \in 0 .. n : sum[i] = f[i]
  BY <1>2, <1>6, <1>8, <1>9, SumsAgree
<1> QED
  BY <1>1, <1>2, <1>6, <1>10

\* A piece in front of a name makes it longer by itself and a dot.
LEMMA TotalPushed ==
  ASSUME NEW s \in Seq(Nat), NEW e \in Nat
  PROVE  Total(s) \in Nat /\ Total(<<e>> \o s) = Total(s) + e + 1
<1> DEFINE n == Len(s)
           t == <<e>> \o s
<1>1. /\ n \in Nat /\ t \in Seq(Nat) /\ Len(t) = n + 1
      /\ t[1] = e /\ \A i \in 2 .. n + 1 : t[i] = s[i - 1]
  OBVIOUS
<1> HIDE DEF t
<1>2. PICK f : f \in [0 .. n -> Nat] /\ Sums(f, Added(s), n) /\ Total(s) = f[n]
  BY TotalIsSum
<1>3. PICK g : Sums(g, Added(t), n + 1) /\ Total(t) = g[n + 1]
  BY <1>1, TotalIsSum
<1>4. \A i \in 1 .. n : Added(s)[i] = Added(t)[i]
  <2> SUFFICES ASSUME NEW i \in 1 .. n
               PROVE  Added(s)[i] = Added(t)[i]
    OBVIOUS
  <2> DEFINE j == n - i + 1
  <2>1. /\ i \in 1 .. n + 1 /\ (n + 1) - i + 1 = j + 1
        /\ j \in 1 .. n /\ j \in Int /\ j + 1 \in 2 .. n + 1 /\ j + 1 - 1 = j
    BY <1>1
  <2>2. Added(s)[i] = s[j] + 1
    BY DEF Added
  <2>3. Added(t)[i] = t[(n + 1) - i + 1] + 1
    BY <1>1, <2>1 DEF Added
  <2> HIDE DEF j
  <2>4. t[j + 1] = s[j]
    BY <1>1, <2>1
  <2> QED
    BY <2>1, <2>2, <2>3, <2>4
<1>5. \A i \in 0 .. n : f[i] = g[i]
  <2> DEFINE k == n + 1
  <2>1. n \in Nat /\ k \in Nat /\ n <= k
    BY <1>1
  <2>2. Sums(g, Added(t), k)
    BY <1>3
  <2> HIDE DEF n, k
  <2> QED
    BY <1>2, <1>4, <2>1, <2>2, SumsAgree
<1>6. Added(t)[n + 1] = e + 1
  <2>1. n + 1 \in 1 .. n + 1 /\ (n + 1) - (n + 1) + 1 = 1
    BY <1>1
  <2> QED
    BY <1>1, <2>1 DEF Added
<1>7. g[n + 1] = g[n] + (e + 1)
  <2>1. n + 1 \in 1 .. n + 1 /\ n + 1 - 1 = n
    BY <1>1
  <2> QED
    BY <1>3, <1>6, <2>1 DEF Sums
<1>8. n \in 0 .. n /\ f[n] \in Nat /\ f[n] = g[n]
  BY <1>1, <1>2, <1>5
<1>9. \A x \in Nat : x + (e + 1) = x + e + 1
  OBVIOUS
<1> QED
  BY <1>2, <1>3, <1>7, <1>8, <1>9 DEF t

LEMMA TotalOfNothing == Total(<<>>) = 0
<1>1. PICK f \in [0 .. 0 -> Nat] :
        Sums(f, Added(<<>>), 0) /\ Total(<<>>) = f[0]
  <2>1. <<>> \in Seq(Nat) /\ Len(<<>>) = 0
    OBVIOUS
  <2> QED
    BY <2>1, TotalIsSum
<1> QED
  BY <1>1 DEF Sums

-----------------------------------------------------------------------------
(* The pieces of a name. *)

\* A cut level is as long as it was or as the limit allows.
LEMMA CutFacts ==
  ASSUME NEW last \in Nat, NEW limit \in Int
  PROVE  /\ Cut(last, limit) \in Int
         /\ Cut(last, limit) <= last /\ Cut(last, limit) <= limit
         /\ Cut(last, limit) < 0 => limit < 0
         /\ limit > 0 /\ last > 0 => Cut(last, limit) > 0
BY DEF Cut

\* Whatever is kept of the last of n levels leaves a dot and a character for
\* each of the others.
LEMMA RoomIsLeft ==
  ASSUME NEW n \in Nat, n > 0, NEW rest \in Int, NEW level \in Nat,
         NEW kept \in Int, kept <= maxName(n, rest)
  PROVE  /\ maxName(n, rest) \in Int
         /\ maxName(n, rest) = rest - 2 * n + 1
         /\ Left(rest, level, kept) \in Int
         /\ Left(rest, level, kept) >= 2 * (n - 1)
BY DEF maxName, Left

\* The state after Get: a reference as it is, or joined to the base.
LEMMA ConcatenatedFacts ==
  ASSUME NEW b \in Strings, NEW r \in Strings, base = b, role = r,
         NEW p \in Concatenated
  PROVE  /\ p \in Seq(Nat) /\ p # <<>>
         /\ \A i \in 2 .. Len(p) : p[i] \in 0 .. 2 * MaxLength
<1>1. /\ b \in Seq(Lengths) /\ b # <<>> /\ Len(b) > 0
      /\ r \in Seq(Lengths) /\ r # <<>>
  BY StringFacts
<1>2. PICK k \in {0, roleARNSuffixSize} :
        /\ p = Front(b) \o <<Last(b) + Head(r) + k>> \o Tail(r)
        /\ Len(b) # 1 => k = 0
  BY DEF Concatenated
<1>3. /\ MaxLength \in Nat /\ k \in Nat
      /\ Front(b) \in Seq(Lengths) /\ Len(Front(b)) = Len(b) - 1
      /\ Last(b) \in Lengths
      /\ Head(r) \in Lengths /\ Tail(r) \in Seq(Lengths)
  BY <1>1, FrontAndLast, SessionNameAssumption
<1> DEFINE joint == Last(b) + Head(r) + k
<1>4. joint \in Nat /\ (k = 0 => joint \in 0 .. 2 * MaxLength)
  BY <1>3 DEF Lengths
<1>5. \A l \in Lengths : l \in Nat /\ l \in 0 .. 2 * MaxLength
  BY <1>3 DEF Lengths
<1> HIDE DEF joint
<1>6. CASE Len(b) = 1
  <2>1. Front(b) = <<>>
    BY <1>1, <1>3, <1>6
  <2>2. p = <<joint>> \o Tail(r)
    BY <1>2, <1>3, <2>1 DEF joint
  <2>3. Tail(r) \in Seq(Nat)
    BY <1>3, <1>5, SeqMonotonic
  <2>4. /\ p \in Seq(Nat) /\ p # <<>> /\ Len(p) = Len(Tail(r)) + 1
        /\ \A i \in 2 .. Len(p) : p[i] = Tail(r)[i - 1]
    BY <1>4, <2>2, <2>3, Pushed
  <2>5. \A i \in 2 .. Len(p) : Tail(r)[i - 1] \in Lengths
    BY <1>3, <2>4
  <2> QED
    BY <1>5, <2>4, <2>5
<1>7. CASE Len(b) # 1
  <2> DEFINE Wide == 0 .. 2 * MaxLength
  <2>1. joint \in Wide
    BY <1>2, <1>4, <1>7
  <2>2. Front(b) \in Seq(Wide) /\ Tail(r) \in Seq(Wide)
    BY <1>3, <1>5, SeqMonotonic
  <2> HIDE DEF Wide
  <2>3. p \in Seq(Wide) /\ p # <<>>
    BY <1>2, <2>1, <2>2 DEF joint
  <2>4. Wide \subseteq Nat
    BY <1>3 DEF Wide
  <2>5. p \in Seq(Nat)
    BY <2>3, <2>4, SeqMonotonic
  <2>6. \A i \in 1 .. Len(p) : p[i] \in Wide
    BY <2>3
  <2> QED
    BY <2>3, <2>5, <2>6 DEF Wide
<1> QED
  BY <1>6, <1>7

\* A base found in the metadata ends in "/", so nothing joins its first part.
LEMMA DiscoveredConcatenation ==
  ASSUME NEW a \in Lengths, base = <<a, 0>>, role \in Strings,
         NEW p \in Concatenated
  PROVE  p = <<a>> \o role /\ Len(p) >= 2
<1>1. role \in Seq(Lengths) /\ role # <<>> /\ Head(role) \in Lengths
      /\ Len(role) > 0
  BY StringFacts
<1>2. MaxLength \in Nat /\ Lengths \subseteq Nat /\ 0 \in Lengths
  BY SessionNameAssumption DEF Lengths
<1>3. /\ base \in Seq(Lengths) /\ Len(base) = 2 /\ base # <<>>
      /\ base[1] = a /\ base[2] = 0
  BY <1>2
<1>4. /\ Last(base) = 0
      /\ Front(base) \in Seq(Lengths) /\ Len(Front(base)) = 1
      /\ Front(base)[1] = a
  <2>1. /\ Front(base) \in Seq(Lengths)
        /\ Len(Front(base)) = Len(base) - 1
        /\ \A i \in 1 .. Len(base) - 1 : Front(base)[i] = base[i]
        /\ Last(base) = base[Len(base)]
    BY <1>3, FrontAndLast
  <2>2. Len(base) - 1 = 1 /\ 1 \in 1 .. Len(base) - 1
    BY <1>3
  <2> QED
    BY <1>3, <2>1, <2>2
<1>5. Front(base) = <<a>>
  BY <1>4
<1>6. Len(base) # 1
  BY <1>3
<1>7. PICK k \in {0, roleARNSuffixSize} :
        /\ p = Front(base) \o <<Last(base) + Head(role) + k>> \o Tail(role)
        /\ Len(base) # 1 => k = 0
  BY DEF Concatenated
<1>8. Last(base) + Head(role) + k = Head(role)
  <2>1. \A h \in Nat : 0 + h + 0 = h
    OBVIOUS
  <2>2. Head(role) \in Nat /\ k = 0
    BY <1>1, <1>2, <1>6, <1>7
  <2> QED
    BY <1>4, <2>1, <2>2
<1>9. p = <<a>> \o <<Head(role)>> \o Tail(role)
  BY <1>5, <1>7, <1>8
<1>10. <<a>> \o <<Head(role)>> \o Tail(role) = <<a>> \o role
  BY <1>1
<1> QED
  BY <1>1, <1>9, <1>10

-----------------------------------------------------------------------------
(* The invariant. *)

\* It holds when the process starts.
LEMMA InitInv == Init => NamesInv
<1> SUFFICES ASSUME Init PROVE NamesInv
  OBVIOUS
<1>1. \A S : <<>> \in Seq(S)
  OBVIOUS
<1>2. /\ parts \in Seq(Nat) /\ levels \in Seq(0 .. 2 * MaxLength)
      /\ name \in Seq(0 .. 2 * MaxLength)
  BY <1>1, Zenon DEF Init
<1>3. pc = "base" /\ remaining \in Int
  BY DEF Init
<1>6. discovered \in BOOLEAN /\ ~discovered
  BY Zenon DEF Init
<1>4. base \in {<<>>} \cup Strings /\ role \in Strings
  BY DEF Init
<1>5. TypeOK
  BY <1>2, <1>3, <1>4, <1>6 DEF TypeOK
<1> QED
  BY <1>3, <1>5, <1>6 DEF Init, NamesInv, DiscoveredBaseTakesNames, PanicsOnlyWhenTooDeep

\* The base ARN made of the ARN of an instance profile.
LEMMA BaseOfFacts ==
  ASSUME NEW arn \in Strings, Len(arn) >= 2
  PROVE  BaseOf(arn) \in Strings /\ BaseOf(arn) = <<BaseOf(arn)[1], 0>>
<1>1. arn[1] \in Lengths /\ 0 \in Lengths
  BY StringFacts, SessionNameAssumption DEF Lengths
<1>2. PICK m \in 0 .. MaxParts : arn \in [1 .. m -> Lengths]
  BY SessionNameAssumption DEF Strings, BoundedSeq, SeqOf
<1>3. m >= 2
  BY <1>2, SessionNameAssumption
<1>4. 2 \in 0 .. MaxParts
  BY <1>2, <1>3, SessionNameAssumption
<1>5. <<arn[1], 0>> \in [1 .. 2 -> Lengths]
  BY <1>1
<1>6. <<arn[1], 0>> \in Strings
  BY <1>4, <1>5 DEF Strings, BoundedSeq, SeqOf
<1>7. <<arn[1], 0>>[1] = arn[1]
  OBVIOUS
<1> QED
  BY <1>6, <1>7 DEF BaseOf

\* Start-up says nothing of names.
LEMMA StartUpKeepsInv ==
  ASSUME NamesInv, GetBaseRoleARN \/ BaseRoleARNFlag \/ GetPrefixFromARN
  PROVE  NamesInv'
<1> USE DEF NamesInv, TypeOK, DiscoveredBaseTakesNames, PanicsOnlyWhenTooDeep
<1>1. CASE GetBaseRoleARN
  <2>1. CASE pc' = "fatal" /\ UNCHANGED <<base, discovered>>
    BY <1>1, <2>1 DEF GetBaseRoleARN
  <2>2. CASE ~(pc' = "fatal" /\ UNCHANGED <<base, discovered>>)
    <3>1. PICK arn \in Strings :
            /\ Len(arn) >= 2 /\ pc' = "prefix"
            /\ base' = BaseOf(arn) /\ discovered' = TRUE
      BY <1>1, <2>2 DEF GetBaseRoleARN
    <3>2. base' \in Strings /\ base' = <<base'[1], 0>>
      BY <3>1, BaseOfFacts
    <3>3. base' # <<>>
      BY <3>2, StringFacts
    <3> QED
      BY <1>1, <3>1, <3>2, <3>3 DEF GetBaseRoleARN
  <2> QED
    BY <2>1, <2>2
<1>2. CASE BaseRoleARNFlag
  BY <1>2 DEF BaseRoleARNFlag
<1>3. CASE GetPrefixFromARN
  BY <1>3 DEF GetPrefixFromARN
<1> QED
  BY <1>1, <1>2, <1>3

\* The role ARN is the reference itself, or joined to the base.
LEMMA GetKeepsInv ==
  ASSUME NamesInv, Get
  PROVE  NamesInv'
<1>1. /\ pc = "get" /\ pc' = "start" /\ parts' \in {role} \cup Concatenated
      /\ UNCHANGED <<base, discovered, role, levels, remaining, name>>
  BY DEF Get
<1>2. base \in Strings /\ role \in Strings
  BY <1>1 DEF NamesInv, TypeOK
<1>3. /\ parts' \in Seq(Nat)
      /\ \A i \in 2 .. Len(parts') : parts'[i] \in 0 .. 2 * MaxLength
  <2>1. CASE parts' = role
    <3>1. role \in Seq(Lengths)
      BY <1>2, StringFacts
    <3>2. \A l \in Lengths : l \in Nat /\ l \in 0 .. 2 * MaxLength
      BY SessionNameAssumption DEF Lengths
    <3>3. \A i \in 2 .. Len(role) : role[i] \in Lengths
      BY <3>1
    <3>4. role \in Seq(Nat)
      BY <3>1, <3>2, SeqMonotonic
    <3> QED
      BY <2>1, <3>2, <3>3, <3>4
  <2>2. CASE parts' \in Concatenated
    BY <1>2, <2>2, ConcatenatedFacts
  <2> QED
    BY <1>1, <2>1, <2>2
<1>4. discovered => \/ parts' = role
                    \/ parts' = <<base[1]>> \o role
  <2> SUFFICES ASSUME discovered, parts' \in Concatenated
               PROVE  parts' = <<base[1]>> \o role
    BY <1>1
  <2> DEFINE a == base[1]
  <2>1. base = <<a, 0>>
    BY DEF NamesInv
  <2>2. a \in Lengths
    BY <1>2, StringFacts
  <2> HIDE DEF a
  <2>3. parts' = <<a>> \o role
    BY <1>2, <2>1, <2>2, DiscoveredConcatenation
  <2> QED
    BY <2>3 DEF a
<1> QED
  BY <1>1, <1>3, <1>4
  DEF NamesInv, TypeOK, DiscoveredBaseTakesNames, PanicsOnlyWhenTooDeep

\* The levels are the parts behind the first.
LEMMA normalizeRoleARNKeepsInv ==
  ASSUME NamesInv, normalizeRoleARN
  PROVE  NamesInv'
<1>1. /\ pc = "start" /\ name = <<>> /\ parts \in Seq(Nat)
      /\ UNCHANGED <<base, discovered, role, parts, name>>
  BY DEF normalizeRoleARN, NamesInv, TypeOK
<1>2. CASE Len(parts) < 2
  <2>1. pc' = "error" /\ UNCHANGED <<levels, remaining>>
    BY <1>2 DEF normalizeRoleARN
  <2>2. discovered => parts = role \/ parts = <<base[1]>> \o role
    BY <1>1 DEF NamesInv, DiscoveredBaseTakesNames
  <2>3. discovered => parts = role
    <3> SUFFICES ASSUME discovered, parts = <<base[1]>> \o role PROVE FALSE
      BY <2>2
    <3>1. role \in Seq(Lengths) /\ Len(role) > 0
      BY StringFacts DEF NamesInv, TypeOK
    <3>2. Len(<<base[1]>> \o role) = 1 + Len(role)
      BY <3>1
    <3> QED
      BY <1>2, <3>1, <3>2
  <2> QED
    BY <1>1, <2>1, <2>3
    DEF NamesInv, TypeOK, DiscoveredBaseTakesNames, PanicsOnlyWhenTooDeep
<1>3. CASE ~(Len(parts) < 2)
  <2>1. /\ pc' = "call" /\ levels' = Tail(parts)
        /\ remaining' = roleSessionNameMaxSize - parts[1]
    BY <1>3 DEF normalizeRoleARN
  <2>2. /\ Len(parts) \in Nat /\ Len(parts) >= 2 /\ parts # <<>>
        /\ parts[1] \in Nat
    BY <1>1, <1>3
  <2>3. /\ Tail(parts) \in Seq(Nat) /\ Len(Tail(parts)) = Len(parts) - 1
        /\ \A i \in 1 .. Len(parts) - 1 : Tail(parts)[i] = parts[i + 1]
    BY <1>1, <2>2
  <2>4. \A i \in 1 .. Len(Tail(parts)) : Tail(parts)[i] \in 0 .. 2 * MaxLength
    <3>1. \A i \in 2 .. Len(parts) : parts[i] \in 0 .. 2 * MaxLength
      BY <1>1 DEF NamesInv
    <3>2. \A i \in 1 .. Len(parts) - 1 : i + 1 \in 2 .. Len(parts)
      BY <2>2
    <3> QED
      BY <2>3, <3>1, <3>2
  <2>5. levels' \in Seq(0 .. 2 * MaxLength)
    BY <2>1, <2>3, <2>4, Narrowed
  <2>6. remaining' \in Int
    BY <2>1, <2>2, SessionNameAssumption
  <2>7. name' = <<>> /\ Len(name') = 0
    BY <1>1
  <2>8. TypeOK'
    BY <1>1, <2>1, <2>5, <2>6 DEF NamesInv, TypeOK
  <2>9. /\ Depth' = Len(parts) - 1 /\ Depth' > 0
        /\ Len(levels') + Len(name') = Depth'
        /\ \A i \in 1 .. Len(levels') : levels'[i] = parts'[i + 1]
    BY <1>1, <2>1, <2>2, <2>3, <2>7 DEF Depth
  <2>10. \A i \in 1 .. Len(name') - 1 :
            parts'[Len(levels') + i + 1] > 0 => name'[i] > 0
    BY <2>7
  <2>11. Size' + remaining' = roleSessionNameMaxSize
    <3>1. Size' = parts[1] + 0
      BY <1>1, TotalOfNothing DEF Size
    <3>2. \A x, y \in Nat : (x + 0) + (y - x) = y
      OBVIOUS
    <3>3. roleSessionNameMaxSize \in Nat
      BY SessionNameAssumption
    <3> QED
      BY <2>1, <2>2, <3>1, <3>2, <3>3
  <2> QED
    BY <1>1, <2>1, <2>7, <2>8, <2>9, <2>10, <2>11
    DEF NamesInv, DiscoveredBaseTakesNames, PanicsOnlyWhenTooDeep
<1> QED
  BY <1>2, <1>3

\* With no level left the name is as it was.
LEMMA ReturnKeepsInv ==
  ASSUME NamesInv, Return
  PROVE  NamesInv'
BY DEF Return, NamesInv, TypeOK, DiscoveredBaseTakesNames, PanicsOnlyWhenTooDeep,
       Depth, Size

\* A level is taken off the end, and a piece of it put in front of the name.
LEMMA normalizePathKeepsInv ==
  ASSUME NamesInv, normalizePath
  PROVE  NamesInv'
<1> DEFINE n == Len(levels)
           last == Last(levels)
           limit == maxName(n, remaining)
           kept == Cut(last, limit)
           limit0 == maxName(Depth, roleSessionNameMaxSize - parts[1])
<1>1. /\ pc = "call" /\ levels # <<>>
      /\ UNCHANGED <<base, discovered, role, parts>>
  BY DEF normalizePath
<1>2. TypeOK
  BY DEF NamesInv
<1>3. /\ Depth > 0 /\ n + Len(name) = Depth
      /\ \A i \in 1 .. n : levels[i] = parts[i + 1]
      /\ Size + remaining = roleSessionNameMaxSize
      /\ name # <<>> => remaining >= 2 * n /\ Last(name) = Cut(Last(parts), limit0)
      /\ \A i \in 1 .. Len(name) - 1 : parts[n + i + 1] > 0 => name[i] > 0
  BY <1>1 DEF NamesInv
<1>4. /\ base \in Strings /\ parts \in Seq(Nat) /\ Len(parts) \in Nat
      /\ levels \in Seq(0 .. 2 * MaxLength) /\ n \in Nat /\ n > 0
      /\ remaining \in Int
      /\ name \in Seq(0 .. 2 * MaxLength) /\ Len(name) \in Nat
      /\ MaxLength \in Nat /\ roleSessionNameMaxSize \in Nat
  <2>1. base \in Strings
    BY <1>1, <1>2 DEF NamesInv, TypeOK
  <2>2. /\ parts \in Seq(Nat) /\ levels \in Seq(0 .. 2 * MaxLength)
        /\ remaining \in Int /\ name \in Seq(0 .. 2 * MaxLength)
    BY <1>2 DEF TypeOK
  <2>3. Len(parts) \in Nat /\ n \in Nat /\ n > 0 /\ Len(name) \in Nat
    BY <1>1, <2>2
  <2> QED
    BY <2>1, <2>2, <2>3, SessionNameAssumption
<1>5. /\ Len(parts) = n + Len(name) + 1 /\ Len(parts) > 0
      /\ Depth = n + Len(name) /\ parts[1] \in Nat
  <2>1. Len(parts) - 1 = n + Len(name)
    BY <1>3 DEF Depth
  <2>2. n \in Nat /\ n > 0 /\ Len(name) \in Nat /\ Len(parts) \in Nat
    BY <1>4
  <2>3. \A p, q, r \in Nat : p - 1 = q + r => p = q + r + 1
    OBVIOUS
  <2>4. Len(parts) = n + Len(name) + 1
    BY <2>1, <2>2, <2>3
  <2>5. \A q, r \in Nat : q + r + 1 > 0
    OBVIOUS
  <2>6. Len(parts) > 0
    BY <2>2, <2>4, <2>5
  <2>7. parts[1] \in Nat
    BY <1>4, <2>6
  <2> QED
    BY <1>3, <2>4, <2>6, <2>7
<1>6. /\ Front(levels) \in Seq(0 .. 2 * MaxLength)
      /\ Len(Front(levels)) = n - 1
      /\ \A i \in 1 .. n - 1 : Front(levels)[i] = levels[i]
      /\ last = levels[n] /\ last \in 0 .. 2 * MaxLength
  BY <1>1, <1>4, FrontAndLast
<1>7. last = parts[n + 1] /\ last \in Nat
  <2>1. last \in Nat
    BY <1>4, <1>6
  <2>2. n \in 1 .. n
    BY <1>4
  <2> QED
    BY <1>3, <1>6, <2>1, <2>2
<1>8. limit = remaining - 2 * n + 1 /\ limit \in Int
  BY <1>4 DEF maxName
<1>9. /\ kept \in Int /\ kept <= last /\ kept <= limit
      /\ kept < 0 => limit < 0
      /\ limit > 0 /\ last > 0 => kept > 0
  <2> HIDE DEF last, limit
  <2> QED
    BY <1>7, <1>8, CutFacts
<1>10. name # <<>> => limit > 0
  <2> HIDE DEF limit, n
  <2> QED
    BY <1>3, <1>4, <1>8
<1>11. name = <<>> => /\ n = Depth /\ last = Last(parts) /\ limit = limit0
                      /\ remaining = roleSessionNameMaxSize - parts[1]
  <2> SUFFICES ASSUME name = <<>>
               PROVE  /\ n = Depth /\ last = Last(parts) /\ limit = limit0
                      /\ remaining = roleSessionNameMaxSize - parts[1]
    OBVIOUS
  <2>1. Len(name) = 0
    OBVIOUS
  <2>2. n = Depth /\ n + 1 = Len(parts)
    BY <1>4, <1>5, <2>1
  <2>3. remaining = roleSessionNameMaxSize - parts[1]
    <3>1. parts[1] + 0 + remaining = roleSessionNameMaxSize
      BY <1>3, TotalOfNothing DEF Size
    <3>2. \A x \in Nat, y \in Int, z \in Nat : x + 0 + y = z => y = z - x
      OBVIOUS
    <3> QED
      BY <1>4, <1>5, <3>1, <3>2
  <2> QED
    BY <1>7, <2>2, <2>3 DEF Last
<1>12. /\ kept < 0 => pc' = "panic" /\ UNCHANGED <<levels, remaining, name>>
       /\ ~(kept < 0) => /\ name' = <<kept>> \o name
                         /\ levels' = Front(levels)
                         /\ remaining' = Left(remaining, last, kept)
                         /\ pc' = pc
  BY DEF normalizePath
<1> HIDE DEF n, last, limit, kept, limit0
<1>13. CASE kept < 0
  <2>1. pc' = "panic" /\ UNCHANGED <<levels, remaining, name>>
    BY <1>12, <1>13
  <2>2. TypeOK'
    BY <1>1, <1>2, <2>1 DEF TypeOK
  <2>3. name = <<>> /\ limit < 0
    BY <1>8, <1>9, <1>10, <1>13
  <2>4. remaining = roleSessionNameMaxSize - parts[1] /\ n = Depth
    BY <1>11, <2>3
  <2>5. parts[1] + 2 * Depth - 1 > roleSessionNameMaxSize
    BY <1>4, <1>5, <1>8, <2>3, <2>4
  <2>6. PanicsOnlyWhenTooDeep'
    BY <1>1, <2>1, <2>3, <2>5 DEF PanicsOnlyWhenTooDeep, Depth
  <2> QED
    BY <1>1, <2>1, <2>2, <2>6 DEF NamesInv, DiscoveredBaseTakesNames
<1>14. CASE ~(kept < 0)
  <2>1. /\ name' = <<kept>> \o name /\ levels' = Front(levels)
        /\ remaining' = Left(remaining, last, kept)
        /\ pc' = "call"
    BY <1>1, <1>12, <1>14
  <2>2. kept \in 0 .. 2 * MaxLength
    BY <1>4, <1>6, <1>9, <1>14
  <2>3. /\ name' \in Seq(0 .. 2 * MaxLength) /\ name' # <<>>
        /\ Len(name') = Len(name) + 1
        /\ name'[1] = kept
        /\ \A i \in 2 .. Len(name) + 1 : name'[i] = name[i - 1]
    BY <1>4, <2>1, <2>2, Pushed
  <2>4. remaining' \in Int /\ remaining' >= 2 * (n - 1)
    BY <1>4, <1>7, <1>9, <2>1, RoomIsLeft DEF limit
  <2>5. TypeOK'
    BY <1>1, <1>2, <1>6, <2>1, <2>3, <2>4 DEF TypeOK
  <2>6. Len(levels') = n - 1 /\ Len(levels') + Len(name') = Depth
    <3>1. Len(levels') = n - 1 /\ Len(name') = Len(name) + 1
      BY <1>6, <2>1, <2>3
    <3>2. \A q, r \in Nat : (q - 1) + (r + 1) = q + r
      OBVIOUS
    <3> QED
      BY <1>4, <1>5, <3>1, <3>2
  <2>7. \A i \in 1 .. Len(levels') : levels'[i] = parts[i + 1]
    BY <1>3, <1>4, <1>6, <2>1, <2>6
  <2>8. Last(name') = Cut(Last(parts), limit0)
    <3>1. Last(name') = name'[Len(name) + 1]
      BY <2>3 DEF Last
    <3>2. CASE name = <<>>
      <4>1. Len(name) + 1 = 1
        BY <3>2
      <4> QED
        BY <1>11, <2>3, <3>1, <3>2, <4>1 DEF kept
    <3>3. CASE name # <<>>
      <4>1. Len(name) + 1 \in 2 .. Len(name) + 1 /\ Len(name) + 1 - 1 = Len(name)
        BY <1>4, <3>3
      <4>2. name'[Len(name) + 1] = name[Len(name)]
        BY <2>3, <4>1
      <4>3. name'[Len(name) + 1] = Last(name)
        BY <4>2 DEF Last
      <4> QED
        BY <1>3, <3>1, <3>3, <4>3
    <3> QED
      BY <3>2, <3>3
  <2>9. \A i \in 1 .. Len(name') - 1 :
           parts[Len(levels') + i + 1] > 0 => name'[i] > 0
    <3> SUFFICES ASSUME NEW i \in 1 .. Len(name') - 1,
                        parts[Len(levels') + i + 1] > 0
                 PROVE  name'[i] > 0
      OBVIOUS
    <3>1. i \in 1 .. Len(name) /\ i \in Int
      BY <1>4, <2>3
    <3>2. parts[n + i] > 0
      <4>1. Len(levels') + i + 1 = n + i
        BY <1>4, <2>6, <3>1
      <4> QED
        BY <4>1
    <3>3. name # <<>>
      BY <3>1
    <3>4. CASE i = 1
      BY <1>7, <1>9, <1>10, <2>3, <3>2, <3>3, <3>4
    <3>5. CASE i # 1
      <4>1. /\ i \in 2 .. Len(name) + 1
            /\ i - 1 \in 1 .. Len(name) - 1
            /\ n + (i - 1) + 1 = n + i
        BY <1>4, <3>1, <3>5
      <4>2. parts[n + (i - 1) + 1] > 0 => name[i - 1] > 0
        BY <1>3, <4>1
      <4> QED
        BY <2>3, <3>2, <4>1, <4>2
    <3> QED
      BY <3>4, <3>5
  <2>10. Depth' = Depth /\ parts' = parts
    BY <1>1 DEF Depth
  <2>11. name' # <<>> =>
           /\ remaining' >= 2 * Len(levels')
           /\ Last(name') = Cut(Last(parts'),
                maxName(Depth', roleSessionNameMaxSize - parts'[1]))
    BY <2>4, <2>6, <2>8, <2>10 DEF limit0
  <2>12. Size' + remaining' = roleSessionNameMaxSize
    <3> DEFINE a == parts[1]
               t == Total(name)
    <3>1. name \in Seq(Nat) /\ kept \in Nat
      <4>1. 0 .. 2 * MaxLength \subseteq Nat
        BY <1>4
      <4> QED
        BY <1>4, <2>2, <4>1, SeqMonotonic
    <3>2. t \in Nat /\ Total(name') = t + kept + 1
      BY <2>1, <3>1, TotalPushed
    <3>3. a + t + remaining = roleSessionNameMaxSize
      BY <1>3 DEF Size
    <3>4. Size' = a + (t + kept + 1)
      BY <1>1, <3>2 DEF Size
    <3>5. remaining' = remaining - kept - 1
      BY <2>1 DEF Left
    <3>6. a \in Nat
      BY <1>5
    <3> HIDE DEF a, t
    <3>7. (a + (t + kept + 1)) + (remaining - kept - 1) = a + t + remaining
      BY <1>4, <3>1, <3>2, <3>6
    <3> QED
      BY <3>3, <3>4, <3>5, <3>7
  <2>13. (pc \in {"call", "done"} =>
            /\ Depth > 0
            /\ Len(levels) + Len(name) = Depth
            /\ \A i \in 1 .. Len(levels) : levels[i] = parts[i + 1]
            /\ Size + remaining = roleSessionNameMaxSize
            /\ name # <<>> =>
                 /\ remaining >= 2 * Len(levels)
                 /\ Last(name) = Cut(Last(parts),
                                     maxName(Depth, roleSessionNameMaxSize - parts[1]))
            /\ \A i \in 1 .. Len(name) - 1 :
                   parts[Len(levels) + i + 1] > 0 => name[i] > 0)'
    BY <1>3, <2>3, <2>6, <2>7, <2>9, <2>10, <2>11, <2>12
  <2> QED
    BY <1>1, <2>1, <2>5, <2>13
    DEF NamesInv, DiscoveredBaseTakesNames, PanicsOnlyWhenTooDeep
<1> QED
  BY <1>13, <1>14

\* No step leaves the invariant.
LEMMA InvInductive == NamesInv /\ [Next]_vars => NamesInv'
<1> SUFFICES ASSUME NamesInv, [Next]_vars PROVE NamesInv'
  OBVIOUS
<1>1. CASE GetBaseRoleARN \/ BaseRoleARNFlag \/ GetPrefixFromARN
  BY <1>1, StartUpKeepsInv
<1>2. CASE Get
  BY <1>2, GetKeepsInv
<1>3. CASE normalizeRoleARN
  BY <1>3, normalizeRoleARNKeepsInv
<1>4. CASE normalizePath
  BY <1>4, normalizePathKeepsInv
<1>5. CASE Return
  BY <1>5, ReturnKeepsInv
<1>6. CASE UNCHANGED vars
  BY <1>6 DEF vars, NamesInv, TypeOK, DiscoveredBaseTakesNames,
              PanicsOnlyWhenTooDeep, Depth, Size
<1> QED
  BY <1>1, <1>2, <1>3, <1>4, <1>5, <1>6 DEF Next

-----------------------------------------------------------------------------
(* Theorems *)

\* What is left between two calls of normalizePath, for every limit: after the
\* first one there is room for a dot and a character of every other level.
THEOREM NamesInvariant == Spec => []NamesInv
<1> QED
  BY InitInv, InvInductive, PTL DEF Spec

\* What normalizePath builds is made of levels as short as those of the ARNs,
\* however deep the role is and whatever the limits do to remaining.
THEOREM NamesTypes == Spec => []TypeOK
<1>1. NamesInv => TypeOK
  BY DEF NamesInv
<1> QED
  BY <1>1, NamesInvariant, PTL

\* A base ARN that GetBaseRoleARN found can be put in front of any name, and
\* what Get makes of the two is not refused.
THEOREM FoundBaseTakesNames == Spec => []DiscoveredBaseTakesNames
<1>1. NamesInv => DiscoveredBaseTakesNames
  BY DEF NamesInv
<1> QED
  BY <1>1, NamesInvariant, PTL

\* STS accepts the length of every name: for every limit and every path, what
\* is taken and what remains add up to the limit, and what remains is not
\* negative.
THEOREM NamesFit == Spec => []SessionNameFits
<1>1. NamesInv => SessionNameFits
  <2> SUFFICES ASSUME NamesInv, pc = "done"
               PROVE  Size <= roleSessionNameMaxSize
    BY DEF SessionNameFits
  <2>1. /\ levels = <<>> /\ Len(levels) + Len(name) = Depth /\ Depth > 0
        /\ Size + remaining = roleSessionNameMaxSize
        /\ name # <<>> => remaining >= 2 * Len(levels)
    BY DEF NamesInv
  <2>2. /\ parts \in Seq(Nat) /\ name \in Seq(0 .. 2 * MaxLength)
        /\ remaining \in Int
    BY DEF NamesInv, TypeOK
  <2>3. name # <<>> /\ parts # <<>>
    BY <2>1, <2>2 DEF Depth
  <2>4. remaining >= 0
    BY <2>1, <2>2, <2>3
  <2>5. Size \in Nat
    <3>1. 0 .. 2 * MaxLength \subseteq Nat
      BY SessionNameAssumption
    <3>2. name \in Seq(Nat)
      BY <2>2, <3>1, SeqMonotonic
    <3>3. Total(name) \in Nat
      BY <3>2, TotalPushed
    <3>4. parts[1] \in Nat
      BY <2>2, <2>3
    <3> QED
      BY <3>3, <3>4 DEF Size
  <2>6. \A x \in Nat, y \in Int, z \in Nat : x + y = z /\ y >= 0 => x <= z
    OBVIOUS
  <2> QED
    BY <2>1, <2>2, <2>4, <2>5, <2>6, SessionNameAssumption
<1> QED
  BY <1>1, NamesInvariant, PTL

\* The last level is kept whole, or as much of it as the dots and a character
\* of each other level leave of the limit.
THEOREM RestGoesToTheLastLevel == Spec => []LastLevelGetsTheRest
<1>1. NamesInv => LastLevelGetsTheRest
  <2> SUFFICES ASSUME NamesInv, pc = "done"
               PROVE  Last(name) =
                        (IF Last(parts) < roleSessionNameMaxSize - parts[1]
                                            - Depth - (Depth - 1)
                         THEN Last(parts)
                         ELSE roleSessionNameMaxSize - parts[1]
                                - Depth - (Depth - 1))
    BY DEF LastLevelGetsTheRest
  <2> DEFINE size == roleSessionNameMaxSize - parts[1]
             d == Depth
  <2>1. /\ d > 0 /\ Len(levels) + Len(name) = d /\ levels = <<>>
        /\ name # <<>> => Last(name) = Cut(Last(parts), maxName(d, size))
    BY DEF NamesInv
  <2>2. parts \in Seq(Nat) /\ name \in Seq(0 .. 2 * MaxLength)
    BY DEF NamesInv, TypeOK
  <2>3. name # <<>>
    BY <2>1, <2>2
  <2>4. d \in Int /\ parts # <<>>
    BY <2>1, <2>2 DEF Depth
  <2>5. size \in Int
    BY <2>2, <2>4, SessionNameAssumption
  <2>6. Last(parts) \in Nat
    BY <2>2, <2>4, FrontAndLast
  <2> HIDE DEF size, d
  <2>7. maxName(d, size) = size - d - (d - 1)
    BY <2>4, <2>5 DEF maxName
  <2>8. \A l \in Nat, m \in Int : Cut(l, m) = IF l < m THEN l ELSE m
    BY DEF Cut
  <2>9. Last(name) = IF Last(parts) < size - d - (d - 1)
                     THEN Last(parts) ELSE size - d - (d - 1)
    BY <2>1, <2>3, <2>4, <2>5, <2>6, <2>7, <2>8
  <2> QED
    BY <2>9 DEF size, d
<1> QED
  BY <1>1, NamesInvariant, PTL

\* However long the levels behind it are, a level that is not empty leaves a
\* character in the name.
THEOREM OtherLevelsStay == Spec => []OtherLevelsKeepAChar
<1>1. NamesInv => OtherLevelsKeepAChar
  <2> SUFFICES ASSUME NamesInv, pc = "done"
               PROVE  /\ Len(name) = Depth
                      /\ \A i \in 1 .. Depth - 1 : parts[i + 1] > 0 => name[i] > 0
    BY DEF OtherLevelsKeepAChar
  <2>1. /\ Len(levels) + Len(name) = Depth /\ levels = <<>>
        /\ \A i \in 1 .. Len(name) - 1 :
              parts[Len(levels) + i + 1] > 0 => name[i] > 0
    BY DEF NamesInv
  <2>2. Len(name) \in Nat
    BY DEF NamesInv, TypeOK
  <2>3. Len(levels) = 0
    BY <2>1
  <2>4. Len(name) = Depth
    BY <2>1, <2>2, <2>3
  <2>5. \A i \in 1 .. Depth - 1 : Len(levels) + i + 1 = i + 1
    BY <2>3
  <2> QED
    BY <2>1, <2>4, <2>5
<1> QED
  BY <1>1, NamesInvariant, PTL

\* Only a role with too many levels can make the slice panic.
THEOREM PanicNeedsDepth == Spec => []PanicsOnlyWhenTooDeep
<1>1. NamesInv => PanicsOnlyWhenTooDeep
  BY DEF NamesInv
<1> QED
  BY <1>1, NamesInvariant, PTL
=============================================================================
