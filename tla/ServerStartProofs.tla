--------------------------- MODULE ServerStartProofs ---------------------------
(***************************************************************************)
(* Theorems about server processes that share a key file, for any number   *)
(* of servers, starts, requests and faults; before them, that the parser   *)
(* of sizes reads texts of any length as what they stand for.              *)
(***************************************************************************)
EXTENDS ServerStart, Minima

-----------------------------------------------------------------------------
(* What the parser of sizes returns: a word, or an error.                  *)

\* The characters of a kind end somewhere.
LEMMA EndFacts ==
    ASSUME NEW t \in Seq(Char), NEW p \in 1..(Len(t) + 1), NEW kind
    PROVE  /\ End(t, p, kind) \in p..(Len(t) + 1)
           /\ \A i \in p..(End(t, p, kind) - 1) : t[i] \in kind
           /\ End(t, p, kind) > Len(t) \/ t[End(t, p, kind)] \notin kind
<1> DEFINE Stops == {q \in p..(Len(t) + 1) : q > Len(t) \/ t[q] \notin kind}
<1>1. Stops \in SUBSET Nat /\ Len(t) + 1 \in Stops
  OBVIOUS
<1>2. PICK q \in Stops : \A r \in Stops : q <= r
  <2> HIDE DEF Stops
  <2> QED BY <1>1, LeastNumber
<1>3. ASSUME NEW i \in p..(q - 1) PROVE t[i] \in kind
  <2>1. i \in p..(Len(t) + 1) /\ i <= Len(t) /\ ~(q <= i)
    BY <1>2
  <2> QED BY <1>2, <2>1
<1>4. q \in p..(Len(t) + 1) /\ (q > Len(t) \/ t[q] \notin kind)
  BY <1>2
<1> QED BY <1>3, <1>4 DEF End

\* The value of the digits before i, from p on.
Digits(t, p, n, f) ==
    [i \in (p - 1)..n |-> IF i < p THEN 0 ELSE 10 * f[i - 1] + DigitValue[t[i]]]

LEMMA DigitsExist ==
    ASSUME NEW t, NEW p \in Nat \ {0}, NEW n \in Nat, n >= p - 1
    PROVE  \E f : f = Digits(t, p, n, f)
<1> DEFINE Without == {m \in Nat : m >= p - 1 /\ ~ \E f : f = Digits(t, p, m, f)}
<1> SUFFICES ASSUME Without # {} PROVE FALSE
  OBVIOUS
<1>1. PICK m \in Without : \A l \in Without : m <= l
  <2>1. Without \in SUBSET Nat
    OBVIOUS
  <2> HIDE DEF Without
  <2> QED BY <2>1, LeastNumber
<1>2. m # p - 1
  <2> SUFFICES ASSUME m = p - 1 PROVE FALSE
    OBVIOUS
  <2>1. [i \in (p - 1)..(p - 1) |-> 0] = Digits(t, p, p - 1, [i \in (p - 1)..(p - 1) |-> 0])
    BY DEF Digits
  <2> QED BY <1>1, <2>1
<1>3. m - 1 \in Nat /\ m - 1 >= p - 1 /\ m - 1 \notin Without /\ m \in Nat /\ m >= p
  BY <1>1, <1>2
<1>4. PICK f : f = Digits(t, p, m - 1, f)
  BY <1>3
<1> DEFINE g == [i \in (p - 1)..m |-> IF i # m THEN f[i] ELSE 10 * f[m - 1] + DigitValue[t[m]]]
<1>5. ASSUME NEW i \in (p - 1)..m PROVE g[i] = Digits(t, p, m, g)[i]
  <2>1. CASE i = m
    BY <1>3, <2>1 DEF Digits
  <2>2. CASE i # m
    <3>1. i \in (p - 1)..(m - 1) /\ (i >= p => i - 1 \in (p - 1)..m /\ i - 1 # m)
      BY <1>3, <2>2
    <3>2. f[i] = Digits(t, p, m - 1, f)[i]
      BY <1>4
    <3>3. CASE i < p
      BY <2>2, <3>1, <3>2, <3>3 DEF Digits
    <3>4. CASE i >= p
      <4>1. f[i] = 10 * f[i - 1] + DigitValue[t[i]] /\ g[i - 1] = f[i - 1] /\ g[i] = f[i]
        BY <1>3, <2>2, <3>1, <3>2, <3>4 DEF Digits
      <4> QED BY <1>3, <3>4, <4>1 DEF Digits
    <3> QED BY <1>3, <3>3, <3>4
  <2> QED BY <2>1, <2>2
<1>6. g = Digits(t, p, m, g)
  BY <1>5 DEF Digits
<1> QED BY <1>1, <1>6

LEMMA NumberType ==
    ASSUME NEW t \in Seq(Char), NEW p \in Nat \ {0}, NEW q \in Nat, q >= p,
           \A i \in p..(q - 1) : t[i] \in Digit
    PROVE  Number(t, p, q) \in Nat
<1> DEFINE f == CHOOSE f : f = Digits(t, p, q - 1, f)
<1>1. f = Digits(t, p, q - 1, f)
  BY DigitsExist
<1>2. Number(t, p, q) = f[q - 1]
  BY DEF Number, Digits
<1> HIDE DEF f
<1> DEFINE Wrong == {i \in (p - 1)..(q - 1) : f[i] \notin Nat}
<1>3. Wrong = {}
  <2> SUFFICES ASSUME Wrong # {} PROVE FALSE
    OBVIOUS
  <2>1. PICK i \in Wrong : \A l \in Wrong : i <= l
    <3>1. Wrong \in SUBSET Nat
      OBVIOUS
    <3> HIDE DEF Wrong
    <3> QED BY <3>1, LeastNumber
  <2>2. f[i] = IF i < p THEN 0 ELSE 10 * f[i - 1] + DigitValue[t[i]]
    BY <1>1, <2>1 DEF Digits
  <2>3. i >= p /\ i - 1 \in (p - 1)..(q - 1) /\ f[i - 1] \in Nat
    BY <2>1, <2>2
  <2>4. DigitValue[t[i]] \in Nat
    BY <2>1, <2>3 DEF DigitValue, Digit
  <2>5. f[i] \in Nat
    BY <2>1, <2>2, <2>3, <2>4
  <2> QED BY <2>1, <2>5
<1> QED BY <1>2, <1>3

LEMMA WrappedType == ASSUME NEW n \in Nat PROVE Wrapped(n) \in 0..(Word - 1)
  BY WordAssumption DEF Wrapped
LEMMA Product == ASSUME NEW m \in Nat, NEW n \in Nat PROVE m * n \in Nat
  OBVIOUS

\* The sum of the components from p on, given the sums f of what is left.
Components(t, p, f) ==
    LET number == End(t, p, Space)
        gap    == End(t, number, Digit)
        unit   == End(t, gap, Space)
        next   == End(t, unit, Letter)
    IN  IF number > Len(t) THEN 0
        ELSE IF \/ number = gap \/ Number(t, number, gap) >= Word
                \/ Unit(t, unit, next) \notin DOMAIN Factor
                \/ f[next] = Error
             THEN Error
             ELSE Wrapped(Number(t, number, gap) * Factor[Unit(t, unit, next)] + f[next])
Sums(t, m, f) == [p \in m..(Len(t) + 1) |-> Components(t, p, f)]

\* The sum only depends on sums further on.
LEMMA ComponentsNext ==
    ASSUME NEW t \in Seq(Char), NEW p \in 1..(Len(t) + 1), NEW f, NEW g,
           \A q \in (p + 1)..(Len(t) + 1) : f[q] = g[q]
    PROVE  Components(t, p, f) = Components(t, p, g)
<1> DEFINE number == End(t, p, Space)
           gap    == End(t, number, Digit)
           unit   == End(t, gap, Space)
           next   == End(t, unit, Letter)
<1>1. number \in p..(Len(t) + 1)
  BY EndFacts
<1>2. number \in 1..(Len(t) + 1)
  BY <1>1
<1> HIDE DEF number
<1>3. gap \in number..(Len(t) + 1)
  BY <1>2, EndFacts
<1>4. gap \in 1..(Len(t) + 1)
  BY <1>2, <1>3
<1> HIDE DEF gap
<1>5. unit \in gap..(Len(t) + 1)
  BY <1>4, EndFacts
<1>6. unit \in 1..(Len(t) + 1)
  BY <1>4, <1>5
<1> HIDE DEF unit
<1>7. next \in unit..(Len(t) + 1)
  BY <1>6, EndFacts
<1> HIDE DEF next
<1>8. number = gap \/ f[next] = g[next]
  BY <1>1, <1>3, <1>5, <1>7
<1> QED BY <1>8 DEF Components, number, gap, unit, next

LEMMA SumsExist ==
    ASSUME NEW t \in Seq(Char) PROVE \E f : f = Sums(t, 1, f)
<1> DEFINE L == Len(t) + 1
           Without == {d \in Nat : d < L /\ ~ \E f : f = Sums(t, L - d, f)}
<1>0. Len(t) \in Nat
  OBVIOUS
<1>1. Without = {}
  <2> SUFFICES ASSUME Without # {} PROVE FALSE
    OBVIOUS
  <2>1. PICK d \in Without : \A e \in Without : d <= e
    <3>1. Without \in SUBSET Nat
      OBVIOUS
    <3> HIDE DEF Without
    <3> QED BY <3>1, LeastNumber
  <2> DEFINE m == L - d
  <2>2. m \in 1..L /\ d \in Nat
    BY <1>0, <2>1
  <2>3. PICK f : \A p \in (m + 1)..L : f[p] = Components(t, p, f)
    <3>1. CASE d = 0
      BY <1>0, <3>1
    <3>2. CASE d # 0
      <4>1. d - 1 \in Nat /\ d - 1 < L /\ d - 1 \notin Without /\ L - (d - 1) = m + 1
        BY <1>0, <2>1, <2>2, <3>2
      <4>2. PICK f : f = Sums(t, m + 1, f)
        BY <4>1
      <4>3. \A p \in (m + 1)..L : f[p] = Components(t, p, f)
        BY <4>2 DEF Sums
      <4> QED BY <4>3
    <3> QED BY <3>1, <3>2
  <2> DEFINE g == [p \in m..L |-> IF p # m THEN f[p] ELSE Components(t, m, f)]
  <2>4. \A p \in (m + 1)..L : g[p] = f[p]
    BY <1>0, <2>2
  <2>5. ASSUME NEW p \in m..L PROVE g[p] = Components(t, p, g)
    <3>1. p \in 1..L /\ \A q \in (p + 1)..L : f[q] = g[q]
      BY <1>0, <2>2, <2>4
    <3>2. Components(t, p, f) = Components(t, p, g)
      BY <3>1, ComponentsNext
    <3>3. CASE p = m
      BY <3>2, <3>3
    <3>4. CASE p # m
      BY <1>0, <2>2, <2>3, <3>2, <3>4
    <3> QED BY <3>3, <3>4
  <2>6. g = Sums(t, m, g)
    BY <2>5 DEF Sums
  <2> QED BY <2>1, <2>6
<1>2. Len(t) \in Nat /\ Len(t) < L /\ Len(t) \notin Without
  BY <1>0, <1>1
<1> HIDE DEF L
<1>3. L - Len(t) = 1
  BY <1>0 DEF L
<1> QED BY <1>2, <1>3

Sizes == 0..(Word - 1) \cup {Error}

LEMMA ComponentsType ==
    ASSUME NEW t \in Seq(Char), NEW p \in 1..(Len(t) + 1), NEW f,
           \A q \in (p + 1)..(Len(t) + 1) : f[q] \in Sizes
    PROVE  Components(t, p, f) \in Sizes
<1> DEFINE number == End(t, p, Space)
           gap    == End(t, number, Digit)
           unit   == End(t, gap, Space)
           next   == End(t, unit, Letter)
<1>1. number \in p..(Len(t) + 1)
  BY EndFacts
<1>2. number \in 1..(Len(t) + 1)
  BY <1>1
<1> HIDE DEF number
<1>3. gap \in number..(Len(t) + 1) /\ \A i \in number..(gap - 1) : t[i] \in Digit
  BY <1>2, EndFacts
<1>4. gap \in 1..(Len(t) + 1)
  BY <1>2, <1>3
<1> HIDE DEF gap
<1>5. unit \in gap..(Len(t) + 1)
  BY <1>4, EndFacts
<1>6. unit \in 1..(Len(t) + 1)
  BY <1>4, <1>5
<1> HIDE DEF unit
<1>7. next \in unit..(Len(t) + 1)
  BY <1>6, EndFacts
<1> HIDE DEF next
<1>8. 0 \in Sizes /\ Error \in Sizes
  BY WordAssumption DEF Sizes
<1>9. ASSUME number # gap, Unit(t, unit, next) \in DOMAIN Factor, f[next] # Error
      PROVE  Wrapped(Number(t, number, gap) * Factor[Unit(t, unit, next)] + f[next]) \in Sizes
  <2>1. Number(t, number, gap) \in Nat
    BY <1>2, <1>3, <1>4, NumberType
  <2>2. Factor[Unit(t, unit, next)] \in Nat
    BY <1>9, FactorAssumption
  <2>3. next \in (p + 1)..(Len(t) + 1)
    BY <1>1, <1>3, <1>5, <1>7, <1>9
  <2>4. f[next] \in Nat
    BY <1>9, <2>3, WordAssumption DEF Sizes
  <2>5. Number(t, number, gap) * Factor[Unit(t, unit, next)] \in Nat
    BY <2>1, <2>2, Product
  <2>6. Number(t, number, gap) * Factor[Unit(t, unit, next)] + f[next] \in Nat
    BY <2>4, <2>5
  <2> QED BY <2>6, WrappedType DEF Sizes
<1> QED BY <1>8, <1>9 DEF Components, number, gap, unit, next

\* A text is read as a size that fits into a word, or rejected.
LEMMA ParsedType ==
    ASSUME NEW t \in Seq(Char) PROVE parse_bytes_from_str(t) \in Sizes
<1> DEFINE f == CHOOSE f : f = Sums(t, 1, f)
           L == Len(t) + 1
<1>1. f = Sums(t, 1, f)
  BY SumsExist
<1>2. ParseFrom(t) = f[1]
  BY DEF ParseFrom, Sums, Components
<1> HIDE DEF f
<1>3. Len(t) \in Nat /\ \A p \in 1..L : f[p] = Components(t, p, f)
  BY <1>1 DEF Sums
<1> DEFINE Wrong == {d \in Nat : d < L /\ f[L - d] \notin Sizes}
<1>4. Wrong = {}
  <2> SUFFICES ASSUME Wrong # {} PROVE FALSE
    OBVIOUS
  <2>1. PICK d \in Wrong : \A e \in Wrong : d <= e
    <3>1. Wrong \in SUBSET Nat
      OBVIOUS
    <3> HIDE DEF Wrong
    <3> QED BY <3>1, LeastNumber
  <2>2. d \in Nat /\ d < L /\ L - d \in 1..L
    BY <1>3, <2>1
  <2>3. ASSUME NEW q \in (L - d + 1)..L PROVE f[q] \in Sizes
    <3>1. L - q \in Nat /\ L - q < d /\ L - (L - q) = q /\ L - q < L
      BY <1>3, <2>2
    <3>2. L - q \notin Wrong
      BY <2>1, <2>2, <3>1
    <3> QED BY <3>1, <3>2
  <2>4. f[L - d] \in Sizes
    BY <1>3, <2>2, <2>3, ComponentsType
  <2> QED BY <2>1, <2>4
<1>5. f[1] \in Sizes
  <2>1. Len(t) \in Nat /\ Len(t) < L /\ Len(t) \notin Wrong /\ L - Len(t) = 1
    BY <1>3, <1>4
  <2> QED BY <2>1
<1> QED BY <1>2, <1>5 DEF parse_bytes_from_str, Sizes

-----------------------------------------------------------------------------
(* The parser reads what a text stands for.                                *)

LEMMA KindsApart ==
    Space \cap Digit = {} /\ Space \cap Letter = {} /\ Digit \cap Letter = {}
  BY DEF Space, Digit, Letter

LEMMA EndIs ==
    ASSUME NEW t \in Seq(Char), NEW p \in 1..(Len(t) + 1), NEW kind, NEW q \in p..(Len(t) + 1),
           \A i \in p..(q - 1) : t[i] \in kind, q > Len(t) \/ t[q] \notin kind
    PROVE  End(t, p, kind) = q
<1> DEFINE e == End(t, p, kind)
<1>1. e \in p..(Len(t) + 1) /\ (\A i \in p..(e - 1) : t[i] \in kind) /\ (e > Len(t) \/ t[e] \notin kind)
  BY EndFacts
<1> HIDE DEF e
<1>2. Len(t) \in Nat /\ ~(e < q) /\ ~(q < e)
  BY <1>1
<1> QED BY <1>1, <1>2 DEF e

LEMMA AfterFacts ==
    ASSUME NEW t \in Seq(Char), NEW p \in 1..Len(t)
    PROVE  /\ After(t, p) \in (p + 1)..(Len(t) + 1)
           /\ After(t, p) \in Starts(t) \/ After(t, p) > Len(t)
           /\ \A r \in (p + 1)..(After(t, p) - 1) : r \notin Starts(t)
<1> DEFINE Stops == {q \in (p + 1)..(Len(t) + 1) : q \in Starts(t) \/ q > Len(t)}
<1>1. Stops \in SUBSET Nat /\ Len(t) + 1 \in Stops
  OBVIOUS
<1>2. PICK q \in Stops : \A r \in Stops : q <= r
  <2> HIDE DEF Stops
  <2> QED BY <1>1, LeastNumber
<1>3. ASSUME NEW r \in (p + 1)..(q - 1) PROVE r \notin Starts(t)
  <2>1. r \in (p + 1)..(Len(t) + 1) /\ ~(q <= r)
    BY <1>2
  <2> QED BY <1>2, <2>1
<1> QED BY <1>2, <1>3 DEF After

LEMMA AfterIs ==
    ASSUME NEW t \in Seq(Char), NEW p \in 1..Len(t), NEW q \in (p + 1)..(Len(t) + 1),
           q \in Starts(t) \/ q > Len(t), \A r \in (p + 1)..(q - 1) : r \notin Starts(t)
    PROVE  After(t, p) = q
<1> DEFINE a == After(t, p)
<1>1. /\ a \in (p + 1)..(Len(t) + 1) /\ (a \in Starts(t) \/ a > Len(t))
      /\ \A r \in (p + 1)..(a - 1) : r \notin Starts(t)
  BY AfterFacts
<1> HIDE DEF a
<1>2. Len(t) \in Nat /\ ~(a < q) /\ ~(q < a)
  BY <1>1
<1> QED BY <1>1, <1>2 DEF a

\* The meaning from p on, given the meanings f of what is left.
MeaningAt(t, p, f) ==
    IF p > Len(t) THEN 0
    ELSE IF p \notin Starts(t) THEN f[p + 1]
    ELSE Amount(t, p) + f[p + 1]
Meanings(t, m, f) == [p \in m..(Len(t) + 1) |-> MeaningAt(t, p, f)]

LEMMA MeaningNext ==
    ASSUME NEW t, NEW p, NEW f, NEW g, p > Len(t) \/ f[p + 1] = g[p + 1]
    PROVE  MeaningAt(t, p, f) = MeaningAt(t, p, g)
<1>1. CASE p > Len(t)
  BY <1>1 DEF MeaningAt
<1>2. CASE ~(p > Len(t))
  <2>1. f[p + 1] = g[p + 1]
    BY <1>2
  <2> QED BY <1>2, <2>1, Zenon DEF MeaningAt
<1> QED BY <1>1, <1>2

LEMMA MeaningsExist ==
    ASSUME NEW t \in Seq(Char) PROVE \E f : f = Meanings(t, 1, f)
<1> DEFINE L == Len(t) + 1
           Without == {d \in Nat : d < L /\ ~ \E f : f = Meanings(t, L - d, f)}
<1>0. Len(t) \in Nat
  OBVIOUS
<1>1. Without = {}
  <2> SUFFICES ASSUME Without # {} PROVE FALSE
    OBVIOUS
  <2>1. PICK d \in Without : \A e \in Without : d <= e
    <3>1. Without \in SUBSET Nat
      OBVIOUS
    <3> HIDE DEF Without
    <3> QED BY <3>1, LeastNumber
  <2> DEFINE m == L - d
  <2>2. m \in 1..L /\ d \in Nat
    BY <1>0, <2>1
  <2>3. PICK f : \A p \in (m + 1)..L : f[p] = MeaningAt(t, p, f)
    <3>1. CASE d = 0
      BY <1>0, <3>1
    <3>2. CASE d # 0
      <4>1. d - 1 \in Nat /\ d - 1 < L /\ d - 1 \notin Without /\ L - (d - 1) = m + 1
        BY <1>0, <2>1, <2>2, <3>2
      <4>2. PICK f : f = Meanings(t, m + 1, f)
        BY <4>1
      <4>3. \A p \in (m + 1)..L : f[p] = MeaningAt(t, p, f)
        BY <4>2 DEF Meanings
      <4> QED BY <4>3
    <3> QED BY <3>1, <3>2
  <2> DEFINE g == [p \in m..L |-> IF p # m THEN f[p] ELSE MeaningAt(t, m, f)]
  <2>4. \A p \in (m + 1)..L : g[p] = f[p]
    BY <1>0, <2>2
  <2>5. ASSUME NEW p \in m..L PROVE g[p] = MeaningAt(t, p, g)
    <3>1. p > Len(t) \/ p + 1 \in (m + 1)..L
      BY <1>0, <2>2
    <3>2. p > Len(t) \/ f[p + 1] = g[p + 1]
      BY <2>4, <3>1
    <3> HIDE DEF g
    <3>3. MeaningAt(t, p, f) = MeaningAt(t, p, g)
      BY <3>2, MeaningNext
    <3>4. CASE p = m
      <4>1. g[m] = MeaningAt(t, m, f)
        BY <2>2 DEF g
      <4> QED BY <3>3, <3>4, <4>1
    <3>5. CASE p # m
      <4>1. p \in (m + 1)..L
        BY <1>0, <2>2, <3>5
      <4> QED BY <2>3, <2>4, <3>3, <4>1
    <3> QED BY <3>4, <3>5
  <2>6. g = Meanings(t, m, g)
    BY <2>5 DEF Meanings
  <2> QED BY <2>1, <2>6
<1>2. Len(t) \in Nat /\ Len(t) < L /\ Len(t) \notin Without
  BY <1>0, <1>1
<1> HIDE DEF L
<1>3. L - Len(t) = 1
  BY <1>0 DEF L
<1> QED BY <1>2, <1>3

\* Where no number starts there is nothing to add.
LEMMA MeaningSkips ==
    ASSUME NEW t \in Seq(Char), NEW p \in 1..(Len(t) + 1), NEW q \in p..(Len(t) + 1), NEW m,
           \A i \in 1..(Len(t) + 1) : m[i] = MeaningAt(t, i, m),
           \A r \in p..(q - 1) : r \notin Starts(t)
    PROVE  m[p] = m[q]
<1> DEFINE Same == {i \in Nat : i \in p..q /\ m[i] = m[q]}
<1>0. Len(t) \in Nat /\ Same \in SUBSET Nat /\ q \in Same
  OBVIOUS
<1>1. PICK i \in Same : \A j \in Same : i <= j
  <2> HIDE DEF Same
  <2> QED BY <1>0, LeastNumber
<1>2. CASE i = p
  BY <1>1, <1>2
<1>3. CASE i # p
  <2>1. i - 1 \in p..(q - 1) /\ i - 1 \in 1..Len(t) /\ i - 1 \in Nat /\ i \in 1..(Len(t) + 1)
    BY <1>0, <1>1, <1>3
  <2>2. m[i - 1] = MeaningAt(t, i - 1, m)
    BY <1>0, <2>1
  <2>3. m[i - 1] = m[(i - 1) + 1]
    BY <1>0, <2>1, <2>2 DEF MeaningAt
  <2>4. (i - 1) + 1 = i /\ i - 1 \in p..q
    BY <2>1
  <2>5. m[i - 1] = m[q]
    BY <1>1, <2>1, <2>3, <2>4
  <2>6. i - 1 \in Same
    BY <2>1, <2>4, <2>5
  <2> QED BY <1>1, <2>1, <2>6
<1> QED BY <1>2, <1>3

-----------------------------------------------------------------------------
\* A place that is not within a number.
Boundary(t, p) == p = 1 \/ p > Len(t) \/ t[p - 1] \notin Digit \/ t[p] \notin Digit
\* From p on the text is one of a size.
Proper(t, p) ==
    /\ \A i \in p..Len(t) : t[i] \in Space \/ \E s \in Starts(t) : p <= s /\ s <= i
    /\ \A s \in Starts(t) : p <= s => Forms(t, s, After(t, s)) # {}

LEMMA SeqSame ==
    ASSUME NEW S, NEW s \in Seq(S), NEW t \in Seq(S), Len(s) = Len(t), \A i \in 1..Len(s) : s[i] = t[i]
    PROVE  s = t
  OBVIOUS

\* The letters of a unit, with or without a B at their end.
LEMMA UnitIs ==
    ASSUME NEW t \in Seq(Char), NEW p \in 1..(Len(t) + 1), NEW q \in p..(Len(t) + 1),
           NEW u \in DOMAIN Factor, SubSeq(t, p, q - 1) \in {u, Append(u, "B")}
    PROVE  Unit(t, p, q) = u
<1> DEFINE w == SubSeq(t, p, q - 1)
<1>0. Len(t) \in Nat /\ u \in Seq(Letter) /\ (u # <<>> => u[Len(u)] # "B")
  BY FactorAssumption
<1>00. u \in Seq(Char)
  <2>1. Letter \subseteq Char
    BY DEF Char
  <2> QED BY <1>0, <2>1
<1>1. w \in Seq(Char) /\ Len(w) = q - p /\ \A i \in 1..(q - p) : w[i] = t[p + i - 1]
  BY <1>0
<1>2. CASE w = u
  <2>1. ~(q > p /\ t[q - 1] = "B")
    <3> SUFFICES ASSUME q > p, t[q - 1] = "B" PROVE FALSE
      OBVIOUS
    <3>1. q - p \in 1..(q - p) /\ p + (q - p) - 1 = q - 1
      OBVIOUS
    <3>2. w[q - p] = "B" /\ Len(w) = q - p
      BY <1>1, <3>1
    <3>3. u # <<>> /\ u[Len(u)] = "B"
      BY <1>2, <3>1, <3>2
    <3> QED BY <1>0, <3>3
  <2> QED BY <1>2, <2>1 DEF Unit
<1>3. CASE w = Append(u, "B")
  <2>1. Len(u) \in Nat /\ q - p = Len(u) + 1 /\ w[Len(u) + 1] = "B" /\ \A i \in 1..Len(u) : w[i] = u[i]
    <3> HIDE DEF w
    <3> QED BY <1>0, <1>1, <1>3
  <2>2. q > p /\ q - 1 = p + (Len(u) + 1) - 1 /\ Len(u) + 1 \in 1..(q - p)
    BY <2>1
  <2>3. t[q - 1] = "B"
    BY <1>1, <2>1, <2>2
  <2>4. Unit(t, p, q) = SubSeq(t, p, q - 2)
    BY <2>2, <2>3 DEF Unit
  <2> DEFINE v == SubSeq(t, p, q - 2)
  <2>5. v \in Seq(Char) /\ Len(v) = Len(u) /\ \A i \in 1..Len(u) : v[i] = t[p + i - 1]
    BY <1>0, <2>1, <2>2
  <2> HIDE DEF v, w
  <2>6. \A i \in 1..Len(u) : v[i] = u[i]
    BY <1>1, <2>1, <2>5
  <2>7. u \in Seq(Char) /\ v \in Seq(Char) /\ Len(u) = Len(v) /\ \A i \in 1..Len(u) : u[i] = v[i]
    BY <1>00, <2>5, <2>6
  <2>8. u = v
    BY <2>7, SeqSame
  <2> QED BY <2>4, <2>8 DEF v
<1> QED BY <1>2, <1>3

\* What the parser takes for the unit is one, or it is with a B at its end.
LEMMA UnitOf ==
    ASSUME NEW t \in Seq(Char), NEW p \in 1..(Len(t) + 1), NEW q \in p..(Len(t) + 1)
    PROVE  SubSeq(t, p, q - 1) \in {Unit(t, p, q), Append(Unit(t, p, q), "B")}
<1>1. CASE ~(q > p /\ t[q - 1] = "B")
  BY <1>1 DEF Unit
<1>2. CASE q > p /\ t[q - 1] = "B"
  <2> DEFINE w == SubSeq(t, p, q - 1)
             v == SubSeq(t, p, q - 2)
             x == Append(v, "B")
  <2>0. Len(t) \in Nat /\ Unit(t, p, q) = v
    BY <1>2 DEF Unit
  <2>1. w \in Seq(Char) /\ Len(w) = q - p /\ \A i \in 1..(q - p) : w[i] = t[p + i - 1]
    BY <2>0
  <2>2. v \in Seq(Char) /\ Len(v) = q - p - 1 /\ \A i \in 1..(q - p - 1) : v[i] = t[p + i - 1]
    BY <1>2, <2>0
  <2> HIDE DEF v, w
  <2>3. x \in Seq(Char) /\ Len(x) = q - p /\ (\A i \in 1..(q - p - 1) : x[i] = v[i]) /\ x[q - p] = "B"
    <3>1. "B" \in Char
      BY DEF Char, Letter
    <3> QED BY <2>2, <3>1
  <2> HIDE DEF x
  <2>4. ASSUME NEW i \in 1..(q - p) PROVE x[i] = w[i]
    <3>1. CASE i = q - p
      BY <1>2, <2>1, <2>3, <3>1
    <3>2. CASE i # q - p
      BY <2>1, <2>2, <2>3, <3>2
    <3> QED BY <3>1, <3>2
  <2>5. x = w
    BY <2>1, <2>3, <2>4, SeqSame
  <2> QED BY <2>0, <2>5 DEF w, x
<1> QED BY <1>1, <1>2

LEMMA WrappedSmall == ASSUME NEW n \in Nat, n < Word PROVE Wrapped(n) = n
  BY WordAssumption DEF Wrapped

\* What the parser makes of a number that starts at p.
Gap(t, p) == End(t, p, Digit)
UnitAt(t, p) == End(t, Gap(t, p), Space)
NextAt(t, p) == End(t, UnitAt(t, p), Letter)

LEMMA CutsType ==
    ASSUME NEW t \in Seq(Char), NEW p \in 1..(Len(t) + 1)
    PROVE  /\ Gap(t, p) \in p..(Len(t) + 1) /\ UnitAt(t, p) \in Gap(t, p)..(Len(t) + 1)
           /\ NextAt(t, p) \in UnitAt(t, p)..(Len(t) + 1)
           /\ Len(t) \in Nat
<1>0. Len(t) \in Nat
  OBVIOUS
<1>1. Gap(t, p) \in p..(Len(t) + 1)
  BY EndFacts DEF Gap
<1>2. Gap(t, p) \in 1..(Len(t) + 1)
  BY <1>0, <1>1
<1>3. UnitAt(t, p) \in Gap(t, p)..(Len(t) + 1)
  BY <1>2, EndFacts DEF UnitAt
<1>4. UnitAt(t, p) \in 1..(Len(t) + 1)
  BY <1>0, <1>2, <1>3
<1>5. NextAt(t, p) \in UnitAt(t, p)..(Len(t) + 1)
  BY <1>4, EndFacts DEF NextAt
<1> QED BY <1>0, <1>1, <1>3, <1>5

\* A number that has one of the forms is read in that form.
LEMMA FormIs ==
    ASSUME NEW t \in Seq(Char), NEW p \in Starts(t), NEW c \in Forms(t, p, After(t, p))
    PROVE  /\ Gap(t, p) = c.gap /\ Unit(t, UnitAt(t, p), NextAt(t, p)) = c.of
           /\ NextAt(t, p) <= After(t, p)
           /\ \A i \in NextAt(t, p)..(After(t, p) - 1) : t[i] \in Space
           /\ Boundary(t, NextAt(t, p))
<1> DEFINE q == After(t, p)
           L == Len(t) + 1
<1>0. Len(t) \in Nat /\ p \in 1..Len(t) /\ t[p] \in Digit
  BY DEF Starts
<1>1. q \in (p + 1)..L /\ (q > Len(t) \/ q \in Starts(t))
  BY <1>0, AfterFacts
<1>2. /\ c.gap \in (p + 1)..q /\ c.unit \in p..q /\ c.next \in p..q /\ c.of \in DOMAIN Factor
      /\ c.gap <= c.unit /\ c.unit <= c.next
      /\ \A i \in p..(q - 1) : t[i] \in Kind(c, i)
      /\ SubSeq(t, c.unit, c.next - 1) \in {c.of, Append(c.of, "B")}
  BY DEF Forms
<1>3. /\ \A i \in p..(c.gap - 1) : t[i] \in Digit
      /\ \A i \in c.gap..(c.unit - 1) : t[i] \in Space
      /\ \A i \in c.unit..(c.next - 1) : t[i] \in Letter
      /\ \A i \in c.next..(q - 1) : t[i] \in Space
  <2>1. ASSUME NEW i \in p..(c.gap - 1) PROVE t[i] \in Digit
    <3>1. i \in p..(q - 1) /\ i < c.gap
      BY <1>0, <1>1, <1>2
    <3> QED BY <1>2, <3>1 DEF Kind
  <2>2. ASSUME NEW i \in c.gap..(c.unit - 1) PROVE t[i] \in Space
    <3>1. i \in p..(q - 1) /\ ~(i < c.gap) /\ i < c.unit
      BY <1>0, <1>1, <1>2
    <3> QED BY <1>2, <3>1 DEF Kind
  <2>3. ASSUME NEW i \in c.unit..(c.next - 1) PROVE t[i] \in Letter
    <3>1. i \in p..(q - 1) /\ ~(i < c.gap) /\ ~(i < c.unit) /\ ~(i >= c.next)
      <4>1. c.gap \in Int /\ c.unit \in Int /\ c.next \in Int /\ p \in Int /\ q \in Int
        BY <1>0, <1>1, <1>2
      <4>2. c.gap <= c.unit /\ p <= c.unit /\ c.next <= q
        BY <1>2
      <4> QED BY <4>1, <4>2
    <3> QED BY <1>2, <3>1 DEF Kind
  <2>4. ASSUME NEW i \in c.next..(q - 1) PROVE t[i] \in Space
    <3>1. i \in p..(q - 1) /\ ~(i < c.gap) /\ i >= c.next
      BY <1>0, <1>1, <1>2
    <3> QED BY <1>2, <3>1 DEF Kind
  <2> QED BY <2>1, <2>2, <2>3, <2>4
<1>4. q > Len(t) \/ (t[q] \in Digit /\ t[q - 1] \notin Digit)
  <2>1. ASSUME q \in Starts(t) PROVE t[q] \in Digit /\ t[q - 1] \notin Digit
    <3>1. q # 1
      BY <1>0, <1>1
    <3> QED BY <2>1, <3>1 DEF Starts
  <2> QED BY <1>1, <2>1
<1> HIDE DEF q
<1>5. Gap(t, p) = c.gap
  <2>1. c.gap > Len(t) \/ t[c.gap] \notin Digit
    <3>1. CASE c.gap = q
      <4>1. q - 1 \in p..(c.gap - 1)
        BY <1>0, <1>1, <1>2, <3>1
      <4> QED BY <1>3, <1>4, <3>1, <4>1
    <3>2. CASE c.gap # q
      <4>1. \/ c.gap \in c.gap..(c.unit - 1) \/ c.gap \in c.unit..(c.next - 1) \/ c.gap \in c.next..(q - 1)
        BY <1>0, <1>1, <1>2, <3>2
      <4> QED BY <1>3, <4>1, KindsApart
    <3> QED BY <3>1, <3>2
  <2>2. p \in 1..L /\ c.gap \in p..L
    BY <1>0, <1>1, <1>2
  <2> QED BY <1>3, <2>1, <2>2, EndIs DEF Gap
<1>6. CASE c.unit < c.next
  <2>1. c.unit \in c.unit..(c.next - 1) /\ c.gap \in 1..L /\ c.unit \in c.gap..L
        /\ c.unit \in 1..L /\ c.next \in c.unit..L
    BY <1>0, <1>1, <1>2, <1>6
  <2>2. t[c.unit] \notin Space
    BY <1>3, <2>1, KindsApart
  <2>3. UnitAt(t, p) = c.unit
    BY <1>3, <1>5, <2>1, <2>2, EndIs DEF UnitAt
  <2>4. c.next > Len(t) \/ t[c.next] \notin Letter
    <3>1. CASE c.next = q
      BY <1>4, <3>1, KindsApart
    <3>2. CASE c.next # q
      <4>1. c.next \in c.next..(q - 1)
        BY <1>0, <1>1, <1>2, <3>2
      <4> QED BY <1>3, <4>1, KindsApart
    <3> QED BY <3>1, <3>2
  <2>5. NextAt(t, p) = c.next
    BY <1>3, <2>1, <2>3, <2>4, EndIs DEF NextAt
  <2>6. Unit(t, c.unit, c.next) = c.of
    BY <1>2, <2>1, UnitIs
  <2>7. c.next - 1 \in c.unit..(c.next - 1)
    BY <1>0, <1>1, <1>2, <1>6
  <2>8. t[c.next - 1] \notin Digit
    BY <1>3, <2>7, KindsApart
  <2>9. c.next <= q
    BY <1>2 DEF q
  <2> QED BY <1>3, <1>5, <2>3, <2>5, <2>6, <2>8, <2>9 DEF Boundary, q
<1>7. CASE c.unit = c.next
  <2>1. c.gap \in 1..L /\ q \in c.gap..L /\ q \in 1..L /\ q \in q..L
    BY <1>0, <1>1, <1>2
  <2>2. ASSUME NEW i \in c.gap..(q - 1) PROVE t[i] \in Space
    <3>1. i \in c.gap..(c.unit - 1) \/ i \in c.next..(q - 1)
      BY <1>0, <1>1, <1>2, <1>7
    <3> QED BY <1>3, <3>1
  <2>3. q > Len(t) \/ (t[q] \notin Space /\ t[q] \notin Letter)
    BY <1>4, KindsApart
  <2>4. UnitAt(t, p) = q
    BY <1>5, <2>1, <2>2, <2>3, EndIs DEF UnitAt
  <2>5. NextAt(t, p) = q
    <3>1. \A i \in q..(q - 1) : t[i] \in Letter
      BY <2>1
    <3> QED BY <2>1, <2>3, <2>4, <3>1, EndIs DEF NextAt
  <2>6. Unit(t, c.unit, c.next) = c.of
    <3>1. c.unit \in 1..L /\ c.next \in c.unit..L
      BY <1>0, <1>1, <1>2
    <3> QED BY <1>2, <3>1, UnitIs
  <2>7. Unit(t, q, q) = <<>> /\ Unit(t, c.unit, c.next) = <<>>
    BY <1>0, <1>2, <1>7, <2>1 DEF Unit
  <2>8. Boundary(t, q)
    BY <1>4 DEF Boundary
  <2>9. q <= q /\ \A i \in q..(q - 1) : t[i] \in Space
    BY <2>1
  <2> QED BY <1>5, <2>4, <2>5, <2>6, <2>7, <2>8, <2>9 DEF q
<1> QED BY <1>2, <1>6, <1>7 DEF q

\* What the parser has read and skipped has one of the forms, if the text is
\* one of a size from there on.
LEMMA FormOf ==
    ASSUME NEW t \in Seq(Char), NEW p \in Starts(t), Number(t, p, Gap(t, p)) < Word,
           Unit(t, UnitAt(t, p), NextAt(t, p)) \in DOMAIN Factor,
           Proper(t, NextAt(t, p))
    PROVE  Forms(t, p, After(t, p)) # {} /\ NextAt(t, p) <= After(t, p)
<1> DEFINE gap == Gap(t, p)
           unit == UnitAt(t, p)
           next == NextAt(t, p)
           q == End(t, next, Space)
           L == Len(t) + 1
<1>0. Len(t) \in Nat /\ p \in 1..Len(t) /\ p \in 1..L /\ t[p] \in Digit
  BY DEF Starts
<1>1. gap \in p..L /\ unit \in gap..L /\ next \in unit..L
  BY <1>0, CutsType
<1>2. gap \in 1..L /\ unit \in 1..L /\ next \in 1..L
  BY <1>0, <1>1
<1>3. /\ (\A i \in p..(gap - 1) : t[i] \in Digit) /\ (gap > Len(t) \/ t[gap] \notin Digit)
      /\ \A i \in gap..(unit - 1) : t[i] \in Space
      /\ \A i \in unit..(next - 1) : t[i] \in Letter
      /\ q \in next..L /\ (\A i \in next..(q - 1) : t[i] \in Space) /\ (q > Len(t) \/ t[q] \notin Space)
  BY <1>0, <1>2, EndFacts DEF Gap, UnitAt, NextAt
<1> HIDE DEF gap, unit, next, q
<1>4. gap > p
  BY <1>0, <1>1, <1>3
<1>5. q > Len(t) \/ q \in Starts(t)
  <2> SUFFICES ASSUME q <= Len(t) PROVE q \in Starts(t)
    BY <1>0, <1>3
  <2>1. t[q] \notin Space /\ q \in next..Len(t)
    BY <1>0, <1>2, <1>3
  <2>2. PICK s \in Starts(t) : next <= s /\ s <= q
    BY <2>1 DEF Proper, next
  <2>3. s \in Nat /\ t[s] \in Digit
    BY DEF Starts
  <2>4. s = q \/ s \in next..(q - 1)
    BY <1>0, <1>2, <1>3, <2>2, <2>3
  <2> QED BY <1>3, <2>2, <2>3, <2>4, KindsApart
<1>6. ASSUME NEW r \in (p + 1)..(q - 1) PROVE r \notin Starts(t)
  <2>1. CASE r < gap
    <3>1. r - 1 \in p..(gap - 1) /\ r # 1
      BY <1>0, <1>1, <1>3, <2>1
    <3> QED BY <1>3, <3>1 DEF Starts
  <2>2. CASE ~(r < gap)
    <3>1. r \in gap..(unit - 1) \/ r \in unit..(next - 1) \/ r \in next..(q - 1)
      BY <1>0, <1>1, <1>3, <2>2
    <3>2. t[r] \notin Digit
      BY <1>3, <3>1, KindsApart
    <3> QED BY <3>2 DEF Starts
  <2> QED BY <2>1, <2>2
<1>7. q \in (p + 1)..L
  BY <1>0, <1>1, <1>3, <1>4
<1>8. After(t, p) = q
  BY <1>0, <1>5, <1>6, <1>7, AfterIs
<1> DEFINE c == [gap |-> gap, unit |-> unit, next |-> next, of |-> Unit(t, unit, next)]
<1>9. c \in [gap : (p + 1)..q, unit : p..q, next : p..q, of : DOMAIN Factor]
  <2>1. gap \in (p + 1)..q /\ unit \in p..q /\ next \in p..q
    BY <1>0, <1>1, <1>3, <1>4
  <2> QED BY <2>1 DEF unit, next
<1>10. ASSUME NEW i \in p..(q - 1) PROVE t[i] \in Kind(c, i)
  <2>1. i \in p..(gap - 1) \/ i \in gap..(unit - 1) \/ i \in unit..(next - 1) \/ i \in next..(q - 1)
    BY <1>0, <1>1, <1>3
  <2>2. i \in Int /\ gap \in Int /\ unit \in Int /\ next \in Int
    BY <1>0, <1>1, <1>3
  <2>3. CASE i \in p..(gap - 1)
    BY <1>3, <2>2, <2>3 DEF Kind
  <2>4. CASE i \in gap..(unit - 1)
    BY <1>1, <1>3, <2>2, <2>4 DEF Kind
  <2>5. CASE i \in unit..(next - 1)
    BY <1>1, <1>3, <2>2, <2>5 DEF Kind
  <2>6. CASE i \in next..(q - 1)
    BY <1>1, <1>3, <2>2, <2>6 DEF Kind
  <2> QED BY <2>1, <2>3, <2>4, <2>5, <2>6
<1>11. SubSeq(t, unit, next - 1) \in {c.of, Append(c.of, "B")}
  BY <1>1, <1>2, UnitOf
<1>12. Number(t, p, c.gap) < Word
  BY DEF gap
<1>13. c.gap <= c.unit /\ c.unit <= c.next /\ next <= q
  BY <1>1, <1>3
<1> HIDE DEF c
<1>14. c \in Forms(t, p, q)
  <2>1. SubSeq(t, c.unit, c.next - 1) \in {c.of, Append(c.of, "B")}
    BY <1>11 DEF c
  <2> QED BY <1>9, <1>10, <1>12, <1>13, <2>1 DEF Forms
<1> QED BY <1>8, <1>13, <1>14 DEF next

\* The parser and the meaning agree on what is left from p on.
Agree(t, p, f, m) ==
    /\ f[p] # Error <=> Proper(t, p)
    /\ Proper(t, p) => m[p] \in Nat
    /\ f[p] # Error /\ m[p] < Word => f[p] = m[p]

\* Nothing but space is left.
LEMMA AgreeAtEnd ==
    ASSUME NEW t \in Seq(Char), NEW p \in 1..(Len(t) + 1), NEW f, NEW m,
           \A i \in 1..(Len(t) + 1) : f[i] = Components(t, i, f) /\ m[i] = MeaningAt(t, i, m),
           End(t, p, Space) > Len(t)
    PROVE  Agree(t, p, f, m)
<1>0. Len(t) \in Nat
  OBVIOUS
<1>1. f[p] = 0 /\ 0 # Error /\ m[Len(t) + 1] = 0
  <2>1. f[p] = Components(t, p, f) /\ Len(t) + 1 \in 1..(Len(t) + 1)
    BY <1>0
  <2>2. m[Len(t) + 1] = MeaningAt(t, Len(t) + 1, m) /\ Len(t) + 1 > Len(t)
    BY <1>0, <2>1
  <2>3. f[p] = 0
    BY <2>1 DEF Components
  <2>4. m[Len(t) + 1] = 0
    BY <2>2 DEF MeaningAt
  <2> QED BY <2>3, <2>4, FactorAssumption
<1>2. \A i \in p..Len(t) : t[i] \in Space
  <2> DEFINE e == End(t, p, Space)
  <2>1. e \in p..(Len(t) + 1) /\ (\A i \in p..(e - 1) : t[i] \in Space) /\ e > Len(t)
    BY EndFacts
  <2> HIDE DEF e
  <2> QED BY <1>0, <2>1
<1>3. ASSUME NEW s \in Starts(t) PROVE ~(p <= s)
  <2>1. s \in 1..Len(t) /\ t[s] \in Digit
    BY DEF Starts
  <2> QED BY <1>2, <2>1, KindsApart
<1>4. m[p] = m[Len(t) + 1]
  <2>1. \A r \in p..(Len(t) + 1 - 1) : r \notin Starts(t)
    BY <1>0, <1>3
  <2>2. Len(t) + 1 \in p..(Len(t) + 1)
    BY <1>0
  <2> QED BY <2>1, <2>2, MeaningSkips
<1>5. Proper(t, p)
  BY <1>2, <1>3 DEF Proper
<1> QED BY <1>1, <1>4, <1>5 DEF Agree

LEMMA AgreeAtStart ==
    ASSUME NEW t \in Seq(Char), NEW p \in 1..(Len(t) + 1), NEW f, NEW m,
           \A i \in 1..(Len(t) + 1) : f[i] = Components(t, i, f) /\ m[i] = MeaningAt(t, i, m),
           End(t, p, Space) <= Len(t), Boundary(t, p),
           \A q \in (p + 1)..(Len(t) + 1) :
               Boundary(t, q) => Agree(t, q, f, m) /\ (f[q] # Error => f[q] \in Nat)
    PROVE  Agree(t, p, f, m)
<1> DEFINE s == End(t, p, Space)
           gap == Gap(t, s)
           next == NextAt(t, s)
           unit == Unit(t, UnitAt(t, s), next)
           q == After(t, s)
           L == Len(t) + 1
           Fits == gap # s /\ Number(t, s, gap) < Word /\ unit \in DOMAIN Factor
<1>0. Len(t) \in Nat /\ s \in 1..Len(t) /\ p <= s /\ s \in 1..L /\ p \in Nat
  BY EndFacts
<1>1. (\A i \in p..(s - 1) : t[i] \in Space) /\ t[s] \notin Space
  BY EndFacts
<1>2. f[p] = IF ~(gap # s) \/ Number(t, s, gap) >= Word \/ unit \notin DOMAIN Factor \/ f[next] = Error
             THEN Error ELSE Wrapped(Number(t, s, gap) * Factor[unit] + f[next])
  BY <1>0 DEF Components, Gap, UnitAt, NextAt
<1>3. gap \in s..L /\ UnitAt(t, s) \in gap..L /\ next \in UnitAt(t, s)..L
  BY <1>0, CutsType
<1>4. \A i \in s..(gap - 1) : t[i] \in Digit
  BY <1>0, EndFacts DEF Gap
<1> HIDE DEF s, gap, next, unit
\* Who starts with digits is where a number starts, and who starts a number is the next to do so.
<1>5. ASSUME t[s] \in Digit PROVE s \in Starts(t)
  <2>1. s = 1 \/ t[s - 1] \notin Digit
    <3>1. CASE s = p
      BY <1>0, <1>5, <3>1 DEF Boundary
    <3>2. CASE s # p
      <4>1. s - 1 \in p..(s - 1)
        BY <1>0, <3>2
      <4> QED BY <1>1, <4>1, KindsApart
    <3> QED BY <3>1, <3>2
  <2> QED BY <1>0, <1>5, <2>1 DEF Starts
<1>6. \A r \in Starts(t) : p <= r => s <= r
  <2> SUFFICES ASSUME NEW r \in Starts(t), p <= r, ~(s <= r) PROVE FALSE
    OBVIOUS
  <2>1. r \in 1..Len(t) /\ t[r] \in Digit
    BY DEF Starts
  <2>2. r \in p..(s - 1)
    BY <1>0, <2>1
  <2> QED BY <1>1, <2>1, <2>2, KindsApart
<1>7. ASSUME gap # s
      PROVE  t[s] \in Digit /\ next \in (p + 1)..L /\ next > s
  <2>1. s \in s..(gap - 1)
    BY <1>0, <1>3, <1>7
  <2>2. next > s
    BY <1>0, <1>3, <1>7
  <2> QED BY <1>0, <1>3, <1>4, <2>1, <2>2
<1>8. ASSUME gap # s PROVE Boundary(t, next)
  <2> DEFINE u == UnitAt(t, s)
  <2>1. gap \in 1..L /\ u \in 1..L
    BY <1>0, <1>3
  <2>2. /\ gap > Len(t) \/ t[gap] \notin Digit
        /\ \A i \in gap..(u - 1) : t[i] \in Space
        /\ \A i \in u..(next - 1) : t[i] \in Letter
    BY <1>0, <2>1, EndFacts DEF Gap, UnitAt, NextAt, gap, next
  <2> HIDE DEF u
  <2>3. next = gap \/ next - 1 \in gap..(u - 1) \/ next - 1 \in u..(next - 1)
    BY <1>0, <1>3, <2>1 DEF u
  <2> QED BY <2>2, <2>3, KindsApart DEF Boundary
\* The parser goes on if and only if the text has the form of a size up to the next number.
<1>9. ASSUME Fits, Proper(t, next) PROVE Proper(t, p)
  <2>1. s \in Starts(t)
    BY <1>5, <1>7, <1>9
  <2>2. Forms(t, s, q) # {} /\ next <= q
    BY <1>9, <2>1, FormOf DEF gap, next, unit
  <2>3. ASSUME NEW i \in p..Len(t)
        PROVE  t[i] \in Space \/ \E r \in Starts(t) : p <= r /\ r <= i
    <3>1. i \in p..(s - 1) \/ s <= i
      BY <1>0
    <3> QED BY <1>0, <1>1, <2>1, <3>1
  <2>4. ASSUME NEW r \in Starts(t), p <= r PROVE Forms(t, r, After(t, r)) # {}
    <3>1. CASE r = s
      BY <2>2, <3>1
    <3>2. CASE r # s
      <4>1. r \in Nat /\ s < r
        BY <1>0, <1>6, <2>4, <3>2 DEF Starts
      <4>2. q \in (s + 1)..L /\ \A x \in (s + 1)..(q - 1) : x \notin Starts(t)
        BY <1>0, AfterFacts
      <4> HIDE DEF q
      <4>3. q <= r
        BY <1>0, <4>1, <4>2
      <4>4. next \in Nat /\ next <= r
        BY <1>0, <1>3, <2>2, <4>1, <4>2, <4>3 DEF q
      <4> QED BY <1>9, <4>4 DEF Proper
    <3> QED BY <3>1, <3>2
  <2> QED BY <2>3, <2>4 DEF Proper
<1>10. ASSUME Proper(t, p)
       PROVE  /\ Fits /\ Proper(t, next) /\ s \in Starts(t)
              /\ \A c \in Forms(t, s, q) : c.gap = gap /\ c.of = unit
              /\ Forms(t, s, q) # {} /\ m[p] = Amount(t, s) + m[next]
  <2>1. s \in Starts(t)
    <3>1. PICK r \in Starts(t) : p <= r /\ r <= s
      BY <1>0, <1>1, <1>10 DEF Proper
    <3>2. r = s
      BY <1>0, <1>6, <3>1 DEF Starts
    <3> QED BY <3>1, <3>2
  <2>2. Forms(t, s, q) # {}
    BY <1>0, <1>10, <2>1 DEF Proper
  <2>3. PICK c \in Forms(t, s, q) : TRUE
    BY <2>2
  <2>4. /\ \A d \in Forms(t, s, q) : d.gap = gap /\ d.of = unit
        /\ next <= q /\ \A i \in next..(q - 1) : t[i] \in Space
    BY <2>1, <2>3, FormIs DEF gap, next, unit
  <2>5. c.gap \in (s + 1)..q /\ c.of \in DOMAIN Factor /\ Number(t, s, c.gap) < Word
    BY DEF Forms
  <2>6. Fits
    BY <1>0, <2>4, <2>5
  <2>7. q \in (s + 1)..L /\ (q \in Starts(t) \/ q > Len(t)) /\ \A x \in (s + 1)..(q - 1) : x \notin Starts(t)
    BY <1>0, AfterFacts
  <2>8. next \in (s + 1)..L
    BY <1>0, <1>3, <1>7, <2>6
  <2> HIDE DEF q
  <2>9. Proper(t, next)
    <3>1. ASSUME NEW i \in next..Len(t)
          PROVE  t[i] \in Space \/ \E r \in Starts(t) : next <= r /\ r <= i
      <4>1. i \in next..(q - 1) \/ (q \in Starts(t) /\ q <= i)
        BY <1>0, <2>7, <2>8
      <4> QED BY <2>4, <4>1
    <3>2. ASSUME NEW r \in Starts(t), next <= r PROVE Forms(t, r, After(t, r)) # {}
      <4>1. p <= r
        BY <1>0, <2>8, <3>2 DEF Starts
      <4> QED BY <1>10, <4>1 DEF Proper
    <3> QED BY <3>1, <3>2 DEF Proper
  <2>10. m[p] = Amount(t, s) + m[next]
    <3>1. m[p] = m[s]
      <4>1. \A r \in p..(s - 1) : r \notin Starts(t)
        BY <1>0, <1>6 DEF Starts
      <4>2. s \in p..L
        BY <1>0
      <4> QED BY <4>1, <4>2, MeaningSkips
    <3>2. m[s] = Amount(t, s) + m[s + 1]
      <4>1. m[s] = MeaningAt(t, s, m) /\ ~(s > Len(t))
        BY <1>0
      <4> QED BY <2>1, <4>1 DEF MeaningAt
    <3>3. m[s + 1] = m[next]
      <4>1. \A r \in (s + 1)..(next - 1) : r \notin Starts(t)
        BY <1>0, <2>4, <2>7, <2>8
      <4>2. s + 1 \in 1..L /\ next \in (s + 1)..L
        BY <1>0, <2>8
      <4> QED BY <4>1, <4>2, MeaningSkips
    <3> QED BY <3>1, <3>2, <3>3
  <2> QED BY <2>1, <2>2, <2>4, <2>6, <2>9, <2>10
<1>11. ASSUME Fits PROVE Agree(t, next, f, m) /\ (f[next] # Error => f[next] \in Nat)
  BY <1>7, <1>8, <1>11
<1>12. ASSUME Fits
       PROVE  Number(t, s, gap) \in Nat /\ Factor[unit] \in Nat
              /\ Number(t, s, gap) * Factor[unit] \in Nat
  <2>1. Number(t, s, gap) \in Nat
    <3>1. s \in Nat \ {0} /\ gap \in Nat /\ gap >= s
      BY <1>0, <1>3
    <3> QED BY <1>4, <3>1, NumberType
  <2>2. Factor[unit] \in Nat
    BY <1>12, FactorAssumption
  <2> QED BY <2>1, <2>2, Product
<1>13. ASSUME f[p] # Error PROVE Proper(t, p)
  <2>1. Fits /\ f[next] # Error
    <3>1. gap # s /\ ~(Number(t, s, gap) >= Word) /\ unit \in DOMAIN Factor /\ f[next] # Error
      BY <1>2, <1>13
    <3>2. Number(t, s, gap) \in Nat
      <4>1. s \in Nat \ {0} /\ gap \in Nat /\ gap >= s
        BY <1>0, <1>3
      <4> QED BY <1>4, <4>1, NumberType
    <3> QED BY <3>1, <3>2, WordAssumption
  <2> QED BY <1>9, <1>11, <2>1 DEF Agree
<1>14. ASSUME Proper(t, p)
       PROVE  f[p] # Error /\ m[p] \in Nat /\ (m[p] < Word => f[p] = m[p])
  <2> DEFINE n == Number(t, s, gap) * Factor[unit]
  <2>1. Fits /\ f[next] # Error /\ f[next] \in Nat /\ m[next] \in Nat
        /\ (m[next] < Word => f[next] = m[next])
    BY <1>10, <1>11, <1>14 DEF Agree
  <2>2. n \in Nat
    BY <1>12, <2>1
  <2>3. Amount(t, s) = n
    BY <1>10, <1>14 DEF Amount
  <2>4. f[p] = Wrapped(n + f[next])
    <3>1. ~(Number(t, s, gap) >= Word)
      BY <1>12, <2>1, WordAssumption
    <3> QED BY <1>2, <2>1, <3>1
  <2>5. m[p] = n + m[next]
    BY <1>10, <1>14, <2>3
  <2> HIDE DEF n
  <2>6. m[p] \in Nat /\ n + f[next] \in Nat
    BY <2>1, <2>2, <2>5
  <2>7. f[p] \in Nat
    <3>1. Wrapped(n + f[next]) \in 0..(Word - 1)
      BY <2>6, WrappedType
    <3> QED BY <2>4, <3>1, WordAssumption
  <2>8. ASSUME m[p] < Word PROVE f[p] = m[p]
    <3>1. m[next] < Word
      BY <2>1, <2>2, <2>5, <2>8, WordAssumption
    <3>2. f[p] = Wrapped(m[p])
      BY <2>1, <2>4, <2>5, <3>1
    <3> QED BY <2>6, <2>8, <3>2, WrappedSmall
  <2> QED BY <2>6, <2>7, <2>8, FactorAssumption
<1> QED BY <1>13, <1>14 DEF Agree

\* parse_bytes_from_str returns what a text stands for, if that fits into a word,
\* and rejects a text if and only if it is not that of a size, for texts of any
\* length.
THEOREM ParsedIsMeant ==
    ASSUME NEW t \in Seq(Char)
    PROVE  /\ parse_bytes_from_str(t) # Error <=> IsSize(t)
           /\ IsSize(t) => Meaning(t) \in Nat
           /\ IsSize(t) /\ Meaning(t) < Word => parse_bytes_from_str(t) = Meaning(t)
<1> DEFINE f == CHOOSE f : f = Sums(t, 1, f)
           m == CHOOSE m : m = Meanings(t, 1, m)
           L == Len(t) + 1
<1>1. f = Sums(t, 1, f)
  BY SumsExist
<1>2. ParseFrom(t) = f[1]
  BY DEF ParseFrom, Sums, Components
<1>3. m = Meanings(t, 1, m)
  BY MeaningsExist
<1>4. Meaning(t) = m[1]
  BY DEF Meaning, Meanings, MeaningAt
<1> HIDE DEF f, m
<1>5. \A p \in 1..L : f[p] = Components(t, p, f)
  BY <1>1 DEF Sums
<1>6. \A p \in 1..L : m[p] = MeaningAt(t, p, m)
  BY <1>3 DEF Meanings
<1>7. Len(t) \in Nat
  OBVIOUS
<1> DEFINE Both(p) == (Boundary(t, p) => Agree(t, p, f, m)) /\ f[p] \in Sizes
           Wrong == {d \in Nat : d < L /\ ~Both(L - d)}
<1>8. Wrong = {}
  <2> SUFFICES ASSUME Wrong # {} PROVE FALSE
    OBVIOUS
  <2>1. PICK d \in Wrong : \A e \in Wrong : d <= e
    <3>1. Wrong \in SUBSET Nat
      OBVIOUS
    <3> HIDE DEF Wrong
    <3> QED BY <3>1, LeastNumber
  <2> DEFINE p == L - d
  <2>2. d \in Nat /\ d < L /\ p \in 1..L
    BY <1>7, <2>1
  <2>3. ASSUME NEW q \in (p + 1)..L PROVE Both(q)
    <3>1. L - q \in Nat /\ L - q < d /\ L - (L - q) = q /\ L - q < L
      BY <1>7, <2>2
    <3>2. L - q \notin Wrong
      BY <2>1, <2>2, <3>1
    <3> QED BY <3>1, <3>2
  <2>4. f[p] \in Sizes
    BY <1>5, <2>2, <2>3, ComponentsType
  <2>5. \A q \in (p + 1)..L : Boundary(t, q) => Agree(t, q, f, m) /\ (f[q] # Error => f[q] \in Nat)
    BY <2>3, WordAssumption DEF Sizes
  <2>6. ~Both(p)
    BY <2>1
  <2> HIDE DEF p
  <2>7. ASSUME Boundary(t, p) PROVE Agree(t, p, f, m)
    <3>1. CASE End(t, p, Space) > Len(t)
      BY <1>5, <1>6, <2>2, <3>1, AgreeAtEnd
    <3>2. CASE End(t, p, Space) <= Len(t)
      BY <1>5, <1>6, <2>2, <2>5, <2>7, <3>2, AgreeAtStart
    <3>3. End(t, p, Space) \in p..L
      BY <2>2, EndFacts
    <3> QED BY <1>7, <2>2, <3>1, <3>2, <3>3
  <2> QED BY <2>4, <2>6, <2>7
<1>9. Agree(t, 1, f, m)
  <2>1. Len(t) \in Nat /\ Len(t) < L /\ L - Len(t) = 1
    BY <1>7
  <2>2. Both(1)
    BY <1>8, <2>1
  <2>3. Boundary(t, 1)
    BY DEF Boundary
  <2> QED BY <2>2, <2>3
<1> DEFINE s == End(t, 1, Space)
<1>10. s \in 1..L /\ (\A i \in 1..(s - 1) : t[i] \in Space)
  BY <1>7, EndFacts
<1> HIDE DEF s
<1>11. ASSUME s > Len(t) PROVE Starts(t) = {}
  <2> SUFFICES ASSUME NEW r \in Starts(t) PROVE FALSE
    OBVIOUS
  <2>1. r \in 1..(s - 1) /\ t[r] \in Digit
    BY <1>7, <1>10, <1>11 DEF Starts
  <2> QED BY <1>10, <2>1, KindsApart
<1>12. ASSUME ~(s > Len(t)), Proper(t, 1) PROVE Starts(t) # {}
  <2>1. s \in 1..Len(t) /\ t[s] \notin Space
    BY <1>7, <1>10, <1>12, EndFacts DEF s
  <2> QED BY <1>12, <2>1 DEF Proper
<1>13. IsSize(t) <=> Starts(t) # {} /\ Proper(t, 1)
  <2>1. \A r \in Starts(t) : 1 <= r
    BY DEF Starts
  <2> QED BY <2>1 DEF IsSize, Proper
<1>14. parse_bytes_from_str(t) = IF s > Len(t) THEN Error ELSE f[1]
  BY <1>2 DEF parse_bytes_from_str, s
<1> QED BY <1>4, <1>9, <1>11, <1>12, <1>13, <1>14 DEF Agree

\* What the limits of the settings are read as.
LEMMA LimitFacts ==
    /\ LimitIn \in [Settings -> Sizes]
    /\ \A e \in Settings : /\ LimitIn[e] = Error <=> e.bytes = Error
                           /\ e.bytes # Error /\ e.bytes < Word => LimitIn[e] = e.bytes
<1>1. LimitIn \in [Settings -> Sizes]
  BY ServerAssumption, ParsedType DEF LimitIn
<1>2. ASSUME NEW e \in Settings
      PROVE  /\ LimitIn[e] = Error <=> e.bytes = Error
             /\ e.bytes # Error /\ e.bytes < Word => LimitIn[e] = e.bytes
  <2>1. e.text \in Seq(Char) /\ e.bytes = IF IsSize(e.text) THEN Meaning(e.text) ELSE Error
    BY ServerAssumption
  <2>2. LimitIn[e] = parse_bytes_from_str(e.text)
    BY DEF LimitIn
  <2> QED BY <2>1, <2>2, ParsedIsMeant, FactorAssumption
<1> QED BY <1>1, <1>2

-----------------------------------------------------------------------------
(* The invariant.                                                          *)

\* The key a process goes on with is the one in the file.
Keyed == {"cleanup", "bind"} \cup Up
KeyInv == \A s \in Server : server[s].pc \in Keyed => HasKey /\ server[s].key = file.key
\* Who is about to write the key has just created the file, and nobody else has.
WriteInv ==
    \A s \in Server : server[s].pc = "write" =>
        /\ file # None /\ file.key = None
        /\ \A o \in Server \ {s} : server[o].pc # "write"
\* The file is as a process that starts alone has found it.
AloneInv ==
    \A s \in alone : server[s].pc \in Starting =>
        /\ \A o \in Server : ~Disturbs(o, s)
        /\ server[s].pc = "create" => file = None
        /\ server[s].pc \in {"stat", "read"} => file # None
        /\ server[s].pc = "read" => file.private

\* A process that runs has been started.
RunInv == \A s \in Server : server[s].pc \in Starting => server[s].run # 0

IInv == TypeOK /\ RunInv /\ KeyInv /\ WriteInv /\ AloneInv

LEMMA InitInv == Init => IInv
<1> SUFFICES ASSUME Init PROVE IInv
  OBVIOUS
<1>1. file \in File \cup {None} /\ settings \in Settings /\ faults \in 0..MaxFaults /\ alone \subseteq Server
  BY ServerAssumption DEF Init, File, Key
<1>2. server \in [Server -> Process]
  BY ServerAssumption, WordAssumption DEF Init, Process, Starting, Up
<1> QED BY <1>1, <1>2 DEF Init, IInv, TypeOK, RunInv, KeyInv, Keyed, Starting, Up,
        WriteInv, AloneInv

\* A process moves: everything but its own place is as before.
LEMMA ServerMoves ==
    ASSUME IInv, NEW s \in Server, NEW r \in Process, server' = [server EXCEPT ![s] = r]
    PROVE  /\ server' \in [Server -> Process] /\ server'[s] = r
           /\ \A o \in Server \ {s} : server'[o] = server[o]
  BY DEF IInv, TypeOK

LEMMA GoesType ==
    ASSUME IInv, NEW s \in Server, NEW pc \in {"failed", "exited"} \cup Starting \cup Up,
           Goes(s, pc)
    PROVE  /\ server' \in [Server -> Process]
           /\ server'[s] = [server[s] EXCEPT !.pc = pc]
           /\ server'[s].pc = pc /\ server'[s].key = server[s].key
           /\ server'[s].run = server[s].run
           /\ \A o \in Server \ {s} : server'[o] = server[o]
<1>1. server[s] \in Process /\ server \in [Server -> Process]
  BY DEF IInv, TypeOK
<1>2. [server[s] EXCEPT !.pc = pc] \in Process
  BY <1>1 DEF Process
<1> QED BY <1>1, <1>2 DEF Goes, Process

\* A step that leaves the file alone, and that brings nobody to write it.
LEMMA QuietInv ==
    ASSUME IInv, NEW s \in Server, UNCHANGED <<file, settings>>,
           (faults \in 0..MaxFaults)', alone' \subseteq alone,
           server' \in [Server -> Process],
           \A o \in Server \ {s} : server'[o] = server[o],
           server'[s].pc # "write", server'[s].run = server[s].run,
           server[s].pc \in Starting \/ server'[s].pc \notin Starting,
           server[s].pc \in Starting \cup Up \/ server'[s].pc \notin Up,
           server'[s].pc \in Keyed => HasKey /\ server'[s].key = file.key,
           s \in alone' /\ server'[s].pc \in Starting =>
              /\ server'[s].pc = "create" => file = None
              /\ server'[s].pc \in {"stat", "read"} => file # None
              /\ server'[s].pc = "read" => file.private
    PROVE  IInv'
<1>1. TypeOK'
  BY DEF IInv, TypeOK
<1>2. RunInv' /\ KeyInv' /\ WriteInv'
  BY DEF IInv, RunInv, KeyInv, WriteInv, HasKey
<1>3. AloneInv'
  <2> SUFFICES ASSUME NEW t \in alone', server'[t].pc \in Starting
               PROVE  /\ \A o \in Server : ~Disturbs(o, t)'
                      /\ server'[t].pc = "create" => file' = None
                      /\ server'[t].pc \in {"stat", "read"} => file' # None
                      /\ server'[t].pc = "read" => file'.private
    BY DEF AloneInv
  <2>1. t \in Server /\ t \in alone /\ server[t].pc \in Starting
    BY DEF IInv, TypeOK
  <2>2. \A o \in Server : ~Disturbs(o, t)
    BY <2>1 DEF IInv, AloneInv
  <2>3. \A o \in Server : ~Disturbs(o, t)'
    BY <2>1, <2>2 DEF Disturbs
  <2> QED BY <2>1, <2>3 DEF IInv, AloneInv
<1> QED BY <1>1, <1>2, <1>3 DEF IInv

LEMMA FaultType == ASSUME TypeOK, Fault PROVE (faults \in 0..MaxFaults)'
  BY ServerAssumption DEF TypeOK, Fault

\* Whoever starts is alone with the file if nobody else starts or, at the same
\* address, is up; all others are not alone from now on.
LEMMA StartInv == ASSUME IInv, NEW s \in Server, Start(s) PROVE IInv'
<1> DEFINE r == [pc |-> "exists", run |-> server[s].run + 1, key |-> None, limit |-> 0, open |-> 0]
<1>1. server \in [Server -> Process] /\ server[s] \in Process /\ alone \subseteq Server
  BY DEF IInv, TypeOK
<1>2. r \in Process
  BY <1>1, ServerAssumption, WordAssumption DEF Start, Process, Starting
<1>3. server' = [server EXCEPT ![s] = r]
  BY <1>1 DEF Start
<1>4. /\ server' \in [Server -> Process] /\ server'[s] = r
      /\ \A o \in Server \ {s} : server'[o] = server[o]
  BY <1>2, <1>3, ServerMoves
<1>5. UNCHANGED <<file, settings, faults>>
  BY DEF Start
<1>6. TypeOK'
  BY <1>1, <1>4, <1>5 DEF IInv, TypeOK, Start
<1>7. RunInv' /\ KeyInv' /\ WriteInv'
  <2>1. r.run # 0
    BY <1>1 DEF Process
  <2> QED BY <1>4, <1>5, <2>1 DEF IInv, RunInv, KeyInv, WriteInv, HasKey, Keyed, Up
<1>8. AloneInv'
  <2> SUFFICES ASSUME NEW t \in alone', server'[t].pc \in Starting
               PROVE  /\ \A o \in Server : ~Disturbs(o, t)'
                      /\ server'[t].pc = "create" => file' = None
                      /\ server'[t].pc \in {"stat", "read"} => file' # None
                      /\ server'[t].pc = "read" => file'.private
    BY DEF AloneInv
  <2>1. t = s
    BY <1>4 DEF Start
  <2>2. \A o \in Server : ~Disturbs(o, s)
    BY <1>1, <2>1 DEF Start
  <2>3. \A o \in Server : ~Disturbs(o, s)'
    BY <1>4, <1>5, <2>2 DEF Disturbs
  <2> QED BY <1>4, <2>1, <2>3
<1> QED BY <1>6, <1>7, <1>8 DEF IInv

LEMMA ExistsInv == ASSUME IInv, NEW s \in Server, Exists(s) PROVE IInv'
<1> DEFINE pc == IF IsThere THEN "stat" ELSE "create"
<1>1. pc \in Starting /\ pc \notin Keyed /\ pc # "write" /\ pc # "read" /\ pc \notin Up
  BY DEF Starting, Keyed, Up
<1>2. /\ server' \in [Server -> Process] /\ server'[s].pc = pc
      /\ server'[s].run = server[s].run
      /\ \A o \in Server \ {s} : server'[o] = server[o]
  BY <1>1, GoesType DEF Exists
<1>3. server[s].pc \in Starting /\ UNCHANGED <<file, settings, faults, alone>>
  BY DEF Exists, Frame, Starting
<1>4. pc = "create" => file = None
  BY DEF IsThere
<1>5. pc = "stat" => file # None
  BY DEF IsThere
<1> HIDE DEF pc
<1> QED BY <1>1, <1>2, <1>3, <1>4, <1>5, QuietInv DEF IInv, TypeOK

\* Creating the file succeeds for one process only, and only without a file;
\* then nobody has a key that it could take away.
LEMMA CreateInv == ASSUME IInv, NEW s \in Server, Create(s) PROVE IInv'
<1>1. server[s].pc = "create" /\ UNCHANGED <<settings, faults, alone>>
  BY DEF Create, Frame
<1>2. CASE ~CreateNew /\ UNCHANGED file /\ Goes(s, "failed")
  <2>1. /\ server' \in [Server -> Process] /\ server'[s].pc = "failed"
        /\ server'[s].run = server[s].run
        /\ \A o \in Server \ {s} : server'[o] = server[o]
    BY <1>2, GoesType
  <2> QED BY <1>1, <1>2, <2>1, QuietInv DEF IInv, TypeOK, Starting, Up, Keyed
<1>3. CASE CreateNew /\ file' = [key |-> None, private |-> TRUE] /\ Goes(s, "write")
  <2>1. /\ server' \in [Server -> Process] /\ server'[s].pc = "write"
        /\ server'[s].run = server[s].run
        /\ \A o \in Server \ {s} : server'[o] = server[o]
    BY <1>3, GoesType DEF Starting
  <2>2. file = None /\ file' \in File /\ file' # None /\ file'.key = None
    <3>1. file' \in File
      BY <1>3 DEF File
    <3>2. file' # None
      BY <3>1, ServerAssumption
    <3> QED BY <1>3, <3>1, <3>2 DEF CreateNew
  <2>3. \A o \in Server : server[o].pc \notin Keyed \cup {"write"}
    BY <2>2 DEF IInv, KeyInv, WriteInv, HasKey
  <2>4. TypeOK'
    BY <1>1, <2>1, <2>2 DEF IInv, TypeOK
  <2>5. RunInv' /\ KeyInv' /\ WriteInv'
    BY <1>1, <2>1, <2>2, <2>3 DEF IInv, RunInv, Starting, KeyInv, WriteInv, Keyed, Up
  <2>6. AloneInv'
    <3> SUFFICES ASSUME NEW t \in alone, server'[t].pc \in Starting
                 PROVE  /\ \A o \in Server : ~Disturbs(o, t)'
                        /\ server'[t].pc = "create" => file' = None
                        /\ server'[t].pc \in {"stat", "read"} => file' # None
                        /\ server'[t].pc = "read" => file'.private
      BY <1>1 DEF AloneInv
    <3>1. t \in Server /\ server[t].pc \in Starting /\ server[s].pc \in Starting
      BY <1>1, <2>1 DEF IInv, TypeOK, Starting
    <3>2. \A o \in Server : ~Disturbs(o, t)
      BY <3>1 DEF IInv, AloneInv
    <3>3. t = s
      BY <3>1, <3>2 DEF Disturbs
    <3>4. \A o \in Server : ~Disturbs(o, t)'
      BY <1>1, <2>1, <3>2, <3>3 DEF Disturbs
    <3> QED BY <2>1, <3>3, <3>4
  <2> QED BY <2>4, <2>5, <2>6 DEF IInv
<1> QED BY <1>2, <1>3 DEF Create

LEMMA WriteKeyInv == ASSUME IInv, NEW s \in Server, WriteKey(s) PROVE IInv'
<1> DEFINE k == Generated(s)
           r == [server[s] EXCEPT !.pc = "cleanup", !.key = k]
<1>1. /\ server \in [Server -> Process] /\ server[s] \in Process
      /\ server[s].pc = "write" /\ UNCHANGED <<settings, faults, alone>>
      /\ file \in File \cup {None}
  BY DEF IInv, TypeOK, WriteKey, Frame
<1>2. /\ file # None /\ file.key = None
      /\ \A o \in Server \ {s} : server[o].pc # "write"
  BY <1>1 DEF IInv, WriteInv
<1>3. k \in Key /\ k # None
  <2>1. server[s].run \in 1..MaxRuns \/ server[s].run = 0
    BY <1>1 DEF Process
  <2>2. server[s].run # 0
    BY <1>1 DEF IInv, RunInv, Starting
  <2> QED BY <2>1, <2>2, ServerAssumption DEF Generated, Key
<1>4. r \in Process /\ server' = [server EXCEPT ![s] = r] /\ r.pc = "cleanup" /\ r.key = k
  BY <1>1, <1>3 DEF WriteKey, Takes, Process, Starting
<1>5. /\ server' \in [Server -> Process] /\ server'[s] = r
      /\ \A o \in Server \ {s} : server'[o] = server[o]
  BY <1>4, ServerMoves
<1>6. file' \in File /\ file'.key = k /\ file'.private = file.private
  BY <1>1, <1>2, <1>3 DEF WriteKey, File
<1>7. file' # None
  BY <1>6, ServerAssumption
<1>8. \A o \in Server : server[o].pc \notin Keyed
  BY <1>2 DEF IInv, KeyInv, HasKey
<1>9. TypeOK' /\ RunInv' /\ KeyInv' /\ WriteInv'
  <2>1. TypeOK'
    BY <1>1, <1>5, <1>6 DEF IInv, TypeOK
  <2>2. RunInv'
    BY <1>1, <1>4, <1>5 DEF IInv, RunInv, Starting, Process
  <2>3. KeyInv'
    BY <1>3, <1>4, <1>5, <1>6, <1>7, <1>8 DEF KeyInv, HasKey
  <2>4. WriteInv'
    BY <1>2, <1>4, <1>5 DEF WriteInv
  <2> QED BY <2>1, <2>2, <2>3, <2>4
<1>10. AloneInv'
  <2> SUFFICES ASSUME NEW t \in alone, server'[t].pc \in Starting
               PROVE  /\ \A o \in Server : ~Disturbs(o, t)'
                      /\ server'[t].pc = "create" => file' = None
                      /\ server'[t].pc \in {"stat", "read"} => file' # None
                      /\ server'[t].pc = "read" => file'.private
    BY <1>1 DEF AloneInv
  <2>1. t \in Server /\ server[t].pc \in Starting /\ server[s].pc \in Starting
    BY <1>1, <1>5 DEF IInv, TypeOK, Starting
  <2>2. \A o \in Server : ~Disturbs(o, t)
    BY <2>1 DEF IInv, AloneInv
  <2>3. t = s
    BY <2>1, <2>2 DEF Disturbs
  <2>4. \A o \in Server : ~Disturbs(o, t)'
    BY <1>1, <1>5, <2>2, <2>3 DEF Disturbs
  <2> QED BY <1>4, <1>5, <2>3, <2>4
<1> QED BY <1>9, <1>10 DEF IInv

\* The steps of a process that only reads the file.
LEMMA ReadingInv ==
    ASSUME IInv, NEW s \in Server, Stat(s) \/ Read(s) \/ ParseSettings(s) \/ Bind(s)
    PROVE  IInv'
<1>1. /\ server \in [Server -> Process] /\ server[s] \in Process
      /\ server[s].pc \in Starting /\ UNCHANGED <<file, settings, faults, alone>>
      /\ faults \in 0..MaxFaults /\ file \in File \cup {None} /\ settings \in Settings
  BY DEF IInv, TypeOK, Stat, Read, ParseSettings, Bind, Frame, Starting
<1>2. ASSUME NEW pc \in {"failed", "read", "serving"}, Goes(s, pc),
             pc = "read" => file # None /\ file.private,
             pc = "serving" => server[s].pc = "bind"
      PROVE  IInv'
  <2>1. /\ server' \in [Server -> Process] /\ server'[s].pc = pc
        /\ server'[s].key = server[s].key /\ server'[s].run = server[s].run
        /\ \A o \in Server \ {s} : server'[o] = server[o]
    BY <1>2, GoesType DEF Starting, Up
  <2>2. pc \in Keyed => HasKey /\ server[s].key = file.key
    BY <1>2 DEF IInv, KeyInv, Keyed, Up
  <2> QED BY <1>1, <1>2, <2>1, <2>2, QuietInv
<1>3. CASE Stat(s)
  BY <1>2, <1>3 DEF Stat
<1>4. CASE Read(s)
  <2>1. CASE HasKey /\ Takes(s, file.key)
    <3> DEFINE r == [server[s] EXCEPT !.pc = "cleanup", !.key = file.key]
    <3>1. file.key \in Key /\ server[s] \in Process
      BY <1>1, <2>1 DEF HasKey, File
    <3>2. r \in Process
      BY <3>1 DEF Process, Starting
    <3>3. server' = [server EXCEPT ![s] = r] /\ r.pc = "cleanup" /\ r.key = file.key /\ r.run = server[s].run
      BY <1>1, <2>1 DEF Takes, Process
    <3>4. /\ server' \in [Server -> Process] /\ server'[s] = r
          /\ \A o \in Server \ {s} : server'[o] = server[o]
      BY <3>2, <3>3, ServerMoves
    <3> HIDE DEF r
    <3> QED BY <1>1, <2>1, <3>3, <3>4, QuietInv
  <2>2. CASE Goes(s, "failed")
    BY <1>2, <2>2
  <2> QED BY <1>4, <2>1, <2>2 DEF Read
<1>5. CASE ParseSettings(s)
  <2>1. CASE Goes(s, "failed")
    BY <1>2, <2>1
  <2>2. CASE LimitIn[settings] # Error
             /\ server' = [server EXCEPT ![s].pc = "bind", ![s].limit = LimitIn[settings]]
    <3> DEFINE r == [server[s] EXCEPT !.pc = "bind", !.limit = LimitIn[settings]]
    <3>1. LimitIn[settings] \in 0..(Word - 1)
      BY <1>1, <2>2, LimitFacts DEF Sizes
    <3>2. r \in Process
      BY <1>1, <3>1 DEF Process, Starting
    <3>3. server' = [server EXCEPT ![s] = r] /\ r.pc = "bind" /\ r.key = server[s].key /\ r.run = server[s].run
      BY <1>1, <2>2 DEF Process
    <3>4. /\ server' \in [Server -> Process] /\ server'[s] = r
          /\ \A o \in Server \ {s} : server'[o] = server[o]
      BY <3>2, <3>3, ServerMoves
    <3>5. HasKey /\ server[s].key = file.key
      BY <1>5 DEF IInv, KeyInv, Keyed, ParseSettings
    <3> HIDE DEF r
    <3> QED BY <1>1, <3>3, <3>4, <3>5, QuietInv
  <2> QED BY <1>5, <2>1, <2>2 DEF ParseSettings
<1>6. CASE Bind(s)
  BY <1>2, <1>6 DEF Bind
<1> QED BY <1>3, <1>4, <1>5, <1>6

\* Serving, shutting down, crashing.
LEMMA ServingInv ==
    ASSUME IInv, NEW s \in Server,
           Request(s) \/ RequestEnds(s) \/ Signal(s) \/ ShutdownStep(s) \/ Crash(s)
    PROVE  IInv'
<1>1. /\ server \in [Server -> Process] /\ server[s] \in Process /\ TypeOK
      /\ faults \in 0..MaxFaults
      /\ server[s].pc \in Starting \cup Up /\ UNCHANGED <<file, settings>>
  BY DEF IInv, TypeOK, Request, RequestEnds, Signal, ShutdownStep, Drained, Join, Crash,
         Accepts, Frame, Up
<1>2. CASE Request(s) \/ RequestEnds(s)
  <2>1. PICK n \in 0..MaxRequests : server' = [server EXCEPT ![s].open = n]
    <3>1. server[s].open \in 0..MaxRequests
      BY <1>1 DEF Process
    <3>2. CASE Request(s)
      <4>1. server[s].open + 1 \in 0..MaxRequests
        BY <3>1, <3>2, ServerAssumption DEF Request
      <4> QED BY <3>2, <4>1 DEF Request
    <3>3. CASE RequestEnds(s)
      <4>1. server[s].open - 1 \in 0..MaxRequests
        BY <3>1, <3>3, ServerAssumption DEF RequestEnds
      <4> QED BY <3>3, <4>1 DEF RequestEnds
    <3> QED BY <1>2, <3>2, <3>3
  <2> DEFINE r == [server[s] EXCEPT !.open = n]
  <2>2. /\ r \in Process /\ r.pc = server[s].pc /\ r.key = server[s].key /\ r.run = server[s].run
        /\ server' = [server EXCEPT ![s] = r]
    BY <1>1, <2>1 DEF Process
  <2>3. /\ server' \in [Server -> Process] /\ server'[s] = r
        /\ \A o \in Server \ {s} : server'[o] = server[o]
    BY <2>2, ServerMoves
  <2>4. server[s].pc \in Up /\ UNCHANGED <<faults, alone>>
    BY <1>2 DEF Request, RequestEnds, Accepts, Frame, Up
  <2>5. HasKey /\ server[s].key = file.key
    BY <2>4 DEF IInv, KeyInv, Keyed
  <2> HIDE DEF r
  <2> QED BY <1>1, <2>2, <2>3, <2>4, <2>5, QuietInv DEF Up, Starting
<1>3. ASSUME NEW pc \in {"draining", "join", "exited", "failed"}, Goes(s, pc),
             pc \in Up => server[s].pc \in Up, alone' \subseteq alone, (faults \in 0..MaxFaults)'
      PROVE  IInv'
  <2>1. /\ server' \in [Server -> Process] /\ server'[s].pc = pc
        /\ server'[s].key = server[s].key /\ server'[s].run = server[s].run
        /\ \A o \in Server \ {s} : server'[o] = server[o]
    BY <1>3, GoesType DEF Starting, Up
  <2>2. pc \in Keyed => HasKey /\ server[s].key = file.key
    BY <1>3 DEF IInv, KeyInv, Keyed, Up
  <2> QED BY <1>1, <1>3, <2>1, <2>2, QuietInv DEF Starting, Up
<1>4. CASE Signal(s) \/ ShutdownStep(s)
  BY <1>1, <1>3, <1>4 DEF Signal, ShutdownStep, Drained, Join, Frame, Up
<1>5. CASE Crash(s)
  BY <1>1, <1>3, <1>5, FaultType DEF Crash, Up
<1> QED BY <1>2, <1>4, <1>5

\* An operator waits until no process starts: who is up has a key, and then
\* there is nothing to remove.
LEMMA OperateInv == ASSUME IInv, Operate PROVE IInv'
<1>1. /\ \A s \in Server : server[s].pc \notin Starting
      /\ UNCHANGED <<settings, server, faults, alone>> /\ file \in File \cup {None}
  BY DEF IInv, TypeOK, Operate
<1>2. /\ file' \in File \cup {None} /\ file # None
      /\ HasKey => file' # None /\ file'.key = file.key
  <2>1. CASE file.key = None /\ file' = None /\ file # None
    BY <2>1 DEF HasKey
  <2>2. CASE file # None /\ file' = [file EXCEPT !.private = TRUE]
    <3>1. file' \in File /\ file'.key = file.key
      BY <1>1, <2>2 DEF File
    <3> QED BY <2>2, <3>1, ServerAssumption
  <2> QED BY <2>1, <2>2 DEF Operate
<1>3. TypeOK' /\ RunInv' /\ KeyInv'
  BY <1>1, <1>2 DEF IInv, TypeOK, RunInv, KeyInv, HasKey
<1>4. WriteInv' /\ AloneInv'
  BY <1>1 DEF WriteInv, AloneInv, IInv, TypeOK, Starting
<1> QED BY <1>3, <1>4 DEF IInv

LEMMA NextInv == ASSUME IInv, [Next]_vars PROVE IInv'
<1>1. ASSUME NEW s \in Server, Start(s) \/ StartStep(s) PROVE IInv'
  BY <1>1, StartInv, ExistsInv, CreateInv, WriteKeyInv, ReadingInv DEF StartStep
<1>2. ASSUME NEW s \in Server,
             Request(s) \/ RequestEnds(s) \/ Signal(s) \/ ShutdownStep(s) \/ Crash(s)
      PROVE  IInv'
  BY <1>2, ServingInv
<1>3. CASE Operate
  BY <1>3, OperateInv
<1>4. CASE UNCHANGED vars
  BY <1>4 DEF IInv, TypeOK, RunInv, KeyInv, HasKey, WriteInv, AloneInv, Disturbs, vars
<1> QED BY <1>1, <1>2, <1>3, <1>4 DEF Next

THEOREM Invariance == Spec => []IInv
  BY InitInv, NextInv, PTL DEF Spec

\* Type correctness.
THEOREM TypeCorrect == Spec => []TypeOK
<1>1. IInv => TypeOK
  BY DEF IInv
<1> QED BY <1>1, Invariance, PTL

\* All servers that serve requests accept tokens made with the key in the file.
THEOREM KeyShared == Spec => []ServersShareKey
<1>1. IInv => ServersShareKey
  BY DEF IInv, KeyInv, Keyed, ServersShareKey
<1> QED BY <1>1, Invariance, PTL

\* A key is never replaced: the file is only written by who created it, and
\* only removed when there is no key in it.
THEOREM KeyStays == Spec => KeyOutlives
<1> DEFINE Stays == HasKey => file' # None /\ file'.key = file.key
<1>1. IInv /\ [Next]_vars => [Stays]_vars
  <2> SUFFICES ASSUME IInv, Next, HasKey PROVE file' # None /\ file'.key = file.key
    BY DEF Stays
  <2>1. file \in File
    BY DEF IInv, TypeOK, HasKey
  <2>2. ASSUME NEW s \in Server, Create(s) PROVE UNCHANGED file
    BY <2>2 DEF Create, CreateNew, HasKey
  <2>3. ASSUME NEW s \in Server, WriteKey(s) PROVE FALSE
    BY <2>3 DEF WriteKey, IInv, WriteInv, HasKey
  <2>4. ASSUME NEW s \in Server,
               \/ Start(s) \/ Exists(s) \/ Stat(s) \/ Read(s) \/ ParseSettings(s) \/ Bind(s)
               \/ Request(s) \/ RequestEnds(s) \/ Signal(s) \/ ShutdownStep(s) \/ Crash(s)
        PROVE  UNCHANGED file
    BY <2>4 DEF Start, Exists, Stat, Read, ParseSettings, Bind, Request, RequestEnds, Signal,
       ShutdownStep, Drained, Join, Crash
  <2>5. CASE Operate
    <3>1. file' = [file EXCEPT !.private = TRUE]
      BY <2>5 DEF Operate, HasKey
    <3>2. file' \in File /\ file'.key = file.key
      BY <2>1, <3>1 DEF File
    <3> QED BY <3>2, ServerAssumption
  <2>6. CASE UNCHANGED file
    BY <2>6 DEF HasKey
  <2> QED BY <2>2, <2>3, <2>4, <2>5, <2>6 DEF Next, StartStep
<1> QED BY <1>1, Invariance, PTL DEF Spec, KeyOutlives

\* A start that nobody disturbs fails for a reason an operator can see.
THEOREM UndisturbedStarts == Spec => StartsUndisturbed
<1> DEFINE Fails == \A s \in alone \cap alone' :
                        server[s].pc \in Starting /\ server'[s].pc = "failed" =>
                            \/ settings.bytes = Error
                            \/ file # None /\ (~file.private \/ file.key = None)
<1>1. IInv /\ [Next]_vars => [Fails]_vars
  <2> SUFFICES ASSUME IInv, Next, NEW s \in alone \cap alone',
                      server[s].pc \in Starting, server'[s].pc = "failed"
               PROVE  \/ settings.bytes = Error
                      \/ file # None /\ (~file.private \/ file.key = None)
    BY DEF Fails
  <2>1. /\ s \in Server /\ server[s] \in Process /\ server \in [Server -> Process]
        /\ settings \in Settings
        /\ \A o \in Server : ~Disturbs(o, s)
        /\ server[s].pc = "create" => file = None
        /\ server[s].pc \in {"stat", "read"} => file # None
        /\ server[s].pc = "read" => file.private
    BY DEF IInv, TypeOK, AloneInv
  <2>2. server'[s] # server[s]
    BY <2>1 DEF Starting
  <2>3. ASSUME NEW o \in Server \ {s},
               \/ Start(o) \/ StartStep(o) \/ Request(o) \/ RequestEnds(o) \/ Signal(o)
               \/ ShutdownStep(o) \/ Crash(o)
        PROVE  server'[s] = server[s]
    <3>1. CASE Start(o) \/ Request(o) \/ RequestEnds(o) \/ Signal(o) \/ ShutdownStep(o) \/ Crash(o)
      BY <2>1, <2>3, <3>1 DEF Start, Request, RequestEnds, Signal, ShutdownStep, Drained, Join,
         Crash, Goes
    <3>2. CASE StartStep(o)
      BY <2>1, <2>3, <3>2 DEF StartStep, Exists, Create, WriteKey, Stat, Read, ParseSettings, Bind,
         Goes, Takes
    <3> QED BY <2>3, <3>1, <3>2
  <2>4. ASSUME NEW pc, Goes(s, pc) PROVE pc = "failed"
    BY <2>1, <2>4 DEF Goes, Process
  <2>5. CASE Exists(s) \/ Create(s) \/ WriteKey(s)
    <3>1. CASE Exists(s)
      BY <2>4, <3>1 DEF Exists
    <3>2. CASE Create(s)
      BY <2>1, <2>4, <3>2 DEF Create, CreateNew
    <3>3. CASE WriteKey(s)
      BY <2>1, <3>3 DEF WriteKey, Takes, Process
    <3> QED BY <2>5, <3>1, <3>2, <3>3
  <2>6. CASE Stat(s)
    BY <2>1, <2>4, <2>6 DEF Stat
  <2>7. CASE Read(s)
    BY <2>1, <2>7 DEF Read, Takes, HasKey, Process
  <2>8. CASE ParseSettings(s)
    BY <2>1, <2>8, LimitFacts DEF ParseSettings, Process
  <2>9. CASE Bind(s)
    <3>1. PICK o \in Server : server[o].pc = "serving" /\ settings.at[o] = settings.at[s]
      BY <2>4, <2>9 DEF Bind, Listening
    <3> QED BY <2>1, <2>9, <3>1 DEF Bind, Disturbs, Up
  <2>10. CASE Start(s) \/ Request(s) \/ RequestEnds(s) \/ Signal(s) \/ ShutdownStep(s) \/ Crash(s)
    <3>1. CASE Start(s)
      BY <3>1 DEF Start, Starting
    <3>2. CASE Request(s) \/ Signal(s) \/ ShutdownStep(s) \/ RequestEnds(s)
      BY <3>2 DEF Request, Accepts, RequestEnds, Signal, ShutdownStep, Drained, Join, Starting, Up
    <3>3. CASE Crash(s)
      BY <3>3 DEF Crash
    <3> QED BY <2>10, <3>1, <3>2, <3>3
  <2>11. CASE Operate
    BY <2>2, <2>11 DEF Operate
  <2> QED BY <2>2, <2>3, <2>5, <2>6, <2>7, <2>8, <2>9, <2>10, <2>11 DEF Next, StartStep
<1> QED BY <1>1, Invariance, PTL DEF Spec, StartsUndisturbed

\* The limit was read from the settings, and makes sense.
LimitInv ==
    \A s \in Server : server[s].pc \in {"bind"} \cup Up =>
        LimitIn[settings] # Error /\ server[s].limit = LimitIn[settings]

\* What a process does but reading the settings changes neither them nor the
\* limit of anybody who is about to bind or up.
LEMMA LimitKept ==
    ASSUME IInv, LimitInv, UNCHANGED settings, NEW s \in Server,
           \A o \in Server \ {s} : server'[o] = server[o],
           server'[s].pc \in {"bind"} \cup Up =>
              /\ server[s].pc \in {"bind"} \cup Up
              /\ server'[s].limit = server[s].limit
    PROVE  LimitInv'
<1> SUFFICES ASSUME NEW o \in Server, server'[o].pc \in {"bind"} \cup Up
             PROVE  LimitIn[settings] # Error /\ server'[o].limit = LimitIn[settings]
  BY DEF LimitInv, LimitIn
<1> QED BY DEF LimitInv

LEMMA NextLimitInv == ASSUME IInv, LimitInv, [Next]_vars PROVE LimitInv'
<1>1. server \in [Server -> Process] /\ \A s \in Server : server[s] \in Process
  BY DEF IInv, TypeOK
<1>2. ASSUME NEW s \in Server, NEW pc, Goes(s, pc), UNCHANGED settings,
             pc \in {"bind"} \cup Up => server[s].pc \in {"bind"} \cup Up
      PROVE  LimitInv'
  <2>1. /\ \A o \in Server \ {s} : server'[o] = server[o]
        /\ server'[s].pc = pc /\ server'[s].limit = server[s].limit
    BY <1>1, <1>2 DEF Goes, Process
  <2> QED BY <1>2, <2>1, LimitKept
<1>3. ASSUME NEW s \in Server, NEW key, Takes(s, key), UNCHANGED settings PROVE LimitInv'
  <2>1. /\ \A o \in Server \ {s} : server'[o] = server[o]
        /\ server'[s].pc = "cleanup"
    BY <1>1, <1>3 DEF Takes, Process
  <2> QED BY <1>3, <2>1, LimitKept DEF Up
<1>4. ASSUME NEW s \in Server, Start(s) PROVE LimitInv'
  <2>1. /\ \A o \in Server \ {s} : server'[o] = server[o]
        /\ server'[s].pc = "exists" /\ UNCHANGED settings
    BY <1>1, <1>4 DEF Start
  <2> QED BY <2>1, LimitKept DEF Up
<1>5. ASSUME NEW s \in Server, StartStep(s) PROVE LimitInv'
  <2>1. CASE Exists(s) \/ Create(s) \/ Stat(s)
    BY <1>2, <2>1 DEF Exists, Create, Stat, Frame, Up
  <2>2. CASE WriteKey(s) \/ Read(s)
    BY <1>2, <1>3, <2>2 DEF WriteKey, Read, Frame, Up
  <2>3. CASE ParseSettings(s)
    <3>1. CASE Goes(s, "failed")
      BY <1>2, <2>3, <3>1 DEF ParseSettings, Frame, Up
    <3>2. CASE /\ LimitIn[settings] # Error
               /\ server' = [server EXCEPT ![s].pc = "bind", ![s].limit = LimitIn[settings]]
      <4>1. server'[s].limit = LimitIn[settings] /\ UNCHANGED settings
        BY <1>1, <2>3, <3>2 DEF ParseSettings, Frame, Process
      <4>2. \A o \in Server \ {s} : server'[o] = server[o]
        BY <1>1, <3>2
      <4> QED BY <3>2, <4>1, <4>2 DEF LimitInv, LimitIn
    <3> QED BY <2>3, <3>1, <3>2 DEF ParseSettings
  <2>4. CASE Bind(s)
    BY <1>2, <2>4 DEF Bind, Frame, Up
  <2> QED BY <1>5, <2>1, <2>2, <2>3, <2>4 DEF StartStep
<1>6. ASSUME NEW s \in Server, Request(s) \/ RequestEnds(s) PROVE LimitInv'
  <2>1. /\ \A o \in Server \ {s} : server'[o] = server[o]
        /\ server'[s].pc = server[s].pc /\ server'[s].limit = server[s].limit
        /\ UNCHANGED settings
    BY <1>1, <1>6 DEF Request, RequestEnds, Frame, Process
  <2> QED BY <2>1, LimitKept
<1>7. ASSUME NEW s \in Server, Signal(s) \/ ShutdownStep(s) \/ Crash(s) PROVE LimitInv'
  BY <1>2, <1>7 DEF Signal, ShutdownStep, Drained, Join, Crash, Frame, Up
<1>8. CASE Operate \/ UNCHANGED vars
  BY <1>8 DEF LimitInv, LimitIn, Operate, vars
<1> QED BY <1>4, <1>5, <1>6, <1>7, <1>8 DEF Next

\* The limit in use is the one that was set, if it fits into a word, and no
\* server serves with a text that is no size.
THEOREM MeantLimits == Spec => []LimitIsMeant
<1>1. Init => LimitInv
  BY DEF Init, LimitInv, Up
<1>2. IInv /\ LimitInv => LimitIsMeant
  <2>1. IInv => settings \in Settings
    BY DEF IInv, TypeOK
  <2> QED BY <2>1, LimitFacts DEF LimitInv, LimitIsMeant
<1> QED BY <1>1, <1>2, Invariance, NextLimitInv, PTL DEF Spec
=============================================================================
