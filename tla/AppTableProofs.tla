--------------------------- MODULE AppTableProofs ---------------------------
(***************************************************************************)
(* The cached views of AppTable are current and Screen draws them as they  *)
(* are, for any rows, any filter length, any cursor movement and any       *)
(* height of the terminal; the command palette lists what can be run; the  *)
(* rows are in the order the keys ask for; and the GPU table's rows are    *)
(* each on their own card.                                                 *)
(***************************************************************************)
EXTENDS Screen, Palette, TableOrder, Gpu, FiniteSetTheorems, FunctionTheorems, WellFoundedInduction, TLAPS

\* What the freshness of both kinds of cache rests on: a filter has a length
\* within bounds, and only the process table debounces.
IInv ==
  /\ filter \in 0..MaxFilterLen
  /\ CachesCurrent
  /\ OnlyFilterLags

\* Recompute leaves no cache behind, wherever the cursor is put.
LEMMA RecomputeCurrent ==
  ASSUME NEW sel, NEW off,
         kind' = kind, filter' \in 0..MaxFilterLen,
         Recompute(sel, off)
  PROVE  IInv'
  BY DEF Recompute, IInv, CachesCurrent, OnlyFilterLags, Cached

\* A filter change recomputes, or is one more key of a burst on the process
\* table, whose cache then still shows some earlier filter.
LEMMA FilterChangeCurrent ==
  ASSUME NEW immediate \in BOOLEAN,
         IInv,
         UNCHANGED <<kind, part, sort, sub, tree>>,
         filter' \in 0..MaxFilterLen,
         AfterFilterChange(immediate)
  PROVE  IInv'
  BY DEF AfterFilterChange, IInv, CachesCurrent, OnlyFilterLags, Cached

\* Steps that touch neither the cache nor what it is computed from.
LEMMA UnchangedCurrent ==
  ASSUME IInv, UNCHANGED <<kind, table, cache>>
  PROVE  IInv'
  BY DEF IInv, CachesCurrent, OnlyFilterLags, table

LEMMA FilterKeyCurrent ==
  ASSUME IInv, FilterKey
  PROVE  IInv'
<1>0. MaxFilterLen \in Nat
  BY TableAssumption
<1>1. CASE UNCHANGED <<table, view>>
  BY <1>1, UnchangedCurrent, FilterKey DEF FilterKey, view
<1>2. CASE UNCHANGED <<part, filter, sort, sub, tree>> /\ AfterFilterChange(TRUE)
  BY <1>2, FilterChangeCurrent DEF FilterKey, IInv
<1>3. CASE /\ filter' = IF filter = 0 THEN 0 ELSE filter - 1
           /\ UNCHANGED <<part, sort, sub, tree>>
           /\ AfterFilterChange(FALSE)
  <2>1. filter' \in 0..MaxFilterLen
    BY <1>0, <1>3 DEF IInv
  <2> QED
    BY <1>3, <2>1, FilterChangeCurrent DEF FilterKey
<1>4. CASE /\ filter < MaxFilterLen /\ filter' = filter + 1
           /\ UNCHANGED <<part, sort, sub, tree>>
           /\ AfterFilterChange(FALSE)
  <2>1. filter' \in 0..MaxFilterLen
    BY <1>0, <1>4 DEF IInv
  <2> QED
    BY <1>4, <2>1, FilterChangeCurrent DEF FilterKey
<1> QED
  BY <1>1, <1>2, <1>3, <1>4 DEF FilterKey

LEMMA Inductive == Spec => []IInv
<1>0. MaxFilterLen \in Nat
  BY TableAssumption
<1>1. Init => IInv
  <2> SUFFICES ASSUME Init PROVE IInv
    OBVIOUS
  <2>1. filter \in 0..MaxFilterLen
    <3>1. filter \in IF kind = "processes" THEN 0..MaxFilterLen ELSE {0}
      BY DEF Init
    <3> QED
      BY <1>0, <3>1
  <2>2. part = Absent /\ cache = << >>
    BY DEF Init
  <2> QED
    BY <2>1, <2>2 DEF IInv, CachesCurrent, OnlyFilterLags, Project
<1>2. IInv /\ [Next]_vars => IInv'
  <2> SUFFICES ASSUME IInv, [Next]_vars PROVE IInv'
    OBVIOUS
  <2>1. ASSUME NEW p \in NextPart, ApplySnapshot(p) PROVE IInv'
    BY <2>1, RecomputeCurrent DEF ApplySnapshot, IInv
  <2>2. CASE TogglePause \/ SwitchTab \/ OpenFilter
    BY <2>2, UnchangedCurrent DEF TogglePause, SwitchTab, OpenFilter, view
  <2>3. CASE FilterKey
    BY <2>3, FilterKeyCurrent
  <2>4. ASSUME NEW f \in 0..MaxFilterLen, SetFilter(f) PROVE IInv'
    BY <2>4, FilterChangeCurrent DEF SetFilter
  <2>5. CASE Clock
    BY <2>5 DEF Clock, IInv, CachesCurrent, OnlyFilterLags, view
  <2>6. CASE CycleSort
    BY <2>6, RecomputeCurrent DEF CycleSort, IInv
  <2>7. CASE ReverseSort
    BY <2>7, RecomputeCurrent DEF ReverseSort, IInv
  <2>8. ASSUME NEW f, SortBy(f) PROVE IInv'
    BY <2>8, RecomputeCurrent DEF SortBy, IInv
  <2>9. ASSUME NEW sv \in Subviews, SwitchSubview(sv) PROVE IInv'
    BY <1>0, <2>9, RecomputeCurrent DEF SwitchSubview
  <2>10. CASE ToggleTree
    BY <2>10, RecomputeCurrent DEF ToggleTree, IInv
  <2>11. CASE ToggleKubeScope
    BY <2>11, UnchangedCurrent DEF ToggleKubeScope
  <2>12. ASSUME NEW d \in Deltas, MoveSelection(d) \/ ScrollRows(d) PROVE IInv'
    BY <2>12, UnchangedCurrent DEF MoveSelection, ScrollRows
  <2>13. ASSUME NEW i, SelectIndex(i) PROVE IInv'
    BY <2>13, UnchangedCurrent DEF SelectIndex
  <2>14. CASE UNCHANGED vars
    BY <2>14, UnchangedCurrent DEF vars, view
  <2> QED
    BY <2>1, <2>2, <2>3, <2>4, <2>5, <2>6, <2>7, <2>8, <2>9, <2>10, <2>11, <2>12, <2>13, <2>14
       DEF Next, Snapshot
<1> QED
  BY <1>1, <1>2, PTL DEF Spec

\* The views are the projection of the state in force after every handler, for
\* any rows and any filter: "every mutation that can reorder or resize the Kube
\* table must call" recompute_kube_view, and does; the debounce of
\* recompute_visible_debounced holds back the filter of the process table and
\* nothing else, whatever keys, sorts and snapshots come between.
THEOREM ViewsCurrent == Spec => []TablesCurrent
<1>1. IInv => TablesCurrent
  BY DEF IInv, TablesCurrent
<1> QED
  BY <1>1, Inductive, PTL

-----------------------------------------------------------------------------
(* Numbers.                                                                *)

\* A set that holds 0 and with every number the next holds all of them.
LEMMA SetInduction ==
  ASSUME NEW S, 0 \in S, \A n \in Nat : n \in S => n + 1 \in S
  PROVE  \A n \in Nat : n \in S
<1> DEFINE R == {ss \in Nat \X Nat : ss[1] < ss[2]}
           T == Nat \ S
<1>1. IsWellFoundedOn(R, Nat)
  BY NatLessThanWellFounded DEF OpToRel
<1> SUFFICES ASSUME T # {} PROVE FALSE
  OBVIOUS
<1>2. PICK x \in T : \A y \in T : ~(<<y, x>> \in R)
  <2> HIDE DEF R
  <2>1. T \subseteq Nat
    OBVIOUS
  <2> HIDE DEF T
  <2> QED
    BY <1>1, <2>1, WFMin
<1>3. x # 0 /\ x \in Nat /\ x - 1 \in Nat
  OBVIOUS
<1>4. <<x - 1, x>> \in R
  BY <1>3
<1>5. x - 1 \in S
  BY <1>2, <1>3, <1>4
<1> QED
  BY <1>3, <1>5

\* Factors: a larger one makes a larger product.
LEMMA ProductsGrow ==
  ASSUME NEW x \in Nat, NEW y \in Nat, NEW b \in Nat, x <= y
  PROVE  x * b \in Nat /\ y * b \in Nat /\ x * b <= y * b
<1>1. PICK d \in Nat : y = x + d
  <2>1. y - x \in Nat /\ y = x + (y - x)
    OBVIOUS
  <2> QED
    BY <2>1
<1>2. (x + d) * b = x * b + d * b /\ d * b \in Nat /\ x * b \in Nat
  OBVIOUS
<1> QED
  BY <1>1, <1>2

\* A quotient lies where the multiples of the divisor around the number put it.
LEMMA Quotient ==
  ASSUME NEW a \in Nat, NEW b \in Nat, b > 0
  PROVE  /\ a \div b \in Nat /\ (a \div b) * b <= a /\ a < ((a \div b) + 1) * b
         /\ \A n \in Nat : n * b <= a => n <= a \div b
         /\ \A n \in Nat : a <= n * b => a \div b <= n
<1>1. a \div b \in Nat /\ a % b \in Nat /\ a % b < b /\ a = b * (a \div b) + (a % b)
  OBVIOUS
<1>2. PICK q \in Nat : q = a \div b
  BY <1>1
<1>3. q * b <= a /\ a < (q + 1) * b
  <2>1. b * q = q * b /\ (q + 1) * b = q * b + b /\ q * b \in Nat
    OBVIOUS
  <2> QED
    BY <1>1, <1>2, <2>1
<1>4. ASSUME NEW n \in Nat, n * b <= a PROVE n <= q
  <2> SUFFICES ASSUME q + 1 <= n PROVE FALSE
    OBVIOUS
  <2>1. (q + 1) * b <= n * b /\ (q + 1) * b \in Nat /\ n * b \in Nat
    BY ProductsGrow
  <2> QED
    BY <1>3, <1>4, <2>1
<1>5. ASSUME NEW n \in Nat, a <= n * b PROVE q <= n
  <2> SUFFICES ASSUME n + 1 <= q PROVE FALSE
    OBVIOUS
  <2>1. (n + 1) * b <= q * b /\ (n + 1) * b \in Nat /\ q * b \in Nat
    BY ProductsGrow
  <2>2. (n + 1) * b = n * b + b
    OBVIOUS
  <2> QED
    BY <1>3, <1>5, <2>1, <2>2
<1> QED
  BY <1>2, <1>3, <1>4, <1>5

-----------------------------------------------------------------------------
(* Rows.                                                                   *)

SubviewsFor(k) == CASE k = "kube" -> 0..2 [] k = "gpu" -> 0..1 [] OTHER -> {0}
Parts(k) == {Absent} \cup [SubviewsFor(k) -> Lists]

\* The rows of a sub-view.
LEMMA RowsFacts ==
  ASSUME NEW k, NEW p \in Parts(k), NEW sv \in SubviewsFor(k)
  PROVE  Rows(p, sv) \in Seq(Nat \ {0})
  BY TableAssumption DEF Parts, Rows, Absent

\* f is the recursion of Passing over the first n rows.
Picked(f, rows, at, n) ==
  f = [i \in 0..n |-> IF i = 0 THEN << >>
                      ELSE IF i \in at THEN Append(f[i - 1], rows[i]) ELSE f[i - 1]]

\* The recursion has a solution.
LEMMA PickedExists ==
  ASSUME NEW rows, NEW at, NEW n \in Nat
  PROVE  \E f : Picked(f, rows, at, n)
<1> DEFINE S == {m \in Nat : \E f : Picked(f, rows, at, m)}
<1>1. 0 \in S
  <2>1. Picked([i \in 0..0 |-> << >>], rows, at, 0)
    BY DEF Picked
  <2> QED
    BY <2>1
<1>2. ASSUME NEW m \in Nat, m \in S PROVE m + 1 \in S
  <2>1. PICK f : Picked(f, rows, at, m)
    BY <1>2
  <2> DEFINE Then(h, i) == IF i \in at THEN Append(h[i - 1], rows[i]) ELSE h[i - 1]
             g == [i \in 0..(m + 1) |-> IF i <= m THEN f[i] ELSE Then(f, i)]
  <2>2. \A i \in 0..m : f[i] = IF i = 0 THEN << >> ELSE Then(f, i)
    BY <2>1 DEF Picked
  <2>3. \A i \in 0..(m + 1) : g[i] = IF i = 0 THEN << >> ELSE Then(g, i)
    <3> TAKE i \in 0..(m + 1)
    <3>1. CASE i = 0
      BY <2>2, <3>1
    <3>2. CASE i \in 1..m
      <4>1. g[i] = f[i] /\ g[i - 1] = f[i - 1] /\ i \in 0..m /\ i # 0
        BY <3>2
      <4> QED
        BY <2>2, <4>1
    <3>3. CASE i = m + 1
      <4>1. g[i - 1] = f[i - 1] /\ i # 0
        BY <3>3
      <4>2. g[i] = Then(f, i)
        BY <3>3
      <4> QED
        BY <4>1, <4>2
    <3> QED
      BY <3>1, <3>2, <3>3
  <2>4. Picked(g, rows, at, m + 1)
    <3>1. g = [i \in 0..(m + 1) |-> g[i]]
      OBVIOUS
    <3> HIDE DEF g
    <3> QED
      BY <2>3, <3>1 DEF Picked
  <2> QED
    BY <2>4
<1> HIDE DEF S
<1>3. \A m \in Nat : m \in S
  BY <1>1, <1>2, SetInduction
<1> QED
  BY <1>3 DEF S

\* A filter leaves a list of the same rows, empty only when no row passes.
LEMMA PassingFacts ==
  ASSUME NEW S, NEW rows \in Seq(S), NEW at
  PROVE  /\ Passing(rows, at) \in Seq(S)
         /\ Passing(rows, at) = << >> <=> \A k \in 1..Len(rows) : k \notin at
<1> DEFINE L == Len(rows)
           f == CHOOSE f : Picked(f, rows, at, L)
<1>1. L \in Nat /\ \A i \in 1..L : rows[i] \in S
  OBVIOUS
<1>2. Picked(f, rows, at, L)
  BY <1>1, PickedExists
<1>3. Passing(rows, at) = f[L]
  BY DEF Passing, Picked
<1> HIDE DEF f
<1>4. \A i \in 0..L : f[i] = IF i = 0 THEN << >>
                             ELSE IF i \in at THEN Append(f[i - 1], rows[i]) ELSE f[i - 1]
  BY <1>1, <1>2 DEF Picked
<1> DEFINE Ok(n) == f[n] \in Seq(S) /\ (f[n] = << >> <=> \A k \in 1..n : k \notin at)
           T == {n \in Nat : n <= L => Ok(n)}
<1>5. 0 \in T
  <2>1. f[0] = << >>
    BY <1>1, <1>4
  <2>2. f[0] \in Seq(S)
    BY <2>1
  <2>3. \A k \in 1..0 : k \notin at
    OBVIOUS
  <2>4. Ok(0)
    BY <2>1, <2>2, <2>3
  <2> QED
    BY <2>4
<1>6. ASSUME NEW n \in Nat, n \in T PROVE n + 1 \in T
  <2> SUFFICES ASSUME n + 1 <= L PROVE Ok(n + 1)
    OBVIOUS
  <2>1. Ok(n)
    BY <1>1, <1>6
  <2>2. n + 1 \in 0..L /\ n + 1 # 0 /\ (n + 1) - 1 = n /\ n + 1 \in 1..L /\ n + 1 \in 1..(n + 1)
    BY <1>1
  <2>3. f[n + 1] = IF n + 1 \in at THEN Append(f[n], rows[n + 1]) ELSE f[n]
    BY <1>4, <2>2
  <2>4. CASE n + 1 \in at
    <3>1. PICK r \in Seq(S), x \in S : r = f[n] /\ x = rows[n + 1]
      BY <1>1, <2>1, <2>2
    <3>2. f[n + 1] = Append(r, x)
      BY <2>3, <2>4, <3>1
    <3>3. Append(r, x) \in Seq(S) /\ Append(r, x) # << >>
      <4>1. Append(r, x) \in Seq(S) /\ Len(Append(r, x)) = Len(r) + 1 /\ Len(r) \in Nat
        OBVIOUS
      <4>2. Len(<< >>) = 0
        OBVIOUS
      <4>3. Append(r, x) = << >> => Len(Append(r, x)) = 0
        BY <4>2
      <4> QED
        BY <4>1, <4>3
    <3> QED
      BY <2>2, <2>4, <3>2, <3>3
  <2>5. CASE n + 1 \notin at
    <3>1. f[n + 1] = f[n]
      BY <2>3, <2>5
    <3>2. (\A k \in 1..n : k \notin at) <=> (\A k \in 1..(n + 1) : k \notin at)
      BY <2>5
    <3> QED
      BY <2>1, <3>1, <3>2
  <2> QED
    BY <2>4, <2>5
<1> HIDE DEF T, Ok
<1>7. \A n \in Nat : n \in T
  BY <1>5, <1>6, SetInduction
<1>8. L <= L
  BY <1>1
<1>9. Ok(L)
  BY <1>1, <1>7, <1>8 DEF T
<1> QED
  BY <1>3, <1>9 DEF Ok

\* A list with a length.
IsList(l) == l \in Seq({l[i] : i \in DOMAIN l})

\* A sequence over any set is a list in this sense.
LEMMA ListFacts ==
  ASSUME NEW S, NEW l \in Seq(S)
  PROVE  IsList(l)
<1> DEFINE T == {l[i] : i \in DOMAIN l}
<1>1. l \in [1..Len(l) -> T] /\ Len(l) \in Nat
  OBVIOUS
<1> HIDE DEF T
<1>2. \A n \in Nat : \A f \in [1..n -> T] : f \in Seq(T)
  OBVIOUS
<1> QED
  BY <1>1, <1>2 DEF T, IsList

\* A sort of rows is a list, as long as what it sorts.
LEMMA OrderedFacts ==
  ASSUME NEW S, NEW rows \in Seq(S), NEW s
  PROVE  IsList(Ordered(rows, s)) /\ Len(Ordered(rows, s)) = Len(rows)
<1> DEFINE o == Ordered(rows, s)
           T == {o[i] : i \in DOMAIN o}
<1>1. PICK n \in Nat : n = Len(rows) /\ DOMAIN rows = 1..n
  OBVIOUS
<1>2. o = [k \in 1..n |-> o[k]]
  BY <1>1 DEF Ordered
<1> HIDE DEF o
<1>3. DOMAIN o = 1..n
  BY <1>2
<1>4. \A k \in 1..n : o[k] \in T
  BY <1>3
<1> HIDE DEF T
<1>5. o \in [1..n -> T]
  BY <1>2, <1>4
<1>6. \A f \in [1..n -> T] : f \in Seq(T) /\ Len(f) = n
  OBVIOUS
<1>7. o \in Seq(T) /\ Len(o) = n
  BY <1>5, <1>6
<1> QED
  BY <1>1, <1>7 DEF o, T, IsList

\* Whatever it shows, a view has as many rows as pass the filter.
LEMMA ProjectFacts ==
  ASSUME NEW k, NEW p \in Parts(k), NEW sv \in SubviewsFor(k), NEW f, NEW s, NEW tr
  PROVE  /\ Matching(p, f, sv) \in Seq(Nat \ {0}) /\ Len(Matching(p, f, sv)) \in Nat
         /\ Matching(p, f, sv) = << >> <=>
              \A i \in 1..Len(Rows(p, sv)) : ~NameMatches(Rows(p, sv)[i], f)
         /\ IsList(Project(p, f, s, sv, tr))
         /\ Len(Project(p, f, s, sv, tr)) = Len(Matching(p, f, sv))
<1> DEFINE R == Rows(p, sv)
           at == {i \in DOMAIN R : NameMatches(R[i], f)}
           m == Matching(p, f, sv)
<1>1. R \in Seq(Nat \ {0}) /\ Len(R) \in Nat /\ DOMAIN R = 1..Len(R)
  BY RowsFacts
<1>2. m = Passing(R, at)
  BY DEF Matching
<1>3. m \in Seq(Nat \ {0}) /\ (m = << >> <=> \A i \in 1..Len(R) : i \notin at)
  <2> HIDE DEF at, R, m
  <2> QED
    BY <1>1, <1>2, PassingFacts
<1>4. (\A i \in 1..Len(R) : i \notin at) <=> (\A i \in 1..Len(R) : ~NameMatches(R[i], f))
  BY <1>1
<1>5. Len(m) \in Nat
  BY <1>3
<1>6. CASE p = Absent
  <2>1. R = << >> /\ Len(R) = 0
    BY <1>6 DEF Rows
  <2>2. m = << >>
    BY <1>3, <2>1
  <2>3. Project(p, f, s, sv, tr) = << >>
    BY <1>6 DEF Project
  <2>4. IsList(m)
    BY <1>3, ListFacts
  <2> QED
    BY <1>3, <1>4, <1>5, <2>2, <2>3, <2>4
<1>7. CASE p # Absent /\ tr
  <2>1. Project(p, f, s, sv, tr) = m
    BY <1>7 DEF Project
  <2>2. IsList(m)
    BY <1>3, ListFacts
  <2> QED
    BY <1>3, <1>4, <1>5, <2>1, <2>2
<1>8. CASE p # Absent /\ ~tr
  <2>1. Project(p, f, s, sv, tr) = Ordered(m, s)
    BY <1>8 DEF Project
  <2>2. IsList(Ordered(m, s)) /\ Len(Ordered(m, s)) = Len(m)
    <3> HIDE DEF m
    <3> QED
      BY <1>3, OrderedFacts
  <2> QED
    BY <1>3, <1>4, <1>5, <2>1, <2>2
<1> QED
  BY <1>6, <1>7, <1>8

-----------------------------------------------------------------------------
(* Lines.                                                                  *)

\* f64::round of a quotient.
LEMMA RoundFacts ==
  ASSUME NEW a \in Nat, NEW b \in Nat, b > 0
  PROVE  /\ Round(a, b) \in Nat
         /\ a = 0 => Round(a, b) = 0
         /\ \A n \in Nat : a = n * b => Round(a, b) = n
<1> DEFINE x == 2 * a + b
           y == 2 * b
<1>1. x \in Nat /\ y \in Nat /\ y > 0 /\ Round(a, b) = x \div y
  BY DEF Round
<1> HIDE DEF x, y
<1>2. /\ x \div y \in Nat
      /\ \A n \in Nat : n * y <= x => n <= x \div y
      /\ (x \div y) * y <= x
  BY <1>1, Quotient
<1>3. ASSUME NEW n \in Nat, a = n * b PROVE Round(a, b) = n
  <2>1. PICK q \in Nat : q = x \div y /\ q * y <= x
    BY <1>2
  <2>2. PICK z \in Nat : z = n * y
    BY <1>1
  <2>3. x = z + b /\ y = 2 * b
    <3>1. n * (2 * b) = 2 * (n * b)
      OBVIOUS
    <3> QED
      BY <1>3, <2>2, <3>1 DEF x, y
  <2>4. n <= q
    BY <1>2, <2>1, <2>2, <2>3
  <2>5. q <= n
    <3> SUFFICES ASSUME n + 1 <= q PROVE FALSE
      BY <2>1
    <3>1. (n + 1) * y <= q * y
      BY <1>1, ProductsGrow
    <3>2. (n + 1) * y = z + y
      BY <1>1, <2>2
    <3>3. PICK v \in Nat : v = q * y
      BY <1>1
    <3> QED
      BY <2>1, <2>3, <3>1, <3>2, <3>3
  <2>6. q = n
    BY <2>4, <2>5
  <2> QED
    BY <1>1, <2>1, <2>6
<1>4. a = 0 => Round(a, b) = 0
  <2>1. 0 = 0 * b
    OBVIOUS
  <2> QED
    BY <1>3, <2>1
<1> QED
  BY <1>1, <1>2, <1>3, <1>4

\* scrollbar::vertical: the thumb lies in its track, and at its ends at the ends.
LEMMA ThumbFacts ==
  ASSUME NEW total \in Nat, NEW body \in Nat, body > 0, NEW first \in Nat
  PROVE  LET t == ScrollThumb(total, body, first, body)
         IN  /\ t.start \in Nat /\ t.len \in Nat /\ t.start + t.len <= body
             /\ t.len > 0 => total > body
             /\ t.len > 0 /\ first = 0 => t.start = 0
             /\ t.len > 0 /\ first + body >= total => t.start + t.len = body
<1> DEFINE t == ScrollThumb(total, body, first, body)
<1>1. CASE total <= body
  <2>1. t.start = 0 /\ t.len = 0
    BY <1>1 DEF ScrollThumb
  <2> QED
    BY <2>1
<1>2. CASE total > body
  <2>1. PICK r \in Nat : r = Round(body * body, total)
    <3>1. body * body \in Nat
      OBVIOUS
    <3> QED
      BY <1>2, <3>1, RoundFacts
  <2>2. PICK len \in 1..body : len = Least(Most(r, 1), body)
    <3>1. Least(Most(r, 1), body) \in 1..body
      BY DEF Least, Most
    <3> QED
      BY <3>1
  <2>3. PICK max \in Nat : max = total - body /\ max > 0
    <3>1. total - body \in Nat /\ total - body > 0
      BY <1>2
    <3> QED
      BY <3>1
  <2>4. PICK travel \in Nat : travel = body - len
    <3>1. body - len \in Nat
      BY <2>2
    <3> QED
      BY <3>1
  <2>5. PICK at \in Nat : at = Least(first, max)
    <3>1. Least(first, max) \in Nat
      BY <2>3 DEF Least
    <3> QED
      BY <3>1
  <2>6. at * travel \in Nat
    OBVIOUS
  <2>7. PICK d \in Nat : d = Round(at * travel, max)
    BY <2>3, <2>6, RoundFacts
  <2>8. t.len = len /\ t.start = Least(d, travel)
    BY <1>2, <2>1, <2>2, <2>3, <2>4, <2>5, <2>7 DEF ScrollThumb
  <2>9. Least(d, travel) \in 0..travel
    BY DEF Least
  <2>10. first = 0 => d = 0
    <3> SUFFICES ASSUME first = 0 PROVE d = 0
      OBVIOUS
    <3>1. at = 0
      BY <2>3, <2>5 DEF Least
    <3>2. at * travel = 0
      BY <3>1
    <3> QED
      BY <2>3, <2>6, <2>7, <3>2, RoundFacts
  <2>11. first + body >= total => d = travel
    <3> SUFFICES ASSUME first + body >= total PROVE d = travel
      OBVIOUS
    <3>1. at = max
      BY <2>3, <2>5 DEF Least
    <3>2. at * travel = travel * max
      BY <3>1
    <3>3. PICK m \in Nat : m = at * travel /\ m = travel * max
      BY <2>6, <3>2
    <3>4. Round(m, max) = travel
      BY <2>3, <3>3, RoundFacts
    <3> QED
      BY <2>7, <3>3, <3>4
  <2> HIDE DEF t
  <2>12. /\ t.start \in Nat /\ t.len \in Nat /\ t.start + t.len <= body
    BY <2>2, <2>4, <2>8, <2>9
  <2>13. first = 0 => t.start = 0
    BY <2>8, <2>10 DEF Least
  <2>14. first + body >= total => t.start + t.len = body
    <3> SUFFICES ASSUME first + body >= total PROVE t.start + t.len = body
      OBVIOUS
    <3>1. t.start = travel
      BY <2>8, <2>11 DEF Least
    <3> QED
      BY <2>2, <2>4, <2>8, <3>1
  <2> QED
    BY <1>2, <2>12, <2>13, <2>14 DEF t
<1> QED
  BY <1>1, <1>2

\* Rows of the table on the lines there are, the cursor's among them, and the ends told.
DrawnWell(total, sel, off, body) ==
  LET first == ViewportOffset(sel, off, body)
      drawn == DrawnRows(total, sel, off, body + 1)
  IN  /\ first \in Nat
      /\ drawn \subseteq 0..(total - 1) /\ Cardinality(drawn) <= body
      /\ sel < total => sel \in drawn
      /\ 0 \in drawn => first = 0
      /\ total - 1 \in drawn => first + body >= total

\* table::draw: a line for a row, the cursor's among them when there is one.
LEMMA DrawnFacts ==
  ASSUME NEW total \in Nat, NEW sel \in Nat, NEW off \in Nat, NEW body \in Nat, body > 0
  PROVE  DrawnWell(total, sel, off, body)
<1> DEFINE first == ViewportOffset(sel, off, body)
           drawn == DrawnRows(total, sel, off, body + 1)
<1>1. /\ first \in Nat
      /\ first <= sel /\ sel < first + body
  BY DEF ViewportOffset, Minus
<1>2. Minus(body + 1, 1) = body
  BY DEF Minus
<1>3. drawn = first..(Least(first + body, total) - 1)
  BY <1>2 DEF DrawnRows
<1> HIDE DEF first, drawn
<1>4. PICK last \in Int : last = Least(first + body, total) - 1 /\ last <= (first + body) - 1 /\ last <= total - 1
                          /\ (last = (first + body) - 1 \/ last = total - 1)
  <2>1. Least(first + body, total) \in Nat /\ Least(first + body, total) <= first + body /\ Least(first + body, total) <= total
        /\ (Least(first + body, total) = first + body \/ Least(first + body, total) = total)
    BY <1>1 DEF Least
  <2> QED
    BY <1>1, <2>1
<1>5. drawn = first..last
  BY <1>3, <1>4
<1>6. Cardinality(drawn) = IF first > last THEN 0 ELSE last - first + 1
  BY <1>1, <1>5, FS_Interval
<1>7. Cardinality(drawn) <= body
  BY <1>1, <1>4, <1>6
<1>8. /\ drawn \subseteq 0..(total - 1)
      /\ sel < total => sel \in drawn
      /\ 0 \in drawn => first = 0
      /\ total - 1 \in drawn => first + body >= total
  BY <1>1, <1>4, <1>5
<1> QED
  BY <1>1, <1>7, <1>8 DEF first, drawn, DrawnWell

-----------------------------------------------------------------------------
(* The table.                                                              *)

\* Count, of what it is computed from.
CountOf(k, c, p, f, sv) ==
  CASE k \in {"processes", "kube"} -> Len(c)
    [] k \in {"network", "containers"} -> Len(Matching(p, f, sv))
    [] k = "gpu" ->
         LET rows == Rows(p, sv)
         IN  Len(Passing(rows, {i \in DOMAIN rows : NameMatches(rows[i], f) \/ OtherFieldMatches(rows[i], f)}))

\* The cursor is on a row when there is one.
CursorIn(i, n) == i < n \/ (i = 0 /\ n = 0)

\* What the drawing rests on: the rows are lists, the cached ones show some filter, and
\* the process cursor never leaves its table.
TableInv ==
  /\ kind \in AllKinds /\ sub \in SubviewsFor(kind) /\ part \in Parts(kind)
  /\ filter \in 0..MaxFilterLen /\ selected \in Nat /\ scroll \in Nat
  /\ kind \in Cached => \E f \in 0..MaxFilterLen : cache = Project(part, f, sort, sub, tree)
  /\ kind \notin Cached => cache = << >>
  /\ kind = "processes" => CursorIn(selected, Len(cache))

\* What the cursor keys believe the table to hold is a number.
LEMMA CountFacts ==
  ASSUME NEW k \in AllKinds, NEW c, IsList(c), NEW p \in Parts(k), NEW sv \in SubviewsFor(k), NEW f
  PROVE  CountOf(k, c, p, f, sv) \in Nat
<1>1. CASE k \in {"processes", "kube"}
  <2>1. Len(c) \in Nat
    BY DEF IsList
  <2> QED
    BY <1>1, <2>1 DEF CountOf
<1>2. CASE k \in {"network", "containers"}
  <2>1. Len(Matching(p, f, sv)) \in Nat
    BY ProjectFacts
  <2> QED
    BY <1>2, <2>1 DEF CountOf
<1>3. CASE k = "gpu"
  <2> DEFINE rows == Rows(p, sv)
             at == {i \in DOMAIN rows : NameMatches(rows[i], f) \/ OtherFieldMatches(rows[i], f)}
  <2>1. CountOf(k, c, p, f, sv) = Len(Passing(rows, at))
    BY <1>3 DEF CountOf
  <2>2. rows \in Seq(Nat \ {0})
    BY RowsFacts
  <2> HIDE DEF rows, at
  <2>3. Passing(rows, at) \in Seq(Nat \ {0})
    BY <2>2, PassingFacts
  <2>4. Len(Passing(rows, at)) \in Nat
    BY <2>3
  <2> QED
    BY <2>1, <2>4
<1> QED
  BY <1>1, <1>2, <1>3 DEF AllKinds

\* Clamping leaves a cursor in the table.
LEMMA ClampFacts ==
  ASSUME NEW n \in Nat
  PROVE  /\ \A i \in Nat : Clamp(i, n) \in Nat /\ CursorIn(Clamp(i, n), n)
         /\ \A i \in Int : Within(i, n) \in Nat /\ CursorIn(Within(i, n), n)
  BY DEF Clamp, Within, CursorIn

\* A view is a list.
LEMMA CacheIsList ==
  ASSUME NEW k, NEW p \in Parts(k), NEW sv \in SubviewsFor(k), NEW f, NEW s, NEW tr
  PROVE  IsList(Project(p, f, s, sv, tr)) /\ Len(Project(p, f, s, sv, tr)) \in Nat
  BY ProjectFacts

\* recompute_visible and its like, from any cursor.
LEMMA RecomputeKeeps ==
  ASSUME NEW sel \in Nat, NEW off \in Nat, kind' = kind, kind \in AllKinds, sub' \in SubviewsFor(kind),
         part' \in Parts(kind), filter' \in 0..MaxFilterLen, Recompute(sel, off)
  PROVE  TableInv'
<1> DEFINE c == IF kind \in Cached THEN Project(part', filter', sort', sub', tree') ELSE << >>
<1>1. cache' = c
  BY DEF Recompute
<1>2. Len(cache') \in Nat
  <2>1. Len(Project(part', filter', sort', sub', tree')) \in Nat
    BY CacheIsList
  <2>2. Len(<< >>) = 0
    OBVIOUS
  <2> QED
    BY <1>1, <2>1, <2>2
<1>3. selected' \in Nat /\ scroll' \in Nat /\ (kind = "processes" => CursorIn(selected', Len(cache')))
  BY <1>2, ClampFacts DEF Recompute
<1> QED
  BY <1>1, <1>3 DEF TableInv, Cached, AllKinds

\* after_filter_change.
LEMMA FilterKeeps ==
  ASSUME NEW immediate \in BOOLEAN, TableInv, UNCHANGED <<kind, part, sort, sub, tree>>,
         filter' \in 0..MaxFilterLen, AfterFilterChange(immediate)
  PROVE  TableInv'
<1>0. kind \in AllKinds /\ part \in Parts(kind) /\ sub \in SubviewsFor(kind) /\ selected \in Nat
  BY DEF TableInv
<1>1. /\ kind \in Cached => \E f \in 0..MaxFilterLen : cache' = Project(part, f, sort, sub, tree)
      /\ kind \notin Cached => cache' = << >>
  <2>1. CASE kind = "processes" /\ ~immediate /\ last_filter_change = "recent"
    BY <2>1 DEF AfterFilterChange, TableInv, Cached
  <2>2. CASE ~(kind = "processes" /\ ~immediate /\ last_filter_change = "recent")
    <3>1. cache' = IF kind \in Cached THEN Project(part, filter', sort, sub, tree) ELSE << >>
      BY <2>2 DEF AfterFilterChange
    <3> QED
      BY <3>1
  <2> QED
    BY <2>1, <2>2
<1>2. IsList(cache')
  <2>1. CASE kind \in Cached
    <3>1. PICK f \in 0..MaxFilterLen : cache' = Project(part, f, sort, sub, tree)
      BY <1>1, <2>1
    <3> QED
      BY <1>0, <3>1, CacheIsList
  <2>2. CASE kind \notin Cached
    <3>1. << >> \in Seq({})
      OBVIOUS
    <3> QED
      BY <1>1, <2>2, <3>1, ListFacts
  <2> QED
    BY <2>1, <2>2
<1>3. PICK n \in Nat : n = Count' /\ (kind = "processes" => n = Len(cache'))
  <2>1. Count' = CountOf(kind, cache', part, filter', sub)
    BY DEF Count, CountOf
  <2>2. CountOf(kind, cache', part, filter', sub) \in Nat
    BY <1>0, <1>2, CountFacts
  <2>3. kind = "processes" => CountOf(kind, cache', part, filter', sub) = Len(cache')
    BY DEF CountOf
  <2> QED
    BY <2>1, <2>2, <2>3
<1>4. selected' = Clamp(selected, n) /\ scroll' = 0
  BY <1>3 DEF AfterFilterChange
<1>5. selected' \in Nat /\ CursorIn(selected', n)
  BY <1>0, <1>4, ClampFacts
<1> QED
  BY <1>0, <1>1, <1>3, <1>4, <1>5 DEF TableInv

\* Steps of the cursor and the viewport, and steps beside the table.
LEMMA CursorKeeps ==
  ASSUME TableInv, UNCHANGED <<kind, part, filter, sort, sub, tree, cache>>, selected' \in Nat, scroll' \in Nat,
         kind = "processes" => CursorIn(selected', Len(cache))
  PROVE  TableInv'
  BY DEF TableInv

\* Sub-views and lists, as the table names them.
LEMMA SubviewsAre == Subviews = SubviewsFor(kind)
  BY DEF Subviews, SubviewsFor

\* One step of the table, action by action.
LEMMA TableStep == TableInv /\ [Next]_vars => TableInv'
<1> SUFFICES ASSUME TableInv, [Next]_vars PROVE TableInv'
  OBVIOUS
<1>0. /\ MaxFilterLen \in Nat /\ kind \in AllKinds /\ part \in Parts(kind) /\ sub \in SubviewsFor(kind)
      /\ filter \in 0..MaxFilterLen /\ selected \in Nat /\ scroll \in Nat
  BY TableAssumption DEF TableInv
<1>n. PICK n \in Nat : n = Count /\ (kind = "processes" => n = Len(cache))
  <2>1. Count = CountOf(kind, cache, part, filter, sub)
    BY DEF Count, CountOf
  <2>2. IsList(cache)
    <3>1. CASE kind \in Cached
      BY <1>0, <3>1, CacheIsList DEF TableInv
    <3>2. CASE kind \notin Cached
      <4>1. << >> \in Seq({})
        OBVIOUS
      <4> QED
        BY <3>2, <4>1, ListFacts DEF TableInv
    <3> QED
      BY <3>1, <3>2
  <2>3. CountOf(kind, cache, part, filter, sub) \in Nat
    BY <1>0, <2>2, CountFacts
  <2>4. kind = "processes" => CountOf(kind, cache, part, filter, sub) = Len(cache)
    BY DEF CountOf
  <2> QED
    BY <2>1, <2>3, <2>4
<1>1. ASSUME NEW p \in NextPart, ApplySnapshot(p) PROVE TableInv'
  <2>1. p \in Parts(kind)
    BY SubviewsAre DEF NextPart, Parts
  <2> QED
    BY <1>0, <1>1, <2>1, RecomputeKeeps DEF ApplySnapshot
<1>2. CASE TogglePause \/ SwitchTab \/ OpenFilter \/ Clock \/ UNCHANGED vars
  <2>1. UNCHANGED <<kind, part, filter, sort, sub, tree, cache, selected, scroll>>
    BY <1>2 DEF TogglePause, SwitchTab, OpenFilter, Clock, vars, table, view
  <2> QED
    BY <1>0, <2>1, CursorKeeps DEF TableInv
<1>3. CASE FilterKey
  <2>0. kind' = kind
    BY <1>3 DEF FilterKey
  <2>1. CASE UNCHANGED <<table, view>>
    <3>1. UNCHANGED <<kind, part, filter, sort, sub, tree, cache, selected, scroll>>
      BY <2>0, <2>1 DEF table, view
    <3> QED
      BY <1>0, <3>1, CursorKeeps DEF TableInv
  <2>2. CASE UNCHANGED <<part, filter, sort, sub, tree>> /\ AfterFilterChange(TRUE)
    BY <1>0, <2>0, <2>2, FilterKeeps
  <2>3. CASE /\ filter' = IF filter = 0 THEN 0 ELSE filter - 1
             /\ UNCHANGED <<part, sort, sub, tree>>
             /\ AfterFilterChange(FALSE)
    <3>1. filter' \in 0..MaxFilterLen
      BY <1>0, <2>3
    <3> QED
      BY <2>0, <2>3, <3>1, FilterKeeps
  <2>4. CASE /\ filter < MaxFilterLen /\ filter' = filter + 1
             /\ UNCHANGED <<part, sort, sub, tree>>
             /\ AfterFilterChange(FALSE)
    <3>1. filter' \in 0..MaxFilterLen
      BY <1>0, <2>4
    <3> QED
      BY <2>0, <2>4, <3>1, FilterKeeps
  <2> QED
    BY <1>3, <2>1, <2>2, <2>3, <2>4 DEF FilterKey
<1>4. ASSUME NEW f \in 0..MaxFilterLen, SetFilter(f) PROVE TableInv'
  BY <1>4, FilterKeeps DEF SetFilter
<1>5. CASE CycleSort
  BY <1>0, <1>5, RecomputeKeeps DEF CycleSort
<1>6. CASE ReverseSort
  BY <1>0, <1>6, RecomputeKeeps DEF ReverseSort
<1>7. ASSUME NEW f, SortBy(f) PROVE TableInv'
  BY <1>0, <1>7, RecomputeKeeps DEF SortBy
<1>8. ASSUME NEW sv \in Subviews, SwitchSubview(sv) PROVE TableInv'
  <2>1. sv \in SubviewsFor(kind) /\ 0 \in 0..MaxFilterLen /\ 0 \in Nat
    BY <1>0, SubviewsAre
  <2> QED
    BY <1>0, <1>8, <2>1, RecomputeKeeps DEF SwitchSubview
<1>9. CASE ToggleTree
  BY <1>0, <1>9, RecomputeKeeps DEF ToggleTree
<1>10. CASE ToggleKubeScope
  <2>1. /\ UNCHANGED <<kind, part, filter, sort, sub, tree, cache>> /\ kind # "processes"
        /\ selected' \in Nat /\ scroll' \in Nat
    BY <1>0, <1>10 DEF ToggleKubeScope, table
  <2> QED
    BY <2>1, CursorKeeps
<1>11. ASSUME NEW d \in Deltas, MoveSelection(d) PROVE TableInv'
  <2>1. UNCHANGED <<kind, part, filter, sort, sub, tree, cache, scroll>> /\ selected' = Within(selected + d, n)
    BY <1>n, <1>11 DEF MoveSelection, table
  <2>2. selected + d \in Int
    BY <1>0, TableAssumption
  <2>3. selected' \in Nat /\ CursorIn(selected', n)
    BY <2>1, <2>2, ClampFacts
  <2> QED
    BY <1>0, <1>n, <2>1, <2>3, CursorKeeps
<1>12. ASSUME NEW d \in Deltas, ScrollRows(d) PROVE TableInv'
  <2>1. /\ UNCHANGED <<kind, part, filter, sort, sub, tree, cache>> /\ scroll' = Within(scroll + d, n)
        /\ selected' = Clamp(IF selected < scroll' THEN scroll' ELSE selected, n)
    BY <1>n, <1>12 DEF ScrollRows, table
  <2>2. scroll + d \in Int
    BY <1>0, TableAssumption
  <2>3. scroll' \in Nat
    BY <2>1, <2>2, ClampFacts
  <2>4. PICK j \in Nat : j = IF selected < scroll' THEN scroll' ELSE selected
    BY <1>0, <2>3
  <2>5. selected' \in Nat /\ CursorIn(selected', n)
    BY <2>1, <2>4, ClampFacts
  <2> QED
    BY <1>n, <2>1, <2>3, <2>5, CursorKeeps
<1>13. ASSUME NEW i \in {0, Count - 1}, SelectIndex(i) PROVE TableInv'
  <2>1. /\ UNCHANGED <<kind, part, filter, sort, sub, tree, cache, scroll>> /\ selected' = Clamp(i, n)
        /\ n > 0 /\ i \in Nat
    BY <1>n, <1>13 DEF SelectIndex, table
  <2>2. selected' \in Nat /\ CursorIn(selected', n)
    BY <2>1, ClampFacts
  <2> QED
    BY <1>0, <1>n, <2>1, <2>2, CursorKeeps
<1> QED
  BY <1>1, <1>2, <1>3, <1>4, <1>5, <1>6, <1>7, <1>8, <1>9, <1>10, <1>11, <1>12, <1>13 DEF Next, Snapshot

\* The invariant holds from the first frame on.
LEMMA TableInductive == Spec => []TableInv
<1>1. Init => TableInv
  <2> SUFFICES ASSUME Init PROVE TableInv
    OBVIOUS
  <2>1. /\ kind \in AllKinds /\ part = Absent /\ sub = 0 /\ cache = << >> /\ selected = 0 /\ scroll = 0
        /\ MaxFilterLen \in Nat
    BY TableAssumption DEF Init
  <2>2. filter \in 0..MaxFilterLen
    <3>1. filter \in IF kind = "processes" THEN 0..MaxFilterLen ELSE {0}
      BY DEF Init
    <3> QED
      BY <2>1, <3>1
  <2>3. sub \in SubviewsFor(kind) /\ part \in Parts(kind)
    BY <2>1 DEF SubviewsFor, Parts
  <2>4. cache = Project(part, filter, sort, sub, tree)
    BY <2>1 DEF Project
  <2>5. CursorIn(selected, Len(cache))
    BY <2>1 DEF CursorIn
  <2> QED
    BY <2>1, <2>2, <2>3, <2>4, <2>5 DEF TableInv
<1> QED
  BY <1>1, TableStep, PTL DEF Spec

-----------------------------------------------------------------------------
(* The screen.                                                             *)

\* No row passes a filter it is held against: the table has none, or a text is typed.
LEMMA NoneMatch ==
  ASSUME NEW k, NEW p \in Parts(k), NEW sv \in SubviewsFor(k)
  PROVE  /\ Matching(p, 0, sv) = << >> => Rows(p, sv) = << >>
         /\ \A f : Rows(p, sv) = << >> => Matching(p, f, sv) = << >>
<1> DEFINE R == Rows(p, sv)
<1>1. R \in Seq(Nat \ {0}) /\ Len(R) \in Nat /\ (Len(R) = 0 => R = << >>)
  BY RowsFacts
<1>2. \A i \in 1..Len(R) : R[i] \in Nat \ {0}
  BY <1>1
<1>3. \A f : Matching(p, f, sv) = << >> <=> \A i \in 1..Len(R) : ~NameMatches(R[i], f)
  BY ProjectFacts
<1> HIDE DEF R
<1>4. \A i \in 1..Len(R) : NameMatches(R[i], 0)
  BY <1>2 DEF NameMatches
<1>5. Matching(p, 0, sv) = << >> => Len(R) = 0
  <2> SUFFICES ASSUME Matching(p, 0, sv) = << >>, Len(R) # 0 PROVE FALSE
    OBVIOUS
  <2>1. 1 \in 1..Len(R)
    BY <1>1
  <2> QED
    BY <1>3, <1>4, <2>1
<1>6. R = << >> => Len(R) = 0
  OBVIOUS
<1>7. \A f : Len(R) = 0 => Matching(p, f, sv) = << >>
  BY <1>3
<1> QED
  BY <1>1, <1>5, <1>6, <1>7 DEF R

\* What the screen shows is a list, as long as the cursor keys believe but for the GPU tab,
\* and empty only for a reason.
LEMMA ShownFacts ==
  ASSUME TableInv, IInv
  PROVE  /\ IsList(Shown) /\ Len(Shown) \in Nat /\ (Shown = << >> <=> Len(Shown) = 0)
         /\ kind # "gpu" => Count = Len(Shown)
         /\ kind = "processes" => Shown = cache
         /\ Rows(part, sub) = << >> => Shown = << >>
         /\ Shown = << >> => Lags \/ Matching(part, filter, sub) = << >>
         /\ Shown = << >> /\ filter = 0 => Lags \/ Rows(part, sub) = << >>
<1>0. /\ kind \in AllKinds /\ part \in Parts(kind) /\ sub \in SubviewsFor(kind) /\ filter \in 0..MaxFilterLen
  BY DEF TableInv
<1>1. \A l : IsList(l) => Len(l) \in Nat /\ (l = << >> <=> Len(l) = 0)
  BY DEF IsList
<1>2. \A f : /\ IsList(Project(part, f, sort, sub, tree)) /\ IsList(Project(part, f, sort, sub, FALSE))
             /\ Len(Matching(part, f, sub)) \in Nat /\ (Matching(part, f, sub) = << >> <=> Len(Matching(part, f, sub)) = 0)
             /\ Len(Project(part, f, sort, sub, tree)) = Len(Matching(part, f, sub))
             /\ Len(Project(part, f, sort, sub, FALSE)) = Len(Matching(part, f, sub))
  <2> TAKE f
  <2>1. Matching(part, f, sub) \in Seq(Nat \ {0})
    BY <1>0, ProjectFacts
  <2>2. IsList(Matching(part, f, sub))
    BY <2>1, ListFacts
  <2> QED
    BY <1>0, <1>1, <2>2, ProjectFacts
<1>3. /\ Matching(part, 0, sub) = << >> => Rows(part, sub) = << >>
      /\ \A f : Rows(part, sub) = << >> => Matching(part, f, sub) = << >>
  BY <1>0, NoneMatch
<1>4. CASE kind = "processes"
  <2>1. Shown = cache /\ Count = Len(cache)
    BY <1>4 DEF Shown, Count, Cached
  <2>2. PICK f \in 0..MaxFilterLen : cache = Project(part, f, sort, sub, tree)
    BY <1>4 DEF TableInv, Cached
  <2>3. Lags \/ cache = Project(part, filter, sort, sub, tree)
    BY <1>4 DEF Lags
  <2>4. IsList(cache) /\ Len(cache) \in Nat /\ (cache = << >> <=> Len(cache) = 0)
    BY <1>1, <1>2, <2>2
  <2>5. Rows(part, sub) = << >> => cache = << >>
    BY <1>1, <1>2, <1>3, <2>2
  <2>6. cache = << >> => Lags \/ Matching(part, filter, sub) = << >>
    BY <1>1, <1>2, <2>3
  <2> QED
    BY <1>3, <1>4, <2>1, <2>4, <2>5, <2>6
<1>5. CASE kind \in {"containers", "kube"}
  <2>1. Shown = cache /\ cache = Project(part, filter, sort, sub, tree)
    BY <1>5 DEF Shown, Cached, IInv, CachesCurrent
  <2>2. Count = Len(cache) \/ Count = Len(Matching(part, filter, sub))
    BY <1>5 DEF Count
  <2>3. IsList(cache) /\ Len(cache) \in Nat /\ Len(cache) = Len(Matching(part, filter, sub))
        /\ (cache = << >> <=> Len(cache) = 0)
    BY <1>1, <1>2, <2>1
  <2>4. cache = << >> <=> Matching(part, filter, sub) = << >>
    BY <1>2, <2>3
  <2> QED
    BY <1>3, <1>5, <2>1, <2>2, <2>3, <2>4
<1>6. CASE kind = "network"
  <2>1. Shown = Project(part, filter, sort, sub, FALSE) /\ Count = Len(Matching(part, filter, sub))
    BY <1>6 DEF Shown, Count, Cached
  <2>3. IsList(Shown) /\ Len(Shown) \in Nat /\ Len(Shown) = Len(Matching(part, filter, sub))
        /\ (Shown = << >> <=> Len(Shown) = 0)
    BY <1>1, <1>2, <2>1
  <2>4. Shown = << >> <=> Matching(part, filter, sub) = << >>
    BY <1>2, <2>3
  <2> QED
    BY <1>3, <1>6, <2>1, <2>3, <2>4
<1>7. CASE kind = "gpu"
  <2> DEFINE R == Rows(part, sub)
             at == {k \in DOMAIN R : \/ NameMatches(R[k], filter)
                                     \/ sub = 0 /\ OtherFieldMatches(R[k], filter)}
             q == Passing(R, at)
  <2>1. Shown = Ordered(q, sort)
    BY <1>7 DEF Shown, Cached
  <2>2. R \in Seq(Nat \ {0}) /\ Len(R) \in Nat /\ DOMAIN R = 1..Len(R)
    BY <1>0, RowsFacts
  <2>3. \A k \in 1..Len(R) : NameMatches(R[k], filter) => k \in at
    BY <2>2
  <2>4. R = << >> => Len(R) = 0
    OBVIOUS
  <2> HIDE DEF at, R
  <2>5. q \in Seq(Nat \ {0}) /\ (q = << >> <=> \A k \in 1..Len(R) : k \notin at)
    BY <2>2, PassingFacts
  <2> HIDE DEF q
  <2>6. IsList(Shown) /\ Len(Shown) = Len(q)
    BY <2>1, <2>5, OrderedFacts
  <2>7. Len(q) \in Nat /\ (q = << >> <=> Len(q) = 0)
    BY <2>5
  <2>8. Matching(part, filter, sub) = << >> <=> \A k \in 1..Len(R) : ~NameMatches(R[k], filter)
    BY <1>0, ProjectFacts DEF R
  <2>9. Shown = << >> <=> q = << >>
    BY <1>1, <2>6, <2>7
  <2>10. R = << >> => q = << >>
    BY <2>4, <2>5
  <2>11. q = << >> => Matching(part, filter, sub) = << >>
    BY <2>3, <2>5, <2>8
  <2> QED
    BY <1>1, <1>3, <1>7, <2>6, <2>9, <2>10, <2>11 DEF R
<1> QED
  BY <1>0, <1>4, <1>5, <1>6, <1>7 DEF AllKinds

\* The rows, the cursor and the scrollbar, for every height of the terminal.
LEMMA OnScreen ==
  ASSUME TableInv, IInv
  PROVE  RowsOnScreen
<1>0. selected \in Nat /\ scroll \in Nat /\ MaxHeight \in Nat
  BY ScreenAssumption DEF TableInv
<1>1. PICK total \in Nat : total = Len(Shown)
  BY ShownFacts
<1>2. kind # "gpu" => Count = total
  BY <1>1, ShownFacts
<1>3. kind = "processes" /\ total > 0 => selected < total
  BY <1>0, <1>1, ShownFacts DEF TableInv, CursorIn
<1>4. ASSUME NEW height \in 2..MaxHeight
      PROVE  LET body  == height - 1
                 first == ViewportOffset(selected, scroll, body)
                 thumb == ScrollThumb(total, body, first, body)
             IN  /\ Drawn(height) \subseteq 0..(total - 1) /\ Cardinality(Drawn(height)) <= body
                 /\ kind = "processes" /\ total > 0 => selected \in Drawn(height)
                 /\ thumb.start + thumb.len <= body
                 /\ thumb.len > 0 =>
                      /\ NeedsScrollbar(total, 5, height)
                      /\ 0 \in Drawn(height) => thumb.start = 0
                      /\ total - 1 \in Drawn(height) => thumb.start + thumb.len = body
  <2>1. PICK body \in Nat : body = height - 1 /\ body > 0 /\ height = body + 1
    <3>1. height - 1 \in Nat /\ height - 1 > 0 /\ height = (height - 1) + 1
      BY <1>0
    <3> QED
      BY <3>1
  <2> DEFINE first == ViewportOffset(selected, scroll, body)
             drawn == DrawnRows(total, selected, scroll, body + 1)
             thumb == ScrollThumb(total, body, first, body)
  <2>2. Drawn(height) = drawn
    BY <1>1, <2>1 DEF Drawn
  <2>3. /\ first \in Nat
        /\ drawn \subseteq 0..(total - 1) /\ Cardinality(drawn) <= body
        /\ selected < total => selected \in drawn
        /\ 0 \in drawn => first = 0
        /\ total - 1 \in drawn => first + body >= total
    <3>1. DrawnWell(total, selected, scroll, body)
      BY <1>0, <2>1, DrawnFacts
    <3> QED
      BY <3>1 DEF DrawnWell
  <2> HIDE DEF first, drawn
  <2>4. /\ thumb.start \in Nat /\ thumb.len \in Nat /\ thumb.start + thumb.len <= body
        /\ thumb.len > 0 => total > body
        /\ thumb.len > 0 /\ first = 0 => thumb.start = 0
        /\ thumb.len > 0 /\ first + body >= total => thumb.start + thumb.len = body
    BY <2>1, <2>3, ThumbFacts
  <2>5. total > body => NeedsScrollbar(total, 5, height)
    BY <2>1 DEF NeedsScrollbar, Minus
  <2> HIDE DEF thumb
  <2>6. /\ drawn \subseteq 0..(total - 1) /\ Cardinality(drawn) <= body
        /\ kind = "processes" /\ total > 0 => selected \in drawn
        /\ thumb.start + thumb.len <= body
        /\ thumb.len > 0 =>
             /\ NeedsScrollbar(total, 5, height)
             /\ 0 \in drawn => thumb.start = 0
             /\ total - 1 \in drawn => thumb.start + thumb.len = body
    BY <1>3, <2>3, <2>4, <2>5
  <2> QED
    BY <2>1, <2>2, <2>6 DEF thumb, first
<1> QED
  BY <1>1, <1>2, <1>4 DEF RowsOnScreen

\* What is said of a table, when it follows from what is there.
SaysTrue(v, tab, status) ==
  /\ v = RowsDrawn <=> Shown # << >>
  /\ v = NoMatch => filter > 0 /\ (Lags \/ Matching(part, filter, sub) = << >>)
  /\ v = Empty => Lags \/ Rows(part, sub) = << >>
  /\ v = Waiting => part = Absent /\ (status = "no snapshot" \/ ~MayLackEngine(tab, status))
  /\ v.level = "error" => part # Absent /\ Rows(part, sub) = << >>
  /\ v \in {RowsDrawn, NoMatch, Empty} => TabAvailable(tab, status)
  /\ TabCount(tab, status, Len(Shown)) # NoCount <=>
       v.says \in {"rows", "no match", "empty", "not permitted", "not counted"}
  /\ status # "no snapshot" =>
       (Card(tab, status, FALSE, 0, -1).level = "error" => v.level = "error")

\* A table that is there: its rows, or why there are none.
LEMMA TableSaysTrue ==
  ASSUME TableInv, IInv, NEW tab, TabAvailable(tab, "up"), Card(tab, "up", FALSE, 0, -1).level # "error"
  PROVE  SaysTrue(TableOr(NothingToShow(filter > 0), Len(Shown)), tab, "up")
<1> DEFINE v == TableOr(NothingToShow(filter > 0), Len(Shown))
<1>0. /\ Len(Shown) \in Nat /\ (Shown = << >> <=> Len(Shown) = 0)
      /\ Shown = << >> => Lags \/ Matching(part, filter, sub) = << >>
      /\ Shown = << >> /\ filter = 0 => Lags \/ Rows(part, sub) = << >>
  BY ShownFacts
<1>1. filter \in Nat
  BY TableAssumption DEF TableInv
<1>2. TabCount(tab, "up", Len(Shown)) # NoCount
  BY <1>0 DEF TabCount, NoCount
<1>3. /\ RowsDrawn.says = "rows" /\ RowsDrawn.level = "none" /\ NoMatch.says = "no match" /\ NoMatch.level = "neutral"
      /\ Empty.says = "empty" /\ Empty.level = "neutral" /\ Waiting.says = "waiting"
  BY DEF RowsDrawn, NoMatch, Empty, Waiting, Placeholder
<1>4. CASE Len(Shown) > 0
  <2>1. v = RowsDrawn
    BY <1>4 DEF TableOr
  <2>2. SaysTrue(RowsDrawn, tab, "up")
    <3>1. Shown # << >>
      BY <1>0, <1>4
    <3>2. RowsDrawn # NoMatch /\ RowsDrawn # Empty /\ RowsDrawn # Waiting
      BY <1>3
    <3> QED
      BY <1>2, <1>3, <3>1, <3>2 DEF SaysTrue
  <2> QED
    BY <2>1, <2>2
<1>5. CASE Len(Shown) = 0 /\ filter > 0
  <2>1. v = NoMatch
    BY <1>5 DEF TableOr, NothingToShow
  <2>2. SaysTrue(NoMatch, tab, "up")
    BY <1>0, <1>2, <1>3, <1>5 DEF SaysTrue
  <2> QED
    BY <2>1, <2>2
<1>6. CASE Len(Shown) = 0 /\ filter = 0
  <2>1. v = Empty
    BY <1>6 DEF TableOr, NothingToShow
  <2>2. SaysTrue(Empty, tab, "up")
    BY <1>0, <1>2, <1>3, <1>6 DEF SaysTrue
  <2> QED
    BY <2>1, <2>2
<1> QED
  BY <1>0, <1>1, <1>4, <1>5, <1>6

\* No rows and no table: a reason that fits the slot of the snapshot.
LEMMA ReasonTrue ==
  ASSUME TableInv, IInv, NEW tab, NEW status, NEW v, Rows(part, sub) = << >>,
         v.says \notin {"rows", "no match", "empty", "not permitted", "not counted"},
         v.says = "waiting" => part = Absent /\ (status = "no snapshot" \/ ~MayLackEngine(tab, status)),
         v.level = "error" => part # Absent,
         TabCount(tab, status, 0) = NoCount,
         status # "no snapshot" => (Card(tab, status, FALSE, 0, -1).level = "error" => v.level = "error")
  PROVE  SaysTrue(v, tab, status)
<1>1. Shown = << >> /\ Len(Shown) = 0
  BY ShownFacts
<1>2. RowsDrawn.says = "rows" /\ NoMatch.says = "no match" /\ Empty.says = "empty" /\ Waiting.says = "waiting"
  BY DEF RowsDrawn, NoMatch, Empty, Waiting, Placeholder
<1>3. v # RowsDrawn /\ v # NoMatch /\ v # Empty
  BY <1>2
<1> QED
  BY <1>1, <1>2, <1>3 DEF SaysTrue

\* The status of a slot, and what follows from it.
LEMMA StatusFacts ==
  ASSUME TableInv, NEW status \in Statuses
  PROVE  /\ kind \in {"processes", "network"} =>
              status = "up" \/ (status = "no snapshot" /\ part = Absent)
         /\ kind \notin {"processes", "network"} =>
              \/ status \in {"no snapshot", "none"} /\ part = Absent
              \/ status = "up" /\ part # Absent
              \/ status = "down" /\ part # Absent /\ Rows(part, sub) = << >>
         /\ part = Absent => Rows(part, sub) = << >>
<1>1. part = Absent => Rows(part, sub) = << >>
  BY DEF Rows
<1>2. CASE kind \in {"processes", "network"}
  BY <1>1, <1>2 DEF Statuses
<1>3. CASE kind \notin {"processes", "network"} /\ part = Absent
  BY <1>1, <1>3 DEF Statuses
<1>4. CASE kind \notin {"processes", "network"} /\ part # Absent
  <2>1. sub \in Subviews
    BY SubviewsAre DEF TableInv
  <2>2. status = "up" \/ (status = "down" /\ \A sv \in Subviews : part[sv] = << >>)
    BY <1>4 DEF Statuses
  <2>3. status = "down" => Rows(part, sub) = << >>
    BY <1>4, <2>1, <2>2 DEF Rows
  <2> QED
    BY <1>4, <2>2, <2>3
<1> QED
  BY <1>1, <1>2, <1>3, <1>4

\* What a tab without rows says is so, whatever it is the tab of.
LEMMA ViewsTrue ==
  ASSUME TableInv, IInv
  PROVE  PlaceholderTrue
<1> SUFFICES ASSUME NEW status \in Statuses, NEW scoped \in BOOLEAN, NEW counts \in BOOLEAN
             PROVE  SaysTrue(View(status, scoped, counts), kind, status)
  BY DEF PlaceholderTrue, SaysTrue
<1> DEFINE v == View(status, scoped, counts)
           shows == TableOr(NothingToShow(filter > 0), Len(Shown))
<1>0. kind \in AllKinds
  BY DEF TableInv
<1>1. Waiting.says = "waiting" /\ Waiting.level = "info"
  BY DEF Waiting, Placeholder
<1>2. CASE kind \in {"processes", "network"}
  <2>1. Card(kind, "up", FALSE, 0, -1).level # "error" /\ TabAvailable(kind, "up")
    BY <1>2 DEF Card, Placeholder, TabAvailable
  <2>2. CASE status = "up"
    <3>1. v = shows
      BY <1>2, <2>2 DEF View, ProcessesView, NetworkView
    <3> QED
      BY <2>1, <2>2, <3>1, TableSaysTrue
  <2>3. CASE status = "no snapshot" /\ part = Absent
    <3>1. v = Waiting
      BY <1>2, <2>3 DEF View, ProcessesView, NetworkView
    <3>2. TabCount(kind, status, 0) = NoCount /\ Rows(part, sub) = << >>
      BY <2>3, StatusFacts DEF TabCount
    <3> QED
      BY <1>1, <2>3, <3>1, <3>2, ReasonTrue
  <2> QED
    BY <1>2, <2>2, <2>3, StatusFacts
<1>3. CASE kind = "containers"
  <2>1. CASE status = "up" /\ part # Absent
    <3>1. v = shows
      BY <1>3, <2>1 DEF View, ContainersView
    <3>2. Card(kind, "up", FALSE, 0, -1).level # "error" /\ TabAvailable(kind, "up")
      BY <1>3 DEF Card, Placeholder, TabAvailable
    <3> QED
      BY <2>1, <3>1, <3>2, TableSaysTrue
  <2>2. CASE status = "no snapshot" /\ part = Absent
    <3>1. v = Waiting
      BY <1>3, <2>2 DEF View, ContainersView
    <3>2. TabCount(kind, status, 0) = NoCount /\ Rows(part, sub) = << >>
      BY <2>2, StatusFacts DEF TabCount
    <3> QED
      BY <1>1, <2>2, <3>1, <3>2, ReasonTrue
  <2>3. CASE status = "none" /\ part = Absent
    <3>1. v.says = "no engine" /\ v.level = "neutral"
      BY <1>3, <2>3 DEF View, ContainersView, Placeholder
    <3>2. TabCount(kind, status, 0) = NoCount /\ Rows(part, sub) = << >>
      BY <1>3, <2>3, StatusFacts DEF TabCount, TabAvailable
    <3>3. Card(kind, status, FALSE, 0, -1).level # "error"
      BY <1>3, <2>3 DEF Card, Placeholder
    <3> QED
      BY <2>3, <3>1, <3>2, <3>3, ReasonTrue
  <2>4. CASE status = "down" /\ part # Absent /\ Rows(part, sub) = << >>
    <3>1. v.says = "unavailable" /\ v.level = "error"
      BY <1>3, <2>4 DEF View, ContainersView, Placeholder
    <3>2. TabCount(kind, status, 0) = NoCount
      BY <1>3, <2>4 DEF TabCount, TabAvailable
    <3> QED
      BY <2>4, <3>1, <3>2, ReasonTrue
  <2> QED
    BY <1>3, <2>1, <2>2, <2>3, <2>4, StatusFacts
<1>4. CASE kind = "kube"
  <2>1. CASE status = "up" /\ part # Absent
    <3>1. Card(kind, "up", FALSE, 0, -1).level # "error" /\ TabAvailable(kind, "up")
      BY <1>4 DEF Card, Placeholder, TabAvailable
    <3>2. sub \in {0, 1, 2}
      BY <1>4 DEF TableInv, SubviewsFor
    <3>3. CASE v = shows
      BY <2>1, <3>1, <3>3, TableSaysTrue
    <3>4. CASE v # shows
      <4>1. /\ sub = 1 /\ scoped /\ ~(filter > 0)
            /\ v = TableOr(Placeholder("not permitted", "error"), Len(Shown))
        <5>1. v = KubeView("up", Len(Shown), filter > 0, sub, scoped)
          BY <1>4, <2>1 DEF View
        <5>2. sub = 0 => v = shows
          BY <5>1 DEF KubeView, PodsView
        <5>3. sub = 2 => v = shows
          BY <5>1 DEF KubeView, DeploymentsView
        <5>4. sub = 1 => v = NodesView(Len(Shown), filter > 0, scoped)
          BY <5>1 DEF KubeView
        <5> HIDE DEF v
        <5>5. sub = 1 /\ v = NodesView(Len(Shown), filter > 0, scoped)
          BY <3>2, <3>4, <5>2, <5>3, <5>4
        <5>6. scoped /\ ~(filter > 0)
          BY <3>4, <5>5 DEF NodesView
        <5> QED
          BY <5>5, <5>6 DEF NodesView
      <4>2. Len(Shown) \in Nat /\ ~(Len(Shown) > 0)
        BY <3>4, <4>1, ShownFacts DEF TableOr
      <4>3. v.says = "not permitted" /\ v.level = "error"
        <5>1. v = Placeholder("not permitted", "error")
          BY <4>1, <4>2 DEF TableOr
        <5> HIDE DEF v
        <5> QED
          BY <5>1 DEF Placeholder
      <4>4. Shown = << >> /\ filter = 0
        <5>1. filter \in Nat
          BY TableAssumption DEF TableInv
        <5> HIDE DEF v
        <5>2. Len(Shown) = 0
          BY <4>2
        <5>3. filter = 0
          <6>1. \A n \in Nat : ~(n > 0) => n = 0
            OBVIOUS
          <6> QED
            BY <4>1, <5>1, <6>1, Zenon
        <5> QED
          BY <5>2, <5>3, ShownFacts
      <4>5. Rows(part, sub) = << >>
        BY <1>4, <4>4, ShownFacts DEF Lags
      <4>6. TabCount(kind, status, Len(Shown)) # NoCount
        BY <2>1, <3>1, <4>2 DEF TabCount, NoCount
      <4>7. /\ RowsDrawn.says = "rows" /\ NoMatch.says = "no match" /\ Empty.says = "empty"
        BY DEF RowsDrawn, NoMatch, Empty, Placeholder
      <4>8. v # RowsDrawn /\ v # NoMatch /\ v # Empty /\ v # Waiting
        BY <1>1, <4>3, <4>7
      <4>9. SaysTrue(v, kind, status)
        <5> HIDE DEF v
        <5> QED
          BY <2>1, <4>3, <4>4, <4>5, <4>6, <4>8 DEF SaysTrue
      <4> QED
        BY <4>9
    <3> QED
      BY <3>3, <3>4
  <2>2. CASE status \in {"no snapshot", "none"} /\ part = Absent
    <3>1. v = Waiting
      BY <1>4, <2>2 DEF View, KubeView
    <3>2. TabCount(kind, status, 0) = NoCount /\ Rows(part, sub) = << >>
      BY <1>4, <2>2, StatusFacts DEF TabCount, TabAvailable
    <3>3. status = "none" => Card(kind, status, FALSE, 0, -1).level # "error"
      BY <1>4 DEF Card, Placeholder
    <3>4. status = "no snapshot" \/ ~MayLackEngine(kind, status)
      BY <1>4, <2>2 DEF MayLackEngine
    <3> QED
      BY <1>1, <2>2, <3>1, <3>2, <3>3, <3>4, ReasonTrue
  <2>3. CASE status = "down" /\ part # Absent /\ Rows(part, sub) = << >>
    <3>1. v.says = "unavailable" /\ v.level = "error"
      BY <1>4, <2>3 DEF View, KubeView, Placeholder
    <3>2. TabCount(kind, status, 0) = NoCount
      BY <1>4, <2>3 DEF TabCount, TabAvailable
    <3> QED
      BY <2>3, <3>1, <3>2, ReasonTrue
  <2> QED
    BY <1>4, <2>1, <2>2, <2>3, StatusFacts
<1>5. CASE kind = "gpu"
  <2>0. \A st \in {"none", "down", "up"} : Card(kind, st, FALSE, 0, -1).level # "error"
    BY <1>5 DEF Card, Placeholder
  <2>1. CASE status = "up" /\ part # Absent
    <3>1. Card(kind, "up", FALSE, 0, -1).level # "error" /\ TabAvailable(kind, "up")
      BY <1>5, <2>0 DEF TabAvailable
    <3>2. CASE v = shows
      BY <2>1, <3>1, <3>2, TableSaysTrue
    <3>3. CASE v # shows
      <4>1. Len(Rows(part, sub)) = 0 /\ v = Placeholder("not counted", "neutral")
        BY <1>5, <2>1, <3>3 DEF View, GpuView, DevicesView, ProcsView
      <4>2. Rows(part, sub) = << >>
        <5>1. Rows(part, sub) \in Seq(Nat \ {0})
          BY RowsFacts DEF TableInv
        <5>2. \A r \in Seq(Nat \ {0}) : Len(r) = 0 => r = << >>
          OBVIOUS
        <5> HIDE DEF v
        <5> QED
          BY <4>1, <5>1, <5>2, Zenon
      <4>3. Shown = << >> /\ Len(Shown) = 0
        BY <4>2, ShownFacts
      <4>4. v.says = "not counted" /\ v.level = "neutral"
        <5> HIDE DEF v
        <5> QED
          BY <4>1 DEF Placeholder
      <4>5. TabCount(kind, status, Len(Shown)) # NoCount
        BY <2>1, <3>1, <4>3 DEF TabCount, NoCount
      <4>6. /\ RowsDrawn.says = "rows" /\ NoMatch.says = "no match" /\ Empty.says = "empty"
        BY DEF RowsDrawn, NoMatch, Empty, Placeholder
      <4>7. v # RowsDrawn /\ v # NoMatch /\ v # Empty /\ v # Waiting
        BY <1>1, <4>4, <4>6
      <4>8. SaysTrue(v, kind, status)
        <5> HIDE DEF v
        <5> QED
          BY <2>1, <3>1, <4>3, <4>4, <4>5, <4>7 DEF SaysTrue
      <4> QED
        BY <4>8
    <3> QED
      BY <3>2, <3>3
  <2>2. CASE status \in {"no snapshot", "none"} /\ part = Absent
    <3>1. v = Waiting
      BY <1>5, <2>2 DEF View, GpuView
    <3>2. TabCount(kind, status, 0) = NoCount /\ Rows(part, sub) = << >>
      BY <1>5, <2>2, StatusFacts DEF TabCount, TabAvailable
    <3>3. status = "no snapshot" \/ ~MayLackEngine(kind, status)
      BY <1>5, <2>2 DEF MayLackEngine
    <3> QED
      BY <1>1, <2>0, <2>2, <3>1, <3>2, <3>3, ReasonTrue
  <2>3. CASE status = "down" /\ part # Absent /\ Rows(part, sub) = << >>
    <3>1. v.says = "unavailable" /\ v.level = "neutral"
      BY <1>5, <2>3 DEF View, GpuView, Placeholder
    <3>2. TabCount(kind, status, 0) = NoCount
      BY <1>5, <2>3 DEF TabCount, TabAvailable
    <3> QED
      BY <2>0, <2>3, <3>1, <3>2, ReasonTrue
  <2> QED
    BY <1>5, <2>1, <2>2, <2>3, StatusFacts
<1> QED
  BY <1>0, <1>2, <1>3, <1>4, <1>5 DEF AllKinds

\* For every size of the terminal, any rows, any filter and any order of keys, wheel and
\* snapshots: what table::draw puts on screen are rows of the table, the process cursor
\* among them, the thumb of scrollbar::vertical stays in its track and reaches its ends with
\* the rows, and a tab without rows, the tab bar and the dashboard say why, and truly.
THEOREM TableDrawnForAll == Spec => []TableDrawn
<1>1. TableInv /\ IInv => TableDrawn
  BY OnScreen, ViewsTrue DEF TableDrawn
<1> QED
  BY <1>1, TableInductive, Inductive, PTL
-----------------------------------------------------------------------------
(* Stable sorts.                                                           *)

\* What Ranked orders: finitely many numbers, each with a number for a key.
Rankable(key) ==
  /\ IsFiniteSet(DOMAIN key) /\ DOMAIN key \subseteq Nat
  /\ \A i \in DOMAIN key : key[i] \in Int

Sooner(key, i, j) == key[i] < key[j] \/ (key[i] = key[j] /\ i < j)

\* What it returns: every position once, each before those that go after it.
InOrder(at, key) ==
  /\ at \in [1..Cardinality(DOMAIN key) -> DOMAIN key]
  /\ \A i \in DOMAIN key : \E k \in DOMAIN at : at[k] = i
  /\ \A j, k \in DOMAIN at : j < k => Sooner(key, at[j], at[k])
  /\ \A j, k \in DOMAIN at : at[j] = at[k] => j = k

\* A stable sort is one.
LEMMA RankedFacts ==
  ASSUME NEW key, Rankable(key)
  PROVE  InOrder(Ranked(key), key) /\ Cardinality(DOMAIN key) \in Nat
<1> DEFINE S == DOMAIN key
           Less(i) == {j \in S : Sooner(key, j, i)}
           place == [i \in S |-> Cardinality(Less(i)) + 1]
           n == Cardinality(S)
           at == Ranked(key)
<1>1. n \in Nat /\ IsFiniteSet(S) /\ S \subseteq Nat
  BY FS_CardinalityType DEF Rankable
<1>2. \A i, j \in S : i # j => Sooner(key, i, j) \/ Sooner(key, j, i)
  BY <1>1 DEF Rankable, Sooner
<1>3. \A i, j, k \in S : Sooner(key, i, j) /\ Sooner(key, j, k) => Sooner(key, i, k)
  BY <1>1 DEF Rankable, Sooner
<1>4. \A i \in S : ~Sooner(key, i, i)
  BY <1>1 DEF Rankable, Sooner
<1>5. ASSUME NEW i \in S
      PROVE  IsFiniteSet(Less(i)) /\ Cardinality(Less(i)) \in Nat /\ Cardinality(Less(i)) < n
  <2>1. Less(i) \in SUBSET S /\ Less(i) # S
    BY <1>4
  <2> HIDE DEF Less
  <2>2. IsFiniteSet(Less(i)) /\ Cardinality(Less(i)) <= n /\ Cardinality(Less(i)) # n
    BY <1>1, <2>1, FS_Subset
  <2>3. Cardinality(Less(i)) \in Nat
    BY <2>2, FS_CardinalityType
  <2> QED
    BY <1>1, <2>2, <2>3
<1>6. ASSUME NEW i \in S, NEW j \in S, Sooner(key, i, j)
      PROVE  Cardinality(Less(i)) < Cardinality(Less(j))
  <2>1. Less(i) \in SUBSET Less(j) /\ Less(i) # Less(j)
    BY <1>3, <1>4, <1>6
  <2> HIDE DEF Less
  <2>2. Cardinality(Less(i)) <= Cardinality(Less(j)) /\ Cardinality(Less(i)) # Cardinality(Less(j))
    BY <1>5, <2>1, FS_Subset
  <2> QED
    BY <1>5, <2>2
<1> HIDE DEF Less
<1>7. /\ place \in [S -> 1..n]
      /\ \A i, j \in S : Sooner(key, i, j) => place[i] < place[j]
  <2>1. \A i \in S : Cardinality(Less(i)) + 1 \in 1..n
    BY <1>1, <1>5
  <2>2. \A i, j \in S : Sooner(key, i, j) => Cardinality(Less(i)) + 1 < Cardinality(Less(j)) + 1
    BY <1>5, <1>6
  <2> QED
    BY <2>1, <2>2
<1> HIDE DEF place
<1>8. \A i, j \in S : place[i] = place[j] => i = j
  BY <1>1, <1>2, <1>7
<1>9. place \in Injection(S, 1..n)
  BY <1>7, <1>8 DEF Injection, IsInjective
<1>10. IsFiniteSet(1..n) /\ Cardinality(1..n) = n
  BY <1>1, FS_Interval
<1>11. place \in Surjection(S, 1..n)
  BY <1>9, <1>10, FS_Injection
<1>12. \A k \in 1..n : \E i \in S : place[i] = k
  BY <1>11 DEF Surjection
<1>13. at = [k \in 1..n |-> CHOOSE i \in S : place[i] = k]
  <2>1. \A i \in S : place[i] = Cardinality({j \in S : key[j] < key[i] \/ (key[j] = key[i] /\ j < i)}) + 1
    BY DEF place, Less, Sooner
  <2> DEFINE P(i) == Cardinality({j \in S : key[j] < key[i] \/ (key[j] = key[i] /\ j < i)}) + 1
  <2>2. at = [k \in 1..n |-> CHOOSE i \in S : P(i) = k]
    BY DEF Ranked
  <2>3. \A i \in S : place[i] = P(i)
    BY <2>1
  <2> HIDE DEF P, n
  <2>4. \A k \in 1..n : (CHOOSE i \in S : place[i] = k) = (CHOOSE i \in S : P(i) = k)
    BY <2>3
  <2> HIDE DEF at
  <2> QED
    BY <2>2, <2>4
<1> HIDE DEF at
<1>14. \A k \in 1..n : at[k] \in S /\ place[at[k]] = k
  BY <1>12, <1>13
<1>15. at \in [1..n -> S]
  BY <1>13, <1>14
<1>16. \A i \in S : place[i] \in 1..n /\ at[place[i]] = i
  BY <1>7, <1>8, <1>14
<1>17. ASSUME NEW j \in 1..n, NEW k \in 1..n, j < k
       PROVE  Sooner(key, at[j], at[k])
  <2>1. place[at[j]] = j /\ place[at[k]] = k /\ at[j] \in S /\ at[k] \in S
    BY <1>14
  <2>2. ~Sooner(key, at[k], at[j]) /\ at[j] # at[k]
    BY <1>1, <1>7, <1>17, <2>1
  <2> QED
    BY <1>2, <2>1, <2>2
<1>18. \A j, k \in 1..n : at[j] = at[k] => j = k
  BY <1>14
<1> QED
  <2> HIDE DEF n
  <2>1. DOMAIN at = 1..n
    BY <1>15
  <2>2. \A i \in S : \E k \in DOMAIN at : at[k] = i
    BY <1>16, <2>1
  <2> QED
    BY <1>1, <1>15, <1>17, <1>18, <2>1, <2>2 DEF InOrder, n, at

-----------------------------------------------------------------------------
(* The palette.                                                            *)

AllCommands == {Commands[i] : i \in DOMAIN Commands}
Names       == {Commands[i].name : i \in DOMAIN Commands}
ListEntries     == [command : AllCommands, score : Int]
Palettes    == [open : BOOLEAN, input : Inputs, selected : Nat, filtered : Seq(ListEntries), arg : {NoArg, "argument"}]

\* PaletteState.history: no command twice, and not too many.
HistoryOk(h) ==
  /\ h \in Seq(Names) /\ Len(h) <= HistoryMax
  /\ \A j, k \in DOMAIN h : h[j] = h[k] => j = k

\* What PaletteHonest asks of the list of an open palette, and that a command with a
\* verb is listed for its verb alone.
ListedRight(list, input, arg) ==
  /\ \A j, k \in DOMAIN list : j # k => list[j].command # list[k].command
  /\ \A k \in DOMAIN list : IsAvailable(list[k].command)
  /\ input = EmptyInput =>
       /\ {list[k].command : k \in DOMAIN list} = {Commands[i] : i \in Listable}
       /\ \A j, k \in DOMAIN list :
            j < k => Recency(list[j].command) <= Recency(list[k].command)
  /\ input # EmptyInput /\ arg = NoArg =>
       \A j, k \in DOMAIN list :
         j < k => ScoreOf(input, list[k].command) - ScoreOf(input, list[j].command) <= 24
  /\ IF arg # NoArg THEN Len(list) = 1 /\ list[1].command.verb # NoVerb
     ELSE \A k \in DOMAIN list : list[k].command.verb = NoVerb

ListHonest(p) ==
  /\ p.selected < Len(p.filtered) \/ (p.filtered = <<>> /\ p.selected = 0)
  /\ ListedRight(p.filtered, p.input, p.arg)

RanOk(r) ==
  r # <<>> => /\ IsAvailable(CommandOf(r[1]))
              /\ (r[2] # NoArg) <=> (CommandOf(r[1]).verb # NoVerb)

PaletteInv ==
  /\ palette \in Palettes /\ HistoryOk(used) /\ isRemote \in BOOLEAN
  /\ palette.open => ListHonest(palette)
  /\ RanOk(ran)

\* Command::ALL is a list.
LEMMA CommandsFinite == IsFiniteSet(DOMAIN Commands) /\ DOMAIN Commands \subseteq Nat
<1>1. PICK n \in Nat : DOMAIN Commands = 1..n
  BY PaletteAssumption
<1> QED
  BY <1>1, FS_Interval

\* The commands at some positions, ranked, with whatever scores.
RankedBy(list, key) ==
  /\ DOMAIN key \subseteq DOMAIN Commands /\ \A i \in DOMAIN key : key[i] \in Int
  /\ DOMAIN list = DOMAIN Ranked(key) /\ list = [k \in DOMAIN list |-> list[k]]
  /\ \A k \in DOMAIN list : list[k].command = Commands[Ranked(key)[k]]
  /\ \A k \in DOMAIN list : list[k] = [command |-> list[k].command, score |-> list[k].score]
  /\ \A k \in DOMAIN list : Ranked(key)[k] \in DOMAIN key => list[k].score \in Int

ListOk(list, key) ==
  /\ list \in Seq(ListEntries) /\ Len(list) = Cardinality(DOMAIN key) /\ Len(list) \in Nat
  /\ DOMAIN list = 1..Len(list) /\ (list = <<>> <=> Len(list) = 0)
  /\ \A j, k \in DOMAIN list : j # k => list[j].command # list[k].command
  /\ {list[k].command : k \in DOMAIN list} = {Commands[i] : i \in DOMAIN key}
  /\ \A k \in DOMAIN list : \E i \in DOMAIN key : i = Ranked(key)[k] /\ list[k].command = Commands[i]
  /\ \A j, k \in DOMAIN list : j < k => key[Ranked(key)[j]] <= key[Ranked(key)[k]]

\* Such a list has every command once, in the order of the keys.
LEMMA RankedList ==
  ASSUME NEW key, NEW list, RankedBy(list, key)
  PROVE  ListOk(list, key)
<1> DEFINE S == DOMAIN key
           n == Cardinality(S)
           at == Ranked(key)
<1>1. Rankable(key)
  BY CommandsFinite, FS_Subset DEF Rankable, RankedBy
<1>2. InOrder(at, key) /\ n \in Nat
  BY <1>1, RankedFacts
<1> HIDE DEF at, n
<1>3. /\ at \in [1..n -> S] /\ DOMAIN list = 1..n
      /\ \A i \in S : \E k \in 1..n : at[k] = i
      /\ \A j, k \in 1..n : j < k => Sooner(key, at[j], at[k])
      /\ \A j, k \in 1..n : at[j] = at[k] => j = k
  BY <1>2 DEF InOrder, at, n, RankedBy
<1>4. \A k \in 1..n : list[k] \in ListEntries /\ list[k].command = Commands[at[k]] /\ at[k] \in S
  <2> SUFFICES ASSUME NEW k \in 1..n
               PROVE  list[k] \in ListEntries /\ list[k].command = Commands[at[k]] /\ at[k] \in S
    OBVIOUS
  <2>1. at[k] \in S /\ k \in DOMAIN list
    BY <1>3
  <2>2. /\ list[k].command = Commands[at[k]] /\ list[k].score \in Int
        /\ list[k] = [command |-> list[k].command, score |-> list[k].score]
    BY <2>1 DEF RankedBy, at
  <2>3. at[k] \in DOMAIN Commands
    BY <2>1 DEF RankedBy
  <2>4. list[k].command \in AllCommands
    BY <2>2, <2>3 DEF AllCommands
  <2> QED
    BY <2>1, <2>2, <2>4 DEF ListEntries
<1>5. \A m \in Nat : \A f \in [1..m -> ListEntries] : f \in Seq(ListEntries) /\ Len(f) = m /\ (f = <<>> <=> m = 0)
  <2> HIDE DEF ListEntries
  <2> QED
    OBVIOUS
<1>6. list \in [1..n -> ListEntries]
  BY <1>3, <1>4 DEF RankedBy
<1>7. list \in Seq(ListEntries) /\ Len(list) = n /\ (list = <<>> <=> n = 0)
  BY <1>2, <1>5, <1>6
<1>8. ASSUME NEW j \in 1..n, NEW k \in 1..n, j # k PROVE list[j].command # list[k].command
  <2>1. at[j] # at[k] /\ at[j] \in DOMAIN Commands /\ at[k] \in DOMAIN Commands
    BY <1>3, <1>4, <1>8 DEF RankedBy
  <2>2. Commands[at[j]].name # Commands[at[k]].name
    BY <2>1, PaletteAssumption
  <2> QED
    BY <1>4, <2>2
<1>9. {list[k].command : k \in 1..n} = {Commands[i] : i \in S}
  BY <1>3, <1>4
<1>10. ASSUME NEW j \in 1..n, NEW k \in 1..n, j < k PROVE key[at[j]] <= key[at[k]]
  <2>1. Sooner(key, at[j], at[k]) /\ key[at[j]] \in Int /\ key[at[k]] \in Int
    BY <1>3, <1>4, <1>10 DEF RankedBy
  <2> QED
    BY <2>1 DEF Sooner
<1>11. \A k \in 1..n : \E i \in S : i = at[k] /\ list[k].command = Commands[i]
  BY <1>4
<1> QED
  BY <1>2, <1>3, <1>7, <1>8, <1>9, <1>10, <1>11 DEF at, n, ListOk

\* Places in the history are numbers, and ranks of the tab too.
LEMMA RecencyFacts ==
  ASSUME HistoryOk(used), NEW c
  PROVE  Recency(c) \in Nat /\ Context(c) \in 0..2 /\ Bonus(c) \in 0..24
<1>1. DOMAIN used \subseteq Nat \ {0}
  BY DEF HistoryOk
<1>2. Recency(c) \in Nat
  BY <1>1, PaletteAssumption DEF Recency
<1> QED
  BY <1>2 DEF Context, Bonus

\* What an input can be.
LEMMA InputFacts ==
  ASSUME NEW input \in Inputs
  PROVE  /\ input.kind \in {"empty", "query", "verb"}
         /\ input.kind = "empty" <=> input = EmptyInput
         /\ input.kind = "query" => input.text \in Queries
         /\ input.kind = "verb" => input.text # NoVerb
         /\ input.kind # "empty" => input.text \in Queries \cup Verbs
<1>1. \/ input = EmptyInput
      \/ \E q \in Queries : input = [kind |-> "query", text |-> q]
      \/ \E v \in Verbs : input = [kind |-> "verb", text |-> v]
  BY DEF Inputs
<1>2. CASE input = EmptyInput
  BY <1>2 DEF EmptyInput
<1>3. ASSUME NEW q \in Queries, input = [kind |-> "query", text |-> q]
      PROVE  input.kind = "query" /\ input.text \in Queries
  BY <1>3
<1>4. ASSUME NEW v \in Verbs, input = [kind |-> "verb", text |-> v]
      PROVE  input.kind = "verb" /\ input.text # NoVerb /\ input.text \in Verbs
  BY <1>4 DEF Verbs
<1>5. EmptyInput.kind = "empty"
  BY DEF EmptyInput
<1> QED
  BY <1>1, <1>2, <1>3, <1>4, <1>5

\* The list for an empty input.
RecentOk(list) ==
  /\ list \in Seq(ListEntries) /\ Len(list) \in Nat /\ DOMAIN list = 1..Len(list)
  /\ list = <<>> <=> Len(list) = 0
  /\ \A j, k \in DOMAIN list : j # k => list[j].command # list[k].command
  /\ \A k \in DOMAIN list : IsAvailable(list[k].command) /\ list[k].command.verb = NoVerb
  /\ {list[k].command : k \in DOMAIN list} = {Commands[i] : i \in Listable}
  /\ \A j, k \in DOMAIN list : j < k => Recency(list[j].command) <= Recency(list[k].command)

LEMMA RecentFacts ==
  ASSUME HistoryOk(used), NEW list, list = Listing(Recent, NoScore)
  PROVE  RecentOk(list)
<1> DEFINE key == [i \in Listable |-> 3 * Recency(Commands[i]) + Context(Commands[i])]
           at == Ranked(key)
<1>1. /\ DOMAIN key = Listable /\ Listable \subseteq DOMAIN Commands
      /\ \A i \in Listable : Commands[i].verb = NoVerb /\ IsAvailable(Commands[i])
  BY DEF Listable
<1>2. \A i \in Listable : /\ key[i] = 3 * Recency(Commands[i]) + Context(Commands[i])
                          /\ Recency(Commands[i]) \in Nat /\ Context(Commands[i]) \in 0..2 /\ key[i] \in Int
  BY RecencyFacts
<1>3. Recent = at
  BY DEF Recent
<1> HIDE DEF key
<1>4. /\ list = [k \in DOMAIN at |-> [command |-> Commands[at[k]], score |-> NoScore]]
  BY <1>3 DEF Listing
<1> HIDE DEF at
<1>5. DOMAIN list = DOMAIN at /\ list = [k \in DOMAIN list |-> list[k]]
      /\ \A k \in DOMAIN list : list[k] = [command |-> Commands[at[k]], score |-> NoScore]
  BY <1>4
<1>7. RankedBy(list, key)
  BY <1>1, <1>2, <1>5 DEF RankedBy, at, NoScore
<1>8. /\ list \in Seq(ListEntries) /\ Len(list) \in Nat /\ DOMAIN list = 1..Len(list)
      /\ list = <<>> <=> Len(list) = 0
      /\ \A j, k \in DOMAIN list : j # k => list[j].command # list[k].command
      /\ {list[k].command : k \in DOMAIN list} = {Commands[i] : i \in DOMAIN key}
      /\ \A k \in DOMAIN list : \E i \in DOMAIN key : i = at[k] /\ list[k].command = Commands[i]
      /\ \A j, k \in DOMAIN list : j < k => key[at[j]] <= key[at[k]]
  <2>1. ListOk(list, key)
    BY <1>7, RankedList
  <2> QED
    BY <2>1 DEF ListOk, at
<1>9. ASSUME NEW j \in DOMAIN list, NEW k \in DOMAIN list, j < k
      PROVE  Recency(list[j].command) <= Recency(list[k].command)
  <2>1. PICK a \in Listable : a = at[j] /\ list[j].command = Commands[a]
    BY <1>1, <1>8
  <2>2. PICK b \in Listable : b = at[k] /\ list[k].command = Commands[b]
    BY <1>1, <1>8
  <2>3. key[a] <= key[b]
    BY <1>8, <1>9, <2>1, <2>2
  <2> QED
    BY <1>2, <2>1, <2>2, <2>3
<1>10. \A k \in DOMAIN list : IsAvailable(list[k].command) /\ list[k].command.verb = NoVerb
  BY <1>1, <1>8
<1>11. {list[k].command : k \in DOMAIN list} = {Commands[i] : i \in Listable}
  BY <1>1, <1>8
<1>12. \A j, k \in DOMAIN list : j < k => Recency(list[j].command) <= Recency(list[k].command)
  BY <1>9
<1> QED
  BY <1>8, <1>10, <1>11, <1>12 DEF RecentOk

\* The list for any other text.
LEMMA MatchedFacts ==
  ASSUME HistoryOk(used), NEW input \in Inputs, input.kind # "empty",
         NEW list,
         list = [k \in DOMAIN Matched(input) |->
                   [command |-> Commands[Matched(input)[k]], score |-> Total(input, Commands[Matched(input)[k]])]]
  PROVE  /\ list \in Seq(ListEntries) /\ Len(list) \in Nat /\ DOMAIN list = 1..Len(list)
         /\ list = <<>> <=> Len(list) = 0
         /\ \A j, k \in DOMAIN list : j # k => list[j].command # list[k].command
         /\ \A k \in DOMAIN list : IsAvailable(list[k].command) /\ list[k].command.verb = NoVerb
         /\ \A j, k \in DOMAIN list :
              j < k => ScoreOf(input, list[k].command) - ScoreOf(input, list[j].command) <= 24
<1> DEFINE S == {i \in Listable : ScoreOf(input, Commands[i]) > 0}
           key == [i \in S |-> -Total(input, Commands[i])]
           at == Ranked(key)
<1>1. /\ DOMAIN key = S /\ S \subseteq DOMAIN Commands
      /\ \A i \in S : Commands[i].verb = NoVerb /\ IsAvailable(Commands[i])
  BY DEF Listable
<1>2. \A i \in S : /\ key[i] = -(ScoreOf(input, Commands[i]) + Bonus(Commands[i]))
                   /\ Total(input, Commands[i]) = ScoreOf(input, Commands[i]) + Bonus(Commands[i])
                   /\ ScoreOf(input, Commands[i]) \in Nat /\ Bonus(Commands[i]) \in 0..24
                   /\ key[i] \in Int /\ Total(input, Commands[i]) \in Int
  <2> SUFFICES ASSUME NEW i \in S
               PROVE  /\ key[i] = -(ScoreOf(input, Commands[i]) + Bonus(Commands[i]))
                      /\ Total(input, Commands[i]) = ScoreOf(input, Commands[i]) + Bonus(Commands[i])
                      /\ ScoreOf(input, Commands[i]) \in Nat /\ Bonus(Commands[i]) \in 0..24
                      /\ key[i] \in Int /\ Total(input, Commands[i]) \in Int
    OBVIOUS
  <2>1. key[i] = -Total(input, Commands[i])
    OBVIOUS
  <2> HIDE DEF key
  <2>2. Total(input, Commands[i]) = ScoreOf(input, Commands[i]) + Bonus(Commands[i])
    BY DEF Total
  <2>3. ScoreOf(input, Commands[i]) \in Nat
    BY <1>1, InputFacts, PaletteAssumption DEF ScoreOf
  <2>4. Bonus(Commands[i]) \in 0..24
    BY RecencyFacts
  <2> QED
    BY <2>1, <2>2, <2>3, <2>4
<1>3. Matched(input) = at
  BY DEF Matched
<1> HIDE DEF key, S
<1>5. /\ DOMAIN list = DOMAIN at /\ list = [k \in DOMAIN list |-> list[k]]
      /\ \A k \in DOMAIN list : list[k] = [command |-> Commands[at[k]], score |-> Total(input, Commands[at[k]])]
  <2> HIDE DEF at
  <2> QED
    BY <1>3
<1> HIDE DEF at
<1>7. RankedBy(list, key)
  BY <1>1, <1>2, <1>5 DEF RankedBy, at, NoScore
<1>8. /\ list \in Seq(ListEntries) /\ Len(list) \in Nat /\ DOMAIN list = 1..Len(list)
      /\ list = <<>> <=> Len(list) = 0
      /\ \A j, k \in DOMAIN list : j # k => list[j].command # list[k].command
      /\ \A k \in DOMAIN list : \E i \in DOMAIN key : i = at[k] /\ list[k].command = Commands[i]
      /\ \A j, k \in DOMAIN list : j < k => key[at[j]] <= key[at[k]]
  BY <1>7, RankedList DEF ListOk, at
<1>9. ASSUME NEW j \in DOMAIN list, NEW k \in DOMAIN list, j < k
      PROVE  ScoreOf(input, list[k].command) - ScoreOf(input, list[j].command) <= 24
  <2>1. PICK a \in S : a = at[j] /\ list[j].command = Commands[a]
    BY <1>1, <1>8
  <2>2. PICK b \in S : b = at[k] /\ list[k].command = Commands[b]
    BY <1>1, <1>8
  <2>3. key[a] <= key[b]
    BY <1>8, <1>9, <2>1, <2>2
  <2> QED
    BY <1>2, <2>1, <2>2, <2>3
<1> QED
  BY <1>1, <1>8, <1>9

\* Commands that all have the same score.
LEMMA ListingFacts ==
  ASSUME NEW key, DOMAIN key \subseteq DOMAIN Commands, \A i \in DOMAIN key : key[i] \in Int,
         NEW top \in Int, NEW list, list = Listing(Ranked(key), top)
  PROVE  RankedBy(list, key)
<1>1. PICK at : at = Ranked(key)
  OBVIOUS
<1>2. list = [k \in DOMAIN at |-> [command |-> Commands[at[k]], score |-> top]]
  BY <1>1 DEF Listing
<1>3. /\ DOMAIN list = DOMAIN at /\ list = [k \in DOMAIN list |-> list[k]]
      /\ \A k \in DOMAIN list : /\ list[k].command = Commands[at[k]] /\ list[k].score = top
                                /\ list[k] = [command |-> list[k].command, score |-> list[k].score]
  BY <1>2
<1> QED
  BY <1>1, <1>3 DEF RankedBy

\* At most one command has the verb typed.
LEMMA OneVerb ==
  ASSUME NEW input \in Inputs, NEW verb,
         verb = {i \in ParseVerb(input) : IsAvailable(Commands[i])}, verb # {}
  PROVE  /\ input.kind = "verb"
         /\ \E v \in DOMAIN Commands : verb = {v} /\ IsAvailable(Commands[v]) /\ Commands[v].verb # NoVerb
<1>1. /\ verb \subseteq DOMAIN Commands /\ input.kind = "verb"
      /\ \A i \in verb : Commands[i].verb = input.text /\ IsAvailable(Commands[i])
      /\ \A i \in verb : \A j \in 1..(i - 1) : Commands[j].verb # input.text
  BY DEF ParseVerb
<1>2. DOMAIN Commands \subseteq Nat \ {0} /\ \A i, j \in DOMAIN Commands : i < j => i \in 1..(j - 1)
  BY PaletteAssumption
<1>3. PICK v \in verb : TRUE
  OBVIOUS
<1>4. \A w \in verb : w = v
  <2> SUFFICES ASSUME NEW w \in verb, w # v PROVE FALSE
    OBVIOUS
  <2>1. v < w \/ w < v
    BY <1>1, <1>2
  <2> QED
    BY <1>1, <1>2, <2>1
<1>5. verb = {v}
  BY <1>4
<1> QED
  BY <1>1, <1>5, InputFacts

\* The list of a verb.
VerbOk(list, v) ==
  list \in Seq(ListEntries) /\ Len(list) = 1 /\ DOMAIN list = {1} /\ list[1].command = Commands[v]

LEMMA VerbFacts ==
  ASSUME NEW v \in DOMAIN Commands, NEW key, DOMAIN key = {v}, \A i \in DOMAIN key : key[i] \in Int,
         NEW top \in Int
  PROVE  VerbOk(Listing(Ranked(key), top), v)
<1>0. PICK list : list = Listing(Ranked(key), top)
  OBVIOUS
<1>1. RankedBy(list, key)
  BY <1>0, ListingFacts
<1>2. ListOk(list, key)
  BY <1>1, RankedList
<1>3. Cardinality({v}) = 1
  BY FS_Singleton
<1>4. /\ list \in Seq(ListEntries) /\ Len(list) = 1 /\ DOMAIN list = 1..1
      /\ \A k \in DOMAIN list : \E i \in {v} : list[k].command = Commands[i]
  BY <1>2, <1>3 DEF ListOk
<1> QED
  BY <1>0, <1>4 DEF VerbOk

\* refilter_ctx lists what it should, whatever was listed before.
LEMMA RefilterFacts ==
  ASSUME HistoryOk(used), isRemote \in BOOLEAN, NEW p \in Palettes, NEW input \in Inputs
  PROVE  /\ Refilter(p, input) \in Palettes /\ Refilter(p, input).open = p.open
         /\ ListHonest(Refilter(p, input))
<1> DEFINE q == Refilter(p, input)
<1>0. /\ p.selected \in Nat /\ p.open \in BOOLEAN
      /\ p = [open |-> p.open, input |-> p.input, selected |-> p.selected, filtered |-> p.filtered, arg |-> p.arg]
  BY DEF Palettes
<1>1. PICK verb : verb = {i \in ParseVerb(input) : IsAvailable(Commands[i])}
  OBVIOUS
<1>2. PICK at : at = Matched(input)
  OBVIOUS
<1>3. PICK list : list = IF input.kind = "empty" THEN Listing(Recent, NoScore)
                  ELSE [k \in DOMAIN at |-> [command |-> Commands[at[k]], score |-> Total(input, Commands[at[k]])]]
  OBVIOUS
<1>4. PICK key : key = [i \in verb |-> i]
  OBVIOUS
<1>5. PICK top : top = Listing(Ranked(key), 65535)
  OBVIOUS
<1>6. q = IF verb # {}
          THEN [p EXCEPT !.input = input, !.arg = "argument", !.selected = 0, !.filtered = top]
          ELSE [p EXCEPT !.input = input, !.arg = NoArg, !.filtered = list,
                         !.selected = ClampSelection(@, Len(list))]
  BY <1>1, <1>2, <1>3, <1>4, <1>5 DEF Refilter
<1> HIDE DEF q
<1>7. CASE verb # {}
  <2>1. PICK v \in DOMAIN Commands : verb = {v} /\ IsAvailable(Commands[v]) /\ Commands[v].verb # NoVerb
    BY <1>1, <1>7, OneVerb
  <2>2. input.kind = "verb" /\ input # EmptyInput
    BY <1>1, <1>7, OneVerb, InputFacts
  <2>3. DOMAIN key = {v} /\ \A i \in DOMAIN key : key[i] \in Int
    BY <1>4, <2>1, CommandsFinite
  <2>4. top \in Seq(ListEntries) /\ Len(top) = 1 /\ DOMAIN top = {1} /\ top[1].command = Commands[v]
    <3>1. VerbOk(top, v)
      BY <1>5, <2>3, VerbFacts
    <3> QED
      BY <3>1 DEF VerbOk
  <2>5. q = [open |-> p.open, input |-> input, selected |-> 0, filtered |-> top, arg |-> "argument"]
    BY <1>0, <1>6, <1>7
  <2>6. /\ q.open = p.open /\ q.input = input /\ q.selected = 0 /\ q.filtered = top /\ q.arg = "argument"
    BY <2>5
  <2>7. q \in Palettes
    BY <1>0, <2>4, <2>5 DEF Palettes
  <2>8. ListHonest(q)
    BY <2>1, <2>2, <2>4, <2>6 DEF ListHonest, ListedRight, NoArg
  <2> QED
    BY <2>6, <2>7, <2>8 DEF q
<1>8. CASE verb = {}
  <2> DEFINE Fine(l) ==
        /\ l \in Seq(ListEntries) /\ Len(l) \in Nat /\ DOMAIN l = 1..Len(l)
        /\ l = <<>> <=> Len(l) = 0
        /\ \A j, k \in DOMAIN l : j # k => l[j].command # l[k].command
        /\ \A k \in DOMAIN l : IsAvailable(l[k].command) /\ l[k].command.verb = NoVerb
        /\ input = EmptyInput =>
             /\ {l[k].command : k \in DOMAIN l} = {Commands[i] : i \in Listable}
             /\ \A j, k \in DOMAIN l : j < k => Recency(l[j].command) <= Recency(l[k].command)
        /\ input # EmptyInput =>
             \A j, k \in DOMAIN l :
               j < k => ScoreOf(input, l[k].command) - ScoreOf(input, l[j].command) <= 24
  <2>1. Fine(list)
    <3>1. CASE input.kind = "empty"
      <4>1. list = Listing(Recent, NoScore) /\ input = EmptyInput
        BY <1>3, <3>1, InputFacts
      <4>2. RecentOk(list)
        BY <4>1, RecentFacts
      <4> QED
        BY <4>1, <4>2 DEF RecentOk
    <3>2. CASE input.kind # "empty"
      <4>1. /\ input # EmptyInput
            /\ list = [k \in DOMAIN Matched(input) |->
                   [command |-> Commands[Matched(input)[k]], score |-> Total(input, Commands[Matched(input)[k]])]]
        BY <1>2, <1>3, <3>2, InputFacts
      <4> QED
        BY <3>2, <4>1, MatchedFacts
    <3> QED
      BY <3>1, <3>2
  <2>2. PICK s : s = ClampSelection(p.selected, Len(list))
    OBVIOUS
  <2>3. s \in Nat /\ (s < Len(list) \/ (Len(list) = 0 /\ s = 0))
    BY <1>0, <2>1, <2>2 DEF ClampSelection
  <2>5. q = [open |-> p.open, input |-> input, selected |-> s, filtered |-> list, arg |-> NoArg]
    BY <1>0, <1>6, <1>8, <2>2
  <2>6. /\ q.open = p.open /\ q.input = input /\ q.selected = s /\ q.filtered = list /\ q.arg = NoArg
    BY <2>5
  <2>7. q \in Palettes
    BY <1>0, <2>1, <2>3, <2>5 DEF Palettes
  <2>8. ListHonest(q)
    BY <2>1, <2>3, <2>6 DEF ListHonest, ListedRight
  <2> QED
    BY <2>6, <2>7, <2>8 DEF q
<1> QED
  BY <1>7, <1>8

\* remember: still no command twice, and not too many.
LEMMA RememberFacts ==
  ASSUME HistoryOk(used), NEW name \in Names
  PROVE  HistoryOk(Remember(name))
<1> DEFINE S == {k \in DOMAIN used : used[k] # name}
<1>1. PICK n \in Nat : DOMAIN used = 1..n /\ \A k \in 1..n : used[k] \in Names
  BY DEF HistoryOk
<1>2. PICK key : key = [k \in S |-> k]
  OBVIOUS
<1>3. PICK at : at = Ranked(key)
  OBVIOUS
<1>4. DOMAIN key = S /\ Rankable(key)
  <2>1. IsFiniteSet(1..n)
    BY FS_Interval
  <2>2. IsFiniteSet(S)
    BY <1>1, <2>1, FS_Subset
  <2>3. DOMAIN key = S /\ S \subseteq Nat /\ \A k \in S : key[k] \in Int
    BY <1>1, <1>2
  <2> QED
    BY <2>2, <2>3 DEF Rankable
<1>5. PICK m \in Nat : /\ at \in [1..m -> S]
                       /\ \A j, k \in 1..m : at[j] = at[k] => j = k
  <2>1. InOrder(at, key) /\ Cardinality(S) \in Nat
    BY <1>3, <1>4, RankedFacts
  <2> HIDE DEF S
  <2> QED
    BY <1>4, <2>1 DEF InOrder
<1>6. Len(at) = m
  <2> HIDE DEF S
  <2> QED
    BY <1>5
<1>7. PICK len : len = IF m < HistoryMax THEN m + 1 ELSE HistoryMax
  OBVIOUS
<1>8. len \in Nat /\ len <= HistoryMax /\ len <= m + 1
  <2>1. HistoryMax \in Nat
    BY PaletteAssumption
  <2> QED
    BY <1>7, <2>1
<1>9. PICK h : h = [k \in 1..len |-> IF k = 1 THEN name ELSE used[at[k - 1]]]
  OBVIOUS
<1>10. Remember(name) = h
  BY <1>2, <1>3, <1>6, <1>7, <1>9 DEF Remember
<1>11. \A k \in 1..len : k # 1 => k - 1 \in 1..m /\ at[k - 1] \in S
  BY <1>5, <1>8
<1>12. \A k \in 1..len : k # 1 => used[at[k - 1]] \in Names /\ used[at[k - 1]] # name
  BY <1>1, <1>11
<1>13. h \in [1..len -> Names]
  BY <1>9, <1>12
<1>14. h \in Seq(Names) /\ Len(h) = len /\ DOMAIN h = 1..len
  <2> HIDE DEF Names
  <2> QED
    BY <1>8, <1>13
<1>15. ASSUME NEW j \in 1..len, NEW k \in 1..len, h[j] = h[k] PROVE j = k
  <2>1. CASE j = 1 /\ k # 1
    BY <1>9, <1>12, <1>15, <2>1
  <2>2. CASE j # 1 /\ k = 1
    BY <1>9, <1>12, <1>15, <2>2
  <2>3. CASE j # 1 /\ k # 1
    <3>1. used[at[j - 1]] = used[at[k - 1]]
      BY <1>9, <1>15, <2>3
    <3>2. at[j - 1] = at[k - 1]
      BY <1>11, <2>3, <3>1 DEF HistoryOk
    <3>3. j - 1 = k - 1
      BY <1>5, <1>11, <2>3, <3>2
    <3> QED
      BY <1>8, <3>3
  <2> QED
    BY <2>1, <2>2, <2>3
<1> QED
  BY <1>8, <1>10, <1>14, <1>15 DEF HistoryOk

\* The command a name stands for.
LEMMA CommandOfName ==
  ASSUME NEW i \in DOMAIN Commands
  PROVE  CommandOf(Commands[i].name) = Commands[i]
<1>1. (CHOOSE j \in DOMAIN Commands : Commands[j].name = Commands[i].name) = i
  BY PaletteAssumption
<1> QED
  BY <1>1 DEF CommandOf

\* A closed palette.
LEMMA ClosedFacts ==
  ASSUME palette \in Palettes
  PROVE  Closed \in Palettes /\ ~Closed.open
<1>1. EmptyInput \in Inputs
  BY DEF Inputs
<1> QED
  BY <1>1 DEF Closed, Palettes

\* The cursor moves.
LEMMA MoveFacts ==
  ASSUME PaletteInv, palette.open, NEW k \in Nat,
         k < Len(palette.filtered) \/ (palette.filtered = <<>> /\ k = 0)
  PROVE  [palette EXCEPT !.selected = k] \in Palettes /\ ListHonest([palette EXCEPT !.selected = k])
<1> DEFINE q == [palette EXCEPT !.selected = k]
<1>1. /\ q \in Palettes /\ q.selected = k /\ q.input = palette.input /\ q.filtered = palette.filtered
      /\ q.arg = palette.arg
  BY DEF PaletteInv, Palettes
<1> HIDE DEF q
<1>2. ListHonest(q)
  <2>1. ListHonest(palette)
    BY DEF PaletteInv
  <2> QED
    BY <1>1, <2>1 DEF ListHonest
<1> QED
  BY <1>1, <1>2 DEF q

\* One step of the palette.
LEMMA PaletteStep == PaletteInv /\ [PaletteNext]_paletteVars => PaletteInv'
<1> SUFFICES ASSUME PaletteInv, [PaletteNext]_paletteVars PROVE PaletteInv'
  OBVIOUS
<1>0. palette \in Palettes /\ HistoryOk(used) /\ isRemote \in BOOLEAN /\ RanOk(ran)
  BY DEF PaletteInv
<1>1. ASSUME UNCHANGED <<used, isRemote, ran>>, palette' \in Palettes,
             palette'.open => ListHonest(palette')
      PROVE  PaletteInv'
  <2>1. HistoryOk(used') /\ isRemote' \in BOOLEAN /\ RanOk(ran)'
    BY <1>0, <1>1 DEF RanOk, IsAvailable
  <2>2. palette'.open => ListHonest(palette)'
    <3>1. /\ Listable' = Listable /\ \A c : Recency(c)' = Recency(c) /\ (IsAvailable(c)' <=> IsAvailable(c))
      BY <1>1 DEF IsAvailable, Listable, Recency
    <3>2. \A l, i, a : ListedRight(l, i, a) => ListedRight(l, i, a)'
      BY <3>1 DEF ListedRight, ScoreOf
    <3>3. PICK l, i, a, s : l = palette'.filtered /\ i = palette'.input /\ a = palette'.arg /\ s = palette'.selected
      OBVIOUS
    <3>4. palette'.open => (s < Len(l) \/ (l = <<>> /\ s = 0)) /\ ListedRight(l, i, a)
      BY <1>1, <3>3 DEF ListHonest
    <3>5. palette'.open => ListedRight(l, i, a)'
      BY <3>2, <3>4
    <3> QED
      BY <3>3, <3>4, <3>5 DEF ListHonest
  <2> QED
    BY <1>1, <2>1, <2>2 DEF PaletteInv, HistoryOk
<1>2. CASE OpenPalette
  <2> DEFINE p == [palette EXCEPT !.open = TRUE, !.selected = 0]
  <2>1. p \in Palettes
    BY <1>0 DEF Palettes
  <2>2. EmptyInput \in Inputs
    BY DEF Inputs
  <2> HIDE DEF p
  <2>3. Refilter(p, EmptyInput) \in Palettes /\ ListHonest(Refilter(p, EmptyInput))
    BY <1>0, <2>1, <2>2, RefilterFacts
  <2>4. palette' = Refilter(p, EmptyInput) /\ UNCHANGED <<used, isRemote, ran>>
    BY <1>2 DEF OpenPalette, p
  <2> QED
    BY <1>1, <2>3, <2>4
<1>3. CASE ClosePalette
  BY <1>0, <1>1, <1>3, ClosedFacts DEF ClosePalette
<1>4. CASE PaletteDown
  <2>1. palette.open /\ palette.selected \in Nat /\ Len(palette.filtered) \in Nat
        /\ (palette.filtered = <<>> <=> Len(palette.filtered) = 0)
    <3>1. palette.filtered \in Seq(ListEntries)
      BY <1>0 DEF Palettes
    <3>2. Len(palette.filtered) \in Nat /\ (palette.filtered = <<>> <=> Len(palette.filtered) = 0)
      <4> HIDE DEF ListEntries
      <4> QED
        BY <3>1
    <3> QED
      BY <1>0, <1>4, <3>2 DEF PaletteDown, MoveTo, Palettes
  <2>2. PICK k : k = ClampSelection(palette.selected + 1, Len(palette.filtered))
    OBVIOUS
  <2>3. k \in Nat /\ (k < Len(palette.filtered) \/ (palette.filtered = <<>> /\ k = 0))
    BY <2>1, <2>2 DEF ClampSelection
  <2>4. palette' = [palette EXCEPT !.selected = k] /\ UNCHANGED <<used, isRemote, ran>>
    BY <1>4, <2>2 DEF PaletteDown, MoveTo
  <2> QED
    BY <1>1, <2>1, <2>3, <2>4, MoveFacts
<1>5. CASE PaletteUp
  <2>1. /\ palette.open /\ palette.selected \in Nat /\ Len(palette.filtered) \in Nat
        /\ palette.selected < Len(palette.filtered) \/ (palette.filtered = <<>> /\ palette.selected = 0)
    <3>1. palette.filtered \in Seq(ListEntries)
      BY <1>0 DEF Palettes
    <3>2. Len(palette.filtered) \in Nat
      <4> HIDE DEF ListEntries
      <4> QED
        BY <3>1
    <3> QED
      BY <1>0, <1>5, <3>2 DEF PaletteUp, MoveTo, Palettes, PaletteInv, ListHonest
  <2>2. PICK k : k = IF palette.selected > 0 THEN palette.selected - 1 ELSE 0
    OBVIOUS
  <2>3. k \in Nat /\ (k < Len(palette.filtered) \/ (palette.filtered = <<>> /\ k = 0))
    BY <2>1, <2>2
  <2>4. palette' = [palette EXCEPT !.selected = k] /\ UNCHANGED <<used, isRemote, ran>>
    BY <1>5, <2>2 DEF PaletteUp, MoveTo
  <2> QED
    BY <1>1, <2>1, <2>3, <2>4, MoveFacts
<1>6. CASE PaletteRun
  <2>1. PICK c : c = palette.filtered[palette.selected + 1].command
    OBVIOUS
  <2>2. /\ palette.open /\ palette.selected < Len(palette.filtered) /\ UNCHANGED isRemote
        /\ used' = Remember(c.name) /\ ran' = <<c.name, palette.arg>> /\ palette' = Closed
    BY <1>6, <2>1 DEF PaletteRun
  <2>3. /\ palette.selected \in Nat /\ palette.filtered \in Seq(ListEntries)
        /\ palette.arg \in {NoArg, "argument"}
    BY <1>0 DEF Palettes
  <2>4. palette.selected + 1 \in DOMAIN palette.filtered /\ palette.filtered[palette.selected + 1] \in ListEntries
        /\ (Len(palette.filtered) = 1 => palette.selected + 1 = 1)
    <3> HIDE DEF ListEntries
    <3> QED
      BY <2>2, <2>3
  <2>5. c \in AllCommands
    BY <2>1, <2>4 DEF ListEntries
  <2>6. PICK i \in DOMAIN Commands : c = Commands[i]
    BY <2>5 DEF AllCommands
  <2>7. IsAvailable(c) /\ (palette.arg # NoArg <=> c.verb # NoVerb)
    BY <2>1, <2>2, <2>4 DEF PaletteInv, ListHonest, ListedRight
  <2>8. CommandOf(c.name) = c
    BY <2>6, CommandOfName
  <2>9. c.name \in Names
    BY <2>6 DEF Names
  <2>10. HistoryOk(used')
    BY <1>0, <2>2, <2>9, RememberFacts
  <2>11. ran'[1] = c.name /\ ran'[2] = palette.arg
    BY <2>2
  <2>12. RanOk(ran)'
    <3>1. IsAvailable(CommandOf(ran'[1])) /\ ((ran'[2] # NoArg) <=> (CommandOf(ran'[1]).verb # NoVerb))
      BY <2>7, <2>8, <2>11
    <3> QED
      BY <2>2, <3>1 DEF RanOk, IsAvailable
  <2>13. palette' \in Palettes /\ ~palette'.open
    BY <1>0, <2>2, ClosedFacts
  <2>14. HistoryOk(used)' /\ isRemote' \in BOOLEAN
    BY <1>0, <2>2, <2>10 DEF HistoryOk
  <2> QED
    BY <2>12, <2>13, <2>14 DEF PaletteInv
<1>7. ASSUME NEW input \in Inputs, EditInput(input) PROVE PaletteInv'
  <2>1. palette' = Refilter(palette, input) /\ UNCHANGED <<used, isRemote, ran>>
    BY <1>7 DEF EditInput
  <2> QED
    BY <1>0, <1>1, <2>1, RefilterFacts
<1>8. ASSUME NEW tb \in Tabs, ChangeTab(tb) PROVE PaletteInv'
  BY <1>0, <1>1, <1>8 DEF ChangeTab, PaletteInv
<1>9. CASE UNCHANGED paletteVars
  BY <1>0, <1>1, <1>9 DEF paletteVars, PaletteInv
<1> QED
  BY <1>2, <1>3, <1>4, <1>5, <1>6, <1>7, <1>8, <1>9 DEF PaletteNext

\* draw_results keeps the cursor on screen, however few lines there are.
LEMMA ScrollFacts ==
  ASSUME PaletteInv, palette.open, NEW height \in Nat \ {0}
  PROVE  palette.selected \in PaletteScroll(height)..(PaletteScroll(height) + height - 1)
<1>1. PICK n : n = Len(palette.filtered)
  OBVIOUS
<1>2. palette.filtered \in Seq(ListEntries) /\ palette.selected \in Nat
  BY DEF PaletteInv, Palettes
<1>3. n \in Nat /\ (palette.filtered = <<>> => n = 0)
  <2> HIDE DEF ListEntries
  <2> QED
    BY <1>1, <1>2
<1>4. palette.selected < n \/ (n = 0 /\ palette.selected = 0)
  BY <1>1, <1>3 DEF PaletteInv, ListHonest
<1> QED
  BY <1>1, <1>2, <1>3, <1>4 DEF PaletteScroll

\* Whatever commands, scores and queries there are, and whatever was run before: what the
\* open palette lists can be run here, no command twice, the recent first and never a
\* worse match before a better one but for the bonus of its tab; the cursor is on the
\* list and on screen; and what ran was allowed, a verb with its argument and no other.
THEOREM PaletteHonestForAll == PaletteInit /\ [][PaletteNext]_paletteVars => []PaletteHonest
<1>1. PaletteInit => PaletteInv
  <2> SUFFICES ASSUME PaletteInit PROVE PaletteInv
    OBVIOUS
  <2>1. PICK key : key = [i \in {i \in DOMAIN Commands : Commands[i].verb = NoVerb} |-> i]
    OBVIOUS
  <2>2. PICK list : list = Listing(Ranked(key), NoScore)
    OBVIOUS
  <2>3. DOMAIN key \subseteq DOMAIN Commands /\ \A i \in DOMAIN key : key[i] \in Int
    BY <2>1, CommandsFinite
  <2>4. list \in Seq(ListEntries)
    <3>1. NoScore \in Int
      BY DEF NoScore
    <3>2. RankedBy(list, key)
      BY <2>2, <2>3, <3>1, ListingFacts
    <3> QED
      BY <3>2, RankedList DEF ListOk
  <2>5. palette = [open |-> FALSE, input |-> EmptyInput, selected |-> 0, arg |-> NoArg, filtered |-> list]
    BY <2>1, <2>2 DEF PaletteInit
  <2>6. EmptyInput \in Inputs
    BY DEF Inputs
  <2>7. palette \in Palettes /\ ~palette.open
    BY <2>4, <2>5, <2>6 DEF Palettes
  <2>8. HistoryOk(used)
    <3>1. used = <<>>
      BY DEF PaletteInit
    <3>2. used \in Seq(Names) /\ Len(used) = 0 /\ DOMAIN used = {}
      <4> HIDE DEF Names
      <4> QED
        BY <3>1
    <3> QED
      BY <3>2, PaletteAssumption DEF HistoryOk
  <2> QED
    BY <2>7, <2>8 DEF PaletteInit, PaletteInv, RanOk
<1>2. PaletteInv => PaletteHonest
  <2> SUFFICES ASSUME PaletteInv PROVE PaletteHonest
    OBVIOUS
  <2>1. ASSUME palette.open PROVE ListHonest(palette)
    BY <2>1 DEF PaletteInv
  <2>2. ASSUME palette.open, NEW height \in 1..2
        PROVE  palette.selected \in PaletteScroll(height)..(PaletteScroll(height) + height - 1)
    BY <2>2, ScrollFacts
  <2>3. Len(used) <= HistoryMax /\ \A j, k \in DOMAIN used : used[j] = used[k] => j = k
    BY DEF PaletteInv, HistoryOk
  <2>4. RanOk(ran)
    BY DEF PaletteInv
  <2> QED
    BY <2>1, <2>2, <2>3, <2>4 DEF PaletteHonest, ListHonest, ListedRight, RanOk
<1> QED
  BY <1>1, <1>2, PaletteStep, PTL

-----------------------------------------------------------------------------
(* The order of the rows.                                                  *)

\* What the sorts and filters of TableOrder work on.
OrderInv ==
  /\ listed \in Seq(RowSet) /\ order \in {"Asc", "Desc"}
  /\ typed \in Seq(Chars)

\* A view of the positions in S: each of them once, and a list.
ViewOf(at, S) == at \in Seq(S) /\ ShowsOnce(at, S)

\* A function with the domain of a list is a list.
LEMMA FunctionIsList ==
  ASSUME NEW S, NEW n \in Nat, NEW f \in [1..n -> S]
  PROVE  f \in Seq(S) /\ Len(f) = n /\ DOMAIN f = 1..n
  OBVIOUS

\* A sort lists every position once, with the keys in its direction.
LEMMA ReversedFacts ==
  ASSUME NEW key, Rankable(key), NEW b \in BOOLEAN
  PROVE  /\ ViewOf(ReversedIf(Ranked(key), b), DOMAIN key)
         /\ Monotone(ReversedIf(Ranked(key), b), key, ~b)
<1> DEFINE S == DOMAIN key
<1>1. PICK n \in Nat : n = Cardinality(S)
  BY RankedFacts
<1>2. PICK at : at = Ranked(key)
  OBVIOUS
<1>3. InOrder(at, key)
  BY <1>2, RankedFacts
<1>4. /\ at \in [1..n -> S] /\ DOMAIN at = 1..n
      /\ \A i \in S : \E k \in 1..n : at[k] = i
      /\ \A j, k \in 1..n : j < k => Sooner(key, at[j], at[k])
      /\ \A j, k \in 1..n : at[j] = at[k] => j = k
  BY <1>1, <1>3 DEF InOrder
<1>5. at \in Seq(S) /\ Len(at) = n
  BY <1>4, FunctionIsList
<1>6. \A i \in S : key[i] \in Int
  BY DEF Rankable
<1>7. \A j, k \in 1..n : j < k => key[at[j]] <= key[at[k]]
  BY <1>4, <1>6 DEF Sooner
<1>8. CASE ~b
  <2>1. ReversedIf(at, b) = at
    BY <1>8 DEF ReversedIf
  <2>2. {at[k] : k \in DOMAIN at} = S
    <3> HIDE DEF S
    <3>1. \A k \in 1..n : at[k] \in S
      BY <1>4
    <3> QED
      BY <1>4, <3>1
  <2>3. Monotone(at, key, ~b)
    BY <1>4, <1>7, <1>8 DEF Monotone
  <2> QED
    BY <1>2, <1>4, <1>5, <2>1, <2>2, <2>3 DEF ViewOf, ShowsOnce
<1>9. CASE b
  <2>1. PICK r : r = ReversedIf(at, b)
    OBVIOUS
  <2>2. r = [k \in 1..n |-> at[n + 1 - k]]
    BY <1>4, <1>5, <1>9, <2>1 DEF ReversedIf
  <2>3. \A k \in 1..n : n + 1 - k \in 1..n /\ n + 1 - (n + 1 - k) = k
    OBVIOUS
  <2>4. r \in [1..n -> S] /\ \A k \in 1..n : r[k] = at[n + 1 - k]
    BY <1>4, <2>2, <2>3
  <2>5. r \in Seq(S) /\ DOMAIN r = 1..n
    BY <2>4, FunctionIsList
  <2>6. \A i \in S : \E k \in 1..n : r[k] = i
    BY <1>4, <2>3, <2>4
  <2>7. {r[k] : k \in DOMAIN r} = S
    BY <2>4, <2>5, <2>6
  <2>8. \A j, k \in 1..n : r[j] = r[k] => j = k
    BY <1>4, <2>3, <2>4
  <2>9. ASSUME NEW j \in 1..n, NEW k \in 1..n, j < k
        PROVE  key[r[j]] >= key[r[k]]
    <3>1. n + 1 - k < n + 1 - j
      BY <2>9
    <3>2. key[at[n + 1 - k]] <= key[at[n + 1 - j]]
      BY <1>7, <2>3, <3>1
    <3>3. key[r[j]] \in Int /\ key[r[k]] \in Int
      BY <1>6, <2>4
    <3> QED
      BY <2>4, <3>2, <3>3
  <2>10. Monotone(r, key, ~b)
    BY <1>9, <2>5, <2>9 DEF Monotone
  <2> QED
    BY <1>2, <2>1, <2>5, <2>7, <2>8, <2>10 DEF ViewOf, ShowsOnce
<1> QED
  BY <1>8, <1>9

\* Keys are numbers.
LEMMA CodeFacts ==
  ASSUME NEW c \in Chars
  PROVE  Code(c) \in Nat
  BY DEF Code, Chars

LEMMA TextKeyFacts ==
  ASSUME NEW n \in Seq(Chars)
  PROVE  TextKey(n) \in Nat
<1>1. Len(n) > 0 => n[1] \in Chars
  OBVIOUS
<1>2. Len(n) > 1 => n[2] \in Chars
  OBVIOUS
<1>3. Len(n) \in Nat
  OBVIOUS
<1>4. (IF Len(n) > 0 THEN 100 * Code(n[1]) ELSE 0) \in Nat
  <2>1. CASE Len(n) > 0
    <3>1. PICK c \in Nat : c = Code(n[1])
      BY <1>1, <2>1, CodeFacts
    <3>2. 100 * c \in Nat
      OBVIOUS
    <3> QED
      BY <2>1, <3>1, <3>2
  <2> QED
    BY <1>3, <2>1
<1>5. (IF Len(n) > 1 THEN Code(n[2]) ELSE 0) \in Nat
  <2>1. CASE Len(n) > 1
    BY <1>2, <2>1, CodeFacts
  <2> QED
    BY <1>3, <2>1
<1> QED
  BY <1>4, <1>5 DEF TextKey

LEMMA LowerFacts ==
  ASSUME NEW n \in Seq(Chars)
  PROVE  /\ Lower(n) \in Seq(Chars) /\ Len(Lower(n)) = Len(n) /\ DOMAIN Lower(n) = 1..Len(n)
         /\ \A k \in 1..Len(n) : Lower(n)[k] = [letter |-> n[k].letter, form |-> "lower"]
         /\ IsAscii(Lower(n))
<1>1. Len(n) \in Nat /\ DOMAIN n = 1..Len(n) /\ \A k \in 1..Len(n) : n[k] \in Chars
  OBVIOUS
<1>2. \A c \in Chars : Char(c.letter, "lower") \in Chars
  BY DEF Char, Chars, Forms
<1>3. Lower(n) = [k \in 1..Len(n) |-> Char(n[k].letter, "lower")]
  BY <1>1 DEF Lower
<1>4. Lower(n) \in [1..Len(n) -> Chars]
  BY <1>1, <1>2, <1>3
<1>5. Lower(n) \in Seq(Chars) /\ Len(Lower(n)) = Len(n) /\ DOMAIN Lower(n) = 1..Len(n)
  BY <1>1, <1>4, FunctionIsList
<1>6. \A k \in 1..Len(n) : Lower(n)[k] = [letter |-> n[k].letter, form |-> "lower"]
  BY <1>3 DEF Char
<1>7. IsAscii(Lower(n))
  BY <1>5, <1>6 DEF IsAscii
<1> QED
  BY <1>5, <1>6, <1>7

LEMMA KeysAreNumbers ==
  ASSUME OrderInv, NEW i \in DOMAIN listed
  PROVE  /\ NameKey(listed[i]) \in Int /\ LowerKey(listed[i]) \in Int
         /\ listed[i].figure \in Int /\ ZeroIfMissing(listed[i].figure) \in Int
         /\ PlaceKey(listed[i]) \in Int
         /\ listed[i].name \in Seq(Chars) /\ listed[i].also \in Seq(Chars)
<1>1. listed[i] \in RowSet
  BY DEF OrderInv
<1>2. listed[i].name \in Seq(Chars) /\ listed[i].also \in Seq(Chars) /\ listed[i].figure \in Nat \cup {Missing}
  BY <1>1, TableOrderAssumption
<1>3. listed[i].figure \in Int /\ ZeroIfMissing(listed[i].figure) \in Int
  BY <1>2 DEF Missing, ZeroIfMissing
<1>4. NameKey(listed[i]) \in Int
  BY <1>2, TextKeyFacts DEF NameKey
<1>5. LowerKey(listed[i]) \in Int
  BY <1>2, LowerFacts, TextKeyFacts DEF LowerKey
<1>6. PlaceKey(listed[i]) \in Int
  <2>1. PICK a \in Nat : a = TextKey(listed[i].also)
    BY <1>2, TextKeyFacts
  <2>2. PICK b \in Int : b = NameKey(listed[i])
    BY <1>4
  <2>3. 10000 * a + b \in Int
    OBVIOUS
  <2> QED
    BY <2>1, <2>2, <2>3 DEF PlaceKey
<1> QED
  BY <1>2, <1>3, <1>4, <1>5, <1>6

\* Positions of the snapshot can be ranked by any number.
LEMMA PositionsRankable ==
  ASSUME OrderInv, NEW S \in SUBSET DOMAIN listed, NEW key, DOMAIN key = S,
         \A i \in S : key[i] \in Int
  PROVE  Rankable(key)
<1>1. PICK n \in Nat : DOMAIN listed = 1..n
  BY DEF OrderInv
<1>2. IsFiniteSet(1..n)
  BY FS_Interval
<1>3. IsFiniteSet(S)
  BY <1>1, <1>2, FS_Subset
<1>4. S \subseteq Nat
  BY <1>1
<1> QED
  BY <1>3, <1>4 DEF Rankable

\* The process table.
LEMMA ProcessesFacts ==
  ASSUME OrderInv, NEW S \in SUBSET DOMAIN listed, NEW field
  PROVE  /\ ViewOf(SortProcesses(S, field), S)
         /\ field = "name" => Monotone(SortProcesses(S, field), LowerOf, order = "Asc")
         /\ field # "name" => Monotone(SortProcesses(S, field), RawOf, order = "Asc")
<1> DEFINE key == [i \in S |-> IF field = "name" THEN LowerKey(listed[i]) ELSE listed[i].figure]
           b == order = "Desc"
           at == ReversedIf(Ranked(key), b)
<1>1. \A i \in S : key[i] \in Int
  BY KeysAreNumbers
<1>2. DOMAIN key = S
  OBVIOUS
<1>3. at = SortProcesses(S, field)
  BY DEF SortProcesses
<1>4. /\ \A i \in S : field = "name" => LowerOf[i] = key[i]
      /\ \A i \in S : field # "name" => RawOf[i] = key[i]
  BY DEF LowerOf, RawOf
<1>5. b \in BOOLEAN /\ (~b <=> order = "Asc")
  BY DEF OrderInv
<1> HIDE DEF key, b
<1>6. ViewOf(at, S) /\ Monotone(at, key, ~b)
  BY <1>1, <1>2, <1>5, PositionsRankable, ReversedFacts
<1> HIDE DEF at
<1>7. \A k \in DOMAIN at : at[k] \in S
  BY <1>6 DEF ViewOf, ShowsOnce
<1>8. CASE field = "name"
  BY <1>3, <1>4, <1>5, <1>6, <1>7, <1>8 DEF Monotone
<1>9. CASE field # "name"
  BY <1>3, <1>4, <1>5, <1>6, <1>7, <1>9 DEF Monotone
<1> QED
  BY <1>3, <1>6, <1>8, <1>9

\* The direction a view is in, and a view whose keys are the other way up.
Rising(field, own) == (order = "Asc") = (field \in own)

LEMMA DirectedFacts ==
  ASSUME OrderInv, NEW S \in SUBSET DOMAIN listed, NEW field, NEW rising, NEW own
  PROVE  /\ ViewOf(Directed(S, field, rising, own), S)
         /\ field = "name" => Monotone(Directed(S, field, rising, own), NameOf, Rising(field, own))
         /\ field = "place" => Monotone(Directed(S, field, rising, own), PlaceOf, Rising(field, own))
         /\ field \notin {"name", "place"} /\ field \in rising =>
              Monotone(Directed(S, field, rising, own), FigureOf, Rising(field, own))
         /\ field \notin {"name", "place"} /\ field \notin rising =>
              Monotone(Directed(S, field, rising, own), FigureOf, ~Rising(field, own))
<1> DEFINE key == [i \in S |-> DirectedKey(listed[i], field, rising)]
           b == (order = "Asc") # (field \in own)
           at == ReversedIf(Ranked(key), b)
<1>1. \A i \in S : key[i] \in Int
  BY KeysAreNumbers DEF DirectedKey
<1>2. DOMAIN key = S
  OBVIOUS
<1>3. at = Directed(S, field, rising, own)
  BY DEF Directed
<1>4. /\ \A i \in S : field = "name" => NameOf[i] = key[i]
      /\ \A i \in S : field = "place" => PlaceOf[i] = key[i]
      /\ \A i \in S : field \notin {"name", "place"} /\ field \in rising => FigureOf[i] = key[i]
      /\ \A i \in S : field \notin {"name", "place"} /\ field \notin rising => FigureOf[i] \in Int /\ key[i] = -FigureOf[i]
  BY KeysAreNumbers DEF NameOf, PlaceOf, FigureOf, DirectedKey
<1>5. b \in BOOLEAN /\ (~b <=> Rising(field, own))
  BY DEF Rising
<1> HIDE DEF key, b
<1>6. ViewOf(at, S) /\ Monotone(at, key, ~b)
  BY <1>1, <1>2, <1>5, PositionsRankable, ReversedFacts
<1> HIDE DEF at
<1>7. \A k \in DOMAIN at : at[k] \in S
  BY <1>6 DEF ViewOf, ShowsOnce
<1>8. CASE field = "name"
  BY <1>3, <1>4, <1>5, <1>6, <1>7, <1>8 DEF Monotone
<1>9. CASE field \notin {"name", "place"} /\ field \in rising
  BY <1>3, <1>4, <1>5, <1>6, <1>7, <1>9 DEF Monotone
<1>10. CASE field \notin {"name", "place"} /\ field \notin rising
  <2>1. \A i, j \in S : (key[i] <= key[j] <=> FigureOf[i] >= FigureOf[j])
                        /\ (key[i] >= key[j] <=> FigureOf[i] <= FigureOf[j])
    BY <1>4, <1>10
  <2> QED
    BY <1>3, <1>5, <1>6, <1>7, <1>10, <2>1 DEF Monotone
<1>11. CASE field = "place"
  BY <1>3, <1>4, <1>5, <1>6, <1>7, <1>11 DEF Monotone
<1> QED
  BY <1>3, <1>6, <1>8, <1>9, <1>10, <1>11

LEMMA ConcatFacts ==
  ASSUME NEW S, NEW a \in Seq(S), NEW b \in Seq(S)
  PROVE  /\ a \o b \in Seq(S) /\ Len(a \o b) = Len(a) + Len(b)
         /\ DOMAIN (a \o b) = 1..(Len(a) + Len(b))
         /\ \A k \in 1..Len(a) : (a \o b)[k] = a[k]
         /\ \A k \in (Len(a) + 1)..(Len(a) + Len(b)) : (a \o b)[k] = b[k - Len(a)]
  OBVIOUS

\* Two views of different positions, one after the other.
Joined(D, P, S, U) ==
  /\ ViewOf(D \o P, S) /\ DOMAIN (D \o P) = 1..(Len(D) + Len(P))
  /\ Len(D) \in Nat /\ Len(P) \in Nat
  /\ \A k \in 1..Len(D) : (D \o P)[k] = D[k] /\ D[k] \in S \ U
  /\ \A k \in (Len(D) + 1)..(Len(D) + Len(P)) :
       /\ k - Len(D) \in 1..Len(P)
       /\ (D \o P)[k] = P[k - Len(D)] /\ P[k - Len(D)] \in U

LEMMA JoinedFacts ==
  ASSUME NEW S, NEW U \in SUBSET S, NEW D, ViewOf(D, S \ U), NEW P, ViewOf(P, U)
  PROVE  Joined(D, P, S, U)
<1>1. PICK m \in Nat : m = Len(D) /\ DOMAIN D = 1..m
  BY DEF ViewOf
<1>2. PICK n \in Nat : n = Len(P) /\ DOMAIN P = 1..n
  BY DEF ViewOf
<1>3. D \in Seq(S) /\ P \in Seq(S)
  BY DEF ViewOf
<1>4. PICK c \in Seq(S) : c = D \o P
  BY <1>3, ConcatFacts
<1>5. DOMAIN c = 1..(m + n) /\ Len(c) = m + n
  BY <1>1, <1>2, <1>3, <1>4, ConcatFacts
<1>6. /\ \A k \in 1..m : D[k] \in S \ U
      /\ \A k \in 1..n : P[k] \in U
      /\ \A j, k \in 1..m : D[j] = D[k] => j = k
      /\ \A j, k \in 1..n : P[j] = P[k] => j = k
  BY <1>1, <1>2 DEF ViewOf, ShowsOnce
<1>7. \A k \in 1..m : c[k] = D[k] /\ D[k] \in S \ U
  <2>1. \A k \in 1..Len(D) : (D \o P)[k] = D[k]
    BY <1>3, ConcatFacts
  <2> QED
    BY <1>1, <1>4, <1>6, <2>1
<1>8. \A k \in (m + 1)..(m + n) : k - m \in 1..n /\ c[k] = P[k - m] /\ P[k - m] \in U
  <2> TAKE k \in (m + 1)..(m + n)
  <2>1. k - m \in 1..n
    OBVIOUS
  <2>2. c[k] = P[k - m]
    BY <1>1, <1>2, <1>3, <1>4, ConcatFacts
  <2> QED
    BY <1>6, <2>1, <2>2
<1>9. \A i \in S : \E k \in 1..(m + n) : c[k] = i
  <2> TAKE i \in S
  <2>1. CASE i \in U
    <3>1. PICK k \in 1..n : P[k] = i
      BY <1>2, <2>1 DEF ViewOf, ShowsOnce
    <3>2. m + k \in (m + 1)..(m + n) /\ (m + k) - m = k /\ m + k \in 1..(m + n)
      OBVIOUS
    <3> QED
      BY <1>8, <3>1, <3>2
  <2>2. CASE i \notin U
    <3>1. PICK k \in 1..m : D[k] = i
      BY <1>1, <2>2 DEF ViewOf, ShowsOnce
    <3>2. k \in 1..(m + n)
      OBVIOUS
    <3> QED
      BY <1>7, <3>1, <3>2
  <2> QED
    BY <2>1, <2>2
<1>10. {c[k] : k \in DOMAIN c} = S
  <2>1. \A k \in 1..(m + n) : c[k] \in S
    BY <1>5
  <2> QED
    BY <1>5, <1>9, <2>1
<1>11. ASSUME NEW j \in 1..(m + n), NEW k \in 1..(m + n), c[j] = c[k] PROVE j = k
  <2>1. CASE j <= m /\ k <= m
    <3>1. j \in 1..m /\ k \in 1..m
      BY <2>1
    <3> QED
      BY <1>7, <1>11, <1>6, <3>1
  <2>2. CASE j > m /\ k > m
    <3>1. j \in (m + 1)..(m + n) /\ k \in (m + 1)..(m + n)
      BY <2>2
    <3>2. j - m = k - m
      BY <1>8, <1>11, <1>6, <3>1
    <3> QED
      BY <3>2
  <2>3. CASE j <= m /\ k > m
    <3>1. j \in 1..m /\ k \in (m + 1)..(m + n)
      BY <2>3
    <3> QED
      BY <1>7, <1>8, <1>11, <3>1
  <2>4. CASE j > m /\ k <= m
    <3>1. k \in 1..m /\ j \in (m + 1)..(m + n)
      BY <2>4
    <3> QED
      BY <1>7, <1>8, <1>11, <3>1
  <2> QED
    BY <2>1, <2>2, <2>3, <2>4
<1>12. ViewOf(c, S)
  BY <1>5, <1>10, <1>11 DEF ViewOf, ShowsOnce
<1> QED
  BY <1>1, <1>2, <1>4, <1>5, <1>7, <1>8, <1>12 DEF Joined

\* Devices and their processes: what is reported in its direction, then the rest.
DeviceView(S, field, own) == Directed(S \ Unreported(S, field), field, own, own)
                            \o Ranked([i \in Unreported(S, field) |-> i])

LEMMA GpuFacts ==
  ASSUME OrderInv, NEW S \in SUBSET DOMAIN listed, NEW field, NEW own, "figure" \notin own
  PROVE  /\ ViewOf(DeviceView(S, field, own), S)
         /\ field = "name" /\ field \in own =>
              Monotone(DeviceView(S, field, own), NameOf, order = "Asc")
         /\ field \notin {"name", "place"} /\ field \in own =>
              Monotone(DeviceView(S, field, own), FigureOf, order = "Asc")
         /\ field = "figure" => Parked(DeviceView(S, field, own), FigureOf, order = "Asc")
<1>1. PICK U \in SUBSET S : U = Unreported(S, field)
  BY DEF Unreported
<1>2. PICK D : D = Directed(S \ U, field, own, own)
  OBVIOUS
<1>3. PICK P : P = Ranked([i \in U |-> i])
  OBVIOUS
<1>4. DeviceView(S, field, own) = D \o P
  BY <1>1, <1>2, <1>3 DEF DeviceView
<1>5. S \ U \in SUBSET DOMAIN listed /\ U \in SUBSET DOMAIN listed
  BY <1>1
<1>6. ViewOf(D, S \ U)
  BY <1>2, <1>5, DirectedFacts
<1>7. /\ field = "name" => Monotone(D, NameOf, Rising(field, own))
      /\ field \notin {"name", "place"} /\ field \in own => Monotone(D, FigureOf, Rising(field, own))
      /\ field \notin {"name", "place"} /\ field \notin own => Monotone(D, FigureOf, ~Rising(field, own))
  BY <1>2, <1>5, DirectedFacts
<1>8. ViewOf(P, U) /\ \A j, k \in DOMAIN P : j < k => P[j] < P[k]
  <2> DEFINE key == [i \in U |-> i]
  <2>1. DOMAIN key = U /\ \A i \in U : key[i] = i /\ key[i] \in Int
    BY <1>5 DEF OrderInv
  <2> HIDE DEF key
  <2>2. Rankable(key)
    BY <1>5, <2>1, PositionsRankable
  <2>3. P = ReversedIf(Ranked(key), FALSE)
    BY <1>3 DEF ReversedIf, key
  <2>4. ViewOf(P, U)
    BY <2>1, <2>2, <2>3, ReversedFacts
  <2>5. InOrder(P, key)
    BY <2>2, <1>3, RankedFacts DEF key
  <2>6. \A k \in DOMAIN P : P[k] \in U
    BY <2>4 DEF ViewOf
  <2>7. \A i \in U : i \in Int
    BY <2>1
  <2> QED
    BY <2>1, <2>4, <2>5, <2>6, <2>7 DEF InOrder, Sooner
<1>9. PICK c : c = D \o P
  OBVIOUS
<1>10. Joined(D, P, S, U)
  BY <1>6, <1>8, JoinedFacts
<1>11. PICK m \in Nat, n \in Nat : m = Len(D) /\ n = Len(P)
  BY <1>10 DEF Joined
<1>12. /\ ViewOf(c, S) /\ DOMAIN c = 1..(m + n)
       /\ DOMAIN D = 1..m /\ DOMAIN P = 1..n
       /\ \A k \in 1..m : c[k] = D[k] /\ D[k] \in S \ U
       /\ \A k \in (m + 1)..(m + n) : k - m \in 1..n /\ c[k] = P[k - m] /\ P[k - m] \in U
  <2>1. DOMAIN D = 1..m /\ DOMAIN P = 1..n
    BY <1>6, <1>8, <1>11 DEF ViewOf
  <2> QED
    BY <1>9, <1>10, <1>11, <2>1 DEF Joined
<1>13. CASE field # "figure"
  <2>1. U = {}
    BY <1>1, <1>13 DEF Unreported
  <2>2. DOMAIN c = 1..m
    <3>1. \A k \in 1..(m + n) : k <= m
      BY <1>12, <2>1
    <3> QED
      BY <1>12, <3>1
  <2>3. field \in own => (Rising(field, own) <=> order = "Asc")
    BY DEF Rising
  <2>4. \A key, up : Monotone(D, key, up) => Monotone(c, key, up)
    BY <1>12, <2>2 DEF Monotone
  <2>5. field = "name" /\ field \in own => Monotone(c, NameOf, order = "Asc")
    BY <1>7, <2>3, <2>4 DEF Monotone
  <2>6. field \notin {"name", "place"} /\ field \in own => Monotone(c, FigureOf, order = "Asc")
    BY <1>7, <2>3, <2>4 DEF Monotone
  <2> QED
    BY <1>4, <1>9, <1>12, <1>13, <2>5, <2>6
<1>14. CASE field = "figure"
  <2>1. ~Rising(field, own) <=> order = "Asc"
    BY <1>14 DEF Rising
  <2>2. Monotone(D, FigureOf, order = "Asc")
    BY <1>7, <1>14, <2>1
  <2>3. /\ \A i \in U : listed[i].figure = Missing
        /\ \A i \in S \ U : listed[i].figure # Missing
    BY <1>1, <1>14 DEF Unreported
  <2>4. ASSUME NEW j \in 1..(m + n), NEW k \in 1..(m + n), j < k
        PROVE  /\ listed[c[j]].figure = Missing => listed[c[k]].figure = Missing /\ c[j] < c[k]
               /\ listed[c[k]].figure # Missing =>
                    IF order = "Asc" THEN FigureOf[c[j]] <= FigureOf[c[k]]
                    ELSE FigureOf[c[j]] >= FigureOf[c[k]]
    <3>1. CASE k <= m
      <4>1. j \in 1..m /\ k \in 1..m
        BY <2>4, <3>1
      <4>2. listed[c[j]].figure # Missing
        BY <1>12, <2>3, <4>1
      <4> QED
        BY <1>12, <2>2, <2>4, <4>1, <4>2 DEF Monotone
    <3>2. CASE k > m
      <4>1. k \in (m + 1)..(m + n)
        BY <3>2
      <4>2. listed[c[k]].figure = Missing
        BY <1>12, <2>3, <4>1
      <4>3. CASE j <= m
        <5>1. j \in 1..m
          BY <4>3
        <5>2. listed[c[j]].figure # Missing
          BY <1>12, <2>3, <5>1
        <5> QED
          BY <4>2, <5>2
      <4>4. CASE j > m
        <5>1. j \in (m + 1)..(m + n) /\ j - m < k - m
          BY <2>4, <4>4
        <5>2. c[j] < c[k]
          BY <1>8, <1>12, <4>1, <5>1
        <5> QED
          BY <4>2, <5>2
      <4> QED
        BY <4>3, <4>4
    <3> QED
      BY <3>1, <3>2
  <2>5. Parked(c, FigureOf, order = "Asc")
    BY <1>12, <2>4 DEF Parked
  <2> QED
    BY <1>4, <1>9, <1>12, <1>14, <2>5
<1> QED
  BY <1>13, <1>14

\* The two ways contains_ignore_case compares come to the same.
LEMMA FilterFacts ==
  ASSUME NEW text \in Seq(Chars), NEW t \in Seq(Chars), t # <<>>
  PROVE  ContainsIgnoreCase(text, Lower(t)) <=> Lower(t) \in Windows(Lower(text), Len(t))
<1>1. PICK n \in Nat : n = Len(t) /\ n # 0
  OBVIOUS
<1>2. PICK needle \in Seq(Chars) : needle = Lower(t)
  BY LowerFacts
<1>3. /\ Len(needle) = n /\ DOMAIN needle = 1..n /\ IsAscii(needle) /\ needle # <<>>
      /\ \A k \in 1..n : needle[k] = [letter |-> needle[k].letter, form |-> "lower"]
  <2>1. Len(needle) = n /\ DOMAIN needle = 1..n /\ IsAscii(needle)
    BY <1>1, <1>2, LowerFacts
  <2>2. \A k \in 1..n : needle[k] = [letter |-> t[k].letter, form |-> "lower"]
    BY <1>1, <1>2, LowerFacts
  <2>3. needle # <<>>
    BY <1>1, <2>1
  <2> QED
    BY <2>1, <2>2, <2>3
<1>4. PICK low \in Seq(Chars) : low = Lower(text)
  BY LowerFacts
<1>5. PICK m \in Nat : /\ m = Len(text) /\ Len(low) = m
                       /\ \A k \in 1..m : low[k] = [letter |-> text[k].letter, form |-> "lower"]
  BY <1>4, LowerFacts
<1>6. CASE ~IsAscii(text)
  BY <1>1, <1>2, <1>3, <1>4, <1>6 DEF ContainsIgnoreCase
<1>7. CASE IsAscii(text)
  <2> DEFINE Fits(k) == \A i \in 1..n : text[k + i].letter = needle[i].letter
             Wide(k) == [i \in 1..n |-> text[k + i]]
             Narrow(k) == [i \in 1..n |-> low[k + i]]
  <2>1. ContainsIgnoreCase(text, needle) <=> \E k \in 0..(m - n) : Fits(k)
    <3>1. Windows(text, n) = {Wide(k) : k \in 0..(m - n)}
      BY <1>5 DEF Windows
    <3>2. ContainsIgnoreCase(text, needle) <=>
            \E w \in Windows(text, n) : \A i \in 1..n : w[i].letter = needle[i].letter
      BY <1>3, <1>7 DEF ContainsIgnoreCase
    <3>3. \A k : (\A i \in 1..n : Wide(k)[i].letter = needle[i].letter) <=> Fits(k)
      OBVIOUS
    <3> HIDE DEF Wide, Fits
    <3> QED
      BY <3>1, <3>2, <3>3
  <2>2. ASSUME NEW k \in 0..(m - n) PROVE Fits(k) <=> needle = Narrow(k)
    <3>1. \A i \in 1..n : k + i \in 1..m
      OBVIOUS
    <3>2. \A i \in 1..n : low[k + i] = [letter |-> text[k + i].letter, form |-> "lower"]
      BY <1>5, <3>1
    <3>3. needle = [i \in 1..n |-> needle[i]]
      BY <1>3
    <3>4. ASSUME Fits(k) PROVE needle = Narrow(k)
      <4>1. \A i \in 1..n : needle[i] = low[k + i]
        BY <1>3, <3>2, <3>4
      <4> QED
        BY <3>3, <4>1
    <3>5. ASSUME needle = Narrow(k) PROVE Fits(k)
      <4>1. \A i \in 1..n : needle[i] = low[k + i]
        BY <3>5
      <4>2. ASSUME NEW i \in 1..n PROVE text[k + i].letter = needle[i].letter
        <5>1. needle[i] = [letter |-> text[k + i].letter, form |-> "lower"]
          BY <3>2, <4>1
        <5> QED
          BY <5>1
      <4> QED
        BY <4>2
    <3> QED
      BY <3>4, <3>5
  <2>3. Windows(low, n) = {Narrow(k) : k \in 0..(m - n)}
    BY <1>5 DEF Windows
  <2> HIDE DEF Fits, Narrow
  <2> QED
    BY <1>1, <1>2, <1>4, <2>1, <2>2, <2>3
<1> QED
  BY <1>6, <1>7

\* Every table lists what passes the filter, once and in its direction.
LEMMA OrderFacts ==
  ASSUME OrderInv
  PROVE  OrderKept
<1>1. PICK S \in SUBSET DOMAIN listed : S = Filtered
  BY DEF Filtered
<1>2. ASSUME NEW i \in DOMAIN listed
      PROVE  i \in S <=> \/ typed = <<>>
                         \/ Lower(typed) \in Windows(Lower(listed[i].name), Len(typed))
                         \/ Lower(typed) \in Windows(Lower(listed[i].also), Len(typed))
  <2>1. listed[i].name \in Seq(Chars) /\ listed[i].also \in Seq(Chars) /\ typed \in Seq(Chars)
    BY KeysAreNumbers DEF OrderInv
  <2>2. i \in S <=> \/ typed = <<>>
                    \/ ContainsIgnoreCase(listed[i].name, Lower(typed))
                    \/ ContainsIgnoreCase(listed[i].also, Lower(typed))
    BY <1>1 DEF Filtered
  <2> QED
    BY <2>1, <2>2, FilterFacts
<1>3. \A f : ViewOf(SortProcesses(S, f), S)
  BY ProcessesFacts
<1>4. \A f, rising, own : ViewOf(Directed(S, f, rising, own), S)
  BY DirectedFacts
<1>5. \A f : /\ SortDevices(S, f) = DeviceView(S, f, {"name", "index"})
             /\ SortProcs(S, f) = DeviceView(S, f, {"name", "pid", "device"})
  BY DEF SortDevices, SortProcs, DeviceView
<1>6. \A f : ViewOf(SortDevices(S, f), S) /\ ViewOf(SortProcs(S, f), S)
  BY <1>5, GpuFacts
<1>7. \A f : /\ ViewOf(SortInterfaces(S, f), S) /\ ViewOf(SortContainers(S, f), S)
             /\ ViewOf(SortPods(S, f), S) /\ ViewOf(SortNodes(S, f), S)
             /\ ViewOf(SortDeployments(S, f), S)
  BY <1>4 DEF SortInterfaces, SortContainers, SortPods, SortNodes, SortDeployments
<1>8. \A f : \A at \in {SortProcesses(S, f), SortInterfaces(S, f), SortContainers(S, f),
                        SortPods(S, f), SortNodes(S, f), SortDeployments(S, f),
                        SortDevices(S, f), SortProcs(S, f)} : ShowsOnce(at, S)
  BY <1>3, <1>6, <1>7 DEF ViewOf
<1> DEFINE up == order = "Asc"
<1>9. Monotone(SortProcesses(S, "name"), LowerOf, up) /\ Monotone(SortProcesses(S, "figure"), RawOf, up)
  BY ProcessesFacts
<1>10. /\ Rising("name", {"name"}) = up /\ Rising("name", {"name", "started"}) = up
       /\ Rising("started", {"name", "started"}) = up
       /\ Rising("name", {}) = ~up /\ Rising("place", {}) = ~up /\ Rising("phase", {}) = ~up /\ Rising("ready", {}) = ~up
       /\ (~Rising("figure", {})) = up /\ (~Rising("figure", {"name"})) = up
       /\ (~Rising("figure", {"name", "started"})) = up
  BY DEF Rising
<1>11. Monotone(SortInterfaces(S, "name"), NameOf, up) /\ Monotone(SortContainers(S, "name"), NameOf, up)
  <2>1. Monotone(Directed(S, "name", {"name"}, {"name"}), NameOf, Rising("name", {"name"}))
    BY DirectedFacts
  <2>2. Monotone(Directed(S, "name", {"name", "started"}, {"name", "started"}), NameOf,
                 Rising("name", {"name", "started"}))
    BY DirectedFacts
  <2> QED
    BY <1>10, <2>1, <2>2 DEF SortInterfaces, SortContainers
<1>12. Monotone(SortInterfaces(S, "figure"), FigureOf, up) /\ Monotone(SortContainers(S, "figure"), FigureOf, up)
  <2>1. Monotone(Directed(S, "figure", {"name"}, {"name"}), FigureOf, ~Rising("figure", {"name"}))
    BY DirectedFacts
  <2>2. Monotone(Directed(S, "figure", {"name", "started"}, {"name", "started"}), FigureOf,
                 ~Rising("figure", {"name", "started"}))
    BY DirectedFacts
  <2> QED
    BY <1>10, <2>1, <2>2 DEF SortInterfaces, SortContainers
<1>13. Monotone(SortContainers(S, "started"), FigureOf, up)
  <2>1. Monotone(Directed(S, "started", {"name", "started"}, {"name", "started"}), FigureOf,
                 Rising("started", {"name", "started"}))
    BY DirectedFacts
  <2> QED
    BY <1>10, <2>1 DEF SortContainers
<1>14. /\ Monotone(SortPods(S, "figure"), FigureOf, up) /\ Monotone(SortNodes(S, "figure"), FigureOf, up)
       /\ Monotone(SortDeployments(S, "figure"), FigureOf, up)
  <2>1. \A rising : "figure" \notin rising =>
          Monotone(Directed(S, "figure", rising, {}), FigureOf, ~Rising("figure", {}))
    BY DirectedFacts
  <2> QED
    BY <1>10, <2>1 DEF SortPods, SortNodes, SortDeployments
<1>15. /\ Monotone(SortPods(S, "name"), PlaceOf, ~up)
       /\ Monotone(SortDeployments(S, "namespace"), PlaceOf, ~up)
       /\ Monotone(SortNodes(S, "name"), NameOf, ~up) /\ Monotone(SortDeployments(S, "name"), NameOf, ~up)
  <2>1. \A rising : Monotone(Directed(S, "name", rising, {}), NameOf, Rising("name", {}))
    BY DirectedFacts
  <2>2. \A rising : Monotone(Directed(S, "place", rising, {}), PlaceOf, Rising("place", {}))
    BY DirectedFacts
  <2>3. /\ SortPods(S, "name") = Directed(S, "place", {"phase"}, {})
        /\ SortDeployments(S, "namespace") = Directed(S, "place", {"name", "ready"}, {})
        /\ SortDeployments(S, "name") = Directed(S, "name", {"name", "ready"}, {})
        /\ SortNodes(S, "name") = Directed(S, "name", {"name"}, {})
    BY DEF SortPods, SortNodes, SortDeployments
  <2> QED
    BY <1>10, <2>1, <2>2, <2>3
<1>16. Monotone(SortPods(S, "phase"), FigureOf, ~up) /\ Monotone(SortDeployments(S, "ready"), FigureOf, ~up)
  <2>1. Monotone(Directed(S, "phase", {"phase"}, {}), FigureOf, Rising("phase", {}))
    BY DirectedFacts
  <2>2. Monotone(Directed(S, "ready", {"name", "ready"}, {}), FigureOf, Rising("ready", {}))
    BY DirectedFacts
  <2> QED
    BY <1>10, <2>1, <2>2 DEF SortPods, SortDeployments
<1>17. /\ Monotone(SortDevices(S, "name"), NameOf, up) /\ Monotone(SortProcs(S, "name"), NameOf, up)
       /\ Monotone(SortDevices(S, "index"), FigureOf, up) /\ Monotone(SortProcs(S, "pid"), FigureOf, up)
       /\ Monotone(SortProcs(S, "device"), FigureOf, up)
       /\ Parked(SortDevices(S, "figure"), FigureOf, up) /\ Parked(SortProcs(S, "figure"), FigureOf, up)
  <2>1. \A own : "figure" \notin own => Parked(DeviceView(S, "figure", own), FigureOf, up)
    BY GpuFacts
  <2>2. \A own : "figure" \notin own /\ "name" \in own => Monotone(DeviceView(S, "name", own), NameOf, up)
    BY GpuFacts
  <2>3. \A f, own : "figure" \notin own /\ f \notin {"name", "place"} /\ f \in own =>
          Monotone(DeviceView(S, f, own), FigureOf, up)
    BY GpuFacts
  <2>4. "figure" \notin {"name", "index"} /\ "figure" \notin {"name", "pid", "device"}
    OBVIOUS
  <2> QED
    BY <1>5, <2>1, <2>2, <2>3, <2>4
<1> HIDE DEF up
<1>18. \A at \in {SortInterfaces(S, "name"), SortContainers(S, "name"), SortDevices(S, "name"),
                  SortProcs(S, "name")} : Monotone(at, NameOf, up)
  BY <1>11, <1>17
<1>19. \A at \in {SortInterfaces(S, "figure"), SortContainers(S, "figure"), SortPods(S, "figure"),
                  SortNodes(S, "figure"), SortDeployments(S, "figure"), SortDevices(S, "index"),
                  SortProcs(S, "pid"), SortProcs(S, "device"), SortContainers(S, "started")} :
         Monotone(at, FigureOf, up)
  BY <1>12, <1>13, <1>14, <1>17
<1>20. /\ \A at \in {SortPods(S, "name"), SortDeployments(S, "namespace")} : Monotone(at, PlaceOf, ~up)
       /\ \A at \in {SortNodes(S, "name"), SortDeployments(S, "name")} : Monotone(at, NameOf, ~up)
  BY <1>15
<1>21. \A at \in {SortPods(S, "phase"), SortDeployments(S, "ready")} : Monotone(at, FigureOf, ~up)
  BY <1>16
<1>22. \A at \in {SortDevices(S, "figure"), SortProcs(S, "figure")} : Parked(at, FigureOf, up)
  BY <1>17
<1> QED
  BY <1>1, <1>2, <1>8, <1>9, <1>18, <1>19, <1>20, <1>21, <1>22 DEF OrderKept, up

-----------------------------------------------------------------------------
(* Sort fields.                                                            *)

NamesOf(t) == {Cycle[t][k] : k \in DOMAIN Cycle[t]}

\* Every field of a table has its place in the round, an arrow on a column that shows
\* what the rows are compared by, and a label of its own.
FieldsRight(t, n) ==
  /\ DOMAIN Cycle[t] = 1..n /\ Len(Cycle[t]) = n
  /\ \A i, j \in 1..n : Cycle[t][i] = Cycle[t][j] => i = j
  /\ \A x \in NamesOf(t) :
       /\ SortColumn[t][x] \in 0..(Len(CellsOf[t]) - 1)
       /\ ShowsKey(t, CellsOf[t][SortColumn[t][x] + 1], Keys[t][x])
  /\ \A x, y \in NamesOf(t) : Labels[t][x] = Labels[t][y] => x = y

LEMMA ProcessesFields == FieldsRight("processes", 5)
<1> DEFINE N == {"Cpu", "Mem", "Pid", "Name", "User"}
<1>1. DOMAIN Cycle["processes"] = 1..5 /\ Len(Cycle["processes"]) = 5 /\ Len(CellsOf["processes"]) = 7
  BY DEF Cycle, CellsOf, ProcessRow
<1>2. 1..5 = {1, 2, 3, 4, 5}
  OBVIOUS
<1>3. NamesOf("processes") = N
  BY <1>1, <1>2 DEF NamesOf, Cycle
<1>4. \A i, j \in 1..5 : Cycle["processes"][i] = Cycle["processes"][j] => i = j
  BY <1>2 DEF Cycle
<1>5. /\ SortColumn["processes"]["Cpu"] = 3 /\ SortColumn["processes"]["Mem"] = 4
      /\ SortColumn["processes"]["Pid"] = 0 /\ SortColumn["processes"]["Name"] = 6
      /\ SortColumn["processes"]["User"] = 1
  BY DEF SortColumn, ProcessSortColumn
<1>6. /\ CellsOf["processes"][4] = "cpu" /\ CellsOf["processes"][5] = "mem share"
      /\ CellsOf["processes"][1] = "pid" /\ CellsOf["processes"][7] = "command"
      /\ CellsOf["processes"][2] = "user"
  BY DEF CellsOf, ProcessRow
<1>7. /\ Keys["processes"]["Cpu"] = "cpu" /\ Labels["processes"]["Cpu"] = "cpu"
      /\ Keys["processes"]["Mem"] = "mem" /\ Labels["processes"]["Mem"] = "mem"
      /\ Keys["processes"]["Pid"] = "pid" /\ Labels["processes"]["Pid"] = "pid"
      /\ Keys["processes"]["Name"] = "name" /\ Labels["processes"]["Name"] = "name"
      /\ Keys["processes"]["User"] = "user" /\ Labels["processes"]["User"] = "user"
  BY DEF Keys, Labels
<1>8. ASSUME NEW x \in N
      PROVE  /\ SortColumn["processes"][x] \in 0..6
             /\ ShowsKey("processes", CellsOf["processes"][SortColumn["processes"][x] + 1], Keys["processes"][x])
  <2>1. PICK i : i = SortColumn["processes"][x] + 1
    OBVIOUS
  <2>2. SortColumn["processes"][x] \in 0..6
    BY <1>5
  <2>3. <<x, i>> \in {<<"Cpu", 4>>, <<"Mem", 5>>, <<"Pid", 1>>, <<"Name", 7>>, <<"User", 2>>}
    BY <1>5, <2>1
  <2>4. ShowsKey("processes", CellsOf["processes"][i], Keys["processes"][x])
    BY <1>6, <1>7, <2>3 DEF ShowsKey
  <2> QED
    BY <2>1, <2>2, <2>4
<1>9. \A x, y \in N : Labels["processes"][x] = Labels["processes"][y] => x = y
  BY <1>7
<1> HIDE DEF N
<1> QED
  BY <1>1, <1>3, <1>4, <1>8, <1>9 DEF FieldsRight

LEMMA NetworkFields == FieldsRight("network", 6)
<1> DEFINE N == {"RxRate", "TxRate", "Name", "Errors", "TotalRx", "TotalTx"}
<1>1. DOMAIN Cycle["network"] = 1..6 /\ Len(Cycle["network"]) = 6 /\ Len(CellsOf["network"]) = 7
  BY DEF Cycle, CellsOf, InterfaceRow
<1>2. 1..6 = {1, 2, 3, 4, 5, 6}
  OBVIOUS
<1>3. NamesOf("network") = N
  BY <1>1, <1>2 DEF NamesOf, Cycle
<1>4. \A i, j \in 1..6 : Cycle["network"][i] = Cycle["network"][j] => i = j
  BY <1>2 DEF Cycle
<1>5. /\ SortColumn["network"]["RxRate"] = 2 /\ SortColumn["network"]["TxRate"] = 3
      /\ SortColumn["network"]["Name"] = 0 /\ SortColumn["network"]["Errors"] = 6
      /\ SortColumn["network"]["TotalRx"] = 4 /\ SortColumn["network"]["TotalTx"] = 5
  BY DEF SortColumn, InterfaceSortColumn
<1>6. /\ CellsOf["network"][3] = "rx rate" /\ CellsOf["network"][4] = "tx rate"
      /\ CellsOf["network"][1] = "name" /\ CellsOf["network"][7] = "errors"
      /\ CellsOf["network"][5] = "rx" /\ CellsOf["network"][6] = "tx"
  BY DEF CellsOf, InterfaceRow
<1>7. /\ Keys["network"]["RxRate"] = "rx rate" /\ Labels["network"]["RxRate"] = "rx"
      /\ Keys["network"]["TxRate"] = "tx rate" /\ Labels["network"]["TxRate"] = "tx"
      /\ Keys["network"]["Name"] = "name" /\ Labels["network"]["Name"] = "name"
      /\ Keys["network"]["Errors"] = "errors" /\ Labels["network"]["Errors"] = "errors"
      /\ Keys["network"]["TotalRx"] = "rx" /\ Labels["network"]["TotalRx"] = "total rx"
      /\ Keys["network"]["TotalTx"] = "tx" /\ Labels["network"]["TotalTx"] = "total tx"
  BY DEF Keys, Labels
<1>8. ASSUME NEW x \in N
      PROVE  /\ SortColumn["network"][x] \in 0..6
             /\ ShowsKey("network", CellsOf["network"][SortColumn["network"][x] + 1], Keys["network"][x])
  <2>1. PICK i : i = SortColumn["network"][x] + 1
    OBVIOUS
  <2>2. SortColumn["network"][x] \in 0..6
    BY <1>5
  <2>3. <<x, i>> \in {<<"RxRate", 3>>, <<"TxRate", 4>>, <<"Name", 1>>, <<"Errors", 7>>, <<"TotalRx", 5>>, <<"TotalTx", 6>>}
    BY <1>5, <2>1
  <2>4. ShowsKey("network", CellsOf["network"][i], Keys["network"][x])
    BY <1>6, <1>7, <2>3 DEF ShowsKey
  <2> QED
    BY <2>1, <2>2, <2>4
<1>9. \A x, y \in N : Labels["network"][x] = Labels["network"][y] => x = y
  <2>1. \A x \in N : Labels["network"][x] = "rx" => x = "RxRate"
    BY <1>7
  <2>2. \A x \in N : Labels["network"][x] = "tx" => x = "TxRate"
    BY <1>7
  <2>3. \A x \in N : Labels["network"][x] = "name" => x = "Name"
    BY <1>7
  <2>4. \A x \in N : Labels["network"][x] = "errors" => x = "Errors"
    BY <1>7
  <2>5. \A x \in N : Labels["network"][x] = "total rx" => x = "TotalRx"
    BY <1>7
  <2>6. \A x \in N : Labels["network"][x] = "total tx" => x = "TotalTx"
    BY <1>7
  <2>7. \A x \in N : Labels["network"][x] \in {"rx", "tx", "name", "errors", "total rx", "total tx"}
    BY <1>7
  <2> HIDE DEF N
  <2> QED
    BY <2>1, <2>2, <2>3, <2>4, <2>5, <2>6, <2>7
<1> HIDE DEF N
<1> QED
  BY <1>1, <1>3, <1>4, <1>8, <1>9 DEF FieldsRight

LEMMA ContainersFields == FieldsRight("containers", 6)
<1> DEFINE N == {"Cpu", "Mem", "Name", "NetRx", "NetTx", "Uptime"}
<1>1. DOMAIN Cycle["containers"] = 1..6 /\ Len(Cycle["containers"]) = 6 /\ Len(CellsOf["containers"]) = 8
  BY DEF Cycle, CellsOf, ContainerRow
<1>2. 1..6 = {1, 2, 3, 4, 5, 6}
  OBVIOUS
<1>3. NamesOf("containers") = N
  BY <1>1, <1>2 DEF NamesOf, Cycle
<1>4. \A i, j \in 1..6 : Cycle["containers"][i] = Cycle["containers"][j] => i = j
  BY <1>2 DEF Cycle
<1>5. /\ SortColumn["containers"]["Cpu"] = 3 /\ SortColumn["containers"]["Mem"] = 4
      /\ SortColumn["containers"]["Name"] = 0 /\ SortColumn["containers"]["NetRx"] = 5
      /\ SortColumn["containers"]["NetTx"] = 6 /\ SortColumn["containers"]["Uptime"] = 7
  BY DEF SortColumn, ContainerSortColumn
<1>6. /\ CellsOf["containers"][4] = "cpu" /\ CellsOf["containers"][5] = "mem"
      /\ CellsOf["containers"][1] = "name" /\ CellsOf["containers"][6] = "rx"
      /\ CellsOf["containers"][7] = "tx" /\ CellsOf["containers"][8] = "uptime"
  BY DEF CellsOf, ContainerRow
<1>7. /\ Keys["containers"]["Cpu"] = "cpu" /\ Labels["containers"]["Cpu"] = "cpu"
      /\ Keys["containers"]["Mem"] = "mem" /\ Labels["containers"]["Mem"] = "mem"
      /\ Keys["containers"]["Name"] = "name" /\ Labels["containers"]["Name"] = "name"
      /\ Keys["containers"]["NetRx"] = "rx" /\ Labels["containers"]["NetRx"] = "rx"
      /\ Keys["containers"]["NetTx"] = "tx" /\ Labels["containers"]["NetTx"] = "tx"
      /\ Keys["containers"]["Uptime"] = "started" /\ Labels["containers"]["Uptime"] = "uptime"
  BY DEF Keys, Labels
<1>8. ASSUME NEW x \in N
      PROVE  /\ SortColumn["containers"][x] \in 0..7
             /\ ShowsKey("containers", CellsOf["containers"][SortColumn["containers"][x] + 1], Keys["containers"][x])
  <2>1. PICK i : i = SortColumn["containers"][x] + 1
    OBVIOUS
  <2>2. SortColumn["containers"][x] \in 0..7
    BY <1>5
  <2>3. <<x, i>> \in {<<"Cpu", 4>>, <<"Mem", 5>>, <<"Name", 1>>, <<"NetRx", 6>>, <<"NetTx", 7>>, <<"Uptime", 8>>}
    BY <1>5, <2>1
  <2>4. ShowsKey("containers", CellsOf["containers"][i], Keys["containers"][x])
    BY <1>6, <1>7, <2>3 DEF ShowsKey
  <2> QED
    BY <2>1, <2>2, <2>4
<1>9. \A x, y \in N : Labels["containers"][x] = Labels["containers"][y] => x = y
  BY <1>7
<1> HIDE DEF N
<1> QED
  BY <1>1, <1>3, <1>4, <1>8, <1>9 DEF FieldsRight

LEMMA PodsFields == FieldsRight("pods", 6)
<1> DEFINE N == {"Cpu", "Mem", "Name", "Restarts", "Age", "Phase"}
<1>1. DOMAIN Cycle["pods"] = 1..6 /\ Len(Cycle["pods"]) = 6 /\ Len(CellsOf["pods"]) = 8
  BY DEF Cycle, CellsOf, PodRowCells
<1>2. 1..6 = {1, 2, 3, 4, 5, 6}
  OBVIOUS
<1>3. NamesOf("pods") = N
  BY <1>1, <1>2 DEF NamesOf, Cycle
<1>4. \A i, j \in 1..6 : Cycle["pods"][i] = Cycle["pods"][j] => i = j
  BY <1>2 DEF Cycle
<1>5. /\ SortColumn["pods"]["Cpu"] = 5 /\ SortColumn["pods"]["Mem"] = 6
      /\ SortColumn["pods"]["Name"] = 1 /\ SortColumn["pods"]["Restarts"] = 4
      /\ SortColumn["pods"]["Age"] = 7 /\ SortColumn["pods"]["Phase"] = 2
  BY DEF SortColumn, PodSortColumn
<1>6. /\ CellsOf["pods"][6] = "cpu" /\ CellsOf["pods"][7] = "mem"
      /\ CellsOf["pods"][2] = "name" /\ CellsOf["pods"][5] = "restarts"
      /\ CellsOf["pods"][8] = "age" /\ CellsOf["pods"][3] = "phase"
  BY DEF CellsOf, PodRowCells
<1>7. /\ Keys["pods"]["Cpu"] = "cpu" /\ Labels["pods"]["Cpu"] = "cpu"
      /\ Keys["pods"]["Mem"] = "mem" /\ Labels["pods"]["Mem"] = "mem"
      /\ Keys["pods"]["Name"] = "name" /\ Labels["pods"]["Name"] = "name"
      /\ Keys["pods"]["Restarts"] = "restarts" /\ Labels["pods"]["Restarts"] = "restarts"
      /\ Keys["pods"]["Age"] = "age" /\ Labels["pods"]["Age"] = "age"
      /\ Keys["pods"]["Phase"] = "phase" /\ Labels["pods"]["Phase"] = "phase"
  BY DEF Keys, Labels
<1>8. ASSUME NEW x \in N
      PROVE  /\ SortColumn["pods"][x] \in 0..7
             /\ ShowsKey("pods", CellsOf["pods"][SortColumn["pods"][x] + 1], Keys["pods"][x])
  <2>1. PICK i : i = SortColumn["pods"][x] + 1
    OBVIOUS
  <2>2. SortColumn["pods"][x] \in 0..7
    BY <1>5
  <2>3. <<x, i>> \in {<<"Cpu", 6>>, <<"Mem", 7>>, <<"Name", 2>>, <<"Restarts", 5>>, <<"Age", 8>>, <<"Phase", 3>>}
    BY <1>5, <2>1
  <2>4. ShowsKey("pods", CellsOf["pods"][i], Keys["pods"][x])
    BY <1>6, <1>7, <2>3 DEF ShowsKey
  <2> QED
    BY <2>1, <2>2, <2>4
<1>9. \A x, y \in N : Labels["pods"][x] = Labels["pods"][y] => x = y
  BY <1>7
<1> HIDE DEF N
<1> QED
  BY <1>1, <1>3, <1>4, <1>8, <1>9 DEF FieldsRight

LEMMA NodesFields == FieldsRight("nodes", 5)
<1> DEFINE N == {"CpuPct", "MemPct", "Name", "PodCount", "Age"}
<1>1. DOMAIN Cycle["nodes"] = 1..5 /\ Len(Cycle["nodes"]) = 5 /\ Len(CellsOf["nodes"]) = 8
  BY DEF Cycle, CellsOf, NodeRowCells
<1>2. 1..5 = {1, 2, 3, 4, 5}
  OBVIOUS
<1>3. NamesOf("nodes") = N
  BY <1>1, <1>2 DEF NamesOf, Cycle
<1>4. \A i, j \in 1..5 : Cycle["nodes"][i] = Cycle["nodes"][j] => i = j
  BY <1>2 DEF Cycle
<1>5. /\ SortColumn["nodes"]["CpuPct"] = 3 /\ SortColumn["nodes"]["MemPct"] = 4
      /\ SortColumn["nodes"]["Name"] = 0 /\ SortColumn["nodes"]["PodCount"] = 5
      /\ SortColumn["nodes"]["Age"] = 7
  BY DEF SortColumn, NodeSortColumn
<1>6. /\ CellsOf["nodes"][4] = "cpu share" /\ CellsOf["nodes"][5] = "mem share"
      /\ CellsOf["nodes"][1] = "name" /\ CellsOf["nodes"][6] = "pods"
      /\ CellsOf["nodes"][8] = "age"
  BY DEF CellsOf, NodeRowCells
<1>7. /\ Keys["nodes"]["CpuPct"] = "cpu" /\ Labels["nodes"]["CpuPct"] = "cpu"
      /\ Keys["nodes"]["MemPct"] = "mem" /\ Labels["nodes"]["MemPct"] = "mem"
      /\ Keys["nodes"]["Name"] = "name" /\ Labels["nodes"]["Name"] = "name"
      /\ Keys["nodes"]["PodCount"] = "pods" /\ Labels["nodes"]["PodCount"] = "pods"
      /\ Keys["nodes"]["Age"] = "age" /\ Labels["nodes"]["Age"] = "age"
  BY DEF Keys, Labels
<1>8. ASSUME NEW x \in N
      PROVE  /\ SortColumn["nodes"][x] \in 0..7
             /\ ShowsKey("nodes", CellsOf["nodes"][SortColumn["nodes"][x] + 1], Keys["nodes"][x])
  <2>1. PICK i : i = SortColumn["nodes"][x] + 1
    OBVIOUS
  <2>2. SortColumn["nodes"][x] \in 0..7
    BY <1>5
  <2>3. <<x, i>> \in {<<"CpuPct", 4>>, <<"MemPct", 5>>, <<"Name", 1>>, <<"PodCount", 6>>, <<"Age", 8>>}
    BY <1>5, <2>1
  <2>4. ShowsKey("nodes", CellsOf["nodes"][i], Keys["nodes"][x])
    BY <1>6, <1>7, <2>3 DEF ShowsKey
  <2> QED
    BY <2>1, <2>2, <2>4
<1>9. \A x, y \in N : Labels["nodes"][x] = Labels["nodes"][y] => x = y
  BY <1>7
<1> HIDE DEF N
<1> QED
  BY <1>1, <1>3, <1>4, <1>8, <1>9 DEF FieldsRight

LEMMA DeploymentsFields == FieldsRight("deployments", 4)
<1> DEFINE N == {"Name", "ReadyRatio", "Namespace", "Age"}
<1>1. DOMAIN Cycle["deployments"] = 1..4 /\ Len(Cycle["deployments"]) = 4 /\ Len(CellsOf["deployments"]) = 7
  BY DEF Cycle, CellsOf, DeployRow
<1>2. 1..4 = {1, 2, 3, 4}
  OBVIOUS
<1>3. NamesOf("deployments") = N
  BY <1>1, <1>2 DEF NamesOf, Cycle
<1>4. \A i, j \in 1..4 : Cycle["deployments"][i] = Cycle["deployments"][j] => i = j
  BY <1>2 DEF Cycle
<1>5. /\ SortColumn["deployments"]["Name"] = 1 /\ SortColumn["deployments"]["ReadyRatio"] = 2
      /\ SortColumn["deployments"]["Namespace"] = 0 /\ SortColumn["deployments"]["Age"] = 6
  BY DEF SortColumn, DeploySortColumn
<1>6. /\ CellsOf["deployments"][2] = "name" /\ CellsOf["deployments"][3] = "ready"
      /\ CellsOf["deployments"][1] = "namespace" /\ CellsOf["deployments"][7] = "age"
  BY DEF CellsOf, DeployRow
<1>7. /\ Keys["deployments"]["Name"] = "name" /\ Labels["deployments"]["Name"] = "name"
      /\ Keys["deployments"]["ReadyRatio"] = "ready" /\ Labels["deployments"]["ReadyRatio"] = "ready"
      /\ Keys["deployments"]["Namespace"] = "namespace" /\ Labels["deployments"]["Namespace"] = "namespace"
      /\ Keys["deployments"]["Age"] = "age" /\ Labels["deployments"]["Age"] = "age"
  BY DEF Keys, Labels
<1>8. ASSUME NEW x \in N
      PROVE  /\ SortColumn["deployments"][x] \in 0..6
             /\ ShowsKey("deployments", CellsOf["deployments"][SortColumn["deployments"][x] + 1], Keys["deployments"][x])
  <2>1. PICK i : i = SortColumn["deployments"][x] + 1
    OBVIOUS
  <2>2. SortColumn["deployments"][x] \in 0..6
    BY <1>5
  <2>3. <<x, i>> \in {<<"Name", 2>>, <<"ReadyRatio", 3>>, <<"Namespace", 1>>, <<"Age", 7>>}
    BY <1>5, <2>1
  <2>4. ShowsKey("deployments", CellsOf["deployments"][i], Keys["deployments"][x])
    BY <1>6, <1>7, <2>3 DEF ShowsKey
  <2> QED
    BY <2>1, <2>2, <2>4
<1>9. \A x, y \in N : Labels["deployments"][x] = Labels["deployments"][y] => x = y
  BY <1>7
<1> HIDE DEF N
<1> QED
  BY <1>1, <1>3, <1>4, <1>8, <1>9 DEF FieldsRight

LEMMA DevicesFields == FieldsRight("devices", 6)
<1> DEFINE N == {"Index", "Util", "Mem", "Temp", "Power", "Name"}
<1>1. DOMAIN Cycle["devices"] = 1..6 /\ Len(Cycle["devices"]) = 6 /\ Len(CellsOf["devices"]) = 10
  BY DEF Cycle, CellsOf, DeviceRow
<1>2. 1..6 = {1, 2, 3, 4, 5, 6}
  OBVIOUS
<1>3. NamesOf("devices") = N
  BY <1>1, <1>2 DEF NamesOf, Cycle
<1>4. \A i, j \in 1..6 : Cycle["devices"][i] = Cycle["devices"][j] => i = j
  BY <1>2 DEF Cycle
<1>5. /\ SortColumn["devices"]["Index"] = 0 /\ SortColumn["devices"]["Util"] = 3
      /\ SortColumn["devices"]["Mem"] = 4 /\ SortColumn["devices"]["Temp"] = 5
      /\ SortColumn["devices"]["Power"] = 6 /\ SortColumn["devices"]["Name"] = 1
  BY DEF SortColumn, DeviceSortColumn
<1>6. /\ CellsOf["devices"][1] = "index" /\ CellsOf["devices"][4] = "util"
      /\ CellsOf["devices"][5] = "mem" /\ CellsOf["devices"][6] = "temp"
      /\ CellsOf["devices"][7] = "power" /\ CellsOf["devices"][2] = "name"
  BY DEF CellsOf, DeviceRow
<1>7. /\ Keys["devices"]["Index"] = "index" /\ Labels["devices"]["Index"] = "index"
      /\ Keys["devices"]["Util"] = "util" /\ Labels["devices"]["Util"] = "util"
      /\ Keys["devices"]["Mem"] = "mem" /\ Labels["devices"]["Mem"] = "vram"
      /\ Keys["devices"]["Temp"] = "temp" /\ Labels["devices"]["Temp"] = "temp"
      /\ Keys["devices"]["Power"] = "power" /\ Labels["devices"]["Power"] = "power"
      /\ Keys["devices"]["Name"] = "name" /\ Labels["devices"]["Name"] = "name"
  BY DEF Keys, Labels
<1>8. ASSUME NEW x \in N
      PROVE  /\ SortColumn["devices"][x] \in 0..9
             /\ ShowsKey("devices", CellsOf["devices"][SortColumn["devices"][x] + 1], Keys["devices"][x])
  <2>1. PICK i : i = SortColumn["devices"][x] + 1
    OBVIOUS
  <2>2. SortColumn["devices"][x] \in 0..9
    BY <1>5
  <2>3. <<x, i>> \in {<<"Index", 1>>, <<"Util", 4>>, <<"Mem", 5>>, <<"Temp", 6>>, <<"Power", 7>>, <<"Name", 2>>}
    BY <1>5, <2>1
  <2>4. ShowsKey("devices", CellsOf["devices"][i], Keys["devices"][x])
    BY <1>6, <1>7, <2>3 DEF ShowsKey
  <2> QED
    BY <2>1, <2>2, <2>4
<1>9. \A x, y \in N : Labels["devices"][x] = Labels["devices"][y] => x = y
  BY <1>7
<1> HIDE DEF N
<1> QED
  BY <1>1, <1>3, <1>4, <1>8, <1>9 DEF FieldsRight

LEMMA ProcsFields == FieldsRight("procs", 4)
<1> DEFINE N == {"Mem", "Pid", "Name", "Device"}
<1>1. DOMAIN Cycle["procs"] = 1..4 /\ Len(Cycle["procs"]) = 4 /\ Len(CellsOf["procs"]) = 5
  BY DEF Cycle, CellsOf, ProcRow
<1>2. 1..4 = {1, 2, 3, 4}
  OBVIOUS
<1>3. NamesOf("procs") = N
  BY <1>1, <1>2 DEF NamesOf, Cycle
<1>4. \A i, j \in 1..4 : Cycle["procs"][i] = Cycle["procs"][j] => i = j
  BY <1>2 DEF Cycle
<1>5. /\ SortColumn["procs"]["Mem"] = 4 /\ SortColumn["procs"]["Pid"] = 0
      /\ SortColumn["procs"]["Name"] = 2 /\ SortColumn["procs"]["Device"] = 1
  BY DEF SortColumn, ProcSortColumn
<1>6. /\ CellsOf["procs"][5] = "mem" /\ CellsOf["procs"][1] = "pid"
      /\ CellsOf["procs"][3] = "name" /\ CellsOf["procs"][2] = "device"
  BY DEF CellsOf, ProcRow
<1>7. /\ Keys["procs"]["Mem"] = "mem" /\ Labels["procs"]["Mem"] = "vram"
      /\ Keys["procs"]["Pid"] = "pid" /\ Labels["procs"]["Pid"] = "pid"
      /\ Keys["procs"]["Name"] = "name" /\ Labels["procs"]["Name"] = "name"
      /\ Keys["procs"]["Device"] = "device" /\ Labels["procs"]["Device"] = "device"
  BY DEF Keys, Labels
<1>8. ASSUME NEW x \in N
      PROVE  /\ SortColumn["procs"][x] \in 0..4
             /\ ShowsKey("procs", CellsOf["procs"][SortColumn["procs"][x] + 1], Keys["procs"][x])
  <2>1. PICK i : i = SortColumn["procs"][x] + 1
    OBVIOUS
  <2>2. SortColumn["procs"][x] \in 0..4
    BY <1>5
  <2>3. <<x, i>> \in {<<"Mem", 5>>, <<"Pid", 1>>, <<"Name", 3>>, <<"Device", 2>>}
    BY <1>5, <2>1
  <2>4. ShowsKey("procs", CellsOf["procs"][i], Keys["procs"][x])
    BY <1>6, <1>7, <2>3 DEF ShowsKey
  <2> QED
    BY <2>1, <2>2, <2>4
<1>9. \A x, y \in N : Labels["procs"][x] = Labels["procs"][y] => x = y
  BY <1>7
<1> HIDE DEF N
<1> QED
  BY <1>1, <1>3, <1>4, <1>8, <1>9 DEF FieldsRight

LEMMA TablesAre ==
  /\ SortTables = {"processes", "network", "containers", "pods", "nodes", "deployments", "devices", "procs"}
  /\ \A t \in SortTables : TabOf[t] \in {"processes", "network", "containers", "kube", "gpu"}
  /\ \A t \in SortTables : TabOf[t] = "processes" => t = "processes"
  /\ \A t \in SortTables : TabOf[t] = "network" => t = "network"
  /\ \A t \in SortTables : TabOf[t] = "containers" => t = "containers"
  /\ TabOf["processes"] = "processes"
<1>1. SortTables = {"processes", "network", "containers", "pods", "nodes", "deployments", "devices", "procs"}
  BY DEF SortTables, TabOf
<1>2. /\ TabOf["processes"] = "processes" /\ TabOf["network"] = "network"
      /\ TabOf["containers"] = "containers" /\ TabOf["pods"] = "kube" /\ TabOf["nodes"] = "kube"
      /\ TabOf["deployments"] = "kube" /\ TabOf["devices"] = "gpu" /\ TabOf["procs"] = "gpu"
  BY DEF TabOf
<1> QED
  BY <1>1, <1>2

LEMMA TableFields == \A t \in SortTables : \E n \in {4, 5, 6} : FieldsRight(t, n)
BY TablesAre, ProcessesFields, NetworkFields, ContainersFields, PodsFields, NodesFields, DeploymentsFields,
   DevicesFields, ProcsFields

LEMMA FieldFacts ==
  ASSUME NEW t \in SortTables
  PROVE  /\ \A f : f \in FieldsOf(t) <=> f = <<t, f[2]>> /\ f[2] \in NamesOf(t)
         /\ DefaultFor(t) \in FieldsOf(t)
         /\ \A f : NextSortField(f, t) \in FieldsOf(t)
<1>1. PICK n \in {4, 5, 6} : FieldsRight(t, n)
  BY TableFields
<1>2. DOMAIN Cycle[t] = 1..n /\ Len(Cycle[t]) = n
  BY <1>1 DEF FieldsRight
<1>3. \A f : f \in FieldsOf(t) <=> f = <<t, f[2]>> /\ f[2] \in NamesOf(t)
  BY DEF FieldsOf, NamesOf, Field
<1>4. DefaultFor(t) \in FieldsOf(t)
  <2>1. 1 \in DOMAIN Cycle[t]
    BY <1>2
  <2> QED
    BY <2>1 DEF DefaultFor, FieldsOf
<1>5. ASSUME NEW f
      PROVE  NextSortField(f, t) \in FieldsOf(t)
  <2>1. CASE f \notin FieldsOf(t)
    BY <1>4, <2>1 DEF NextSortField
  <2>2. CASE f \in FieldsOf(t)
    <3> DEFINE k == CHOOSE i \in DOMAIN Cycle[t] : Cycle[t][i] = f[2]
    <3>1. \E i \in DOMAIN Cycle[t] : Cycle[t][i] = f[2]
      BY <1>3, <2>2 DEF NamesOf
    <3>2. k \in 1..n
      BY <1>2, <3>1
    <3> HIDE DEF k
    <3>3. 1 + (k % n) \in 1..n
      BY <3>2
    <3>4. NextSortField(f, t) = Field(t, Cycle[t][1 + (k % n)])
      BY <1>2, <2>2 DEF NextSortField, k
    <3> QED
      BY <1>2, <3>3, <3>4 DEF FieldsOf
  <2> QED
    BY <2>1, <2>2
<1> QED
  BY <1>3, <1>4, <1>5

\* From any place, the steps i -> 1 + i % n pass every place.
LEMMA RoundTrip ==
  ASSUME NEW n \in {4, 5, 6}, NEW R, NEW k \in 1..n, k \in R, \A i \in 1..n : i \in R => 1 + (i % n) \in R
  PROVE  1..n \subseteq R
<1>1. CASE n = 4
  <2>1. (1 \in R => 2 \in R) /\ (2 \in R => 3 \in R) /\ (3 \in R => 4 \in R) /\ (4 \in R => 1 \in R)
    BY <1>1
  <2> QED
    BY <1>1, <2>1
<1>2. CASE n = 5
  <2>1. (1 \in R => 2 \in R) /\ (2 \in R => 3 \in R) /\ (3 \in R => 4 \in R) /\ (4 \in R => 5 \in R)
        /\ (5 \in R => 1 \in R)
    BY <1>2
  <2> QED
    BY <1>2, <2>1
<1>3. CASE n = 6
  <2>1. (1 \in R => 2 \in R) /\ (2 \in R => 3 \in R) /\ (3 \in R => 4 \in R) /\ (4 \in R => 5 \in R)
        /\ (5 \in R => 6 \in R) /\ (6 \in R => 1 \in R)
    BY <1>3
  <2> QED
    BY <1>3, <2>1
<1> QED
  BY <1>1, <1>2, <1>3

LEMMA CycleReaches ==
  ASSUME NEW t \in SortTables, NEW g \in FieldsOf(t), NEW reached \in SUBSET FieldsOf(t), g \in reached,
         \A f \in reached : NextSortField(f, t) \in reached
  PROVE  reached = FieldsOf(t)
<1> DEFINE Place(i) == Field(t, Cycle[t][i])
           R == {i \in DOMAIN Cycle[t] : Place(i) \in reached}
<1>1. PICK n \in {4, 5, 6} : FieldsRight(t, n)
  BY TableFields
<1>2. DOMAIN Cycle[t] = 1..n /\ Len(Cycle[t]) = n /\ \A i, j \in 1..n : Cycle[t][i] = Cycle[t][j] => i = j
  BY <1>1 DEF FieldsRight
<1>3. PICK k \in 1..n : g = Place(k)
  BY <1>2 DEF FieldsOf
<1>4. ASSUME NEW i \in 1..n, i \in R
      PROVE  1 + (i % n) \in R
  <2>1. Place(i) \in FieldsOf(t) /\ Place(i)[2] = Cycle[t][i]
    BY <1>2 DEF FieldsOf, Field
  <2>2. (CHOOSE j \in DOMAIN Cycle[t] : Cycle[t][j] = Place(i)[2]) = i
    BY <1>2, <2>1
  <2>3. NextSortField(Place(i), t) = Place(1 + (i % n))
    BY <1>2, <2>1, <2>2 DEF NextSortField
  <2>4. 1 + (i % n) \in 1..n
    OBVIOUS
  <2>5. Place(i) \in reached
    BY <1>4
  <2> QED
    BY <1>2, <2>3, <2>4, <2>5
<1>5. k \in R
  BY <1>2, <1>3
<1>6. 1..n \subseteq R
  <2> HIDE DEF R
  <2> QED
    BY <1>4, <1>5, RoundTrip
<1>7. ASSUME NEW f \in FieldsOf(t)
      PROVE  f \in reached
  BY <1>2, <1>6 DEF FieldsOf
<1> QED
  BY <1>7

-----------------------------------------------------------------------------

\* Why the arrow is true: each way to set a field sets one of the table it belongs to,
\* and the process table in front is the one whose field is kept.
FieldInv ==
  /\ inFront \in SortTables
  /\ fieldOf \in FieldsOf(inFront)
  /\ processField \in FieldsOf("processes")
  /\ inFront = "processes" => processField = fieldOf
  /\ told[1] = "sorted" => told[2] = IF TabOf[inFront] = "gpu" THEN processField ELSE fieldOf

LEMMA FieldInvHolds == SortInit => FieldInv
<1> SUFFICES ASSUME SortInit
             PROVE  FieldInv
  OBVIOUS
<1>1. "processes" \in SortTables
  BY TablesAre
<1>2. DefaultFor(inFront) \in FieldsOf(inFront) /\ DefaultFor("processes") \in FieldsOf("processes")
  BY <1>1, FieldFacts DEF SortInit
<1>3. told[1] # "sorted"
  BY DEF SortInit, NotAsked
<1> QED
  BY <1>2, <1>3 DEF SortInit, FieldInv

LEMMA SetsFacts ==
  ASSUME FieldInv, NEW f \in FieldsOf(inFront), Sets(f), UNCHANGED inFront
  PROVE  /\ fieldOf' = f /\ f \in FieldsOf(inFront')
         /\ processField' \in FieldsOf("processes")
         /\ inFront' = "processes" => processField' = fieldOf'
BY DEF FieldInv, Sets

LEMMA ProcessesSetFacts ==
  ASSUME FieldInv, NEW f \in FieldsOf("processes"), UNCHANGED inFront,
         IF f[1] = inFront THEN Sets(f) ELSE processField' = f /\ UNCHANGED fieldOf
  PROVE  /\ fieldOf' \in FieldsOf(inFront') /\ processField' = f
         /\ inFront' = "processes" => processField' = fieldOf'
<1>1. "processes" \in SortTables /\ f[1] = "processes"
  BY TablesAre DEF FieldsOf, Field
<1>2. CASE inFront = "processes"
  BY <1>1, <1>2 DEF Sets
<1>3. CASE inFront # "processes"
  BY <1>1, <1>3 DEF FieldInv
<1> QED
  BY <1>2, <1>3

LEMMA FieldStep == FieldInv /\ [SortNext]_sortVars => FieldInv'
<1> SUFFICES ASSUME FieldInv, [SortNext]_sortVars
             PROVE  FieldInv'
  OBVIOUS
<1>1. inFront \in SortTables /\ "processes" \in SortTables
  BY TablesAre DEF FieldInv
<1>2. CASE SortCycle
  <2>1. NextSortField(fieldOf, inFront) \in FieldsOf(inFront)
    BY <1>1, FieldFacts
  <2>2. UNCHANGED inFront /\ Sets(NextSortField(fieldOf, inFront)) /\ told'[1] # "sorted"
    BY <1>2 DEF SortCycle, NotAsked
  <2>3. /\ fieldOf' \in FieldsOf(inFront') /\ processField' \in FieldsOf("processes")
        /\ inFront' = "processes" => processField' = fieldOf'
    BY <2>1, <2>2, SetsFacts
  <2> QED
    BY <1>1, <2>2, <2>3 DEF FieldInv
<1>3. ASSUME NEW t \in SortTables, SwitchTable(t)
      PROVE  FieldInv'
  <2>1. t # "processes"
    BY <1>3, TablesAre DEF SwitchTable
  <2>2. DefaultFor(t) \in FieldsOf(t)
    BY FieldFacts
  <2>3. inFront' = t /\ fieldOf' = DefaultFor(t) /\ processField' = processField /\ told'[1] # "sorted"
    BY <1>3 DEF SwitchTable, NotAsked
  <2> QED
    BY <2>1, <2>2, <2>3 DEF FieldInv
<1>4. ASSUME NEW s \in SortTables, NEW f \in FieldsOf(s), SortCommand(f)
      PROVE  FieldInv'
  <2>1. f[1] = s
    BY DEF FieldsOf, Field
  <2>2. UNCHANGED inFront /\ told'[1] # "sorted" /\ (f[1] = "processes" \/ f[1] = inFront)
        /\ IF f[1] = inFront THEN Sets(f) ELSE processField' = f /\ UNCHANGED fieldOf
    BY <1>4 DEF SortCommand, NotAsked
  <2>3. CASE f[1] = inFront
    <3>1. /\ fieldOf' \in FieldsOf(inFront') /\ processField' \in FieldsOf("processes")
          /\ inFront' = "processes" => processField' = fieldOf'
      BY <2>1, <2>2, <2>3, SetsFacts
    <3> QED
      BY <1>1, <2>2, <3>1 DEF FieldInv
  <2>4. CASE f[1] # inFront
    <3>1. f \in FieldsOf("processes")
      BY <2>1, <2>2, <2>4
    <3>2. /\ fieldOf' \in FieldsOf(inFront') /\ processField' = f
          /\ inFront' = "processes" => processField' = fieldOf'
      BY <2>2, <3>1, ProcessesSetFacts
    <3> QED
      BY <1>1, <2>2, <3>1, <3>2 DEF FieldInv
  <2> QED
    BY <2>3, <2>4
<1>5. ASSUME NEW f, SortByName(f)
      PROVE  FieldInv'
  <2> DEFINE f2 == {g \in Sortable(TabOf[inFront]) : g[2] = f[2]}
  <2>1. UNCHANGED inFront
    BY <1>5 DEF SortByName
  <2>2. \/ \E g \in f2 : /\ told' = <<"sorted", g>>
                         /\ IF g[1] = inFront THEN Sets(g) ELSE processField' = g /\ UNCHANGED fieldOf
        \/ told' = <<"refused", f>> /\ UNCHANGED <<fieldOf, processField>>
    BY <1>5 DEF SortByName
  <2>3. ASSUME NEW g \in Sortable(TabOf[inFront])
        PROVE  \/ g \in FieldsOf("processes") /\ TabOf[inFront] = "gpu"
               \/ g \in FieldsOf(inFront) /\ TabOf[inFront] # "gpu"
    <3>1. CASE TabOf[inFront] = "processes"
      <4>1. inFront = "processes" /\ Sortable("processes") = FieldsOf("processes")
        BY <1>1, <3>1, TablesAre DEF Sortable
      <4> QED
        BY <3>1, <4>1
    <3>2. CASE TabOf[inFront] = "network"
      <4>1. inFront = "network" /\ g \in {Field("network", n) : n \in {"Name", "RxRate", "TxRate", "Errors"}}
        BY <1>1, <3>2, TablesAre DEF Sortable
      <4>2. {"Name", "RxRate", "TxRate", "Errors"} \subseteq {Cycle["network"][k] : k \in DOMAIN Cycle["network"]}
        <5>1. DOMAIN Cycle["network"] = 1..6
          BY NetworkFields DEF FieldsRight
        <5>2. /\ Cycle["network"][1] = "RxRate" /\ Cycle["network"][2] = "TxRate"
              /\ Cycle["network"][3] = "Name" /\ Cycle["network"][4] = "Errors"
          BY DEF Cycle
        <5> QED
          BY <5>1, <5>2
      <4>3. g \in FieldsOf("network")
        BY <4>1, <4>2 DEF FieldsOf
      <4> QED
        BY <3>2, <4>1, <4>3
    <3>3. CASE TabOf[inFront] = "containers"
      <4>1. inFront = "containers" /\ Sortable("containers") = FieldsOf("containers")
        BY <1>1, <3>3, TablesAre DEF Sortable
      <4> QED
        BY <3>3, <4>1
    <3>4. CASE TabOf[inFront] = "kube"
      BY <3>4 DEF Sortable
    <3>5. CASE TabOf[inFront] = "gpu"
      <4>1. Sortable("gpu") = FieldsOf("processes")
        BY DEF Sortable
      <4> QED
        BY <3>5, <4>1
    <3> QED
      BY <1>1, <3>1, <3>2, <3>3, <3>4, <3>5, TablesAre
  <2>4. ASSUME NEW g \in f2, told' = <<"sorted", g>>,
               IF g[1] = inFront THEN Sets(g) ELSE processField' = g /\ UNCHANGED fieldOf
        PROVE  FieldInv'
    <3>1. CASE g \in FieldsOf("processes") /\ TabOf[inFront] = "gpu"
      <4>1. /\ fieldOf' \in FieldsOf(inFront') /\ processField' = g
            /\ inFront' = "processes" => processField' = fieldOf'
        BY <2>1, <2>4, <3>1, ProcessesSetFacts
      <4> QED
        BY <1>1, <2>1, <2>4, <3>1, <4>1 DEF FieldInv
    <3>2. CASE g \in FieldsOf(inFront) /\ TabOf[inFront] # "gpu"
      <4>1. g[1] = inFront
        BY <3>2 DEF FieldsOf, Field
      <4>2. /\ fieldOf' = g /\ g \in FieldsOf(inFront') /\ processField' \in FieldsOf("processes")
            /\ inFront' = "processes" => processField' = fieldOf'
        BY <2>1, <2>4, <3>2, <4>1, SetsFacts
      <4> QED
        BY <1>1, <2>1, <2>4, <3>2, <4>2 DEF FieldInv
    <3> QED
      BY <2>3, <3>1, <3>2
  <2>5. CASE told' = <<"refused", f>> /\ UNCHANGED <<fieldOf, processField>>
    BY <2>1, <2>5 DEF FieldInv
  <2> QED
    BY <2>2, <2>4, <2>5
<1>6. CASE UNCHANGED sortVars
  BY <1>6 DEF FieldInv, sortVars
<1>7. CASE SortNext
  <2>1. CASE \E f \in UNION {FieldsOf(t) : t \in SortTables} : SortCommand(f) \/ SortByName(f)
    BY <1>4, <1>5, <2>1
  <2> QED
    BY <1>2, <1>3, <1>7, <2>1 DEF SortNext
<1> QED
  BY <1>6, <1>7

LEMMA ArrowFacts == FieldInv => ArrowTrue
<1> SUFFICES ASSUME FieldInv
             PROVE  ArrowTrue
  OBVIOUS
<1>1. inFront \in SortTables /\ fieldOf \in FieldsOf(inFront)
  BY DEF FieldInv
<1>2. PICK n \in {4, 5, 6} : FieldsRight(inFront, n)
  BY <1>1, TableFields
<1>3. \A f \in FieldsOf(inFront) : f = <<inFront, f[2]>> /\ f[2] \in NamesOf(inFront)
  BY <1>1, FieldFacts
<1>4. PICK x \in NamesOf(inFront) : fieldOf = <<inFront, x>>
  BY <1>1, <1>3
<1>5. Arrow(inFront, fieldOf) = SortColumn[inFront][x] /\ SortKey(fieldOf) = Keys[inFront][x]
      /\ SortLabel(fieldOf) = Labels[inFront][x]
  BY <1>4 DEF Arrow, SortKey, SortLabel
<1>6. /\ Arrow(inFront, fieldOf) \in 0..(Len(CellsOf[inFront]) - 1)
      /\ ShowsKey(inFront, CellsOf[inFront][Arrow(inFront, fieldOf) + 1], SortKey(fieldOf))
  BY <1>2, <1>5 DEF FieldsRight
<1>7. ASSUME NEW f \in FieldsOf(inFront), SortLabel(f) = SortLabel(fieldOf)
      PROVE  f = fieldOf
  <2>1. PICK y \in NamesOf(inFront) : f = <<inFront, y>>
    BY <1>3
  <2>2. Labels[inFront][y] = Labels[inFront][x]
    BY <1>5, <1>7, <2>1 DEF SortLabel
  <2>3. y = x
    BY <1>2, <2>2 DEF FieldsRight
  <2> QED
    BY <1>4, <2>1, <2>3
<1>8. \A reached \in SUBSET FieldsOf(inFront) :
        fieldOf \in reached /\ (\A f \in reached : NextSortField(f, inFront) \in reached)
          => reached = FieldsOf(inFront)
  BY <1>1, CycleReaches
<1>9. told[1] = "sorted" => told[2] = IF TabOf[inFront] = "gpu" THEN processField ELSE fieldOf
  BY DEF FieldInv
<1> QED
  BY <1>1, <1>6, <1>7, <1>8, <1>9 DEF ArrowTrue

LEMMA OrderStep == OrderInv /\ [TableOrderNext]_orderVars => OrderInv'
<1> SUFFICES ASSUME OrderInv, [TableOrderNext]_orderVars
             PROVE  OrderInv'
  OBVIOUS
<1>1. ASSUME NEW r \in RowSet, Arrive(r)
      PROVE  OrderInv'
  <2>1. PICK k \in 1..(Len(listed) + 1) : listed' = InsertAt(listed, k, r)
    BY <1>1 DEF Arrive
  <2>2. listed \in Seq(RowSet) /\ Len(listed) \in Nat
    BY DEF OrderInv
  <2>3. /\ SubSeq(listed, 1, k - 1) \in Seq(RowSet) /\ SubSeq(listed, k, Len(listed)) \in Seq(RowSet)
        /\ <<r>> \in Seq(RowSet)
    <3>1. \A i \in 1..(k - 1) : i \in 1..Len(listed)
      BY <2>2
    <3>2. \A i \in k..Len(listed) : i \in 1..Len(listed)
      BY <2>2
    <3> QED
      BY <2>2, <3>1, <3>2
  <2>4. listed' \in Seq(RowSet)
    BY <2>1, <2>3 DEF InsertAt
  <2> QED
    BY <1>1, <2>4 DEF OrderInv, Arrive
<1>2. CASE ReverseOrder
  BY <1>2 DEF OrderInv, ReverseOrder
<1>3. ASSUME NEW letter \in 1..2, NEW form \in Forms, Type(Char(letter, form))
      PROVE  OrderInv'
  <2>1. Char(letter, form) \in Chars
    BY DEF Char, Chars
  <2> QED
    BY <1>3, <2>1 DEF OrderInv, Type
<1>4. CASE UNCHANGED orderVars
  BY <1>4 DEF OrderInv, orderVars
<1> QED
  BY <1>1, <1>2, <1>3, <1>4 DEF TableOrderNext

\* Every table shows exactly the rows with the filter in one of their texts, each once;
\* every column runs in one direction per order, up under a down arrow for the names,
\* namespaces, phases and ratios of cluster objects and from the last started for
\* containers, and with the arrow for the rest; the figures a GPU does not report stay
\* last; and the arrow is on the column the rows are ordered by, which for nodes shows
\* a share where absolute use is compared.  For every set of rows and however the
\* filter, the order, the sort field and the sub-view are changed.
THEOREM RowsInOrderForAll ==
  /\ TableOrderInit /\ SortInit
  /\ [][TableOrderNext]_orderVars
  /\ [][SortNext]_sortVars
  => []RowsInOrder
<1>1. TableOrderInit => OrderInv
  BY DEF TableOrderInit, OrderInv
<1>2. OrderInv /\ FieldInv => RowsInOrder
  BY OrderFacts, ArrowFacts DEF RowsInOrder
<1> QED
  BY <1>1, <1>2, FieldInvHolds, FieldStep, OrderStep, PTL

-----------------------------------------------------------------------------
(* The GPU engines.                                                        *)

\* A list that has every element of S, once.
Once(l, S) ==
  /\ l \in Seq(S) /\ DOMAIN l = 1..Len(l)
  /\ \A x \in S : \E k \in DOMAIN l : l[k] = x
  /\ \A j, k \in DOMAIN l : l[j] = l[k] => j = k

LEMMA SetToSeqFacts ==
  ASSUME NEW S, IsFiniteSet(S)
  PROVE  Once(SetToSeq(S), S)
<1> DEFINE n == Cardinality(S)
           l == SetToSeq(S)
<1>1. n \in Nat /\ ExistsBijection(1..n, S)
  BY FS_CardinalityType
<1>2. PICK f \in Bijection(1..n, S) : TRUE
  BY <1>1 DEF ExistsBijection
<1>3. f \in [1..n -> S] /\ \A a, b \in 1..n : f[a] = f[b] => a = b
  BY <1>2 DEF Bijection, Injection, IsInjective
<1>4. \E g \in [1..n -> S] : IsInjective(g)
  BY <1>3 DEF IsInjective
<1>5. l \in [1..n -> S] /\ IsInjective(l)
  BY <1>4 DEF SetToSeq
<1> HIDE DEF l
<1>6. l \in Injection(1..n, S)
  BY <1>5 DEF Injection
<1>7. Cardinality(1..n) = n
  BY <1>1, FS_Interval
<1>8. l \in Surjection(1..n, S)
  BY <1>6, <1>7, FS_Injection
<1>9. \A x \in S : \E k \in 1..n : l[k] = x
  BY <1>8 DEF Surjection
<1>10. l \in Seq(S) /\ Len(l) = n /\ DOMAIN l = 1..n
  BY <1>1, <1>5, FunctionIsList
<1> QED
  BY <1>5, <1>9, <1>10 DEF Once, IsInjective, l

\* Lists of different elements, one after the other.
LEMMA OnceBoth ==
  ASSUME NEW S, NEW T, S \cap T = {}, NEW a, NEW b, Once(a, S), Once(b, T)
  PROVE  Once(a \o b, S \cup T)
<1> DEFINE m == Len(a)
           n == Len(b)
           c == a \o b
           U == S \cup T
<1>1. a \in Seq(U) /\ b \in Seq(U) /\ m \in Nat /\ n \in Nat /\ DOMAIN a = 1..m /\ DOMAIN b = 1..n
  BY DEF Once
<1>2. /\ c \in Seq(U) /\ DOMAIN c = 1..(m + n) /\ Len(c) = m + n
      /\ \A k \in 1..m : c[k] = a[k]
      /\ \A i \in (m + 1)..(m + n) : c[i] = b[i - m]
  <2>1. c \in Seq(U) /\ DOMAIN c = 1..(m + n) /\ Len(c) = m + n
    BY <1>1, ConcatFacts
  <2>2. \A k \in 1..m : c[k] = a[k]
    BY <1>1, ConcatFacts
  <2>3. \A i \in (m + 1)..(m + n) : c[i] = b[i - m]
    BY <1>1, ConcatFacts
  <2> HIDE DEF c, U, m, n
  <2> QED
    BY <2>1, <2>2, <2>3
<1>3. /\ \A k \in 1..m : a[k] \in S
      /\ \A k \in 1..n : b[k] \in T
      /\ \A x \in S : \E k \in 1..m : a[k] = x
      /\ \A x \in T : \E k \in 1..n : b[k] = x
      /\ \A j, k \in 1..m : a[j] = a[k] => j = k
      /\ \A j, k \in 1..n : b[j] = b[k] => j = k
  <2> HIDE DEF m, n
  <2>1. (\A k \in 1..m : a[k] \in S) /\ (\A k \in 1..n : b[k] \in T)
    BY DEF Once, m, n
  <2>2. /\ \A x \in S : \E k \in DOMAIN a : a[k] = x
        /\ \A j, k \in DOMAIN a : a[j] = a[k] => j = k
    BY DEF Once
  <2>3. /\ \A x \in T : \E k \in DOMAIN b : b[k] = x
        /\ \A j, k \in DOMAIN b : b[j] = b[k] => j = k
    BY DEF Once
  <2> QED
    BY <1>1, <2>1, <2>2, <2>3
<1> HIDE DEF c, m, n, U
<1>4. \A k \in 1..m : c[k] = a[k] /\ c[k] \in S /\ k \in 1..(m + n)
  BY <1>1, <1>2, <1>3
<1>5. \A i \in (m + 1)..(m + n) : c[i] = b[i - m] /\ c[i] \in T /\ i - m \in 1..n
  <2> SUFFICES ASSUME NEW i \in (m + 1)..(m + n)
               PROVE  c[i] = b[i - m] /\ c[i] \in T /\ i - m \in 1..n
    OBVIOUS
  <2>1. i - m \in 1..n
    BY <1>1
  <2>2. c[i] = b[i - m]
    BY <1>2
  <2> QED
    BY <1>3, <2>1, <2>2
<1>6. ASSUME NEW x \in U PROVE \E k \in 1..(m + n) : c[k] = x
  <2>1. CASE x \in S
    BY <1>3, <1>4, <2>1
  <2>2. CASE x \in T
    <3>1. PICK k \in 1..n : b[k] = x
      BY <1>3, <2>2
    <3>2. m + k \in (m + 1)..(m + n) /\ (m + k) - m = k /\ m + k \in 1..(m + n)
      BY <1>1
    <3>3. c[m + k] = b[(m + k) - m]
      BY <1>5, <3>2
    <3> QED
      BY <3>1, <3>2, <3>3
  <2> QED
    BY <2>1, <2>2 DEF U
<1>7. ASSUME NEW j \in 1..(m + n), NEW k \in 1..(m + n), c[j] = c[k]
      PROVE  j = k
  <2>1. (j \in 1..m \/ j \in (m + 1)..(m + n)) /\ (k \in 1..m \/ k \in (m + 1)..(m + n))
    BY <1>1
  <2>2. CASE j \in 1..m /\ k \in 1..m
    BY <1>3, <1>4, <1>7, <2>2
  <2>3. CASE j \in (m + 1)..(m + n) /\ k \in (m + 1)..(m + n)
    <3>1. j - m = k - m
      BY <1>3, <1>5, <1>7, <2>3
    <3> QED
      BY <1>1, <3>1
  <2>4. CASE (j \in 1..m /\ k \in (m + 1)..(m + n)) \/ (k \in 1..m /\ j \in (m + 1)..(m + n))
    BY <1>4, <1>5, <1>7, <2>4
  <2> QED
    BY <2>1, <2>2, <2>3, <2>4
<1> QED
  BY <1>2, <1>6, <1>7 DEF Once, c, U

\* The elements that a ranking picks from a list without repetitions.
LEMMA PickedOnce ==
  ASSUME NEW l, l \in Seq(Range(l)), IsInjective(l), NEW key, DOMAIN key \subseteq DOMAIN l,
         \A i \in DOMAIN key : key[i] \in Int
  PROVE  Once([k \in DOMAIN Ranked(key) |-> l[Ranked(key)[k]]], {l[i] : i \in DOMAIN key})
<1> DEFINE at == Ranked(key)
           n == Cardinality(DOMAIN key)
           S == {l[i] : i \in DOMAIN key}
           p == [k \in DOMAIN at |-> l[at[k]]]
<1>1. PICK m \in Nat : DOMAIN l = 1..m
  OBVIOUS
<1>2. Rankable(key)
  BY <1>1, FS_Interval, FS_Subset DEF Rankable
<1>3. InOrder(at, key) /\ n \in Nat
  BY <1>2, RankedFacts
<1>4. /\ at \in [1..n -> DOMAIN key] /\ DOMAIN at = 1..n
      /\ \A i \in DOMAIN key : \E k \in 1..n : at[k] = i
      /\ \A j, k \in 1..n : at[j] = at[k] => j = k
  BY <1>3 DEF InOrder
<1> HIDE DEF at, n
<1>5. p \in [1..n -> S]
  BY <1>4
<1>6. p \in Seq(S) /\ Len(p) = n /\ DOMAIN p = 1..n
  <2> HIDE DEF p, S
  <2> QED
    BY <1>3, <1>5, FunctionIsList
<1>7. \A x \in S : \E k \in 1..n : p[k] = x
  BY <1>4
<1>8. ASSUME NEW j \in 1..n, NEW k \in 1..n, p[j] = p[k] PROVE j = k
  <2>1. l[at[j]] = l[at[k]] /\ at[j] \in DOMAIN l /\ at[k] \in DOMAIN l
    BY <1>4, <1>8
  <2>2. at[j] = at[k]
    BY <2>1 DEF IsInjective
  <2> QED
    BY <1>4, <2>2
<1> HIDE DEF p, S
<1>9. Once(p, S)
  BY <1>6, <1>7, <1>8 DEF Once
<1> QED
  BY <1>9 DEF p, S, at

AllCards == NvCards \cup UNION {Range(d) : d \in DrmDirs}

DeviceSet == [index : Nat, card : AllCards, supports : BOOLEAN,
              clock : {"nvml", "freq1_input", "pp_dpm_sclk", NoFigure},
              power : {"nvml", "power1_average", "power1_input", NoFigure}]
ProcessSet == [pid : Pid, device_index : Nat, name : {"", "known"}, card : AllCards,
               kind : ContextKinds \cup {"Both"}, mem : ContextKinds \cup {NoFigure}]

\* A row tells what its process has on its card.
RowTells(r) ==
  /\ r.name = "" /\ KindsOf(r.pid, r.card) # {}
  /\ (r.kind = "Both") <=> (KindsOf(r.pid, r.card) = ContextKinds)
  /\ (r.mem = NoFigure) <=> (KindsOf(r.pid, r.card) \cap figures = {})

\* The rows of one card: one for every process with a context on it.
CardRows(l, card, index) ==
  /\ l \in Seq(ProcessSet) /\ DOMAIN l = 1..Len(l)
  /\ \A k \in 1..Len(l) : l[k].card = card /\ l[k].device_index = index /\ RowTells(l[k])
  /\ \A j, k \in 1..Len(l) : l[j].pid = l[k].pid => j = k
  /\ \A p \in Pid : KindsOf(p, card) # {} => \E k \in 1..Len(l) : l[k].pid = p

LEMMA RowFacts ==
  ASSUME NEW p \in Pid, NEW card \in NvCards, NEW index \in Nat, KindsOf(p, card) # {}
  PROVE  LET r == ProcessRowOf(p, card, index)
         IN  r \in ProcessSet /\ r.pid = p /\ r.card = card /\ r.device_index = index /\ RowTells(r)
<1> DEFINE kinds == KindsOf(p, card)
           shown == kinds \cap figures
           r == ProcessRowOf(p, card, index)
<1>1. kinds \subseteq ContextKinds
  BY DEF KindsOf
<1>2. PICK one : one = CHOOSE k \in kinds : TRUE
  OBVIOUS
<1>3. one \in {"Compute", "Graphics"}
  BY <1>1, <1>2 DEF ContextKinds
<1>4. PICK how : how = IF kinds = ContextKinds THEN "Both" ELSE one
  OBVIOUS
<1>5. PICK mem : mem = IF "Compute" \in shown THEN "Compute" ELSE IF "Graphics" \in shown THEN "Graphics" ELSE "none"
  OBVIOUS
<1>6. r = [pid |-> p, device_index |-> index, name |-> "", card |-> card, kind |-> how, mem |-> mem]
  BY <1>2, <1>4, <1>5 DEF ProcessRowOf, MergeKind, NoFigure
<1>7. shown # {} => "Compute" \in shown \/ "Graphics" \in shown
  BY <1>1 DEF ContextKinds
<1> HIDE DEF r, shown, kinds
<1>8. r.pid = p /\ r.card = card /\ r.device_index = index /\ r.name = "" /\ r.kind = how /\ r.mem = mem
  BY <1>6
<1>9. how \in ContextKinds \cup {"Both"} /\ mem \in ContextKinds \cup {NoFigure}
  BY <1>3, <1>4, <1>5 DEF ContextKinds, NoFigure
<1>10. r \in ProcessSet
  <2>1. card \in AllCards
    BY DEF AllCards
  <2> QED
    BY <1>6, <1>9, <2>1 DEF ProcessSet
<1>11. (how = "Both") <=> (kinds = ContextKinds)
  BY <1>3, <1>4
<1>12. (mem = "none") <=> (shown = {})
  BY <1>5, <1>7
<1>13. RowTells(r)
  BY <1>8, <1>11, <1>12 DEF RowTells, NoFigure, kinds, shown
<1> QED
  BY <1>8, <1>10, <1>13 DEF r

LEMMA CollectFacts ==
  ASSUME NEW card \in NvCards, NEW index \in Nat
  PROVE  CardRows(CollectProcesses(card, index), card, index)
<1> DEFINE compute == {p \in Pid : "Compute" \in KindsOf(p, card)}
           graphics == {p \in Pid : "Graphics" \in KindsOf(p, card)}
           pids == SetToSeq(compute) \o SetToSeq(graphics \ compute)
           l == CollectProcesses(card, index)
           U == compute \cup (graphics \ compute)
<1>1. IsFiniteSet(compute) /\ IsFiniteSet(graphics \ compute)
  BY GpuAssumption, FS_Subset
<1>2. Once(SetToSeq(compute), compute) /\ Once(SetToSeq(graphics \ compute), graphics \ compute)
  <2> HIDE DEF compute, graphics
  <2> QED
    BY <1>1, SetToSeqFacts
<1>3. Once(pids, U)
  <2>1. compute \cap (graphics \ compute) = {}
    OBVIOUS
  <2> HIDE DEF compute, graphics
  <2> QED
    BY <1>2, <2>1, OnceBoth
<1>4. \A p \in Pid : p \in U <=> KindsOf(p, card) # {}
  BY DEF KindsOf, ContextKinds
<1>5. U \subseteq Pid
  OBVIOUS
<1>6. l = [k \in DOMAIN pids |-> ProcessRowOf(pids[k], card, index)]
  BY DEF CollectProcesses
<1> HIDE DEF l, pids, U, compute, graphics
<1>7. PICK n \in Nat : n = Len(pids) /\ DOMAIN pids = 1..n
  <2>1. pids \in Seq(U) /\ DOMAIN pids = 1..Len(pids)
    BY <1>3 DEF Once
  <2>2. Len(pids) \in Nat
    BY <2>1
  <2> QED
    BY <2>1, <2>2
<1>8. \A k \in 1..n : pids[k] \in U /\ pids[k] \in Pid /\ KindsOf(pids[k], card) # {}
  BY <1>3, <1>4, <1>5, <1>7 DEF Once
<1>9. \A k \in 1..n : l[k] \in ProcessSet /\ l[k].pid = pids[k] /\ l[k].card = card
                      /\ l[k].device_index = index /\ RowTells(l[k])
  BY <1>6, <1>7, <1>8, RowFacts
<1>10. l \in [1..n -> ProcessSet]
  BY <1>6, <1>7, <1>9
<1>11. l \in Seq(ProcessSet) /\ Len(l) = n /\ DOMAIN l = 1..n
  BY <1>10, FunctionIsList
<1>12. \A j, k \in 1..n : l[j].pid = l[k].pid => j = k
  BY <1>3, <1>7, <1>9 DEF Once
<1>13. ASSUME NEW p \in Pid, KindsOf(p, card) # {}
       PROVE  \E k \in 1..n : l[k].pid = p
  BY <1>3, <1>4, <1>7, <1>9, <1>13 DEF Once
<1> QED
  BY <1>9, <1>11, <1>12, <1>13 DEF CardRows, l

\* The rows of the first n cards.
RowsUpto(l, seen, n) ==
  /\ l \in Seq(ProcessSet) /\ DOMAIN l = 1..Len(l)
  /\ \A k \in 1..Len(l) : /\ l[k].device_index + 1 \in 1..n
                          /\ l[k].card = seen[l[k].device_index + 1] /\ RowTells(l[k])
  /\ \A j, k \in 1..Len(l) : l[j].pid = l[k].pid /\ l[j].card = l[k].card => j = k
  /\ \A i \in 1..n, p \in Pid : KindsOf(p, seen[i]) # {} =>
       \E k \in 1..Len(l) : l[k].pid = p /\ l[k].card = seen[i]

LEMMA RowsOfOneMore ==
  ASSUME NEW seen \in Seq(NvCards), \A j, k \in DOMAIN seen : seen[j] = seen[k] => j = k,
         NEW n \in Nat, n + 1 <= Len(seen), NEW l, RowsUpto(l, seen, n),
         NEW q, CardRows(q, seen[n + 1], n)
  PROVE  RowsUpto(l \o q, seen, n + 1)
<1> DEFINE a == Len(l)
           b == Len(q)
           c == l \o q
<1>1. a \in Nat /\ b \in Nat /\ l \in Seq(ProcessSet) /\ q \in Seq(ProcessSet)
  BY DEF RowsUpto, CardRows
<1>2. /\ c \in Seq(ProcessSet) /\ DOMAIN c = 1..(a + b) /\ Len(c) = a + b
      /\ \A k \in 1..a : c[k] = l[k]
      /\ \A i \in (a + 1)..(a + b) : c[i] = q[i - a]
  <2>1. c \in Seq(ProcessSet) /\ DOMAIN c = 1..(a + b) /\ Len(c) = a + b
    BY <1>1, ConcatFacts
  <2>2. \A k \in 1..a : c[k] = l[k]
    BY <1>1, ConcatFacts
  <2>3. \A i \in (a + 1)..(a + b) : c[i] = q[i - a]
    BY <1>1, ConcatFacts
  <2> HIDE DEF c, a, b
  <2> QED
    BY <2>1, <2>2, <2>3
<1>3. /\ \A k \in 1..a : /\ l[k].device_index + 1 \in 1..n
                         /\ l[k].card = seen[l[k].device_index + 1] /\ RowTells(l[k])
      /\ \A j, k \in 1..a : l[j].pid = l[k].pid /\ l[j].card = l[k].card => j = k
      /\ \A i \in 1..n, p \in Pid : KindsOf(p, seen[i]) # {} =>
           \E k \in 1..a : l[k].pid = p /\ l[k].card = seen[i]
  BY DEF RowsUpto
<1>4. /\ \A k \in 1..b : q[k].card = seen[n + 1] /\ q[k].device_index = n /\ RowTells(q[k])
      /\ \A j, k \in 1..b : q[j].pid = q[k].pid => j = k
      /\ \A p \in Pid : KindsOf(p, seen[n + 1]) # {} => \E k \in 1..b : q[k].pid = p
  BY DEF CardRows
<1>5. PICK s \in Nat : s = Len(seen) /\ DOMAIN seen = 1..s /\ n + 1 <= s
  OBVIOUS
<1>6. \A i \in 1..n : i \in 1..(n + 1) /\ seen[i] # seen[n + 1]
  BY <1>5
<1> HIDE DEF a, b, c
<1>7. \A k \in 1..a : c[k] = l[k] /\ k \in 1..(a + b) /\ c[k].card # seen[n + 1]
  <2> SUFFICES ASSUME NEW k \in 1..a
               PROVE  c[k] = l[k] /\ k \in 1..(a + b) /\ c[k].card # seen[n + 1]
    OBVIOUS
  <2>1. c[k] = l[k] /\ l[k].device_index + 1 \in 1..n /\ l[k].card = seen[l[k].device_index + 1]
    BY <1>2, <1>3
  <2>2. k \in 1..(a + b)
    BY <1>1
  <2> QED
    BY <1>6, <2>1, <2>2
<1>8. \A i \in (a + 1)..(a + b) : c[i] = q[i - a] /\ i - a \in 1..b /\ c[i].card = seen[n + 1]
  <2> SUFFICES ASSUME NEW i \in (a + 1)..(a + b)
               PROVE  c[i] = q[i - a] /\ i - a \in 1..b /\ c[i].card = seen[n + 1]
    OBVIOUS
  <2>1. i - a \in 1..b /\ c[i] = q[i - a]
    BY <1>1, <1>2
  <2> QED
    BY <1>4, <2>1
<1>9. \A k \in 1..(a + b) : k \in 1..a \/ k \in (a + 1)..(a + b)
  BY <1>1
<1>10. ASSUME NEW k \in 1..(a + b)
       PROVE  /\ c[k].device_index + 1 \in 1..(n + 1)
              /\ c[k].card = seen[c[k].device_index + 1] /\ RowTells(c[k])
  <2>1. CASE k \in 1..a
    <3>1. l[k].device_index + 1 \in 1..(n + 1)
      BY <1>3, <1>6, <2>1
    <3> QED
      BY <1>3, <1>7, <2>1, <3>1
  <2>2. CASE k \in (a + 1)..(a + b)
    BY <1>4, <1>8, <2>2
  <2> QED
    BY <1>9, <2>1, <2>2
<1>11. ASSUME NEW j \in 1..(a + b), NEW k \in 1..(a + b), c[j].pid = c[k].pid, c[j].card = c[k].card
       PROVE  j = k
  <2>1. CASE j \in 1..a /\ k \in 1..a
    BY <1>3, <1>7, <1>11, <2>1
  <2>2. CASE j \in (a + 1)..(a + b) /\ k \in (a + 1)..(a + b)
    <3>1. j - a = k - a
      BY <1>4, <1>8, <1>11, <2>2
    <3> QED
      BY <1>1, <3>1
  <2>3. CASE (j \in 1..a /\ k \in (a + 1)..(a + b)) \/ (k \in 1..a /\ j \in (a + 1)..(a + b))
    BY <1>7, <1>8, <1>11, <2>3
  <2> QED
    BY <1>9, <2>1, <2>2, <2>3
<1>12. ASSUME NEW i \in 1..(n + 1), NEW p \in Pid, KindsOf(p, seen[i]) # {}
       PROVE  \E k \in 1..(a + b) : c[k].pid = p /\ c[k].card = seen[i]
  <2>1. CASE i \in 1..n
    <3>1. PICK k \in 1..a : l[k].pid = p /\ l[k].card = seen[i]
      BY <1>3, <1>12, <2>1
    <3> QED
      BY <1>7, <3>1
  <2>2. CASE i = n + 1
    <3>1. PICK k \in 1..b : q[k].pid = p
      BY <1>4, <1>12, <2>2
    <3>2. a + k \in (a + 1)..(a + b) /\ (a + k) - a = k /\ a + k \in 1..(a + b)
      BY <1>1
    <3>3. c[a + k] = q[(a + k) - a] /\ c[a + k].card = seen[n + 1]
      BY <1>8, <3>2
    <3> QED
      BY <2>2, <3>1, <3>2, <3>3
  <2>3. i \in 1..n \/ i = n + 1
    OBVIOUS
  <2> QED
    BY <2>1, <2>2, <2>3
<1>13. RowsUpto(c, seen, n + 1)
  <2>1. DOMAIN c = 1..Len(c) /\ 1..Len(c) = 1..(a + b)
    BY <1>2
  <2>2. \A k \in 1..Len(c) : /\ c[k].device_index + 1 \in 1..(n + 1)
                             /\ c[k].card = seen[c[k].device_index + 1] /\ RowTells(c[k])
    BY <1>10, <2>1
  <2>3. \A j, k \in 1..Len(c) : c[j].pid = c[k].pid /\ c[j].card = c[k].card => j = k
    BY <1>11, <2>1
  <2>4. \A i \in 1..(n + 1), p \in Pid : KindsOf(p, seen[i]) # {} =>
          \E k \in 1..Len(c) : c[k].pid = p /\ c[k].card = seen[i]
    <3> SUFFICES ASSUME NEW i \in 1..(n + 1), NEW p \in Pid, KindsOf(p, seen[i]) # {}
                 PROVE  \E k \in 1..Len(c) : c[k].pid = p /\ c[k].card = seen[i]
      OBVIOUS
    <3>1. PICK k \in 1..(a + b) : c[k].pid = p /\ c[k].card = seen[i]
      BY <1>12
    <3> QED
      BY <2>1, <3>1
  <2> QED
    BY <1>2, <2>1, <2>2, <2>3, <2>4 DEF RowsUpto
<1> QED
  BY <1>13 DEF c

\* The rows as NvmlProcesses adds them up, card by card.
AddUp(f, seen, n) ==
  f = [i \in 0..n |-> IF i = 0 THEN <<>> ELSE f[i - 1] \o CollectProcesses(seen[i], i - 1)]

LEMMA AddUpExists ==
  ASSUME NEW seen, NEW n \in Nat
  PROVE  \E f : AddUp(f, seen, n)
<1> DEFINE S == {m \in Nat : \E f : AddUp(f, seen, m)}
<1>1. 0 \in S
  <2> DEFINE g == [i \in 0..0 |-> <<>>]
  <2>1. AddUp(g, seen, 0)
    BY DEF AddUp
  <2> QED
    BY <2>1
<1>2. ASSUME NEW m \in Nat, m \in S PROVE m + 1 \in S
  <2>1. PICK f : AddUp(f, seen, m)
    BY <1>2
  <2> DEFINE last == f[m] \o CollectProcesses(seen[m + 1], m)
             g == [i \in 0..(m + 1) |-> IF i = m + 1 THEN last ELSE f[i]]
  <2>2. ASSUME NEW i \in 0..(m + 1)
        PROVE  g[i] = IF i = 0 THEN <<>> ELSE g[i - 1] \o CollectProcesses(seen[i], i - 1)
    <3>1. CASE i = m + 1
      <4>1. i - 1 = m /\ i # 0 /\ m \in 0..(m + 1) /\ m # m + 1
        BY <3>1
      <4>2. g[i] = last /\ g[i - 1] = f[m]
        BY <3>1, <4>1
      <4> QED
        BY <3>1, <4>1, <4>2
    <3>2. CASE i # m + 1
      <4>1. i \in 0..m
        BY <3>2
      <4>2. g[i] = f[i] /\ (i # 0 => g[i - 1] = f[i - 1])
        BY <3>2, <4>1
      <4>3. f[i] = IF i = 0 THEN <<>> ELSE f[i - 1] \o CollectProcesses(seen[i], i - 1)
        BY <2>1, <4>1 DEF AddUp
      <4> QED
        BY <4>2, <4>3
    <3> QED
      BY <3>1, <3>2
  <2>3. g = [i \in 0..(m + 1) |-> g[i]]
    OBVIOUS
  <2> HIDE DEF g
  <2>4. AddUp(g, seen, m + 1)
    BY <2>2, <2>3 DEF AddUp
  <2> QED
    BY <2>4
<1> HIDE DEF S
<1>3. \A m \in Nat : m \in S
  BY <1>1, <1>2, SetInduction
<1> QED
  BY <1>3 DEF S

LEMMA NvmlRowsFacts ==
  ASSUME NEW seen \in Seq(NvCards), \A j, k \in DOMAIN seen : seen[j] = seen[k] => j = k
  PROVE  RowsUpto(NvmlProcesses(seen), seen, Len(seen))
<1> DEFINE s == Len(seen)
<1>1. s \in Nat /\ DOMAIN seen = 1..s
  OBVIOUS
<1>2. \E f : AddUp(f, seen, s)
  BY <1>1, AddUpExists
<1>3. PICK f : f = CHOOSE g : AddUp(g, seen, s)
  OBVIOUS
<1>4. AddUp(f, seen, s)
  BY <1>2, <1>3
<1>5. NvmlProcesses(seen) = f[s]
  BY <1>3 DEF NvmlProcesses, AddUp
<1> DEFINE S == {m \in Nat : m <= s => RowsUpto(f[m], seen, m)}
<1>6. 0 \in S
  <2>1. f[0] = <<>>
    BY <1>1, <1>4 DEF AddUp
  <2>2. <<>> \in Seq(ProcessSet) /\ Len(<<>>) = 0 /\ DOMAIN <<>> = 1..0 /\ 1..0 = {}
    OBVIOUS
  <2>3. RowsUpto(<<>>, seen, 0)
    BY <2>2 DEF RowsUpto
  <2> QED
    BY <2>1, <2>3
<1>7. ASSUME NEW m \in Nat, m \in S PROVE m + 1 \in S
  <2>1. CASE m + 1 <= s
    <3>1. m + 1 \in 0..s /\ m + 1 # 0 /\ (m + 1) - 1 = m /\ m <= s /\ m + 1 \in 1..s
      BY <1>1, <2>1
    <3>2. f[m + 1] = f[m] \o CollectProcesses(seen[m + 1], m)
      BY <1>4, <3>1 DEF AddUp
    <3>3. RowsUpto(f[m], seen, m)
      BY <1>7, <3>1
    <3>4. seen[m + 1] \in NvCards
      BY <1>1, <3>1
    <3>5. CardRows(CollectProcesses(seen[m + 1], m), seen[m + 1], m)
      BY <3>4, CollectFacts
    <3>6. RowsUpto(f[m] \o CollectProcesses(seen[m + 1], m), seen, m + 1)
      BY <2>1, <3>3, <3>5, RowsOfOneMore
    <3>7. RowsUpto(f[m + 1], seen, m + 1)
      BY <3>2, <3>6
    <3> QED
      BY <3>7
  <2>2. CASE ~(m + 1 <= s)
    BY <2>2
  <2> QED
    BY <2>1, <2>2
<1> HIDE DEF S
<1>8. \A m \in Nat : m \in S
  BY <1>6, <1>7, SetInduction
<1>9. RowsUpto(f[s], seen, s)
  BY <1>1, <1>8 DEF S
<1> QED
  BY <1>5, <1>9

\* Devices and rows that stand for the cards of C: every card at the place its index
\* says, every process with a context on one in one row that points at it.
Attributed(ds, ps, C) ==
  /\ ds \in Seq(DeviceSet) /\ ps \in Seq(ProcessSet)
  /\ \A k \in 1..Len(ds) : /\ ds[k].index = k - 1 /\ ds[k].card \in C
                           /\ ds[k].clock = NoFigure => "pp_dpm_sclk" \notin files
  /\ \A j, k \in 1..Len(ds) : ds[j].card = ds[k].card => j = k
  /\ \A c \in C : \E k \in 1..Len(ds) : ds[k].card = c
  /\ \A k \in 1..Len(ps) : /\ ps[k].device_index + 1 \in 1..Len(ds) /\ RowTells(ps[k])
                           /\ ds[ps[k].device_index + 1].card = ps[k].card
  /\ \A j, k \in 1..Len(ps) : ps[j].pid = ps[k].pid /\ ps[j].card = ps[k].card => j = k
  /\ \A c \in C \cap NvCards, p \in Pid : KindsOf(p, c) # {} =>
       \E k \in 1..Len(ps) : ps[k].pid = p /\ ps[k].card = c

LEMMA NothingAttributed == Attributed(<<>>, <<>>, {})
<1>1. \A S : <<>> \in Seq(S)
  OBVIOUS
<1>2. Len(<<>>) = 0 /\ 1..0 = {}
  OBVIOUS
<1> QED
  BY <1>1, <1>2 DEF Attributed

\* NvmlCards: the readable cards, each once.
LEMMA NvmlCardsFacts ==
  ASSUME readable \subseteq NvCards
  PROVE  Once(NvmlCards, readable)
<1> DEFINE key == [i \in {i \in DOMAIN Nvidia : Nvidia[i] \in readable} |-> i]
           S == {Nvidia[i] : i \in DOMAIN key}
<1>1. Nvidia \in Seq(Range(Nvidia)) /\ IsInjective(Nvidia)
  BY GpuAssumption
<1>2. DOMAIN key \subseteq DOMAIN Nvidia /\ \A i \in DOMAIN key : key[i] \in Int
  BY <1>1
<1>3. S = readable
  <2>1. S \subseteq readable
    OBVIOUS
  <2>2. ASSUME NEW c \in readable PROVE c \in S
    <3>1. c \in Range(Nvidia)
      BY DEF NvCards
    <3>2. PICK i \in DOMAIN Nvidia : Nvidia[i] = c
      BY <3>1 DEF Range
    <3>3. i \in DOMAIN key
      BY <3>2
    <3> QED
      BY <3>2, <3>3
  <2> QED
    BY <2>1, <2>2
<1>4. NvmlCards = [k \in DOMAIN Ranked(key) |-> Nvidia[Ranked(key)[k]]]
  BY DEF NvmlCards
<1> HIDE DEF key
<1>5. Once([k \in DOMAIN Ranked(key) |-> Nvidia[Ranked(key)[k]]], S)
  BY <1>1, <1>2, PickedOnce
<1> QED
  BY <1>3, <1>4, <1>5

\* The sequence form of Once.
LEMMA OnceFacts ==
  ASSUME NEW l, NEW S, Once(l, S)
  PROVE  /\ l \in Seq(S) /\ Len(l) \in Nat /\ DOMAIN l = 1..Len(l)
         /\ \A k \in 1..Len(l) : l[k] \in S
         /\ \A x \in S : \E k \in 1..Len(l) : l[k] = x
         /\ \A j, k \in 1..Len(l) : l[j] = l[k] => j = k
<1>1. l \in Seq(S) /\ DOMAIN l = 1..Len(l)
  BY DEF Once
<1>2. Len(l) \in Nat /\ \A k \in 1..Len(l) : l[k] \in S
  BY <1>1
<1> QED
  BY <1>1, <1>2 DEF Once

LEMMA NvmlAttributed ==
  ASSUME readable \subseteq NvCards
  PROVE  Attributed(NvmlDevices(NvmlCards), NvmlProcesses(NvmlCards), readable)
<1> DEFINE seen == NvmlCards
           ds == NvmlDevices(seen)
           ps == NvmlProcesses(seen)
<1>1. /\ seen \in Seq(readable) /\ DOMAIN seen = 1..Len(seen) /\ Len(seen) \in Nat
      /\ \A k \in 1..Len(seen) : seen[k] \in readable
      /\ \A x \in readable : \E k \in 1..Len(seen) : seen[k] = x
      /\ \A j, k \in 1..Len(seen) : seen[j] = seen[k] => j = k
  BY NvmlCardsFacts, OnceFacts
<1>2. ds = [k \in 1..Len(seen) |-> [index |-> k - 1, card |-> seen[k], supports |-> TRUE, clock |-> "nvml", power |-> "nvml"]]
  BY <1>1 DEF NvmlDevices
<1> HIDE DEF seen, ds, ps
<1>3. seen \in Seq(NvCards) /\ \A j, k \in DOMAIN seen : seen[j] = seen[k] => j = k
  BY <1>1
<1>4. RowsUpto(ps, seen, Len(seen))
  BY <1>3, NvmlRowsFacts DEF ps
<1> DEFINE n == Len(seen)
<1> HIDE DEF n
<1>5. \A k \in 1..n : ds[k] \in DeviceSet /\ ds[k].index = k - 1 /\ ds[k].card = seen[k] /\ ds[k].clock # NoFigure
  <2> SUFFICES ASSUME NEW k \in 1..n
               PROVE  ds[k] \in DeviceSet /\ ds[k].index = k - 1 /\ ds[k].card = seen[k] /\ ds[k].clock # NoFigure
    OBVIOUS
  <2>1. seen[k] \in AllCards /\ k - 1 \in Nat
    BY <1>1 DEF AllCards, n
  <2>2. ds[k] = [index |-> k - 1, card |-> seen[k], supports |-> TRUE, clock |-> "nvml", power |-> "nvml"]
    BY <1>2 DEF n
  <2> QED
    BY <2>1, <2>2 DEF DeviceSet, NoFigure
<1>6. ds \in [1..n -> DeviceSet]
  BY <1>2, <1>5 DEF n
<1>7. n \in Nat /\ ds \in Seq(DeviceSet) /\ Len(ds) = n
  BY <1>1, <1>6, FunctionIsList DEF n
<1>8. /\ \A k \in 1..n : seen[k] \in readable
      /\ \A x \in readable : \E k \in 1..n : seen[k] = x
      /\ \A j, k \in 1..n : seen[j] = seen[k] => j = k
  BY <1>1 DEF n
<1>9. /\ ps \in Seq(ProcessSet)
      /\ \A k \in 1..Len(ps) : /\ ps[k].device_index + 1 \in 1..n
                               /\ ps[k].card = seen[ps[k].device_index + 1] /\ RowTells(ps[k])
      /\ \A j, k \in 1..Len(ps) : ps[j].pid = ps[k].pid /\ ps[j].card = ps[k].card => j = k
      /\ \A i \in 1..n, p \in Pid : KindsOf(p, seen[i]) # {} =>
           \E k \in 1..Len(ps) : ps[k].pid = p /\ ps[k].card = seen[i]
  BY <1>4 DEF RowsUpto, n
<1>10. \A k \in 1..n : /\ ds[k].index = k - 1 /\ ds[k].card \in readable
                       /\ ds[k].clock = NoFigure => "pp_dpm_sclk" \notin files
  BY <1>5, <1>8
<1>11. /\ \A j, k \in 1..n : ds[j].card = ds[k].card => j = k
       /\ \A c \in readable : \E k \in 1..n : ds[k].card = c
  BY <1>5, <1>8
<1>12. \A k \in 1..Len(ps) : /\ ps[k].device_index + 1 \in 1..n /\ RowTells(ps[k])
                             /\ ds[ps[k].device_index + 1].card = ps[k].card
  BY <1>5, <1>9
<1>13. ASSUME NEW c \in readable, NEW p \in Pid, KindsOf(p, c) # {}
       PROVE  \E k \in 1..Len(ps) : ps[k].pid = p /\ ps[k].card = c
  <2>1. PICK i \in 1..n : seen[i] = c
    BY <1>8
  <2>2. KindsOf(p, seen[i]) # {}
    BY <1>13, <2>1
  <2>3. PICK k \in 1..Len(ps) : ps[k].pid = p /\ ps[k].card = seen[i]
    BY <1>9, <2>2
  <2> QED
    BY <2>1, <2>3
<1>14. \A c \in readable \cap NvCards, p \in Pid : KindsOf(p, c) # {} =>
         \E k \in 1..Len(ps) : ps[k].pid = p /\ ps[k].card = c
  BY <1>13
<1>15. Attributed(ds, ps, readable)
  BY <1>7, <1>9, <1>10, <1>11, <1>12, <1>14 DEF Attributed
<1> QED
  BY <1>15 DEF ds, ps, seen

LEMMA AmdAttributed ==
  ASSUME Once(cards, Range(cards)), Range(cards) \subseteq AllCards, Range(cards) \cap NvCards = {}
  PROVE  Attributed(AmdDevices, <<>>, Range(cards))
<1> DEFINE ds == AmdDevices
           n == Len(cards)
           C == Range(cards)
<1>1. /\ DOMAIN cards = 1..n /\ n \in Nat
      /\ \A k \in 1..n : cards[k] \in C
      /\ \A x \in C : \E k \in 1..n : cards[k] = x
      /\ \A j, k \in 1..n : cards[j] = cards[k] => j = k
  <2> HIDE DEF C
  <2> QED
    BY OnceFacts DEF C
<1>2. PICK clock, power : clock = AmdClock /\ power = AmdPower
  OBVIOUS
<1>3. /\ clock \in {"nvml", "freq1_input", "pp_dpm_sclk", NoFigure}
      /\ clock = NoFigure => "pp_dpm_sclk" \notin files
  BY <1>2 DEF AmdClock, NoFigure
<1>4. power \in {"nvml", "power1_average", "power1_input", NoFigure}
  BY <1>2 DEF AmdPower, NoFigure
<1>5. ds = [k \in 1..n |-> [index |-> k - 1, card |-> cards[k], supports |-> FALSE, clock |-> clock, power |-> power]]
  BY <1>1, <1>2 DEF AmdDevices
<1> HIDE DEF ds, n
<1>6. \A k \in 1..n : ds[k] \in DeviceSet /\ ds[k].index = k - 1 /\ ds[k].card = cards[k] /\ ds[k].clock = clock
  <2> SUFFICES ASSUME NEW k \in 1..n
               PROVE  ds[k] \in DeviceSet /\ ds[k].index = k - 1 /\ ds[k].card = cards[k] /\ ds[k].clock = clock
    OBVIOUS
  <2>1. cards[k] \in AllCards /\ k - 1 \in Nat
    BY <1>1
  <2>2. ds[k] = [index |-> k - 1, card |-> cards[k], supports |-> FALSE, clock |-> clock, power |-> power]
    BY <1>5
  <2> QED
    BY <1>3, <1>4, <2>1, <2>2 DEF DeviceSet
<1>7. ds \in [1..n -> DeviceSet]
  BY <1>5, <1>6
<1>8. ds \in Seq(DeviceSet) /\ Len(ds) = n
  BY <1>1, <1>7, FunctionIsList
<1>9. \A k \in 1..n : /\ ds[k].index = k - 1 /\ ds[k].card \in C
                      /\ ds[k].clock = NoFigure => "pp_dpm_sclk" \notin files
  BY <1>1, <1>3, <1>6
<1>10. /\ \A j, k \in 1..n : ds[j].card = ds[k].card => j = k
       /\ \A c \in C : \E k \in 1..n : ds[k].card = c
  <2> HIDE DEF C
  <2>1. \A j, k \in 1..n : ds[j].card = ds[k].card => j = k
    BY <1>1, <1>6
  <2>2. ASSUME NEW c \in C PROVE \E k \in 1..n : ds[k].card = c
    <3>1. PICK k \in 1..n : cards[k] = c
      BY <1>1
    <3>2. ds[k].card = c
      BY <1>6, <3>1
    <3> QED
      BY <3>2
  <2> QED
    BY <2>1, <2>2
<1>11. <<>> \in Seq(ProcessSet) /\ Len(<<>>) = 0 /\ 1..0 = {}
  OBVIOUS
<1> HIDE DEF C
<1>12. Attributed(ds, <<>>, C)
  <2>1. C \cap NvCards = {}
    BY DEF C
  <2> QED
    BY <1>8, <1>9, <1>10, <1>11, <2>1 DEF Attributed
<1> QED
  BY <1>12 DEF ds, C

\* Devices and rows of another backend, moved behind `by` devices.
MovedDevices(es, by) == [k \in DOMAIN es |-> [es[k] EXCEPT !.index = @ + by]]
MovedRows(qs, by) == [k \in DOMAIN qs |-> [qs[k] EXCEPT !.device_index = @ + by]]

LEMMA MovedDevicesFacts ==
  ASSUME NEW es \in Seq(DeviceSet), NEW by \in Nat
  PROVE  LET ms == MovedDevices(es, by)
         IN  /\ ms \in Seq(DeviceSet) /\ Len(ms) = Len(es) /\ Len(es) \in Nat
             /\ \A k \in 1..Len(es) :
                  ms[k].index = es[k].index + by /\ ms[k].card = es[k].card /\ ms[k].clock = es[k].clock
<1> DEFINE ms == MovedDevices(es, by)
           n == Len(es)
<1>1. n \in Nat /\ DOMAIN es = 1..n /\ \A k \in 1..n : es[k] \in DeviceSet
  OBVIOUS
<1>2. ms = [k \in 1..n |-> [es[k] EXCEPT !.index = @ + by]]
  BY <1>1 DEF MovedDevices
<1> HIDE DEF ms, n
<1>3. \A k \in 1..n : /\ ms[k] \in DeviceSet
                      /\ ms[k].index = es[k].index + by /\ ms[k].card = es[k].card /\ ms[k].clock = es[k].clock
  <2> SUFFICES ASSUME NEW k \in 1..n
               PROVE  /\ ms[k] \in DeviceSet
                      /\ ms[k].index = es[k].index + by /\ ms[k].card = es[k].card /\ ms[k].clock = es[k].clock
    OBVIOUS
  <2>1. ms[k] = [es[k] EXCEPT !.index = es[k].index + by] /\ es[k] \in DeviceSet
    BY <1>1, <1>2
  <2>2. PICK S, T : DeviceSet = [index : Nat, card : AllCards, supports : BOOLEAN, clock : S, power : T]
    BY DEF DeviceSet
  <2>3. PICK i : i = es[k].index + by
    OBVIOUS
  <2>4. es[k].index \in Nat
    BY <2>1, <2>2
  <2>5. i \in Nat
    BY <2>3, <2>4
  <2>6. ms[k] = [es[k] EXCEPT !.index = i]
    BY <2>1, <2>3
  <2> QED
    BY <2>1, <2>2, <2>3, <2>5, <2>6
<1>4. ms \in [1..n -> DeviceSet]
  BY <1>2, <1>3
<1>5. ms \in Seq(DeviceSet) /\ Len(ms) = n
  BY <1>1, <1>4, FunctionIsList
<1> QED
  BY <1>1, <1>3, <1>5 DEF ms, n

LEMMA MovedRowsFacts ==
  ASSUME NEW qs \in Seq(ProcessSet), NEW by \in Nat
  PROVE  LET ms == MovedRows(qs, by)
         IN  /\ ms \in Seq(ProcessSet) /\ Len(ms) = Len(qs) /\ Len(qs) \in Nat
             /\ \A k \in 1..Len(qs) :
                  /\ ms[k].device_index = qs[k].device_index + by
                  /\ ms[k].pid = qs[k].pid /\ ms[k].card = qs[k].card
                  /\ RowTells(qs[k]) => RowTells(ms[k])
<1> DEFINE ms == MovedRows(qs, by)
           n == Len(qs)
<1>1. n \in Nat /\ DOMAIN qs = 1..n /\ \A k \in 1..n : qs[k] \in ProcessSet
  OBVIOUS
<1>2. ms = [k \in 1..n |-> [qs[k] EXCEPT !.device_index = @ + by]]
  BY <1>1 DEF MovedRows
<1> HIDE DEF ms, n
<1>3. \A k \in 1..n : /\ ms[k] \in ProcessSet
                      /\ ms[k].device_index = qs[k].device_index + by
                      /\ ms[k].pid = qs[k].pid /\ ms[k].card = qs[k].card
                      /\ RowTells(qs[k]) => RowTells(ms[k])
  <2> SUFFICES ASSUME NEW k \in 1..n
               PROVE  /\ ms[k] \in ProcessSet
                      /\ ms[k].device_index = qs[k].device_index + by
                      /\ ms[k].pid = qs[k].pid /\ ms[k].card = qs[k].card
                      /\ RowTells(qs[k]) => RowTells(ms[k])
    OBVIOUS
  <2>1. ms[k] = [qs[k] EXCEPT !.device_index = qs[k].device_index + by] /\ qs[k] \in ProcessSet
    BY <1>1, <1>2
  <2>2. /\ ms[k] \in ProcessSet
        /\ ms[k].device_index = qs[k].device_index + by
        /\ ms[k].pid = qs[k].pid /\ ms[k].card = qs[k].card
        /\ ms[k].name = qs[k].name /\ ms[k].kind = qs[k].kind /\ ms[k].mem = qs[k].mem
    <3>1. PICK i : i = qs[k].device_index + by
      OBVIOUS
    <3>2. PICK N, K, M : ProcessSet = [pid : Pid, device_index : Nat, name : N, card : AllCards, kind : K, mem : M]
      BY DEF ProcessSet
    <3>3. qs[k].device_index \in Nat
      BY <2>1, <3>2
    <3>4. i \in Nat
      BY <3>1, <3>3
    <3>5. ms[k] = [qs[k] EXCEPT !.device_index = i]
      BY <2>1, <3>1
    <3> QED
      BY <2>1, <3>1, <3>2, <3>4, <3>5
  <2>3. RowTells(qs[k]) => RowTells(ms[k])
    BY <2>2 DEF RowTells
  <2> QED
    BY <2>2, <2>3
<1>4. ms \in [1..n -> ProcessSet]
  BY <1>2, <1>3
<1>5. ms \in Seq(ProcessSet) /\ Len(ms) = n
  BY <1>1, <1>4, FunctionIsList
<1> QED
  BY <1>1, <1>3, <1>5 DEF ms, n

\* ConcatFacts, with names for the lists' lengths.
LEMMA ConcatNamed ==
  ASSUME NEW S, NEW a \in Seq(S), NEW b \in Seq(S), NEW m, m = Len(a), NEW n, n = Len(b), NEW c, c = a \o b
  PROVE  /\ c \in Seq(S) /\ Len(c) = m + n
         /\ \A k \in 1..m : c[k] = a[k]
         /\ \A k \in (m + 1)..(m + n) : c[k] = b[k - m]
<1>1. a \o b \in Seq(S) /\ Len(a \o b) = Len(a) + Len(b)
  BY ConcatFacts
<1>2. \A k \in 1..Len(a) : (a \o b)[k] = a[k]
  BY ConcatFacts
<1>3. \A k \in (Len(a) + 1)..(Len(a) + Len(b)) : (a \o b)[k] = b[k - Len(a)]
  BY ConcatFacts
<1> QED
  BY <1>1, <1>2, <1>3, Zenon

\* Two backends' cards as one list.
LEMMA AttributedBoth ==
  ASSUME NEW ds, NEW ps, NEW C, Attributed(ds, ps, C),
         NEW es, NEW qs, NEW D, Attributed(es, qs, D), C \cap D = {}
  PROVE  Attributed(ds \o MovedDevices(es, Len(ds)), ps \o MovedRows(qs, Len(ds)), C \cup D)
<1> DEFINE a == Len(ds)
           b == Len(es)
           me == MovedDevices(es, a)
           c == ds \o me
           x == Len(ps)
           y == Len(qs)
           mq == MovedRows(qs, a)
           r == ps \o mq
<1>1. /\ ds \in Seq(DeviceSet) /\ ps \in Seq(ProcessSet) /\ es \in Seq(DeviceSet) /\ qs \in Seq(ProcessSet)
      /\ a \in Nat /\ x \in Nat
  BY DEF Attributed
<1>2. /\ \A k \in 1..a : /\ ds[k].index = k - 1 /\ ds[k].card \in C
                         /\ ds[k].clock = NoFigure => "pp_dpm_sclk" \notin files
      /\ \A j, k \in 1..a : ds[j].card = ds[k].card => j = k
      /\ \A d \in C : \E k \in 1..a : ds[k].card = d
  BY DEF Attributed
<1>3. /\ \A k \in 1..x : /\ ps[k].device_index + 1 \in 1..a /\ RowTells(ps[k])
                         /\ ds[ps[k].device_index + 1].card = ps[k].card
      /\ \A j, k \in 1..x : ps[j].pid = ps[k].pid /\ ps[j].card = ps[k].card => j = k
      /\ \A d \in C \cap NvCards, p \in Pid : KindsOf(p, d) # {} =>
           \E k \in 1..x : ps[k].pid = p /\ ps[k].card = d
  BY DEF Attributed
<1>4. /\ \A k \in 1..b : /\ es[k].index = k - 1 /\ es[k].card \in D
                         /\ es[k].clock = NoFigure => "pp_dpm_sclk" \notin files
      /\ \A j, k \in 1..b : es[j].card = es[k].card => j = k
      /\ \A d \in D : \E k \in 1..b : es[k].card = d
  BY DEF Attributed
<1>5. /\ \A k \in 1..y : /\ qs[k].device_index + 1 \in 1..b /\ RowTells(qs[k])
                         /\ es[qs[k].device_index + 1].card = qs[k].card
      /\ \A j, k \in 1..y : qs[j].pid = qs[k].pid /\ qs[j].card = qs[k].card => j = k
      /\ \A d \in D \cap NvCards, p \in Pid : KindsOf(p, d) # {} =>
           \E k \in 1..y : qs[k].pid = p /\ qs[k].card = d
  BY DEF Attributed
<1>6. /\ me \in Seq(DeviceSet) /\ Len(me) = b /\ b \in Nat
      /\ \A k \in 1..b : me[k].index = es[k].index + a /\ me[k].card = es[k].card /\ me[k].clock = es[k].clock
  BY <1>1, MovedDevicesFacts
<1>7. /\ mq \in Seq(ProcessSet) /\ Len(mq) = y /\ y \in Nat
      /\ \A k \in 1..y : /\ mq[k].device_index = qs[k].device_index + a
                         /\ mq[k].pid = qs[k].pid /\ mq[k].card = qs[k].card
                         /\ RowTells(qs[k]) => RowTells(mq[k])
  BY <1>1, MovedRowsFacts
<1> HIDE DEF a, b, me, x, y, mq
<1>8. /\ c \in Seq(DeviceSet) /\ Len(c) = a + b
      /\ \A k \in 1..a : c[k] = ds[k]
      /\ \A k \in (a + 1)..(a + b) : c[k] = me[k - a]
  <2>1. ds \in Seq(DeviceSet) /\ me \in Seq(DeviceSet) /\ a = Len(ds) /\ b = Len(me) /\ c = ds \o me
    BY <1>1, <1>6 DEF a
  <2> HIDE DEF c
  <2> QED
    BY <2>1, ConcatNamed
<1>9. /\ r \in Seq(ProcessSet) /\ Len(r) = x + y
      /\ \A k \in 1..x : r[k] = ps[k]
      /\ \A k \in (x + 1)..(x + y) : r[k] = mq[k - x]
  <2>1. ps \in Seq(ProcessSet) /\ mq \in Seq(ProcessSet) /\ x = Len(ps) /\ y = Len(mq) /\ r = ps \o mq
    BY <1>1, <1>7 DEF x
  <2> HIDE DEF r
  <2> QED
    BY <2>1, ConcatNamed
<1> HIDE DEF c, r
<1> DEFINE U == C \cup D
\* The devices.
<1>10. ASSUME NEW k \in 1..a PROVE c[k] = ds[k] /\ k \in 1..(a + b) /\ c[k].card \in C
  <2>1. c[k] = ds[k] /\ ds[k].card \in C
    BY <1>2, <1>8
  <2>2. k \in 1..(a + b)
    BY <1>1, <1>6
  <2> QED
    BY <2>1, <2>2
<1>11. ASSUME NEW k \in 1..b
       PROVE  /\ a + k \in (a + 1)..(a + b) /\ a + k \in 1..(a + b) /\ c[a + k].card = es[k].card
              /\ c[a + k].clock = es[k].clock /\ c[a + k].index = (a + k) - 1 /\ c[a + k].card \in D
  <2>1. a + k \in (a + 1)..(a + b) /\ a + k \in 1..(a + b) /\ (a + k) - a = k
    BY <1>1, <1>6
  <2>2. c[a + k] = me[k]
    BY <1>8, <2>1
  <2>3. es[k].index = k - 1 /\ es[k].card \in D
    BY <1>4
  <2>4. c[a + k].index = (k - 1) + a
    BY <1>6, <2>2, <2>3
  <2>5. (k - 1) + a = (a + k) - 1
    BY <1>1, <1>6
  <2>6. c[a + k].card = es[k].card /\ c[a + k].clock = es[k].clock
    BY <1>6, <2>2
  <2> QED
    BY <2>1, <2>3, <2>4, <2>5, <2>6
<1>12. \A k \in 1..(a + b) : k \in 1..a \/ (k - a \in 1..b /\ a + (k - a) = k)
  BY <1>1, <1>6
<1>13. ASSUME NEW k \in 1..(a + b)
       PROVE  /\ c[k].index = k - 1 /\ c[k].card \in U
              /\ c[k].clock = NoFigure => "pp_dpm_sclk" \notin files
  <2>1. CASE k \in 1..a
    BY <1>2, <1>10, <2>1
  <2>2. CASE k - a \in 1..b /\ a + (k - a) = k
    BY <1>4, <1>11, <2>2
  <2> QED
    BY <1>12, <2>1, <2>2
<1>14. ASSUME NEW j \in 1..(a + b), NEW k \in 1..(a + b), c[j].card = c[k].card PROVE j = k
  <2>1. CASE j \in 1..a /\ k \in 1..a
    BY <1>2, <1>10, <1>14, <2>1
  <2>2. CASE (j - a \in 1..b /\ a + (j - a) = j) /\ (k - a \in 1..b /\ a + (k - a) = k)
    <3>1. es[j - a].card = es[k - a].card
      BY <1>11, <1>14, <2>2
    <3>2. j - a = k - a
      BY <1>4, <2>2, <3>1
    <3> QED
      BY <2>2, <3>2
  <2>3. CASE j \in 1..a /\ (k - a \in 1..b /\ a + (k - a) = k)
    BY <1>10, <1>11, <1>14, <2>3
  <2>4. CASE k \in 1..a /\ (j - a \in 1..b /\ a + (j - a) = j)
    BY <1>10, <1>11, <1>14, <2>4
  <2> QED
    BY <1>12, <2>1, <2>2, <2>3, <2>4
<1>15. ASSUME NEW d \in U PROVE \E k \in 1..(a + b) : c[k].card = d
  <2>1. CASE d \in C
    BY <1>2, <1>10, <2>1
  <2>2. CASE d \in D
    <3>1. PICK k \in 1..b : es[k].card = d
      BY <1>4, <2>2
    <3> QED
      BY <1>11, <3>1
  <2> QED
    BY <2>1, <2>2
\* The rows.
<1>16. ASSUME NEW k \in 1..x
       PROVE  /\ r[k] = ps[k] /\ k \in 1..(x + y) /\ r[k].device_index + 1 \in 1..(a + b) /\ RowTells(r[k])
              /\ c[r[k].device_index + 1].card = r[k].card /\ r[k].card \in C
  <2>1. r[k] = ps[k] /\ k \in 1..(x + y)
    BY <1>1, <1>7, <1>9
  <2>2. ps[k].device_index + 1 \in 1..a /\ RowTells(ps[k]) /\ ds[ps[k].device_index + 1].card = ps[k].card
    BY <1>3
  <2> QED
    BY <1>10, <2>1, <2>2
<1>17. ASSUME NEW k \in 1..y
       PROVE  /\ x + k \in 1..(x + y) /\ r[x + k].pid = qs[k].pid /\ r[x + k].card = qs[k].card
              /\ r[x + k].device_index + 1 \in 1..(a + b) /\ RowTells(r[x + k])
              /\ c[r[x + k].device_index + 1].card = r[x + k].card /\ r[x + k].card \in D
  <2>1. x + k \in (x + 1)..(x + y) /\ x + k \in 1..(x + y) /\ (x + k) - x = k
    BY <1>1, <1>7
  <2>2. r[x + k] = mq[k]
    BY <1>9, <2>1
  <2>3. qs[k].device_index + 1 \in 1..b /\ RowTells(qs[k]) /\ es[qs[k].device_index + 1].card = qs[k].card
    BY <1>5
  <2>4. qs[k].device_index \in Nat
    <3>1. qs[k] \in ProcessSet
      BY <1>1 DEF y
    <3> QED
      BY <3>1 DEF ProcessSet
  <2>5. r[x + k].device_index + 1 = a + (qs[k].device_index + 1)
    BY <1>1, <1>7, <2>2, <2>4
  <2> QED
    BY <1>7, <1>11, <2>1, <2>2, <2>3, <2>5
<1>18. \A k \in 1..(x + y) : k \in 1..x \/ (k - x \in 1..y /\ x + (k - x) = k)
  BY <1>1, <1>7
<1>19. ASSUME NEW k \in 1..(x + y)
       PROVE  /\ r[k].device_index + 1 \in 1..(a + b) /\ RowTells(r[k])
              /\ c[r[k].device_index + 1].card = r[k].card
  <2>1. CASE k \in 1..x
    BY <1>16, <2>1
  <2>2. CASE k - x \in 1..y /\ x + (k - x) = k
    BY <1>17, <2>2
  <2> QED
    BY <1>18, <2>1, <2>2
<1>20. ASSUME NEW j \in 1..(x + y), NEW k \in 1..(x + y), r[j].pid = r[k].pid, r[j].card = r[k].card
       PROVE  j = k
  <2>1. CASE j \in 1..x /\ k \in 1..x
    BY <1>3, <1>16, <1>20, <2>1
  <2>2. CASE (j - x \in 1..y /\ x + (j - x) = j) /\ (k - x \in 1..y /\ x + (k - x) = k)
    <3>1. qs[j - x].card = qs[k - x].card /\ qs[j - x].pid = qs[k - x].pid
      BY <1>17, <1>20, <2>2
    <3>2. j - x = k - x
      BY <1>5, <2>2, <3>1
    <3> QED
      BY <2>2, <3>2
  <2>3. CASE j \in 1..x /\ (k - x \in 1..y /\ x + (k - x) = k)
    BY <1>16, <1>17, <1>20, <2>3
  <2>4. CASE k \in 1..x /\ (j - x \in 1..y /\ x + (j - x) = j)
    BY <1>16, <1>17, <1>20, <2>4
  <2> QED
    BY <1>18, <2>1, <2>2, <2>3, <2>4
<1>21. ASSUME NEW d \in U \cap NvCards, NEW p \in Pid, KindsOf(p, d) # {}
       PROVE  \E k \in 1..(x + y) : r[k].pid = p /\ r[k].card = d
  <2>1. CASE d \in C
    <3>1. PICK k \in 1..x : ps[k].pid = p /\ ps[k].card = d
      BY <1>3, <1>21, <2>1
    <3> QED
      BY <1>16, <3>1
  <2>2. CASE d \in D
    <3>1. PICK k \in 1..y : qs[k].pid = p /\ qs[k].card = d
      BY <1>5, <1>21, <2>2
    <3> QED
      BY <1>17, <3>1
  <2> QED
    BY <2>1, <2>2
<1> HIDE DEF U
<1>22. Attributed(c, r, U)
  <2>1. 1..Len(c) = 1..(a + b) /\ 1..Len(r) = 1..(x + y)
    BY <1>8, <1>9
  <2>2. \A k \in 1..Len(c) : /\ c[k].index = k - 1 /\ c[k].card \in U
                             /\ c[k].clock = NoFigure => "pp_dpm_sclk" \notin files
    BY <1>13, <2>1
  <2>3. \A j, k \in 1..Len(c) : c[j].card = c[k].card => j = k
    BY <1>14, <2>1
  <2>4. \A d \in U : \E k \in 1..Len(c) : c[k].card = d
    BY <1>15, <2>1
  <2>5. \A k \in 1..Len(r) : /\ r[k].device_index + 1 \in 1..Len(c) /\ RowTells(r[k])
                             /\ c[r[k].device_index + 1].card = r[k].card
    BY <1>19, <2>1
  <2>6. \A j, k \in 1..Len(r) : r[j].pid = r[k].pid /\ r[j].card = r[k].card => j = k
    BY <1>20, <2>1
  <2>7. \A d \in U \cap NvCards, p \in Pid : KindsOf(p, d) # {} =>
          \E k \in 1..Len(r) : r[k].pid = p /\ r[k].card = d
    <3> SUFFICES ASSUME NEW d \in U \cap NvCards, NEW p \in Pid, KindsOf(p, d) # {}
                 PROVE  \E k \in 1..Len(r) : r[k].pid = p /\ r[k].card = d
      OBVIOUS
    <3>1. PICK k \in 1..(x + y) : r[k].pid = p /\ r[k].card = d
      BY <1>21
    <3> QED
      BY <2>1, <3>1
  <2> QED
    BY <1>8, <1>9, <2>2, <2>3, <2>4, <2>5, <2>6, <2>7 DEF Attributed
<1> QED
  BY <1>22 DEF c, r, U, me, mq, a

\* The inductive invariant of the GPU engines: AmdEngine.cards are entries of the
\* directory, each once, and the backends are in the order they are probed.
GpuInv ==
  /\ drm \in DrmDirs /\ readable \subseteq NvCards
  /\ backends \in {<<"undetected">>, <<>>, <<"Nvml">>, <<"AmdSysfs">>, <<"Nvml", "AmdSysfs">>}
  /\ Once(cards, Range(cards)) /\ Range(cards) \subseteq Range(drm)

\* The cards a backend answers for.
CardsOf(b) == IF b = "Nvml" THEN IF nvmlUp THEN readable ELSE {} ELSE Range(cards)

LEMMA CardsApart ==
  ASSUME GpuInv
  PROVE  Range(cards) \subseteq AllCards /\ Range(cards) \cap NvCards = {}
<1>1. Range(cards) \subseteq Range(drm) /\ drm \in DrmDirs
  BY DEF GpuInv
<1>2. \A e \in Range(drm) : e \notin Range(Nvidia)
  BY <1>1, GpuAssumption
<1> QED
  BY <1>1, <1>2 DEF AllCards, NvCards

LEMMA NvmlSnapshotFacts ==
  ASSUME GpuInv
  PROVE  LET r == NvmlSnapshot
         IN  \/ (r.failures # {} \/ ~r.snapshot.available) /\ CardsOf("Nvml") = {}
             \/ /\ r.failures = {} /\ r.snapshot.available
                /\ Attributed(r.snapshot.devices, r.snapshot.processes, CardsOf("Nvml"))
<1>1. CASE ~nvmlUp
  <2>1. NvmlSnapshot = Failed("query") /\ CardsOf("Nvml") = {}
    BY <1>1 DEF NvmlSnapshot, CardsOf
  <2>2. Failed("query").failures # {}
    BY DEF Failed
  <2> QED
    BY <2>1, <2>2
<1>2. CASE nvmlUp /\ NvmlCards = <<>>
  <2>1. NvmlSnapshot = Gave(Unavailable({"NoneReadable"}))
    BY <1>2 DEF NvmlSnapshot
  <2>2. \A w : ~Gave(Unavailable(w)).snapshot.available
    BY DEF Gave, Unavailable
  <2>3. readable = {}
    <3>1. \A x \in readable : \E k \in 1..Len(NvmlCards) : NvmlCards[k] = x
      BY NvmlCardsFacts, OnceFacts DEF GpuInv
    <3>2. 1..Len(NvmlCards) = {}
      BY <1>2
    <3> QED
      BY <3>1, <3>2
  <2> QED
    BY <1>2, <2>1, <2>2, <2>3 DEF CardsOf
<1>3. CASE nvmlUp /\ NvmlCards # <<>>
  <2>1. PICK ds, ps : ds = NvmlDevices(NvmlCards) /\ ps = NvmlProcesses(NvmlCards)
    OBVIOUS
  <2>2. NvmlSnapshot = Gave([available |-> TRUE, devices |-> ds, processes |-> ps, detail |-> {}])
    BY <1>3, <2>1 DEF NvmlSnapshot
  <2>3. /\ NvmlSnapshot.failures = {} /\ NvmlSnapshot.snapshot.available
        /\ NvmlSnapshot.snapshot.devices = ds /\ NvmlSnapshot.snapshot.processes = ps
    BY <2>2 DEF Gave
  <2>4. Attributed(ds, ps, readable)
    BY <2>1, NvmlAttributed DEF GpuInv
  <2>5. CardsOf("Nvml") = readable
    BY <1>3 DEF CardsOf
  <2> QED
    BY <2>3, <2>4, <2>5
<1> QED
  BY <1>1, <1>2, <1>3

LEMMA AmdSnapshotFacts ==
  ASSUME GpuInv
  PROVE  LET r == AmdSnapshot
         IN  \/ (r.failures # {} \/ ~r.snapshot.available) /\ CardsOf("AmdSysfs") = {}
             \/ /\ r.failures = {} /\ r.snapshot.available
                /\ Attributed(r.snapshot.devices, r.snapshot.processes, CardsOf("AmdSysfs"))
<1>1. CardsOf("AmdSysfs") = Range(cards)
  BY DEF CardsOf
<1>2. CASE cards = <<>>
  <2>1. AmdSnapshot = Gave(Unavailable({"NoCardReadable"}))
    BY <1>2 DEF AmdSnapshot
  <2>2. \A w : ~Gave(Unavailable(w)).snapshot.available
    BY DEF Gave, Unavailable
  <2>3. ~AmdSnapshot.snapshot.available
    BY <2>1, <2>2
  <2>4. Range(cards) = {}
    BY <1>2 DEF Range
  <2> QED
    BY <1>1, <2>3, <2>4
<1>3. CASE cards # <<>>
  <2>1. PICK ds : ds = AmdDevices
    OBVIOUS
  <2>2. AmdSnapshot = Gave([available |-> TRUE, devices |-> ds, processes |-> <<>>, detail |-> {}])
    BY <1>3, <2>1 DEF AmdSnapshot
  <2>3. /\ AmdSnapshot.failures = {} /\ AmdSnapshot.snapshot.available
        /\ AmdSnapshot.snapshot.devices = ds /\ AmdSnapshot.snapshot.processes = <<>>
    BY <2>2 DEF Gave
  <2>4. Attributed(ds, <<>>, Range(cards))
    BY <2>1, CardsApart, AmdAttributed DEF GpuInv
  <2> QED
    BY <1>1, <2>3, <2>4
<1> QED
  BY <1>2, <1>3

Apart(C, D) == C \cap D = {}

\* What the composite has gathered stands for the cards of C.
Gathered(m, C) == \E ds, ps, w : m = Merged(ds, ps, w) /\ Attributed(ds, ps, C)

LEMMA MergeFacts ==
  ASSUME GpuInv, NEW b \in {"Nvml", "AmdSysfs"}, NEW m, NEW C, Gathered(m, C),
         Apart(C, CardsOf(b)), NEW D, D = C \cup CardsOf(b)
  PROVE  Gathered(Merge(m, b), D)
<1>0. PICK ds, ps, w : m = Merged(ds, ps, w) /\ Attributed(ds, ps, C)
  BY DEF Gathered
<1>1. PICK r : r = SnapshotOf(b)
  OBVIOUS
<1>2. \/ (r.failures # {} \/ ~r.snapshot.available) /\ CardsOf(b) = {}
      \/ /\ r.failures = {} /\ r.snapshot.available
         /\ Attributed(r.snapshot.devices, r.snapshot.processes, CardsOf(b))
  BY <1>1, NvmlSnapshotFacts, AmdSnapshotFacts DEF SnapshotOf
<1> DEFINE s == r.snapshot
<1>3. m.devices = ds /\ m.processes = ps /\ m.failures = w
  BY <1>0 DEF Merged
<1>4. Merge(m, b) = IF r.failures # {} THEN Merged(ds, ps, w \cup r.failures)
                    ELSE IF ~s.available THEN Merged(ds, ps, w \cup s.detail)
                    ELSE Merged(ds \o MovedDevices(s.devices, Len(ds)), ps \o MovedRows(s.processes, Len(ds)), w)
  BY <1>1, <1>3 DEF Merge, MovedDevices, MovedRows
<1> HIDE DEF s
<1>5. CASE r.failures # {} \/ ~s.available
  <2>1. CardsOf(b) = {}
    BY <1>2, <1>5 DEF s
  <2>2. D = C
    BY <2>1
  <2>3. PICK v : Merge(m, b) = Merged(ds, ps, v)
    BY <1>4, <1>5
  <2> QED
    BY <1>0, <2>2, <2>3 DEF Gathered
<1>6. CASE r.failures = {} /\ s.available
  <2>1. Attributed(s.devices, s.processes, CardsOf(b))
    BY <1>2, <1>6 DEF s
  <2>2. PICK es, qs : es = ds \o MovedDevices(s.devices, Len(ds)) /\ qs = ps \o MovedRows(s.processes, Len(ds))
    OBVIOUS
  <2>3. Attributed(es, qs, D)
    <3>1. C \cap CardsOf(b) = {}
      BY DEF Apart
    <3> QED
      BY <1>0, <2>1, <2>2, <3>1, AttributedBoth
  <2>4. Merge(m, b) = Merged(es, qs, w)
    BY <1>4, <1>6, <2>2
  <2> QED
    BY <2>3, <2>4 DEF Gathered
<1> QED
  BY <1>5, <1>6

\* The orders in which the composite may ask its backends.
Orders == {<<>>, <<"Nvml">>, <<"AmdSysfs">>, <<"Nvml", "AmdSysfs">>, <<"AmdSysfs", "Nvml">>}

MergedUpto(f, asked) ==
  f = [n \in 0..Len(asked) |-> IF n = 0 THEN Merged(<<>>, <<>>, {}) ELSE Merge(f[n - 1], asked[n])]

LEMMA MergedUptoExists ==
  ASSUME NEW asked \in Orders
  PROVE  \E f : MergedUpto(f, asked)
<1> DEFINE u == Merged(<<>>, <<>>, {})
           f == [n \in 0..Len(asked) |-> IF n = 0 THEN u
                                          ELSE IF n = 1 THEN Merge(u, asked[1])
                                          ELSE Merge(Merge(u, asked[1]), asked[2])]
<1>1. Len(asked) \in {0, 1, 2}
  BY DEF Orders
<1>2. ASSUME NEW n \in 0..Len(asked) PROVE f[n] = IF n = 0 THEN u ELSE Merge(f[n - 1], asked[n])
  <2>1. n \in {0, 1, 2}
    <3>1. PICK l \in {0, 1, 2} : l = Len(asked)
      BY <1>1
    <3> QED
      BY <3>1
  <2>2. CASE n = 0
    BY <2>2
  <2>3. CASE n = 1
    <3>1. 0 \in 0..Len(asked) /\ n - 1 = 0
      BY <1>1, <2>3
    <3>2. f[n - 1] = u
      BY <3>1
    <3> QED
      BY <2>3, <3>2
  <2>4. CASE n = 2
    <3>1. 1 \in 0..Len(asked) /\ n - 1 = 1
      BY <1>1, <2>4
    <3>2. f[n - 1] = Merge(u, asked[1])
      BY <3>1
    <3> QED
      BY <2>4, <3>2
  <2> QED
    BY <2>1, <2>2, <2>3, <2>4
<1>3. f = [n \in 0..Len(asked) |-> f[n]]
  OBVIOUS
<1> HIDE DEF f
<1>4. MergedUpto(f, asked)
  BY <1>2, <1>3 DEF MergedUpto
<1> QED
  BY <1>4

LEMMA CompositeFacts ==
  ASSUME GpuInv, NEW asked \in Orders
  PROVE  \E ds, ps, w : /\ CompositeSnapshot(asked) = [available |-> ds # <<>>, devices |-> ds, processes |-> ps, detail |-> w]
                        /\ ds = <<>> => w # {}
                        /\ Attributed(ds, ps, Expected(asked))
<1>1. PICK f : f = CHOOSE g : MergedUpto(g, asked)
  OBVIOUS
<1>2. MergedUpto(f, asked)
  BY <1>1, MergedUptoExists
<1>3. /\ f[0] = Merged(<<>>, <<>>, {})
      /\ Len(asked) \in {0, 1, 2}
      /\ Len(asked) >= 1 => f[1] = Merge(f[0], asked[1])
      /\ Len(asked) = 2 => f[2] = Merge(f[1], asked[2])
  <2>1. Len(asked) \in {0, 1, 2}
    BY DEF Orders
  <2>2. f[0] = Merged(<<>>, <<>>, {})
    BY <1>2, <2>1 DEF MergedUpto
  <2>3. Len(asked) >= 1 => f[1] = Merge(f[0], asked[1])
    BY <1>2, <2>1 DEF MergedUpto
  <2>4. Len(asked) = 2 => f[2] = Merge(f[1], asked[2])
    BY <1>2, <2>1 DEF MergedUpto
  <2> QED
    BY <2>1, <2>2, <2>3, <2>4
<1>4. CardsOf("Nvml") \cap CardsOf("AmdSysfs") = {}
  BY CardsApart DEF CardsOf, GpuInv
<1>5. Gathered(f[Len(asked)], Expected(asked))
  <2>1. Gathered(f[0], {})
    BY <1>3, NothingAttributed DEF Gathered
  <2>2. ASSUME NEW b \in {"Nvml", "AmdSysfs"}, Len(asked) >= 1, asked[1] = b
        PROVE  Gathered(f[1], CardsOf(b))
    <3>1. Apart({}, CardsOf(b)) /\ CardsOf(b) = {} \cup CardsOf(b)
      BY DEF Apart
    <3>2. Gathered(Merge(f[0], b), CardsOf(b))
      BY <2>1, <3>1, MergeFacts
    <3> QED
      BY <1>3, <2>2, <3>2
  <2>3. CASE asked = <<>>
    <3>1. Len(asked) = 0 /\ Expected(asked) = {}
      BY <2>3 DEF Expected, Range
    <3> QED
      BY <2>1, <3>1
  <2>4. CASE asked = <<"Nvml">> \/ asked = <<"AmdSysfs">>
    <3>1. PICK b \in {"Nvml", "AmdSysfs"} : asked = <<b>>
      BY <2>4
    <3>2. Len(asked) = 1 /\ asked[1] = b /\ Range(asked) = {b}
      BY <3>1 DEF Range
    <3>3. Expected(asked) = CardsOf(b)
      BY <3>2 DEF Expected, CardsOf
    <3>4. Gathered(f[1], CardsOf(b))
      BY <2>2, <3>2
    <3> QED
      BY <3>2, <3>3, <3>4
  <2>5. CASE asked = <<"Nvml", "AmdSysfs">> \/ asked = <<"AmdSysfs", "Nvml">>
    <3>1. PICK a \in {"Nvml", "AmdSysfs"}, b \in {"Nvml", "AmdSysfs"} : a # b /\ asked = <<a, b>>
      BY <2>5
    <3>2. Len(asked) = 2 /\ asked[1] = a /\ asked[2] = b /\ Range(asked) = {"Nvml", "AmdSysfs"}
      <4>1. Len(asked) = 2 /\ asked[1] = a /\ asked[2] = b /\ DOMAIN asked = {1, 2}
        BY <3>1
      <4> QED
        BY <3>1, <4>1 DEF Range
    <3>3. Expected(asked) = CardsOf(a) \cup CardsOf(b)
      BY <3>1, <3>2 DEF Expected, CardsOf
    <3>4. Apart(CardsOf(a), CardsOf(b))
      BY <1>4, <3>1 DEF Apart
    <3>5. Gathered(f[1], CardsOf(a))
      BY <2>2, <3>2
    <3>6. Gathered(Merge(f[1], b), Expected(asked))
      BY <3>3, <3>4, <3>5, MergeFacts
    <3> QED
      BY <1>3, <3>2, <3>6
  <2> QED
    BY <2>3, <2>4, <2>5 DEF Orders
<1>6. PICK ds, ps, w : f[Len(asked)] = Merged(ds, ps, w) /\ Attributed(ds, ps, Expected(asked))
  BY <1>5 DEF Gathered
<1>7. Merged(ds, ps, w).devices = ds /\ Merged(ds, ps, w).processes = ps /\ Merged(ds, ps, w).failures = w
  BY DEF Merged
<1>8. CompositeSnapshot(asked) =
        [available |-> ds # <<>>, devices |-> ds, processes |-> ps,
         detail |-> IF ds # <<>> THEN {} ELSE IF w = {} THEN {"NoGpuDetected"} ELSE w]
  <2>1. CompositeSnapshot(asked) =
          [available |-> f[Len(asked)].devices # <<>>, devices |-> f[Len(asked)].devices,
           processes |-> f[Len(asked)].processes,
           detail |-> IF f[Len(asked)].devices # <<>> THEN {}
                      ELSE IF f[Len(asked)].failures = {} THEN {"NoGpuDetected"} ELSE f[Len(asked)].failures]
    BY <1>1 DEF CompositeSnapshot, Composite, MergedUpto
  <2> QED
    BY <1>6, <1>7, <2>1
<1>9. PICK v : v = IF ds # <<>> THEN {} ELSE IF w = {} THEN {"NoGpuDetected"} ELSE w
  OBVIOUS
<1>10. ds = <<>> => v # {}
  BY <1>9
<1> QED
  BY <1>6, <1>8, <1>9, <1>10

\* The rows with the host's names.
Named(ps) == [k \in DOMAIN ps |-> IF ps[k].name = "" /\ ps[k].pid \in named
                                  THEN [ps[k] EXCEPT !.name = "known"] ELSE ps[k]]

LEMMA NamedFacts ==
  ASSUME NEW ps \in Seq(ProcessSet), \A k \in 1..Len(ps) : RowTells(ps[k])
  PROVE  LET rows == Named(ps)
         IN  /\ DOMAIN rows = 1..Len(ps)
             /\ \A k \in 1..Len(ps) :
                  /\ rows[k].pid = ps[k].pid /\ rows[k].card = ps[k].card
                  /\ rows[k].device_index = ps[k].device_index
                  /\ rows[k].kind = ps[k].kind /\ rows[k].mem = ps[k].mem
                  /\ (rows[k].name = "") <=> (rows[k].pid \notin named)
<1> DEFINE rows == Named(ps)
<1>1. DOMAIN ps = 1..Len(ps) /\ \A k \in 1..Len(ps) : ps[k] \in ProcessSet
  OBVIOUS
<1>2. rows = [k \in 1..Len(ps) |-> IF ps[k].name = "" /\ ps[k].pid \in named
                                   THEN [ps[k] EXCEPT !.name = "known"] ELSE ps[k]]
  BY <1>1 DEF Named
<1> HIDE DEF rows
<1>3. ASSUME NEW k \in 1..Len(ps)
      PROVE  /\ rows[k].pid = ps[k].pid /\ rows[k].card = ps[k].card
             /\ rows[k].device_index = ps[k].device_index
             /\ rows[k].kind = ps[k].kind /\ rows[k].mem = ps[k].mem
             /\ (rows[k].name = "") <=> (rows[k].pid \notin named)
  <2>1. PICK q : q = ps[k]
    OBVIOUS
  <2>2. q.name = ""
    BY <2>1 DEF RowTells
  <2>3. PICK N, K, M : ProcessSet = [pid : Pid, device_index : Nat, name : N, card : AllCards, kind : K, mem : M]
    BY DEF ProcessSet
  <2>4. q \in ProcessSet
    BY <1>1, <2>1
  <2>5. rows[k] = IF q.pid \in named THEN [q EXCEPT !.name = "known"] ELSE q
    BY <1>2, <2>1, <2>2
  <2>6. CASE q.pid \in named
    <3>1. rows[k] = [q EXCEPT !.name = "known"]
      BY <2>5, <2>6
    <3>2. rows[k].pid = q.pid /\ rows[k].card = q.card /\ rows[k].device_index = q.device_index
          /\ rows[k].kind = q.kind /\ rows[k].mem = q.mem /\ rows[k].name = "known"
      BY <2>3, <2>4, <3>1
    <3> QED
      BY <2>1, <2>6, <3>2
  <2>7. CASE q.pid \notin named
    BY <2>1, <2>2, <2>5, <2>7
  <2> QED
    BY <2>6, <2>7
<1> QED
  BY <1>2, <1>3 DEF rows

\* A list that names every element of C, each at one place, is as long as C is large.
LEMMA AsLong ==
  ASSUME NEW n \in Nat, NEW C, NEW f \in [1..n -> C],
         \A j, k \in 1..n : f[j] = f[k] => j = k, \A c \in C : \E k \in 1..n : f[k] = c
  PROVE  n = Cardinality(C)
<1>1. f \in Bijection(1..n, C)
  BY DEF Bijection, Injection, Surjection, IsInjective
<1>2. IsFiniteSet(1..n) /\ Cardinality(1..n) = n
  BY FS_Interval
<1> QED
  BY <1>1, <1>2, FS_Bijection DEF ExistsBijection

\* RowsAttributed of one order.
LEMMA OrderAttributed ==
  ASSUME GpuInv, NEW asked \in Orders
  PROVE  SnapshotTrue(ResolveNames(CompositeSnapshot(asked)), asked)
<1>1. PICK ds, ps, w :
        /\ CompositeSnapshot(asked) = [available |-> ds # <<>>, devices |-> ds, processes |-> ps, detail |-> w]
        /\ ds = <<>> => w # {}
        /\ Attributed(ds, ps, Expected(asked))
  BY CompositeFacts
<1> DEFINE s == ResolveNames(CompositeSnapshot(asked))
           rows == s.processes
           mine(p, c) == {k \in DOMAIN rows : rows[k].pid = p /\ rows[k].card = c}
           C == Expected(asked)
           n == Len(ds)
           m == Len(ps)
<1>2. s.devices = ds /\ s.available = (ds # <<>>) /\ s.detail = w /\ rows = Named(ps)
  <2>1. PICK av : av = (ds # <<>>)
    OBVIOUS
  <2>2. PICK t : t = CompositeSnapshot(asked)
    OBVIOUS
  <2>3. t = [available |-> av, devices |-> ds, processes |-> ps, detail |-> w]
    BY <1>1, <2>1, <2>2
  <2>4. t.processes = ps
    BY <2>3
  <2>5. s = [t EXCEPT !.processes = Named(ps)]
    BY <2>2, <2>4 DEF ResolveNames, Named
  <2> HIDE DEF s
  <2>6. s.devices = ds /\ s.available = av /\ s.detail = w /\ rows = Named(ps)
    BY <2>3, <2>5
  <2> QED
    BY <2>1, <2>6
<1> HIDE DEF s, rows, C, n, m
<1>3. /\ ds \in Seq(DeviceSet) /\ ps \in Seq(ProcessSet)
      /\ \A k \in 1..n : /\ ds[k].index = k - 1 /\ ds[k].card \in C
                         /\ ds[k].clock = NoFigure => "pp_dpm_sclk" \notin files
      /\ \A j, k \in 1..n : ds[j].card = ds[k].card => j = k
      /\ \A c \in C : \E k \in 1..n : ds[k].card = c
  BY <1>1 DEF Attributed, C, n
<1>4. /\ \A k \in 1..m : /\ ps[k].device_index + 1 \in 1..n /\ RowTells(ps[k])
                         /\ ds[ps[k].device_index + 1].card = ps[k].card
      /\ \A j, k \in 1..m : ps[j].pid = ps[k].pid /\ ps[j].card = ps[k].card => j = k
      /\ \A c \in C \cap NvCards, p \in Pid : KindsOf(p, c) # {} =>
           \E k \in 1..m : ps[k].pid = p /\ ps[k].card = c
  BY <1>1 DEF Attributed, C, n, m
<1>5. n \in Nat /\ DOMAIN ds = 1..n /\ m \in Nat
  BY <1>3 DEF n, m
<1>6. /\ DOMAIN rows = 1..m
      /\ \A k \in 1..m : /\ rows[k].pid = ps[k].pid /\ rows[k].card = ps[k].card
                         /\ rows[k].device_index = ps[k].device_index
                         /\ rows[k].kind = ps[k].kind /\ rows[k].mem = ps[k].mem
                         /\ (rows[k].name = "") <=> (rows[k].pid \notin named)
  <2>1. \A k \in 1..Len(ps) : RowTells(ps[k])
    BY <1>4 DEF m
  <2> DEFINE got == Named(ps)
  <2>2. /\ DOMAIN got = 1..Len(ps)
        /\ \A k \in 1..Len(ps) : /\ got[k].pid = ps[k].pid /\ got[k].card = ps[k].card
                                 /\ got[k].device_index = ps[k].device_index
                                 /\ got[k].kind = ps[k].kind /\ got[k].mem = ps[k].mem
                                 /\ (got[k].name = "") <=> (got[k].pid \notin named)
    BY <1>3, <2>1, NamedFacts
  <2>3. rows = got
    BY <1>2
  <2> HIDE DEF got
  <2> QED
    BY <2>2, <2>3 DEF m
<1>7. {s.devices[k].card : k \in DOMAIN s.devices} = C
  BY <1>2, <1>3, <1>5
<1>8. Len(s.devices) = Cardinality(C)
  <2> DEFINE g == [k \in 1..n |-> ds[k].card]
  <2>1. /\ g \in [1..n -> C]
        /\ \A j, k \in 1..n : g[j] = g[k] => j = k
        /\ \A c \in C : \E k \in 1..n : g[k] = c
    BY <1>3
  <2> HIDE DEF g
  <2>2. n = Cardinality(C)
    BY <1>5, <2>1, AsLong
  <2> QED
    BY <1>2, <2>2 DEF n
<1>9. \A k \in DOMAIN s.devices : /\ s.devices[k].index = k - 1
                                  /\ s.devices[k].clock = NoFigure => "pp_dpm_sclk" \notin files
  BY <1>2, <1>3, <1>5
<1>10. \A k \in DOMAIN rows : /\ rows[k].device_index + 1 \in DOMAIN s.devices
                              /\ s.devices[rows[k].device_index + 1].card = rows[k].card
                              /\ (rows[k].name = "") <=> (rows[k].pid \notin named)
  <2> SUFFICES ASSUME NEW k \in 1..m
               PROVE  /\ rows[k].device_index + 1 \in 1..n
                      /\ ds[rows[k].device_index + 1].card = rows[k].card
                      /\ (rows[k].name = "") <=> (rows[k].pid \notin named)
    BY <1>2, <1>5, <1>6
  <2>1. ps[k].device_index + 1 \in 1..n /\ ds[ps[k].device_index + 1].card = ps[k].card
    BY <1>4
  <2>2. rows[k].device_index = ps[k].device_index /\ rows[k].card = ps[k].card
    BY <1>6
  <2> QED
    BY <1>6, <2>1, <2>2
<1>11. ASSUME NEW p \in Pid, NEW c \in NvCards \cap C
       PROVE  /\ Cardinality(mine(p, c)) = IF KindsOf(p, c) = {} THEN 0 ELSE 1
              /\ \A k \in mine(p, c) :
                   /\ (rows[k].kind = "Both") <=> (KindsOf(p, c) = ContextKinds)
                   /\ (rows[k].mem = NoFigure) <=> (KindsOf(p, c) \cap figures = {})
  <2>1. mine(p, c) = {k \in 1..m : ps[k].pid = p /\ ps[k].card = c}
    BY <1>6
  <2> HIDE DEF mine
  <2>2. ASSUME NEW k \in mine(p, c)
        PROVE  /\ KindsOf(p, c) # {}
               /\ (rows[k].kind = "Both") <=> (KindsOf(p, c) = ContextKinds)
               /\ (rows[k].mem = NoFigure) <=> (KindsOf(p, c) \cap figures = {})
    <3>1. k \in 1..m /\ ps[k].pid = p /\ ps[k].card = c
      BY <2>1
    <3>2. RowTells(ps[k]) /\ rows[k].kind = ps[k].kind /\ rows[k].mem = ps[k].mem
      BY <1>4, <1>6, <3>1
    <3> QED
      BY <3>1, <3>2 DEF RowTells
  <2>3. CASE KindsOf(p, c) = {}
    <3>1. mine(p, c) = {}
      BY <2>2, <2>3
    <3>2. Cardinality(mine(p, c)) = 0
      BY <3>1, FS_EmptySet
    <3> QED
      BY <2>2, <2>3, <3>2
  <2>4. CASE KindsOf(p, c) # {}
    <3>1. PICK k \in 1..m : ps[k].pid = p /\ ps[k].card = c
      BY <1>4, <2>4
    <3>2. \A j \in 1..m : ps[j].pid = p /\ ps[j].card = c => j = k
      BY <1>4, <3>1
    <3>3. mine(p, c) = {k}
      BY <2>1, <3>1, <3>2
    <3>4. Cardinality(mine(p, c)) = 1
      BY <3>3, FS_Singleton
    <3> QED
      BY <2>2, <2>4, <3>4
  <2> QED
    BY <2>3, <2>4
<1>12. (s.available <=> (s.devices # <<>>)) /\ (~s.available => s.detail # {})
  BY <1>1, <1>2
<1> HIDE DEF mine
<1> QED
  BY <1>7, <1>8, <1>9, <1>10, <1>11, <1>12 DEF SnapshotTrue, s, rows, C, mine

LEMMA AttributedInv ==
  ASSUME GpuInv
  PROVE  RowsAttributed
<1>1. ASSUME backends # <<"undetected">>, NEW asked \in {backends, Reverse(backends)}
      PROVE  asked \in Orders
  <2>1. backends \in {<<>>, <<"Nvml">>, <<"AmdSysfs">>, <<"Nvml", "AmdSysfs">>}
    BY <1>1 DEF GpuInv
  <2>2. CASE asked = backends
    BY <2>1, <2>2 DEF Orders
  <2>3. CASE asked = Reverse(backends)
    <3>1. CASE backends = <<>>
      BY <2>3, <3>1 DEF Reverse, Orders
    <3>2. ASSUME NEW b, backends = <<b>> PROVE asked = <<b>>
      BY <2>3, <3>2 DEF Reverse
    <3>3. CASE backends = <<"Nvml", "AmdSysfs">>
      <4>1. asked = <<"AmdSysfs", "Nvml">>
        BY <2>3, <3>3 DEF Reverse
      <4> QED
        BY <4>1 DEF Orders
    <3> QED
      BY <2>1, <3>1, <3>2, <3>3 DEF Orders
  <2> QED
    BY <1>1, <2>2, <2>3
<1> QED
  BY <1>1, OrderAttributed DEF RowsAttributed

LEMMA DiscoverFacts ==
  ASSUME drm \in DrmDirs
  PROVE  Once(DiscoverCards, Range(DiscoverCards)) /\ Range(DiscoverCards) \subseteq Range(drm)
<1> DEFINE key == [i \in {i \in DOMAIN drm : drm[i].whole /\ drm[i].vendor = "amd"} |-> drm[i].number]
           S == {drm[i] : i \in DOMAIN key}
           l == DiscoverCards
<1>1. drm \in Seq(Range(drm)) /\ IsInjective(drm) /\ \A e \in Range(drm) : e.number \in Nat
  BY GpuAssumption
<1>2. DOMAIN key \subseteq DOMAIN drm /\ \A i \in DOMAIN key : key[i] \in Int
  BY <1>1 DEF Range
<1>3. S \subseteq Range(drm)
  BY DEF Range
<1>4. l = [k \in DOMAIN Ranked(key) |-> drm[Ranked(key)[k]]]
  BY DEF DiscoverCards
<1> HIDE DEF key, l
<1>5. Once(l, S)
  BY <1>1, <1>2, <1>4, PickedOnce
<1> HIDE DEF S
<1>6. Range(l) = S
  BY <1>5, OnceFacts DEF Range
<1> QED
  BY <1>3, <1>5, <1>6 DEF l

LEMMA NoCards == Once(<<>>, Range(<<>>)) /\ Range(<<>>) = {}
<1>1. Range(<<>>) = {}
  BY DEF Range
<1> QED
  BY <1>1 DEF Once

\* gpu_engine.rs, nvml_engine.rs and amd_engine.rs, for any cards, directories and
\* processes: a snapshot lists every readable card once at its index, whichever vendor
\* fails, and every process once on its own card.
THEOREM RowsAttributedForAll == GpuInit /\ [][GpuNext]_gpuVars => []RowsAttributed
<1>1. GpuInit => GpuInv
  BY NoCards DEF GpuInit, GpuInv
<1>2. GpuInv /\ [GpuNext]_gpuVars => GpuInv'
  <2> SUFFICES ASSUME GpuInv, [GpuNext]_gpuVars PROVE GpuInv'
    OBVIOUS
  <2> USE DEF GpuInv
  <2>1. CASE DetectGpuEngines
    <3>1. UNCHANGED <<drm, readable>> /\ cards' = IF AmdConnects THEN DiscoverCards ELSE <<>>
      BY <2>1 DEF DetectGpuEngines, machine
    <3>2. backends' \in {<<>>, <<"Nvml">>, <<"AmdSysfs">>, <<"Nvml", "AmdSysfs">>}
      <4>1. backends' = (IF NvmlConnects THEN <<"Nvml">> ELSE <<>>) \o (IF AmdConnects THEN <<"AmdSysfs">> ELSE <<>>)
        BY <2>1 DEF DetectGpuEngines
      <4>2. CASE NvmlConnects /\ AmdConnects
        <5>1. backends' = <<"Nvml">> \o <<"AmdSysfs">>
          BY <4>1, <4>2
        <5>2. ASSUME NEW a, NEW b PROVE <<a>> \o <<b>> = <<a, b>>
          <6> DEFINE c == <<a>> \o <<b>>
          <6>1. c \in Seq({a, b}) /\ Len(c) = 2 /\ c[1] = a /\ c[2] = b
            OBVIOUS
          <6> HIDE DEF c
          <6>2. c = <<a, b>>
            BY <6>1
          <6> QED
            BY <6>2 DEF c
        <5> QED
          BY <5>1, <5>2
      <4>3. CASE NvmlConnects /\ ~AmdConnects
        <5>1. backends' = <<"Nvml">> \o <<>>
          BY <4>1, <4>3
        <5> QED
          BY <5>1
      <4>4. CASE ~NvmlConnects /\ AmdConnects
        <5>1. backends' = <<>> \o <<"AmdSysfs">>
          BY <4>1, <4>4
        <5> QED
          BY <5>1
      <4>5. CASE ~NvmlConnects /\ ~AmdConnects
        <5>1. backends' = <<>> \o <<>>
          BY <4>1, <4>5
        <5>2. <<>> \o <<>> = <<>>
          OBVIOUS
        <5> QED
          BY <5>1, <5>2
      <4> QED
        BY <4>2, <4>3, <4>4, <4>5
    <3>3. Once(cards', Range(cards')) /\ Range(cards') \subseteq Range(drm)
      BY <3>1, DiscoverFacts, NoCards
    <3> QED
      BY <3>1, <3>2, <3>3
  <2>2. CASE DriverToggles
    BY <2>2 DEF DriverToggles, machine
  <2>3. ASSUME NEW c \in NvCards, CardToggles(c) PROVE GpuInv'
    BY <2>3 DEF CardToggles, machine, Toggle
  <2>4. ASSUME NEW x, ContextToggles(x) PROVE GpuInv'
    BY <2>4 DEF ContextToggles, machine
  <2>5. ASSUME NEW p \in Pid, HostTableToggles(p) PROVE GpuInv'
    BY <2>5 DEF HostTableToggles, machine
  <2>6. CASE UNCHANGED gpuVars
    BY <2>6 DEF gpuVars
  <2> QED
    BY <2>1, <2>2, <2>3, <2>4, <2>5, <2>6 DEF GpuNext
<1>3. GpuInv => RowsAttributed
  BY AttributedInv
<1> QED
  BY <1>1, <1>2, <1>3, PTL
=============================================================================
