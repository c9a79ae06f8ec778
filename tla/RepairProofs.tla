---------------------------- MODULE RepairProofs ----------------------------
(***************************************************************************)
(* Theorems about Repair, for all users, handlers, amounts, units and      *)
(* bounds: what ChangeTransactionsAmountType makes of a ledger of any      *)
(* length that overlapping and dying postings have left.                   *)
(*                                                                         *)
(* The migration folds over the rows, so the facts about it are proved by  *)
(* induction on their number.  The induction is stated for a set of        *)
(* numbers: its witness is the least number outside the set.               *)
(***************************************************************************)
EXTENDS Repair, LedgerProofs, WellFoundedInduction

-----------------------------------------------------------------------------
(* Numbers.                                                                 *)

\* A set of numbers that has 0 and every successor of its members has them all.
LEMMA SetInduction ==
  ASSUME NEW S, 0 \in S, \A n \in Nat : n \in S => n+1 \in S
  PROVE  \A n \in Nat : n \in S
<1> DEFINE Missing == Nat \ S
           R == OpToRel(<, Nat)
<1> SUFFICES ASSUME Missing # {} PROVE FALSE
  OBVIOUS
<1>1. IsWellFoundedOn(R, Nat)
  BY NatLessThanWellFounded
<1>2. Missing \subseteq Nat
  OBVIOUS
<1> HIDE DEF Missing, R
<1>3. PICK n \in Missing : \A m \in Missing : ~(<<m, n>> \in R)
  BY <1>1, <1>2, WFMin
<1> USE DEF Missing
<1>4. n # 0 /\ n-1 \in Nat
  BY <1>3
<1>5. <<n-1, n>> \in R
  BY <1>3, <1>4 DEF R, OpToRel
<1>6. n-1 \in S
  BY <1>3, <1>4, <1>5
<1> QED BY <1>3, <1>4, <1>6

\* The same for the positions of a table.
LEMMA BoundedInduction ==
  ASSUME NEW S, NEW n \in Nat, 0 \in S,
         \A i \in 1..n : i-1 \in S => i \in S
  PROVE  \A i \in 0..n : i \in S
<1> DEFINE T == {m \in Nat : m \in 0..n => m \in S}
<1>1. 0 \in T
  OBVIOUS
<1>2. ASSUME NEW m \in Nat, m \in T PROVE m+1 \in T
  <2>1. CASE m+1 \in 0..n
    <3>1. m+1 \in 1..n /\ m \in S /\ (m+1)-1 = m
      BY <1>2, <2>1
    <3> QED BY <3>1
  <2>2. CASE m+1 \notin 0..n
    BY <2>2
  <2> QED BY <2>1, <2>2
<1> HIDE DEF T
<1>3. \A m \in Nat : m \in T
  BY <1>1, <1>2, SetInduction
<1> QED BY <1>3 DEF T

LEMMA Division ==
  ASSUME NEW a \in Int, NEW u \in Nat \ {0}
  PROVE  /\ a \div u \in Int
         /\ a % u \in 0..(u-1)
         /\ a = u * (a \div u) + (a % u)
  OBVIOUS

\* Rounding up adds less than a cent (NewAmount).
LEMMA RoundedUp ==
  ASSUME NEW a \in Int
  PROVE  /\ NewAmount(a) \in Int
         /\ a <= Units * NewAmount(a)
         /\ Units * NewAmount(a) <= a + (Units - 1)
<1>1. Units \in Nat \ {0} /\ -a \in Int
  BY RepairAssumption
<1> DEFINE q == (-a) \div Units
           m == (-a) % Units
<1>2. q \in Int /\ m \in 0..(Units-1) /\ -a = Units * q + m
  BY <1>1, Division
<1>3. NewAmount(a) = -q
  BY DEF NewAmount
<1> HIDE DEF q, m
<1>4. Units * (-q) = -(Units * q) /\ Units * q \in Int
  BY <1>1, <1>2
<1> QED BY <1>1, <1>2, <1>3, <1>4

\* A whole number of cents.
Whole(a) == \E k \in Int : a = Units * k

\* Rounding to the nearest cent does not change a whole number of them (Cast).
LEMMA WholeCast ==
  ASSUME NEW a \in Int, Whole(a)
  PROVE  /\ (2 * a + Units) \div (2 * Units) \in Int
         /\ Units * ((2 * a + Units) \div (2 * Units)) = a
<1>0. Units \in Nat \ {0}
  BY RepairAssumption
<1>1. PICK k \in Int : a = Units * k
  BY DEF Whole
<1> DEFINE q == (2 * a + Units) \div (2 * Units)
           m == (2 * a + Units) % (2 * Units)
<1>2. q \in Int /\ m \in 0..(2 * Units - 1) /\ 2 * a + Units = (2 * Units) * q + m
  <2>1. 2 * a + Units \in Int /\ 2 * Units \in Nat \ {0}
    BY <1>0
  <2> QED BY <2>1, Division
<1> HIDE DEF q, m
<1>3. /\ (2 * Units) * q = 2 * (Units * q)
      /\ Units * q \in Int /\ Units * k \in Int
      /\ Units * (q - k) = Units * q - Units * k
  BY <1>0, <1>1, <1>2
<1>4. 2 * (Units * (q - k)) = Units - m
  BY <1>0, <1>1, <1>2, <1>3
<1>5. q = k
  <2>1. CASE q - k >= 1
    <3>1. Units * (q - k) >= Units
      BY <1>0, <1>1, <1>2, <2>1
    <3> QED BY <1>0, <1>2, <1>4, <3>1
  <2>2. CASE q - k <= -1
    <3>1. Units * (q - k) <= -Units
      BY <1>0, <1>1, <1>2, <2>2
    <3> QED BY <1>0, <1>2, <1>4, <3>1
  <2> QED BY <1>1, <1>2, <2>1, <2>2
<1> QED BY <1>1, <1>2, <1>5 DEF q

\* Cents never turn a balance around: what is not negative in cents is not so in
\* units, and the other way round.
LEMMA CentsSign ==
  ASSUME NEW c \in Int
  PROVE  Units * c \in Int /\ (Units * c >= 0 <=> c >= 0)
  BY RepairAssumption

LEMMA CentsAdd ==
  ASSUME NEW c \in Int, NEW d \in Int
  PROVE  Units * (c + d) = Units * c + Units * d
  BY RepairAssumption

\* Equal in units, equal in cents.
LEMMA CentsEqual ==
  ASSUME NEW c \in Int, NEW d \in Int, Units * c = Units * d
  PROVE  c = d
<1>1. Units * (c - d) = 0 /\ Units \in Nat \ {0}
  BY RepairAssumption
<1> QED BY <1>1

-----------------------------------------------------------------------------
(* The fold over the rows.                                                  *)

\* What nextTransactions makes of row r when it follows the new row p.
After(r, p) ==
  [r EXCEPT !.amount = NewAmount(@), !.balanceBefore = p.amount + p.balanceBefore]

First(r) == [r EXCEPT !.amount = NewAmount(@), !.balanceBefore = 0]

\* The loop computes what its body says: by induction, a prefix of the rows has
\* new rows, and the next one is made of the last of them.
LEMMA RecomputedRows ==
  ASSUME NEW rows, Len(rows) \in Nat
  PROVE  LET new == Recomputed(rows) IN
         new = [i \in 1..Len(rows) |->
                  [rows[i] EXCEPT
                     !.amount = NewAmount(@),
                     !.balanceBefore = IF i = 1 THEN 0
                                       ELSE new[i-1].amount + new[i-1].balanceBefore]]
<1> DEFINE Row1(f, i) ==
             [rows[i] EXCEPT
                !.amount = NewAmount(@),
                !.balanceBefore = IF i = 1 THEN 0
                                  ELSE f[i-1].amount + f[i-1].balanceBefore]
           S == {m \in Nat : \E f : f = [i \in 1..m |-> Row1(f, i)]}
<1>1. 0 \in S
  <2> DEFINE f == [i \in 1..0 |-> 0]
  <2>1. f = [i \in 1..0 |-> Row1(f, i)]
    OBVIOUS
  <2> HIDE DEF Row1
  <2> QED BY <2>1
<1>2. ASSUME NEW m \in Nat, m \in S PROVE m+1 \in S
  <2>1. PICK f : f = [i \in 1..m |-> Row1(f, i)]
    BY <1>2
  <2> DEFINE g == [i \in 1..(m+1) |-> Row1(f, i)]
  <2>2. ASSUME NEW i \in 1..(m+1) PROVE g[i] = Row1(g, i)
    <3>1. CASE i = 1
      BY <3>1
    <3>2. CASE i # 1
      <4>1. i-1 \in 1..m /\ i-1 \in 1..(m+1)
        BY <3>2
      <4>2. g[i-1] = f[i-1]
        <5> HIDE DEF Row1
        <5> QED BY <2>1, <4>1
      <4> QED BY <4>2
    <3> QED BY <3>1, <3>2
  <2>3. g = [i \in 1..(m+1) |-> Row1(g, i)]
    <3> HIDE DEF Row1
    <3>1. \A i \in 1..(m+1) : Row1(f, i) = Row1(g, i)
      BY <2>2
    <3> QED BY <3>1
  <2> HIDE DEF Row1, g
  <2> QED BY <2>3
<1> HIDE DEF S
<1>3. Len(rows) \in S
  BY <1>1, <1>2, SetInduction
<1>4. \E f : f = [i \in 1..Len(rows) |-> Row1(f, i)]
  BY <1>3 DEF S
<1> QED BY <1>4 DEF Recomputed

\* So the new rows are a ledger as long as the old one, with every amount
\* rounded up and every balance carried on.
LEMMA RecomputedLedger ==
  ASSUME NEW rows \in Seq(Row)
  PROVE  LET new == Recomputed(rows) IN
         /\ new \in Seq(Row)
         /\ Len(new) = Len(rows)
         /\ \A i \in 1..Len(rows) : new[i].amount = NewAmount(rows[i].amount)
         /\ IsChain(new)
<1> DEFINE new == Recomputed(rows)
           n == Len(rows)
<1>0. n \in Nat /\ \A i \in 1..n : rows[i] \in Row
  OBVIOUS
<1>1. new = [i \in 1..n |->
               [rows[i] EXCEPT
                  !.amount = NewAmount(@),
                  !.balanceBefore = IF i = 1 THEN 0
                                    ELSE new[i-1].amount + new[i-1].balanceBefore]]
  BY <1>0, RecomputedRows
<1> HIDE DEF new
<1>2. ASSUME NEW i \in 1..n
      PROVE  /\ new[i].amount = NewAmount(rows[i].amount)
             /\ new[i].balanceBefore = IF i = 1 THEN 0
                                       ELSE new[i-1].amount + new[i-1].balanceBefore
             /\ new[i].balanceBefore \in Int => new[i] \in Row
  <2>1. rows[i] \in Row /\ NewAmount(rows[i].amount) \in Int
    BY <1>0, RoundedUp DEF Row
  <2> DEFINE b == IF i = 1 THEN 0 ELSE new[i-1].amount + new[i-1].balanceBefore
  <2>2. new[i] = [rows[i] EXCEPT !.amount = NewAmount(@), !.balanceBefore = b]
    BY <1>1
  <2> HIDE DEF b
  <2>3. new[i].amount = NewAmount(rows[i].amount) /\ new[i].balanceBefore = b
    BY <2>1, <2>2 DEF Row
  <2>4. b \in Int => new[i] \in Row
    BY <2>1, <2>2 DEF Row
  <2> QED BY <2>3, <2>4 DEF b
<1>3. \A i \in 1..n : new[i] \in Row
  <2> DEFINE S == {m \in Nat : m # 0 => new[m] \in Row}
  <2>1. ASSUME NEW i \in 1..n, i-1 \in S PROVE i \in S
    <3>1. CASE i = 1
      BY <1>2, <3>1
    <3>2. CASE i # 1
      <4>1. new[i-1] \in Row
        BY <2>1, <3>2
      <4>2. new[i].balanceBefore \in Int
        BY <1>2, <3>2, <4>1 DEF Row
      <4> QED BY <1>2, <4>2
    <3> QED BY <3>1, <3>2
  <2>2. 0 \in S
    OBVIOUS
  <2> HIDE DEF S
  <2>3. \A i \in 0..n : i \in S
    BY <1>0, <2>1, <2>2, BoundedInduction
  <2> QED BY <2>3 DEF S
<1>4. new \in Seq(Row) /\ Len(new) = n
  <2>1. DOMAIN new = 1..n /\ new = [i \in 1..n |-> new[i]]
    BY <1>1
  <2>2. new \in [1..n -> Row]
    BY <1>3, <2>1
  <2> QED BY <1>0, <2>2
<1>5. IsChain(new)
  <2> SUFFICES ASSUME NEW i \in 1..n
               PROVE  new[i].balanceBefore = BalanceAt(new, i-1)
    BY <1>4 DEF IsChain
  <2>1. CASE i = 1
    BY <1>2, <2>1 DEF BalanceAt
  <2>2. CASE i # 1
    <3>1. i-1 \in 1..n /\ i-1 # 0
      BY <1>0, <2>2
    <3>2. new[i-1] \in Row
      BY <1>3, <3>1
    <3> QED BY SMTT(30), <1>2, <2>2, <3>1, <3>2 DEF BalanceAt, Row
  <2> QED BY <2>1, <2>2
<1> QED BY <1>2, <1>4, <1>5 DEF new

\* calcBalance, row by row.
LEMMA SumsOfRows ==
  ASSUME NEW rows \in Seq(Row)
  PROVE  /\ Sums(rows)[0] = 0
         /\ \A i \in 1..Len(rows) :
              Sums(rows)[i] = Sums(rows)[i-1] + rows[i].amount
         /\ \A i \in 0..Len(rows) : Sums(rows)[i] \in Int
<1> DEFINE n == Len(rows)
           Next(f, i) == IF i = 0 THEN 0 ELSE f[i-1] + rows[i].amount
           S == {m \in Nat : \E f : f = [i \in 0..m |-> Next(f, i)]}
<1>0. n \in Nat /\ \A i \in 1..n : rows[i] \in Row
  OBVIOUS
<1>1. 0 \in S
  <2> DEFINE f == [i \in 0..0 |-> 0]
  <2>1. f = [i \in 0..0 |-> Next(f, i)]
    OBVIOUS
  <2> QED BY <2>1
<1>2. ASSUME NEW m \in Nat, m \in S PROVE m+1 \in S
  <2>1. PICK f : f = [i \in 0..m |-> Next(f, i)]
    BY <1>2
  <2> DEFINE g == [i \in 0..(m+1) |-> Next(f, i)]
  <2>2. ASSUME NEW i \in 0..(m+1) PROVE Next(f, i) = Next(g, i)
    <3>1. CASE i = 0
      BY <3>1
    <3>2. CASE i # 0
      <4>1. i-1 \in 0..m /\ i-1 \in 0..(m+1)
        BY <3>2
      <4>2. g[i-1] = f[i-1]
        <5> HIDE DEF Next
        <5> QED BY <2>1, <4>1
      <4> QED BY <3>2, <4>2
    <3> QED BY <3>1, <3>2
  <2>3. g = [i \in 0..(m+1) |-> Next(g, i)]
    <3> HIDE DEF Next
    <3> QED BY <2>2
  <2> HIDE DEF Next, g
  <2> QED BY <2>3
<1> HIDE DEF S
<1>3. n \in S
  BY <1>0, <1>1, <1>2, SetInduction
<1>4. \E f : f = [i \in 0..n |-> Next(f, i)]
  BY <1>3 DEF S
<1>5. Sums(rows) = [i \in 0..n |-> Next(Sums(rows), i)]
  BY <1>4 DEF Sums
<1>6. /\ Sums(rows)[0] = 0
      /\ \A i \in 1..n : Sums(rows)[i] = Sums(rows)[i-1] + rows[i].amount
  <2>1. \A i \in 0..n : Sums(rows)[i] = Next(Sums(rows), i)
    <3> HIDE DEF Next
    <3> QED BY <1>5
  <2>2. 0 \in 0..n /\ \A i \in 1..n : i \in 0..n /\ i # 0
    BY <1>0
  <2> QED BY <2>1, <2>2
<1>7. \A i \in 0..n : Sums(rows)[i] \in Int
  <2> DEFINE T == {m \in Nat : Sums(rows)[m] \in Int}
  <2>1. 0 \in T
    BY <1>6
  <2>2. ASSUME NEW i \in 1..n, i-1 \in T PROVE i \in T
    <3>1. rows[i].amount \in Int /\ Sums(rows)[i-1] \in Int
      BY <1>0, <2>2 DEF Row
    <3>2. Sums(rows)[i] = Sums(rows)[i-1] + rows[i].amount
      BY <1>6
    <3> HIDE DEF n
    <3>3. i \in Nat /\ Sums(rows)[i] \in Int
      BY <1>0, <3>1, <3>2
    <3> QED BY <3>3
  <2> HIDE DEF T
  <2>3. \A i \in 0..n : i \in T
    BY <1>0, <2>1, <2>2, BoundedInduction
  <2> QED BY <2>3 DEF T
<1> QED BY <1>6, <1>7

\* The rows of a chain show what they add up to.
LEMMA ChainSums ==
  ASSUME NEW rows \in Seq(Row), IsChain(rows)
  PROVE  \A i \in 0..Len(rows) : BalanceAt(rows, i) = Sums(rows)[i]
<1> DEFINE n == Len(rows)
           S == {m \in Nat : BalanceAt(rows, m) = Sums(rows)[m]}
<1>0. n \in Nat /\ \A i \in 1..n : rows[i] \in Row
  OBVIOUS
<1>1. 0 \in S
  BY SumsOfRows DEF BalanceAt
<1>2. ASSUME NEW i \in 1..n, i-1 \in S PROVE i \in S
  <2>1. rows[i].balanceBefore = Sums(rows)[i-1]
    BY <1>2 DEF IsChain
  <2>2. BalanceAt(rows, i) = rows[i].balanceBefore + rows[i].amount
    BY DEF BalanceAt
  <2> QED BY <2>1, <2>2, SumsOfRows
<1> HIDE DEF S
<1>3. \A i \in 0..n : i \in S
  BY <1>0, <1>1, <1>2, BoundedInduction
<1> QED BY <1>3 DEF S

\* Rounded up row by row, rows add up to no less and to less than a cent a row
\* more.
LEMMA RoundedSums ==
  ASSUME NEW old \in Seq(Row), NEW new \in Seq(Row), Len(new) = Len(old),
         \A i \in 1..Len(old) : new[i].amount = NewAmount(old[i].amount)
  PROVE  \A i \in 0..Len(old) :
           /\ Sums(old)[i] <= Units * Sums(new)[i]
           /\ Units * Sums(new)[i] <= Sums(old)[i] + (Units - 1) * i
<1> DEFINE n == Len(old)
           S == {m \in Nat : /\ Sums(old)[m] <= Units * Sums(new)[m]
                             /\ Units * Sums(new)[m] <= Sums(old)[m] + (Units - 1) * m}
<1>0. n \in Nat /\ Units \in Nat \ {0} /\ \A i \in 1..n : old[i] \in Row
  BY RepairAssumption
<1>1. 0 \in S
  <2>1. Sums(old)[0] = 0 /\ Sums(new)[0] = 0
    BY SumsOfRows
  <2>2. Units * 0 = 0 /\ (Units - 1) * 0 = 0
    BY <1>0
  <2> QED BY <2>1, <2>2
<1>2. ASSUME NEW i \in 1..n, i-1 \in S PROVE i \in S
  <2> DEFINE a == old[i].amount
             b == NewAmount(a)
             s == Sums(old)[i-1]
             t == Sums(new)[i-1]
  <2>1. a \in Int /\ b \in Int /\ a <= Units * b /\ Units * b <= a + (Units - 1)
    BY <1>0, RoundedUp DEF Row
  <2>2. s \in Int /\ t \in Int /\ Sums(old)[i] = s + a /\ Sums(new)[i] = t + b
    BY SMTT(30), <1>0, SumsOfRows
  <2>3. s <= Units * t /\ Units * t <= s + (Units - 1) * (i-1)
    BY <1>2
  <2> HIDE DEF a, b, s, t
  <2>4. Units * (t + b) = Units * t + Units * b
    BY <2>1, <2>2, CentsAdd
  <2>5. (Units - 1) * i = (Units - 1) * (i-1) + (Units - 1)
    BY <1>0
  <2>6. /\ Units * t \in Int /\ Units * b \in Int
        /\ (Units - 1) * i \in Int /\ (Units - 1) * (i-1) \in Int
    BY <1>0, <2>1, <2>2
  <2>7. s + a <= Units * (t + b) /\ Units * (t + b) <= (s + a) + (Units - 1) * i
    BY <1>0, <2>1, <2>2, <2>3, <2>4, <2>5, <2>6
  <2> QED BY <2>2, <2>7
<1> HIDE DEF S
<1>3. \A i \in 0..n : i \in S
  BY <1>0, <1>1, <1>2, BoundedInduction
<1> QED BY <1>3 DEF S

-----------------------------------------------------------------------------
(* One user's rows before and after the migration.                          *)

\* Every row starts from a balance that some earlier row left (SnapshotInv).
Snapshots(rows) ==
  \A i \in 1..Len(rows) :
    \E j \in 0..(i-1) : rows[i].balanceBefore = BalanceAt(rows, j)

\* Every row takes what some earlier row left (RepairFundedInv).
Funded(rows) ==
  \A i \in 1..Len(rows) :
    \E j \in 0..(i-1) : BalanceAt(rows, j) + rows[i].amount >= 0

LEMMA ChainSnapshots ==
  ASSUME NEW rows \in Seq(Row), IsChain(rows)
  PROVE  Snapshots(rows)
<1> SUFFICES ASSUME NEW i \in 1..Len(rows)
             PROVE  \E j \in 0..(i-1) : rows[i].balanceBefore = BalanceAt(rows, j)
  BY DEF Snapshots
<1> QED BY DEF IsChain

LEMMA WholeSum ==
  ASSUME NEW a \in Int, NEW b \in Int, Whole(a), Whole(b)
  PROVE  Whole(a + b)
<1>1. PICK k \in Int : a = Units * k
  BY DEF Whole
<1>2. PICK l \in Int : b = Units * l
  BY DEF Whole
<1>3. a + b = Units * (k + l) /\ k + l \in Int
  BY <1>1, <1>2, CentsAdd
<1> QED BY <1>3 DEF Whole

\* A user without fractional amounts has no fractional balance either: each is a
\* balance that earlier rows left, lost movements or not.
LEMMA WholeRows ==
  ASSUME NEW rows \in Seq(Row), ~Fractional(rows), Snapshots(rows)
  PROVE  \A i \in 1..Len(rows) : Whole(rows[i].amount) /\ Whole(rows[i].balanceBefore)
<1> DEFINE n == Len(rows)
           S == {m \in Nat : \A i \in 1..m : i \in 1..n => Whole(rows[i].balanceBefore)}
<1>0. n \in Nat /\ Units \in Nat \ {0} /\ \A i \in 1..n : rows[i] \in Row
  BY RepairAssumption
<1>1. ASSUME NEW i \in 1..n PROVE Whole(rows[i].amount)
  <2> DEFINE a == rows[i].amount
  <2>1. a \in Int /\ a % Units = 0
    BY <1>0 DEF Fractional, Row
  <2> HIDE DEF a
  <2>2. a \div Units \in Int /\ a = Units * (a \div Units)
    <3>1. a \div Units \in Int /\ a = Units * (a \div Units) + (a % Units)
      BY <1>0, <2>1, Division
    <3> QED BY <1>0, <2>1, <3>1
  <2>3. Whole(a)
    BY <2>2 DEF Whole
  <2> QED BY <2>3 DEF a
<1>2. 0 \in S
  OBVIOUS
<1>3. ASSUME NEW i \in 1..n, i-1 \in S PROVE i \in S
  <2>1. PICK j \in 0..(i-1) : rows[i].balanceBefore = BalanceAt(rows, j)
    BY DEF Snapshots
  <2>2. Whole(BalanceAt(rows, j))
    <3>1. CASE j = 0
      <4>1. 0 = Units * 0
        BY <1>0
      <4> QED BY <3>1, <4>1 DEF BalanceAt, Whole
    <3>2. CASE j # 0
      <4>1. j \in 1..n /\ j \in 1..(i-1)
        BY <1>0, <3>2
      <4>2. Whole(rows[j].balanceBefore) /\ Whole(rows[j].amount)
        BY <1>1, <1>3, <4>1
      <4>3. rows[j].balanceBefore \in Int /\ rows[j].amount \in Int
        BY <1>0, <4>1 DEF Row
      <4> QED BY <3>2, <4>2, <4>3, WholeSum DEF BalanceAt
    <3> QED BY <3>1, <3>2
  <2>3. Whole(rows[i].balanceBefore)
    BY <2>1, <2>2
  <2>4. ASSUME NEW k \in 1..i, k \in 1..n PROVE Whole(rows[k].balanceBefore)
    <3>1. CASE k = i
      BY <2>3, <3>1
    <3>2. CASE k # i
      <4>1. k \in 1..(i-1)
        BY <3>2
      <4> QED BY <1>3, <2>4, <4>1
    <3> QED BY <3>1, <3>2
  <2> QED BY <1>0, <2>4
<1> HIDE DEF S
<1>4. n \in S
  <2>1. \A i \in 0..n : i \in S
    BY <1>0, <1>2, <1>3, BoundedInduction
  <2> QED BY <1>0, <2>1
<1>5. \A i \in 1..n : Whole(rows[i].balanceBefore)
  BY <1>4 DEF S
<1> QED BY <1>1, <1>5

\* Making the columns integers changes no amount and no balance of such a user.
LEMMA CastLedger ==
  ASSUME NEW rows \in Seq(Row), ~Fractional(rows), Snapshots(rows)
  PROVE  LET new == Cast(rows) IN
         /\ new \in Seq(Row)
         /\ Len(new) = Len(rows)
         /\ \A i \in 1..Len(rows) :
              /\ Units * new[i].amount = rows[i].amount
              /\ Units * new[i].balanceBefore = rows[i].balanceBefore
         /\ \A i \in 0..Len(rows) : Units * BalanceAt(new, i) = BalanceAt(rows, i)
<1> DEFINE n == Len(rows)
           new == Cast(rows)
           Nearest(a) == (2 * a + Units) \div (2 * Units)
<1>0. n \in Nat /\ Units \in Nat \ {0} /\ \A i \in 1..n : rows[i] \in Row
  BY RepairAssumption
<1>1. ASSUME NEW i \in 1..n
      PROVE  /\ new[i] \in Row
             /\ Units * new[i].amount = rows[i].amount
             /\ Units * new[i].balanceBefore = rows[i].balanceBefore
  <2> DEFINE a == rows[i].amount
             b == rows[i].balanceBefore
  <2>1. rows[i] \in Row /\ a \in Int /\ b \in Int
    BY <1>0 DEF Row
  <2>2. Whole(a) /\ Whole(b)
    BY WholeRows
  <2>3. /\ Nearest(a) \in Int /\ Units * Nearest(a) = a
        /\ Nearest(b) \in Int /\ Units * Nearest(b) = b
    <3> HIDE DEF a, b
    <3> QED BY <2>1, <2>2, WholeCast
  <2>4. new[i] = [rows[i] EXCEPT !.amount = Nearest(@), !.balanceBefore = Nearest(@)]
    BY DEF Cast
  <2> HIDE DEF Nearest, new
  <2>5. /\ new[i].amount = Nearest(a) /\ new[i].balanceBefore = Nearest(b)
        /\ new[i] \in Row
    BY <2>1, <2>3, <2>4 DEF Row
  <2> QED BY <2>3, <2>5
<1>2. new \in Seq(Row) /\ Len(new) = n
  <2>1. DOMAIN new = 1..n /\ new = [i \in 1..n |-> new[i]]
    BY DEF Cast
  <2> HIDE DEF new
  <2>2. new \in [1..n -> Row]
    BY <1>1, <2>1
  <2> QED BY <1>0, <2>2
<1> HIDE DEF new
<1>3. ASSUME NEW i \in 0..n PROVE Units * BalanceAt(new, i) = BalanceAt(rows, i)
  <2>1. CASE i = 0
    BY <1>0, <2>1 DEF BalanceAt
  <2>2. CASE i # 0
    <3>1. i \in 1..n
      BY <1>0, <2>2
    <3>2. new[i].balanceBefore \in Int /\ new[i].amount \in Int
      BY <1>1, <3>1 DEF Row
    <3>3. Units * (new[i].balanceBefore + new[i].amount)
            = Units * new[i].balanceBefore + Units * new[i].amount
      BY <3>2, CentsAdd
    <3> QED BY <1>1, <2>2, <3>1, <3>3 DEF BalanceAt
  <2> QED BY <2>1, <2>2
<1> QED BY <1>1, <1>2, <1>3 DEF new

\* The repaired rows are well formed and start from balances the user had.
LEMMA RepairedRows ==
  ASSUME NEW rows \in Seq(Row), Snapshots(rows)
  PROVE  /\ Repaired(rows) \in Seq(Row)
         /\ Len(Repaired(rows)) = Len(rows)
         /\ Snapshots(Repaired(rows))
<1> DEFINE new == Repaired(rows)
<1>1. CASE Fractional(rows)
  <2>1. new = Recomputed(rows)
    BY <1>1 DEF Repaired
  <2>2. new \in Seq(Row) /\ Len(new) = Len(rows) /\ IsChain(new)
    BY <2>1, RecomputedLedger
  <2> QED BY <2>2, ChainSnapshots
<1>2. CASE ~Fractional(rows)
  <2>1. new = Cast(rows)
    BY <1>2 DEF Repaired
  <2>2. /\ new \in Seq(Row) /\ Len(new) = Len(rows)
        /\ \A i \in 1..Len(rows) : Units * new[i].balanceBefore = rows[i].balanceBefore
        /\ \A i \in 0..Len(rows) : Units * BalanceAt(new, i) = BalanceAt(rows, i)
    BY <1>2, <2>1, CastLedger
  <2> HIDE DEF new
  <2>3. ASSUME NEW i \in 1..Len(new)
        PROVE  \E j \in 0..(i-1) : new[i].balanceBefore = BalanceAt(new, j)
    <3>1. PICK j \in 0..(i-1) : rows[i].balanceBefore = BalanceAt(rows, j)
      BY <2>2 DEF Snapshots
    <3>2. j \in 0..Len(rows) /\ i \in 1..Len(rows) /\ j \in 0..Len(new)
      BY <2>2
    <3>3. Units * new[i].balanceBefore = Units * BalanceAt(new, j)
      BY <2>2, <3>1, <3>2
    <3>4. new[i].balanceBefore \in Int
      <4>1. new[i] \in Row
        BY <2>2, <3>2
      <4> QED BY <4>1 DEF Row
    <3>5. BalanceAt(new, j) \in Int
      BY <2>2, <3>2, BalanceAtType
    <3>6. new[i].balanceBefore = BalanceAt(new, j)
      BY <3>3, <3>4, <3>5, CentsEqual
    <3> QED BY <3>6
  <2>4. Snapshots(new)
    BY <2>3 DEF Snapshots
  <2> QED BY <2>2, <2>4 DEF new
<1> QED BY <1>1, <1>2

\* The repair leaves a chain where there was one, and where it recomputes.
LEMMA RepairedChain ==
  ASSUME NEW rows \in Seq(Row), Snapshots(rows), IsChain(rows) \/ Fractional(rows)
  PROVE  IsChain(Repaired(rows))
<1>1. CASE Fractional(rows)
  BY <1>1, RecomputedLedger DEF Repaired
<1>2. CASE ~Fractional(rows)
  <2> DEFINE new == Cast(rows)
  <2>1. /\ new \in Seq(Row) /\ Len(new) = Len(rows)
        /\ \A i \in 1..Len(rows) : Units * new[i].balanceBefore = rows[i].balanceBefore
        /\ \A i \in 0..Len(rows) : Units * BalanceAt(new, i) = BalanceAt(rows, i)
    BY <1>2, CastLedger
  <2> HIDE DEF new
  <2>2. ASSUME NEW i \in 1..Len(new) PROVE new[i].balanceBefore = BalanceAt(new, i-1)
    <3>1. i-1 \in 0..Len(rows) /\ i \in 1..Len(rows) /\ i-1 \in 0..Len(new)
      BY <2>1
    <3>2. rows[i].balanceBefore = BalanceAt(rows, i-1)
      BY <1>2, <3>1 DEF IsChain
    <3>3. Units * new[i].balanceBefore = Units * BalanceAt(new, i-1)
      BY <2>1, <3>1, <3>2
    <3>4. new[i].balanceBefore \in Int
      <4>1. new[i] \in Row
        BY <2>1, <3>1
      <4> QED BY <4>1 DEF Row
    <3>5. BalanceAt(new, i-1) \in Int
      BY <2>1, <3>1, BalanceAtType
    <3> QED BY <3>3, <3>4, <3>5, CentsEqual
  <2>3. IsChain(new)
    BY <2>2 DEF IsChain
  <2> QED BY <1>2, <2>3 DEF new, Repaired
<1> QED BY <1>1, <1>2

\* After the repair of a chain every balance is, in units, no less than it was.
LEMMA RepairedBalances ==
  ASSUME NEW rows \in Seq(Row), IsChain(rows)
  PROVE  LET new == Repaired(rows) IN
         \A i \in 0..Len(rows) :
           /\ BalanceAt(rows, i) <= Units * BalanceAt(new, i)
           /\ i # 0 => rows[i].amount <= Units * new[i].amount
<1> DEFINE new == Repaired(rows)
<1>0. /\ Snapshots(rows) /\ Len(rows) \in Nat
      /\ \A i \in 1..Len(rows) : rows[i] \in Row
  BY ChainSnapshots
<1>1. CASE Fractional(rows)
  <2>1. new = Recomputed(rows)
    BY <1>1 DEF Repaired
  <2>2. /\ new \in Seq(Row) /\ Len(new) = Len(rows) /\ IsChain(new)
        /\ \A i \in 1..Len(rows) : new[i].amount = NewAmount(rows[i].amount)
    BY <2>1, RecomputedLedger
  <2> HIDE DEF new
  <2>3. \A i \in 0..Len(rows) : Sums(rows)[i] <= Units * Sums(new)[i]
    BY <2>2, RoundedSums
  <2>4. \A i \in 0..Len(rows) : /\ BalanceAt(rows, i) = Sums(rows)[i]
                                /\ BalanceAt(new, i) = Sums(new)[i]
    BY <2>2, ChainSums
  <2>5. ASSUME NEW i \in 0..Len(rows), i # 0
        PROVE  rows[i].amount <= Units * new[i].amount
    <3>1. i \in 1..Len(rows) /\ rows[i].amount \in Int
      BY <1>0, <2>5 DEF Row
    <3> QED BY <2>2, <3>1, RoundedUp
  <2> QED BY <2>3, <2>4, <2>5 DEF new
<1>2. CASE ~Fractional(rows)
  <2>1. new = Cast(rows)
    BY <1>2 DEF Repaired
  <2>2. /\ \A i \in 1..Len(rows) : Units * new[i].amount = rows[i].amount
        /\ \A i \in 0..Len(rows) : Units * BalanceAt(new, i) = BalanceAt(rows, i)
    BY <1>0, <1>2, <2>1, CastLedger
  <2>3. \A i \in 0..Len(rows) : BalanceAt(rows, i) \in Int
    BY BalanceAtType
  <2>4. \A i \in 1..Len(rows) : rows[i].amount \in Int
    BY <1>0 DEF Row
  <2> HIDE DEF new
  <2>5. ASSUME NEW i \in 0..Len(rows)
        PROVE  /\ BalanceAt(rows, i) <= Units * BalanceAt(new, i)
               /\ i # 0 => rows[i].amount <= Units * new[i].amount
    <3>1. BalanceAt(rows, i) <= BalanceAt(rows, i)
      BY <2>3
    <3>2. i # 0 => i \in 1..Len(rows) /\ rows[i].amount <= rows[i].amount
      BY <1>0, <2>4
    <3> QED BY <2>2, <3>1, <3>2
  <2> QED BY <2>5 DEF new
<1> QED BY <1>1, <1>2

\* So every row of a chain that was funded stays funded.
LEMMA RepairedFunded ==
  ASSUME NEW rows \in Seq(Row), IsChain(rows), Funded(rows)
  PROVE  Funded(Repaired(rows))
<1> DEFINE new == Repaired(rows)
<1>1. new \in Seq(Row) /\ Len(new) = Len(rows) /\ Len(rows) \in Nat
  BY ChainSnapshots, RepairedRows
<1>2. \A i \in 0..Len(rows) : /\ BalanceAt(rows, i) <= Units * BalanceAt(new, i)
                              /\ i # 0 => rows[i].amount <= Units * new[i].amount
  BY RepairedBalances
<1> HIDE DEF new
<1>3. ASSUME NEW i \in 1..Len(new)
      PROVE  \E j \in 0..(i-1) : BalanceAt(new, j) + new[i].amount >= 0
  <2>1. PICK j \in 0..(i-1) : BalanceAt(rows, j) + rows[i].amount >= 0
    BY <1>1 DEF Funded
  <2>2. j \in 0..Len(rows) /\ i \in 1..Len(rows) /\ i \in 0..Len(rows) /\ i # 0
    BY <1>1
  <2> DEFINE b == BalanceAt(new, j)
             a == new[i].amount
  <2>3. b \in Int /\ BalanceAt(rows, j) \in Int
    BY <1>1, <2>2, BalanceAtType
  <2>4. new[i] \in Row /\ rows[i] \in Row
    BY <1>1, <2>2
  <2>5. a \in Int /\ rows[i].amount \in Int
    BY <2>4 DEF Row
  <2>6. BalanceAt(rows, j) <= Units * b /\ rows[i].amount <= Units * a
    BY <1>2, <2>2
  <2> HIDE DEF a, b
  <2>7. /\ Units * b \in Int /\ Units * a \in Int
        /\ Units * (b + a) = Units * b + Units * a
    BY <2>3, <2>5, CentsAdd, CentsSign
  <2>8. Units * (b + a) >= 0 /\ b + a \in Int
    BY <2>1, <2>3, <2>5, <2>6, <2>7
  <2>9. b + a >= 0
    BY <2>8, CentsSign
  <2> QED BY <2>9 DEF a, b
<1>4. Funded(new)
  BY <1>3 DEF Funded
<1> QED BY <1>4 DEF new

\* What the repair makes of a balance (RepairKeepsMoney).
LEMMA RepairedMoney ==
  ASSUME NEW rows \in Seq(Row), Snapshots(rows)
  PROVE  LET now == Units * Balance(Repaired(rows)) IN
         /\ IsChain(rows) \/ Fractional(rows) =>
              SumOf(rows) <= now /\ now <= SumOf(rows) + (Units - 1) * Len(rows)
         /\ Fractional(rows) => Balance(Repaired(rows)) = NextBalance(rows)
         /\ ~Fractional(rows) => now = Balance(rows)
<1> DEFINE n == Len(rows)
           new == Repaired(rows)
<1>0. n \in Nat /\ n \in 0..n /\ Units \in Nat \ {0}
  BY RepairAssumption
<1>1. CASE Fractional(rows)
  <2>1. new = Recomputed(rows)
    BY <1>1 DEF Repaired
  <2>2. /\ new \in Seq(Row) /\ Len(new) = n /\ IsChain(new)
        /\ \A i \in 1..n : new[i].amount = NewAmount(rows[i].amount)
    BY <2>1, RecomputedLedger
  <2>3. NextBalance(rows) = Sums(new)[n]
    BY <2>1, <2>2 DEF NextBalance, SumOf
  <2> HIDE DEF new
  <2>4. Balance(new) = Sums(new)[n]
    BY <1>0, <2>2, ChainSums DEF Balance
  <2>5. /\ Sums(rows)[n] <= Units * Sums(new)[n]
        /\ Units * Sums(new)[n] <= Sums(rows)[n] + (Units - 1) * n
    BY <1>0, <2>2, RoundedSums
  <2> QED BY <1>1, <2>3, <2>4, <2>5 DEF new, SumOf
<1>2. CASE ~Fractional(rows)
  <2>1. new = Cast(rows)
    BY <1>2 DEF Repaired
  <2>2. Len(new) = n /\ Units * BalanceAt(new, n) = BalanceAt(rows, n)
    BY <1>0, <1>2, <2>1, CastLedger
  <2> HIDE DEF new
  <2>3. Units * Balance(new) = Balance(rows)
    BY <2>2 DEF Balance
  <2>4. ASSUME IsChain(rows)
        PROVE  SumOf(rows) <= Balance(rows)
               /\ Balance(rows) <= SumOf(rows) + (Units - 1) * n
    <3>1. Balance(rows) = SumOf(rows)
      BY <1>0, <2>4, ChainSums DEF Balance, SumOf
    <3>2. SumOf(rows) \in Int
      BY <1>0, SumsOfRows DEF SumOf
    <3>3. (Units - 1) * n \in Nat
      BY <1>0
    <3> QED BY <3>1, <3>2, <3>3
  <2> QED BY <1>2, <2>3, <2>4 DEF new
<1> QED BY <1>1, <1>2

-----------------------------------------------------------------------------
(* The ledger before, across and after the migration.                       *)

\* The inductive invariant.  The postings in flight carry, as in Ledger, the
\* balances they read and passed; the migration leaves none in flight.
RepairInv ==
  /\ PostingInv /\ SnapshotInv /\ RepairFundedInv
  /\ chained \subseteq User
  /\ ~migrated => chained = User

LEMMA RepairInitInv == RepairInit => RepairInv
<1> SUFFICES ASSUME RepairInit PROVE RepairInv
  OBVIOUS
<1>1. PostingInv
  BY TypeInit DEF RepairInit
<1>2. \A u \in User : Len(ledger[u]) = 0
  BY DEF RepairInit, LedgerInit
<1> QED BY <1>1, <1>2 DEF RepairInv, RepairInit, SnapshotInv, RepairFundedInv

\* A posting that ends writes a row that starts from a balance the user had and
\* takes what a balance covered: what it read and passed is still in the ledger.
LEMMA RepairInsert ==
  ASSUME RepairInv, NEW h \in Handler, Insert(h), UNCHANGED chained
  PROVE  SnapshotInv' /\ RepairFundedInv'
<1> DEFINE u == call[h].user
           n == Len(ledger[u])
<1>1. PostingInv
  BY DEF RepairInv
<1>2. /\ u \in User /\ n \in Nat
      /\ \A v \in User \ {u} : ledger'[v] = ledger[v]
      /\ Len(ledger'[u]) = n + 1
      /\ \A i \in 1..n : ledger'[u][i] = ledger[u][i]
      /\ \A j \in 0..n : BalanceAt(ledger'[u], j) = BalanceAt(ledger[u], j)
      /\ ledger'[u][n + 1].amount = call[h].amount
      /\ ledger'[u][n + 1].balanceBefore = BalanceAt(ledger[u], call[h].seen)
  BY <1>1, InsertRows DEF PostingInv
<1>3. call[h].seen \in 0..n
  BY <1>1 DEF PostingInv, ReadInv, Insert
<1>4. PICK k \in 0..n : BalanceAt(ledger[u], k) + call[h].amount >= 0
  BY <1>1 DEF PostingInv, CheckedInv, Insert
<1> HIDE DEF u, n
<1>5. SnapshotInv'
  <2> SUFFICES ASSUME NEW v \in User, NEW i \in 1..Len(ledger'[v])
               PROVE  \E j \in 0..(i-1) :
                        ledger'[v][i].balanceBefore = BalanceAt(ledger'[v], j)
    BY DEF SnapshotInv
  <2>1. CASE v # u
    BY <1>2, <2>1 DEF RepairInv, SnapshotInv
  <2>2. CASE v = u /\ i \in 1..n
    <3>1. PICK j \in 0..(i-1) :
            ledger[u][i].balanceBefore = BalanceAt(ledger[u], j)
      BY <1>2, <2>2 DEF RepairInv, SnapshotInv, n
    <3> QED BY <1>2, <2>2, <3>1
  <2>3. CASE v = u /\ i = n + 1
    BY <1>2, <1>3, <2>3
  <2> QED BY <1>2, <2>1, <2>2, <2>3
<1>6. RepairFundedInv'
  <2> SUFFICES ASSUME NEW v \in chained, NEW i \in 1..Len(ledger'[v])
               PROVE  \E j \in 0..(i-1) :
                        BalanceAt(ledger'[v], j) + ledger'[v][i].amount >= 0
    BY DEF RepairFundedInv
  <2>0. v \in User
    BY DEF RepairInv
  <2>1. CASE v # u
    BY <1>2, <2>0, <2>1 DEF RepairInv, RepairFundedInv
  <2>2. CASE v = u /\ i \in 1..n
    <3>1. PICK j \in 0..(i-1) :
            BalanceAt(ledger[u], j) + ledger[u][i].amount >= 0
      BY <1>2, <2>2 DEF RepairInv, RepairFundedInv, n
    <3> QED BY <1>2, <2>2, <3>1
  <2>3. CASE v = u /\ i = n + 1
    BY <1>2, <1>4, <2>3
  <2> QED BY <1>2, <2>0, <2>1, <2>2, <2>3
<1> QED BY <1>5, <1>6

\* The migration rewrites every ledger at once and leaves nothing in flight.
LEMMA RepairUp ==
  ASSUME RepairInv, Up
  PROVE  RepairInv'
<1>1. LedgerTypeOK /\ migrated' /\ ~migrated /\ chained = User
  BY DEF RepairInv, PostingInv, Up
<1>2. ASSUME NEW u \in User
      PROVE  /\ ledger[u] \in Seq(Row) /\ Snapshots(ledger[u]) /\ Funded(ledger[u])
             /\ ledger'[u] = Repaired(ledger[u])
  BY <1>1 DEF RepairInv, LedgerTypeOK, SnapshotInv, Snapshots, RepairFundedInv,
              Funded, Up
<1>3. \A u \in User : ledger'[u] \in Seq(Row) /\ Snapshots(ledger'[u])
  BY <1>2, RepairedRows
<1>4. PostingInv'
  <2>1. ledger' \in [User -> Seq(Row)]
    BY <1>3 DEF Up
  <2>2. call' = [g \in Handler |-> Idle] /\ Idle.pc = "idle"
    BY DEF Up, Idle
  <2>3. LedgerTypeOK'
    BY <2>1, <2>2, IdleType DEF LedgerTypeOK
  <2>4. ReadInv' /\ CheckedInv'
    BY <2>2 DEF ReadInv, CheckedInv
  <2> QED BY <2>3, <2>4 DEF PostingInv
<1>5. SnapshotInv'
  BY <1>3 DEF SnapshotInv, Snapshots
<1>6. chained' \subseteq User /\ \A u \in chained' : IsChain(ledger[u])
  BY DEF Up
<1>7. \A u \in chained' : Funded(ledger'[u])
  BY <1>2, <1>6, RepairedFunded
<1>8. RepairFundedInv'
  BY <1>7 DEF RepairFundedInv, Funded
<1> QED BY <1>1, <1>4, <1>5, <1>6, <1>8 DEF RepairInv

LEMMA RepairStep == RepairInv /\ [RepairNext]_vars => RepairInv'
<1> SUFFICES ASSUME RepairInv, [RepairNext]_vars PROVE RepairInv'
  OBVIOUS
<1>1. CASE Up
  BY <1>1, RepairUp
<1>2. CASE [LedgerNext]_ledgerVars /\ UNCHANGED <<migrated, chained>>
  <2>1. PostingInv'
    BY <1>2, PostingNext DEF RepairInv
  <2>2. CASE \E h \in Handler : Insert(h)
    BY <1>2, <2>1, <2>2, RepairInsert DEF RepairInv
  <2>3. CASE ~ \E h \in Handler : Insert(h)
    <3>1. UNCHANGED ledger
      BY <1>2, <2>3, OnlyInsertWrites
    <3> QED BY <1>2, <2>1, <3>1 DEF RepairInv, SnapshotInv, RepairFundedInv
  <2> QED BY <2>2, <2>3
<1> QED BY <1>1, <1>2 DEF RepairNext, vars

LEMMA RepairInvAlways == RepairSpec => []RepairInv
  BY RepairInitInv, RepairStep, PTL DEF RepairSpec

\* Rows and postings are well formed before and after the columns change their
\* type (up, lines 88-100).
THEOREM RepairTypeCorrect == RepairSpec => []LedgerTypeOK
<1>1. RepairInv => LedgerTypeOK
  BY DEF RepairInv, PostingInv
<1> QED BY <1>1, RepairInvAlways, PTL

\* Across the migration too, every row starts from a balance some earlier row
\* left: recomputed rows form a chain, the others keep their balances.
THEOREM RepairSnapshots == RepairSpec => []SnapshotInv
<1>1. RepairInv => SnapshotInv
  BY DEF RepairInv
<1> QED BY <1>1, RepairInvAlways, PTL

\* Before, across and after the migration, every debit of a user whose rows
\* formed a chain when it ran was covered by a balance the user had.
THEOREM RepairFunded == RepairSpec => []RepairFundedInv
<1>1. RepairInv => RepairFundedInv
  BY DEF RepairInv
<1> QED BY <1>1, RepairInvAlways, PTL

\* Only the migration changes what it is recorded in.
LEMMA OnlyUpMigrates ==
  ASSUME RepairInv, [RepairNext]_vars, migrated' # migrated
  PROVE  \A u \in User : /\ ledger[u] \in Seq(Row) /\ Snapshots(ledger[u])
                         /\ ledger'[u] = Repaired(ledger[u])
<1>1. Up
  BY DEF RepairNext, vars
<1> QED BY <1>1 DEF RepairInv, PostingInv, LedgerTypeOK, SnapshotInv, Snapshots, Up

\* The migration takes no money from anybody and gives less than a cent a row,
\* for ledgers of any length: what the dry run test() computes is what up() leaves
\* (lines 36-68).
THEOREM MigrationKeepsMoney == RepairSpec => RepairKeepsMoney
<1> DEFINE A == migrated' # migrated =>
                  \A u \in User :
                    LET old == ledger[u]
                        now == Units * Balance(ledger'[u])
                    IN  /\ IsChain(old) \/ Fractional(old) =>
                             SumOf(old) <= now
                             /\ now <= SumOf(old) + (Units - 1) * Len(old)
                        /\ Fractional(old) => Balance(ledger'[u]) = NextBalance(old)
                        /\ ~Fractional(old) => now = Balance(old)
<1>1. RepairInv /\ [RepairNext]_vars => [A]_vars
  <2> SUFFICES ASSUME RepairInv, [RepairNext]_vars, migrated' # migrated,
                      NEW u \in User
               PROVE  LET old == ledger[u]
                          now == Units * Balance(ledger'[u])
                      IN  /\ IsChain(old) \/ Fractional(old) =>
                               SumOf(old) <= now
                               /\ now <= SumOf(old) + (Units - 1) * Len(old)
                          /\ Fractional(old) => Balance(ledger'[u]) = NextBalance(old)
                          /\ ~Fractional(old) => now = Balance(old)
    OBVIOUS
  <2>1. /\ ledger[u] \in Seq(Row) /\ Snapshots(ledger[u])
        /\ ledger'[u] = Repaired(ledger[u])
    BY OnlyUpMigrates
  <2> QED BY <2>1, RepairedMoney
<1> QED BY <1>1, RepairInvAlways, PTL DEF RepairSpec, RepairKeepsMoney

\* The migration leaves a user with a fractional amount a chain and breaks none,
\* although it recomputes nobody else (_changeRows, lines 25-57).
THEOREM MigrationChains == RepairSpec => RepairChains
<1>1. RepairInv /\ [RepairNext]_vars
        => [migrated' # migrated =>
              \A u \in User :
                IsChain(ledger[u]) \/ Fractional(ledger[u]) => IsChain(ledger'[u])]_vars
  <2> SUFFICES ASSUME RepairInv, [RepairNext]_vars, migrated' # migrated,
                      NEW u \in User, IsChain(ledger[u]) \/ Fractional(ledger[u])
               PROVE  IsChain(ledger'[u])
    OBVIOUS
  <2>1. /\ ledger[u] \in Seq(Row) /\ Snapshots(ledger[u])
        /\ ledger'[u] = Repaired(ledger[u])
    BY OnlyUpMigrates
  <2> QED BY <2>1, RepairedChain
<1> QED BY <1>1, RepairInvAlways, PTL DEF RepairSpec, RepairChains

=============================================================================
