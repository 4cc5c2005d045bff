------------------------- MODULE CalculationsProofs -------------------------
(***************************************************************************)
(* Proofs of the two calculations of SkillRating and CsvReader.  Both are   *)
(* defined by folds, and what a fold gives for every input is proved without *)
(* an induction theorem: of the inputs the fold would get wrong there would  *)
(* be a smallest (SmallestSet, FirstMissing), and one element less of it is  *)
(* one the fold gets right.                                                  *)
(***************************************************************************)
EXTENDS SkillRating, CsvReader, FiniteSetTheorems, SequenceTheorems,
        WellFoundedInduction, TLAPS

----------------------------------------------------------------------------
(* The smallest, and the newest *)

\* Among finite sets there is always one none of the others is part of.
LEMMA SmallestSet ==
  ASSUME NEW C, C # {}, \A s \in C : IsFiniteSet(s)
  PROVE  \E s \in C : \A t \in C : ~ (t \subseteq s /\ t # s)
<1> DEFINE U == UNION C
<1>1. C \subseteq FiniteSubsetsOf(U)
  BY DEF FiniteSubsetsOf
<1>2. \E s \in C : \A t \in C : ~ (<<t, s>> \in StrictSubsetOrdering(U))
  BY <1>1, FS_StrictSubsetOrderingWellFounded, WFMin, Zenon
<1>3. PICK s \in C : \A t \in C : ~ (<<t, s>> \in StrictSubsetOrdering(U))
  BY <1>2
<1>4. ASSUME NEW t \in C, t \subseteq s, t # s
      PROVE  <<t, s>> \in StrictSubsetOrdering(U)
  BY <1>4, <1>1 DEF StrictSubsetOrdering, FiniteSubsetsOf
<1>5. \A t \in C : t \subseteq s /\ t # s => <<t, s>> \in StrictSubsetOrdering(U)
  BY <1>4
<1> HIDE DEF U
<1>6. \A t \in C : ~ (t \subseteq s /\ t # s)
  BY <1>3, <1>5, Zenon
<1>. QED
  BY <1>6, Zenon

\* A finite set of days has a first one and a last one.
LEMMA FirstDay ==
  ASSUME NEW S \in SUBSET Int, IsFiniteSet(S), S # {}
  PROVE  \E x \in S : \A y \in S : x <= y
<1> DEFINE C == {{y \in S : y <= x} : x \in S}
<1>1. C # {} /\ \A t \in C : IsFiniteSet(t)
  <2>1. \A x \in S : {y \in S : y <= x} \in SUBSET S
    OBVIOUS
  <2>2. \A x \in S : IsFiniteSet({y \in S : y <= x})
    BY <2>1, FS_Subset
  <2>. QED  BY <2>2
<1>2. \E s \in C : \A t \in C : ~ (t \subseteq s /\ t # s)
  <2> HIDE DEF C
  <2>. QED  BY <1>1, SmallestSet
<1>3. PICK x \in S : \A t \in C : ~ (t \subseteq {y \in S : y <= x} /\ t # {y \in S : y <= x})
  BY <1>2
<1>4. ASSUME NEW z \in S, z < x
      PROVE  FALSE
  <2>1. {y \in S : y <= z} \in C
    BY <1>4
  <2>2. {y \in S : y <= z} \subseteq {y \in S : y <= x}
    <3>1. x \in Int /\ z \in Int /\ \A y \in S : y \in Int
      BY <1>4
    <3>2. \A y \in S : y <= z => y <= x
      BY <1>4, <3>1
    <3>. QED  BY <3>2
  <2>3. x \in {y \in S : y <= x} /\ x \notin {y \in S : y <= z}
    BY <1>4
  <2>. QED  BY <1>3, <2>1, <2>2, <2>3
<1>. QED
  BY <1>4

\* The newest of finitely many days.
LEMMA LastDay ==
  ASSUME NEW S \in SUBSET Int, IsFiniteSet(S), S # {}
  PROVE  Max(S) \in S /\ \A y \in S : y <= Max(S)
<1> DEFINE C == {{y \in S : x <= y} : x \in S}
<1>1. C # {} /\ \A t \in C : IsFiniteSet(t)
  <2>1. \A x \in S : {y \in S : x <= y} \in SUBSET S
    OBVIOUS
  <2>2. \A x \in S : IsFiniteSet({y \in S : x <= y})
    BY <2>1, FS_Subset
  <2>. QED  BY <2>2
<1>2. \E s \in C : \A t \in C : ~ (t \subseteq s /\ t # s)
  <2> HIDE DEF C
  <2>. QED  BY <1>1, SmallestSet
<1>3. PICK x \in S : \A t \in C : ~ (t \subseteq {y \in S : x <= y} /\ t # {y \in S : x <= y})
  BY <1>2
<1>4. ASSUME NEW z \in S, x < z
      PROVE  FALSE
  <2>1. {y \in S : z <= y} \in C
    BY <1>4
  <2>2. {y \in S : z <= y} \subseteq {y \in S : x <= y}
    <3>1. x \in Int /\ z \in Int /\ \A y \in S : y \in Int
      BY <1>4
    <3>2. \A y \in S : z <= y => x <= y
      BY <1>4, <3>1
    <3>. QED  BY <3>2
  <2>3. x \in {y \in S : x <= y} /\ x \notin {y \in S : z <= y}
    BY <1>4
  <2>. QED  BY <1>3, <2>1, <2>2, <2>3
<1>5. \E m \in S : \A y \in S : m >= y
  BY <1>4
<1>. QED
  BY <1>5 DEF Max

LEMMA LastIs ==
  ASSUME NEW S \in SUBSET Int, NEW x \in S, \A y \in S : y <= x
  PROVE  Max(S) = x
<1>1. \A z \in S : (\A y \in S : z >= y) <=> z = x
  OBVIOUS
<1>2. Max(S) = CHOOSE z \in S : z = x
  BY <1>1 DEF Max
<1>. QED
  BY <1>2

----------------------------------------------------------------------------
(* A sum over a finite set, as the number of its units *)

\* A sum over a finite set, as the number of its units.
Units(f, S) == {u \in S \X Nat : u[2] \in 1 .. f[u[1]]}

\* One element more adds its units.
LEMMA UnitsOfOne ==
  ASSUME NEW S, NEW f \in [S -> Nat], NEW T \in SUBSET S, IsFiniteSet(Units(f, T)), NEW x \in S, x \notin T
  PROVE  /\ IsFiniteSet(Units(f, T \cup {x}))
         /\ Cardinality(Units(f, T \cup {x})) = f[x] + Cardinality(Units(f, T))
<1> DEFINE A == {x} \X (1 .. f[x])
<1>1. Units(f, T \cup {x}) = A \cup Units(f, T)
  BY DEF Units
<1>2. A \cap Units(f, T) = {}
  BY DEF Units
<1>3. IsFiniteSet(A) /\ Cardinality(A) = f[x]
  <2>1. IsFiniteSet(1 .. f[x]) /\ Cardinality(1 .. f[x]) = f[x]
    BY FS_Interval
  <2> DEFINE b == [i \in 1 .. f[x] |-> <<x, i>>]
  <2>2. b \in [1 .. f[x] -> A]
    OBVIOUS
  <2>3. \A i, j \in 1 .. f[x] : b[i] = b[j] => i = j
    OBVIOUS
  <2>4. \A u \in A : \E i \in 1 .. f[x] : b[i] = u
    OBVIOUS
  <2>5. b \in Bijection(1 .. f[x], A)
    BY <2>2, <2>3, <2>4 DEF Bijection, Injection, Surjection, IsInjective
  <2>. QED
    BY <2>1, <2>5, FS_Bijection DEF ExistsBijection
<1>4. Cardinality(A \cup Units(f, T)) = f[x] + Cardinality(Units(f, T))
  <2> HIDE DEF A
  <2>1. Cardinality(A \cup Units(f, T)) =
          Cardinality(A) + Cardinality(Units(f, T)) - Cardinality(A \cap Units(f, T))
    BY <1>3, FS_Union
  <2>2. Cardinality(A \cap Units(f, T)) = 0
    BY <1>2, FS_EmptySet
  <2>3. Cardinality(Units(f, T)) \in Nat
    BY FS_CardinalityType
  <2>. QED
    BY <1>3, <2>1, <2>2, <2>3
<1>5. IsFiniteSet(A \cup Units(f, T))
  BY <1>3, FS_Union
<1>. QED
  BY <1>1, <1>4, <1>5

\* The two sums of a set S by iteration: the library's, and the one counted in units.
Summed(s, f, iter) == IF s = {} THEN 0 ELSE f[CHOOSE x \in s : TRUE] + iter[s \ {CHOOSE x \in s : TRUE}]

LEMMA UnitsAreSummed ==
  ASSUME NEW S, IsFiniteSet(S), NEW f \in [S -> Nat]
  PROVE  /\ \A s \in SUBSET S : IsFiniteSet(Units(f, s)) /\ Cardinality(Units(f, s)) \in Nat
         /\ \A s \in SUBSET S, x \in S : x \notin s => 
               Cardinality(Units(f, s \cup {x})) = f[x] + Cardinality(Units(f, s))
<1> DEFINE C == {s \in SUBSET S : ~ IsFiniteSet(Units(f, s))}
<1>1. C = {}
  <2> SUFFICES ASSUME C # {} PROVE FALSE
    OBVIOUS
  <2>1. \A t \in C : IsFiniteSet(t)
    BY FS_Subset
  <2> HIDE DEF C
  <2>2. \E s \in C : \A t \in C : ~ (t \subseteq s /\ t # s)
    BY <2>1, SmallestSet
  <2> USE DEF C
  <2>3. PICK s \in C : \A t \in C : ~ (t \subseteq s /\ t # s)
    BY <2>2, Zenon
  <2>4. CASE s = {}
    <3>1. Units(f, s) = {}
      BY <2>4 DEF Units
    <3>. QED  BY <3>1, FS_EmptySet
  <2>5. ASSUME NEW x \in s PROVE FALSE
    <3>1. IsFiniteSet(Units(f, s \ {x}))
      BY <2>3, <2>5
    <3>2. IsFiniteSet(Units(f, (s \ {x}) \cup {x}))
      BY <3>1, UnitsOfOne
    <3>3. (s \ {x}) \cup {x} = s
      BY <2>5
    <3>. QED  BY <3>2, <3>3
  <2>. QED  BY <2>4, <2>5
<1>2. \A s \in SUBSET S : IsFiniteSet(Units(f, s))
  BY <1>1
<1>. QED
  BY <1>2, FS_CardinalityType, UnitsOfOne

SumsUp(iter, S, f) == iter = [s \in SUBSET S |-> Summed(s, f, iter)]

\* However a sum is computed, one element at a time, it counts the units.
LEMMA SumIsCount ==
  ASSUME NEW S, IsFiniteSet(S), NEW f \in [S -> Nat]
  PROVE  /\ \E iter : SumsUp(iter, S, f)
         /\ \A iter : SumsUp(iter, S, f) => iter[S] = Cardinality(Units(f, S))
<1> DEFINE g == [s \in SUBSET S |-> Cardinality(Units(f, s))]
<1>1. \A s \in SUBSET S : Cardinality(Units(f, s)) = Summed(s, f, g)
  <2> SUFFICES ASSUME NEW s \in SUBSET S PROVE Cardinality(Units(f, s)) = Summed(s, f, g)
    OBVIOUS
  <2>1. CASE s = {}
    <3>1. Units(f, s) = {}
      BY <2>1 DEF Units
    <3>. QED  BY <2>1, <3>1, FS_EmptySet DEF Summed
  <2>2. CASE s # {}
    <3> DEFINE x == CHOOSE x \in s : TRUE
    <3>1. x \in s
      BY <2>2
    <3> HIDE DEF x
    <3>2. s = (s \ {x}) \cup {x} /\ s \ {x} \in SUBSET S /\ x \in S /\ x \notin s \ {x}
      BY <3>1
    <3>3. Cardinality(Units(f, s)) = f[x] + Cardinality(Units(f, s \ {x}))
      BY <3>2, UnitsAreSummed
    <3>4. Cardinality(Units(f, s)) = f[x] + g[s \ {x}]
      BY <3>2, <3>3
    <3>. QED  BY <2>2, <3>4 DEF Summed, x
  <2>. QED  BY <2>1, <2>2
<1>2. SumsUp(g, S, f)
  BY <1>1 DEF SumsUp
<1>3. ASSUME NEW iter, SumsUp(iter, S, f)
      PROVE  iter[S] = Cardinality(Units(f, S))
  <2> DEFINE C == {s \in SUBSET S : iter[s] # Cardinality(Units(f, s))}
  <2>0. \A s \in SUBSET S : iter[s] = Summed(s, f, iter)
    BY <1>3 DEF SumsUp
  <2>1. C = {}
    <3> SUFFICES ASSUME C # {} PROVE FALSE
      OBVIOUS
    <3>1. \A t \in C : IsFiniteSet(t)
      BY FS_Subset
    <3> HIDE DEF C
    <3>2. \E s \in C : \A t \in C : ~ (t \subseteq s /\ t # s)
      BY <3>1, SmallestSet
    <3> USE DEF C
    <3>3. PICK s \in C : \A t \in C : ~ (t \subseteq s /\ t # s)
      BY <3>2, Zenon
    <3>4. iter[s] = Summed(s, f, iter) /\ Cardinality(Units(f, s)) = Summed(s, f, g)
      BY <2>0, <1>1, <3>3
    <3> DEFINE x == CHOOSE x \in s : TRUE
    <3>5. CASE s = {}
      BY <3>3, <3>4, <3>5 DEF Summed
    <3>6. CASE s # {}
      <4>1. x \in s
        BY <3>6
      <4> HIDE DEF x
      <4>2. s \ {x} \in SUBSET S /\ s \ {x} \notin C
        BY <3>3, <4>1
      <4>3. iter[s \ {x}] = g[s \ {x}]
        BY <4>2
      <4>. QED  BY <3>3, <3>4, <3>6, <4>3 DEF Summed, x
    <3>. QED  BY <3>5, <3>6
  <2>. QED
    BY <2>1
<1>. QED
  BY <1>2, <1>3

\* What MapThenSumSet gives is the number of units.
LEMMA SumOf ==
  ASSUME NEW S, IsFiniteSet(S), NEW f \in [S -> Nat]
  PROVE  MapThenSumSet(LAMBDA x : f[x], S) = Cardinality(Units(f, S))
<1> DEFINE iter == CHOOSE iter : SumsUp(iter, S, f)
<1>1. SumsUp(iter, S, f)
  BY SumIsCount
<1>2. MapThenSumSet(LAMBDA x : f[x], S) = iter[S]
  BY DEF MapThenSumSet, MapThenFoldSet, Summed, SumsUp
<1> HIDE DEF iter
<1>. QED
  BY <1>1, <1>2, SumIsCount

\* What of a log earns points in a skill; the points are the units of those events.
Earning(E, s) == {e \in Counted(E) : e.type # "card_collected" /\ e.skill = s /\ Earns(E, e)}

LEMMA PointsAreCounted ==
  ASSUME NEW E, IsFiniteSet(E), NEW s, \A e \in Earning(E, s) : EventPoints(E, e) \in Nat
  PROVE  LET f == [e \in Earning(E, s) |-> EventPoints(E, e)]
         IN  SkillPoints(E, s) = Cardinality(Units(f, Earning(E, s)))
<1> DEFINE S == Earning(E, s)
           f == [e \in S |-> EventPoints(E, e)]
           Step(g) == [t \in SUBSET S |->
                        IF t = {} THEN 0
                        ELSE EventPoints(E, CHOOSE x \in t : TRUE) + g[t \ {CHOOSE x \in t : TRUE}]]
           iter == CHOOSE g : g = Step(g)
<1>1. IsFiniteSet(S) /\ f \in [S -> Nat]
  BY FS_Subset DEF Earning, Counted
<1>2. SkillPoints(E, s) = iter[S]
  BY DEF SkillPoints, MapThenSumSet, MapThenFoldSet, Earning
<1>3. \A g : g = Step(g) <=> SumsUp(g, S, f)
  BY DEF Summed, SumsUp
<1> HIDE DEF S, f, Step
<1>4. SumsUp(iter, S, f)
  BY <1>1, <1>3, SumIsCount
<1> HIDE DEF iter
<1>5. iter[S] = Cardinality(Units(f, S))
  BY <1>1, <1>4, SumIsCount
<1>. QED
  BY <1>2, <1>5 DEF S, f

----------------------------------------------------------------------------
(* The rested days *)

\* The days between two days of training that were not trained themselves, and the
\* rule of which of them are rested: one is unless a rest stands within the window before it.
Isolated(T) == {m \in {t + 1 : t \in T} : m \notin T /\ m + 1 \in T}

RestRule(B, I) == \A m \in I : m \in B <=> ~\E b \in B : b < m /\ m - b <= WindowDays

LEMMA IsolatedIsFinite ==
  ASSUME NEW T \in SUBSET Int, IsFiniteSet(T)
  PROVE  Isolated(T) \in SUBSET Int /\ IsFiniteSet(Isolated(T))
<1> DEFINE U == {t + 1 : t \in T}
           f == [t \in T |-> t + 1]
<1>1. f \in Surjection(T, U)
  BY DEF Surjection
<1>2. IsFiniteSet(U)
  BY <1>1, FS_Surjection
<1>. QED
  BY <1>2, FS_Subset DEF Isolated

\* The rule can be met: days are taken in order, each decided by those before it.
LEMMA RestedExists ==
  ASSUME WindowDays \in Nat, NEW I \in SUBSET Int, IsFiniteSet(I)
  PROVE  \E B \in SUBSET I : RestRule(B, I)
<1> DEFINE C == {J \in SUBSET I : ~ \E B \in SUBSET J : RestRule(B, J)}
<1> SUFFICES ASSUME C # {} PROVE FALSE
  OBVIOUS
<1>1. \A t \in C : IsFiniteSet(t)
  BY FS_Subset
<1>2. \E s \in C : \A t \in C : ~ (t \subseteq s /\ t # s)
  <2> HIDE DEF C
  <2>. QED  BY <1>1, SmallestSet
<1>3. PICK J \in C : \A t \in C : ~ (t \subseteq J /\ t # J)
  BY <1>2, Zenon
<1>4. J # {}
  <2>1. RestRule({}, {})
    BY DEF RestRule
  <2>. QED  BY <2>1, <1>3
<1> DEFINE x == Max(J)
<1>5. x \in J /\ \A y \in J : y <= x
  BY <1>1, <1>3, <1>4, LastDay
<1> HIDE DEF x
<1>6. PICK B \in SUBSET (J \ {x}) : RestRule(B, J \ {x})
  BY <1>3, <1>5
<1>7. \A y \in J \ {x} : y < x
  BY <1>5
<1>8. CASE \E b \in B : b < x /\ x - b <= WindowDays
  <2>1. RestRule(B, J)
    BY <1>6, <1>8, <1>7 DEF RestRule
  <2>. QED  BY <1>3, <1>6, <2>1
<1>9. CASE ~ \E b \in B : b < x /\ x - b <= WindowDays
  <2>1. ASSUME NEW m \in J, m # x
        PROVE  m \in B \cup {x} <=> ~ \E b \in B \cup {x} : b < m /\ m - b <= WindowDays
    <3>1. m \in B <=> ~ \E b \in B : b < m /\ m - b <= WindowDays
      BY <1>6, <2>1 DEF RestRule
    <3>2. m < x /\ ~ (x < m)
      BY <1>7, <2>1, <1>5
    <3>. QED  BY <3>1, <3>2, <2>1
  <2>2. x \in B \cup {x} <=> ~ \E b \in B \cup {x} : b < x /\ x - b <= WindowDays
    BY <1>9, <1>5
  <2>3. RestRule(B \cup {x}, J)
    BY <2>1, <2>2 DEF RestRule
  <2>. QED  BY <1>3, <1>5, <1>6, <2>3
<1>. QED
  BY <1>8, <1>9

\* The rested days the model chooses meet the rule.
LEMMA RestedDaysRule ==
  ASSUME WindowDays \in Nat, NEW T \in SUBSET Int, IsFiniteSet(T)
  PROVE  /\ RestedDays(T) \in SUBSET Isolated(T)
         /\ RestRule(RestedDays(T), Isolated(T))
         /\ RestedDays(T) \in SUBSET Int
<1>1. \E B \in SUBSET Isolated(T) : RestRule(B, Isolated(T))
  BY IsolatedIsFinite, RestedExists
<1>2. RestedDays(T) = CHOOSE B \in SUBSET Isolated(T) : RestRule(B, Isolated(T))
  BY DEF RestedDays, RestRule, Isolated
<1>. QED
  BY <1>1, <1>2, IsolatedIsFinite

LEMMA RestedIsIsolated ==
  ASSUME WindowDays \in Nat, NEW T \in SUBSET Int, IsFiniteSet(T), NEW b \in RestedDays(T)
  PROVE  b \in Int /\ b - 1 \in T /\ b \notin T /\ b + 1 \in T
<1>1. b \in Isolated(T)
  BY RestedDaysRule
<1>2. PICK t \in T : b = t + 1
  BY <1>1 DEF Isolated
<1>3. t \in Int /\ b - 1 = t
  BY <1>2
<1>. QED
  BY <1>1, <1>2, <1>3 DEF Isolated

\* Which days before d are rested depends on the training up to d alone.
LEMMA RestedLocally ==
  ASSUME WindowDays \in Nat,
         NEW T \in SUBSET Int, IsFiniteSet(T), NEW U \in SUBSET Int, IsFiniteSet(U),
         NEW d \in Int, \A x \in Int : x <= d => (x \in T <=> x \in U)
  PROVE  \A m \in Int : m < d => (m \in RestedDays(T) <=> m \in RestedDays(U))
<1> DEFINE C == {m \in Isolated(T) \cup Isolated(U) : m < d /\ ~ (m \in RestedDays(T) <=> m \in RestedDays(U))}
<1>1. C = {}
  <2> SUFFICES ASSUME C # {} PROVE FALSE
    OBVIOUS
  <2>1. C \in SUBSET Int /\ IsFiniteSet(C)
    BY IsolatedIsFinite, FS_Union, FS_Subset
  <2>2. \E x \in C : \A y \in C : x <= y
    <3> HIDE DEF C
    <3>. QED  BY <2>1, FirstDay
  <2>3. PICK m \in C : \A y \in C : m <= y
    BY <2>2
  <2>4. m \in Int /\ m < d /\ (m \in Isolated(T) <=> m \in Isolated(U))
    BY <2>1, <2>3 DEF Isolated
  <2>5. m \in Isolated(T) /\ m \in Isolated(U)
    BY <2>3, <2>4
  <2>6. \A b \in Int : b < m => (b \in RestedDays(T) <=> b \in RestedDays(U))
    BY <2>1, <2>3, <2>4, RestedDaysRule
  <2>7. m \in RestedDays(T) <=> m \in RestedDays(U)
    BY <2>5, <2>6, RestedDaysRule DEF RestRule
  <2>. QED  BY <2>3, <2>7
<1>. QED
  BY <1>1, RestedDaysRule

----------------------------------------------------------------------------
(* A streak, as the days it counts *)

\* The days a streak that ends on day d counts.
RunDays(T, d) == {x \in T : x <= d /\ x .. d \subseteq T \cup RestedDays(T)}

LEMMA RunsAreFinite ==
  ASSUME NEW T \in SUBSET Int, IsFiniteSet(T), NEW d \in Int
  PROVE  /\ IsFiniteSet(RunDays(T, d))
         /\ StreakOfTraining(T, d) = Cardinality(RunDays(T, d))
         /\ StreakOfTraining(T, d) \in Nat
  BY FS_Subset, FS_CardinalityType DEF RunDays, StreakOfTraining

\* A streak ending on a day of training depends on nothing later.
LEMMA RunsAreLocal ==
  ASSUME WindowDays \in Nat,
         NEW T \in SUBSET Int, IsFiniteSet(T), NEW U \in SUBSET Int, IsFiniteSet(U),
         NEW d \in T, \A x \in Int : x <= d => (x \in T <=> x \in U)
  PROVE  StreakOfTraining(T, d) = StreakOfTraining(U, d)
<1>1. \A m \in Int : m < d => (m \in RestedDays(T) <=> m \in RestedDays(U))
  BY RestedLocally
<1>2. \A y \in Int : y <= d => (y \in T \cup RestedDays(T) <=> y \in U \cup RestedDays(U))
  BY <1>1
<1>3. \A x \in Int : x .. d \subseteq T \cup RestedDays(T) <=> x .. d \subseteq U \cup RestedDays(U)
  <2> SUFFICES ASSUME NEW x \in Int
               PROVE  x .. d \subseteq T \cup RestedDays(T) <=> x .. d \subseteq U \cup RestedDays(U)
    OBVIOUS
  <2>1. \A y \in x .. d : y \in Int /\ y <= d
    OBVIOUS
  <2>. QED  BY <2>1, <1>2
<1>4. \A x \in Int : x \in RunDays(T, d) <=> x \in RunDays(U, d)
  BY <1>3 DEF RunDays
<1>5. RunDays(T, d) \subseteq Int /\ RunDays(U, d) \subseteq Int
  BY DEF RunDays
<1>6. RunDays(T, d) = RunDays(U, d)
  BY <1>4, <1>5
<1>. QED
  BY <1>6, RunsAreFinite

----------------------------------------------------------------------------
(* The timeline, entry by entry *)

\* What the timeline holds for a day of training.
NewestRest(T, d) ==
  {b \in RestedDays(T) : b < d /\ \A c \in RestedDays(T) : c < d => c <= b}

EntryOf(T, d) == [day |-> d, length |-> StreakOfTraining(T, d), lastBridged |-> NewestRest(T, d)]

\* A day may be bridged exactly when the last day rested before it is out of its window.
LEMMA BridgedIsRested ==
  ASSUME WindowDays \in Nat, NEW T \in SUBSET Int, IsFiniteSet(T),
         NEW p \in T, p + 1 \notin T, p + 2 \in T
  PROVE  CanBridge(p + 1, NewestRest(T, p)) <=> p + 1 \in RestedDays(T)
<1> DEFINE R == RestedDays(T)
           B == {b \in R : b < p}
<1>1. p + 1 \in Isolated(T) /\ p \in Int
  <2>1. p \in Int /\ (p + 1) + 1 = p + 2
    OBVIOUS
  <2>. QED  BY <2>1 DEF Isolated
<1>2. R \in SUBSET Int /\ IsFiniteSet(R) /\ p \notin R
  BY RestedDaysRule, IsolatedIsFinite, FS_Subset DEF Isolated
<1>3. p + 1 \in R <=> ~ \E b \in R : b < p + 1 /\ p + 1 - b <= WindowDays
  BY <1>1, RestedDaysRule DEF RestRule
<1> HIDE DEF R
<1>4. p + 1 \in R <=> \A b \in B : p + 1 - b > WindowDays
  BY <1>1, <1>2, <1>3
<1>5. NewestRest(T, p) = {b \in B : \A c \in B : c <= b}
  BY DEF NewestRest, R
<1>6. CASE B = {}
  BY <1>4, <1>5, <1>6 DEF CanBridge, R
<1>7. CASE B # {}
  <2>1. B \in SUBSET Int /\ IsFiniteSet(B)
    BY <1>2, FS_Subset
  <2> DEFINE x == Max(B)
  <2>2. x \in B /\ \A y \in B : y <= x
    <3> HIDE DEF B
    <3>. QED  BY <2>1, <1>7, LastDay
  <2> HIDE DEF x
  <2>3. NewestRest(T, p) = {x}
    BY <1>5, <2>1, <2>2
  <2>4. CanBridge(p + 1, NewestRest(T, p)) <=> p + 1 - x > WindowDays
    BY <2>3, <2>2, <2>1, <1>1 DEF CanBridge
  <2>5. (p + 1 - x > WindowDays) <=> \A b \in B : p + 1 - b > WindowDays
    BY <1>1, <2>1, <2>2
  <2>. QED  BY <1>4, <2>4, <2>5 DEF R
<1>. QED
  BY <1>6, <1>7

\* The first day of training starts a streak of one.
LEMMA FirstEntry ==
  ASSUME WindowDays \in Nat, NEW T \in SUBSET Int, IsFiniteSet(T), NEW d \in T, Earlier(T, d) = {}
  PROVE  EntryOf(T, d) = [day |-> d, length |-> 1, lastBridged |-> {}]
<1>1. RunDays(T, d) = {d}
  <2>1. d \in Int /\ \A x \in T : x <= d => x = d
    BY DEF Earlier
  <2>2. d .. d \subseteq T \cup RestedDays(T)
    OBVIOUS
  <2>3. d \in RunDays(T, d)
    BY <2>1, <2>2 DEF RunDays
  <2>4. \A x \in RunDays(T, d) : x = d
    BY <2>1 DEF RunDays
  <2>. QED  BY <2>3, <2>4
<1>2. StreakOfTraining(T, d) = 1
  BY <1>1, RunsAreFinite, FS_Singleton
<1>3. \A b \in RestedDays(T) : b \in Int /\ b - 1 \in T
  BY RestedIsIsolated
<1>4. \A b \in RestedDays(T) : ~ (b < d)
  BY <1>3 DEF Earlier
<1>. QED
  BY <1>2, <1>4 DEF EntryOf, NewestRest

\* No day is rested between two days of training that follow each other but for
\* the one day between them.
LEMMA RestBetween ==
  ASSUME WindowDays \in Nat, NEW T \in SUBSET Int, IsFiniteSet(T), NEW p \in T, NEW d \in T, p < d,
         \A t \in T : t < d => t <= p, NEW b \in RestedDays(T), b < d
  PROVE  b < p \/ (b = p + 1 /\ d = p + 2)
<1>1. b \in Int /\ b - 1 \in T /\ b \notin T /\ b + 1 \in T
  BY RestedIsIsolated
<1>. QED
  BY <1>1

\* A streak grows by a day when nothing was missed since the last day of
\* training but a rested day, and starts again otherwise.
LEMMA RunsGrow ==
  ASSUME WindowDays \in Nat, NEW T \in SUBSET Int, IsFiniteSet(T), NEW p \in T, NEW d \in T, p < d,
         \A t \in T : t < d => t <= p
  PROVE  StreakOfTraining(T, d) =
           IF d = p + 1 \/ (d = p + 2 /\ p + 1 \in RestedDays(T)) THEN StreakOfTraining(T, p) + 1 ELSE 1
<1> DEFINE R == RestedDays(T)
<1>0. R \in SUBSET Int
  BY RestedDaysRule
<1>1. CASE d = p + 1 \/ (d = p + 2 /\ p + 1 \in R)
  <2>1. \A y \in Int : p < y /\ y <= d => y \in T \cup R
    BY <1>1
  <2>2. ASSUME NEW x \in T, x <= p
        PROVE  x .. d \subseteq T \cup R <=> x .. p \subseteq T \cup R
    BY <2>1, <2>2
  <2>3. \A x \in T : x <= d <=> x <= p \/ x = d
    OBVIOUS
  <2>4. d .. d \subseteq T \cup R
    OBVIOUS
  <2>5. RunDays(T, d) = RunDays(T, p) \cup {d}
    BY <2>2, <2>3, <2>4 DEF RunDays
  <2>6. d \notin RunDays(T, p)
    BY DEF RunDays
  <2>. QED
    BY <1>1, <2>5, <2>6, RunsAreFinite, FS_AddElement
<1>2. CASE ~ (d = p + 1 \/ (d = p + 2 /\ p + 1 \in R))
  <2>1. p + 1 < d /\ d - 1 \notin T
    BY <1>2
  <2>2. d - 1 \notin R
    <3>1. d - 1 \in R => d - 1 < p \/ (d - 1 = p + 1 /\ d = p + 2)
      BY <1>0, RestBetween
    <3>. QED  BY <1>2, <2>1, <3>1
  <2>3. ASSUME NEW x \in T, x <= d, x .. d \subseteq T \cup R
        PROVE  x = d
    <3>1. d - 1 \notin x .. d
      BY <2>1, <2>2, <2>3
    <3>. QED  BY <3>1, <2>3
  <2>5. d .. d \subseteq T \cup R
    OBVIOUS
  <2>6. d \in RunDays(T, d)
    BY <2>5 DEF RunDays
  <2>7. \A x \in RunDays(T, d) : x = d
    BY <2>3 DEF RunDays
  <2>4. RunDays(T, d) = {d}
    BY <2>6, <2>7
  <2>. QED
    BY <1>2, <2>4, RunsAreFinite, FS_Singleton
<1>. QED
  BY <1>1, <1>2

\* What Advance writes for a day, from the entry of the day of training before it, is
\* the streak of that day and the newest rest before it.
LEMMA NextEntry ==
  ASSUME WindowDays \in Nat, NEW T \in SUBSET Int, IsFiniteSet(T), NEW p \in T, NEW d \in T, p < d,
         \A t \in T : t < d => t <= p
  PROVE  EntryOf(T, d) = Advance({EntryOf(T, p)}, d)
<1> DEFINE previous == EntryOf(T, p)
           missed == d - p - 1
<1>1. (CHOOSE e \in {previous} : TRUE) = previous
  OBVIOUS
<1>2. previous.day = p /\ previous.length = StreakOfTraining(T, p) /\ previous.lastBridged = NewestRest(T, p)
  BY DEF EntryOf
<1> HIDE DEF previous
<1>3. Advance({previous}, d) =
        IF missed = 0 THEN [day |-> d, length |-> StreakOfTraining(T, p) + 1, lastBridged |-> NewestRest(T, p)]
        ELSE IF missed = 1 /\ CanBridge(p + 1, NewestRest(T, p))
        THEN [day |-> d, length |-> StreakOfTraining(T, p) + 1, lastBridged |-> {p + 1}]
        ELSE [day |-> d, length |-> 1, lastBridged |-> NewestRest(T, p)]
  BY <1>1, <1>2 DEF Advance
<1>4. \A b \in RestedDays(T) : b \in Int /\ b \notin T
  BY RestedIsIsolated
<1>5. \A b \in RestedDays(T) : b < d => b < p \/ (b = p + 1 /\ d = p + 2)
  BY RestBetween
<1>6. ASSUME ~ (d = p + 2 /\ p + 1 \in RestedDays(T))
      PROVE  NewestRest(T, d) = NewestRest(T, p)
  <2>1. \A b \in RestedDays(T) : b < d <=> b < p
    BY <1>4, <1>5, <1>6
  <2>. QED  BY <2>1 DEF NewestRest
<1>7. ASSUME d = p + 2 /\ p + 1 \in RestedDays(T)
      PROVE  NewestRest(T, d) = {p + 1}
  <2>1. \A b \in RestedDays(T) : b < d => b <= p + 1
    BY <1>4, <1>5
  <2>2. p + 1 \in NewestRest(T, d)
    BY <1>7, <2>1 DEF NewestRest
  <2>3. \A b \in NewestRest(T, d) : b = p + 1
    BY <1>7, <1>4, <2>1 DEF NewestRest
  <2>. QED  BY <2>2, <2>3
<1>8. StreakOfTraining(T, d) =
        IF d = p + 1 \/ (d = p + 2 /\ p + 1 \in RestedDays(T)) THEN StreakOfTraining(T, p) + 1 ELSE 1
  BY RunsGrow
<1>9. CASE d = p + 1
  BY <1>3, <1>6, <1>8, <1>9 DEF EntryOf, previous
<1>10. CASE d = p + 2
  <2>1. p + 1 \notin T /\ (CanBridge(p + 1, NewestRest(T, p)) <=> p + 1 \in RestedDays(T))
    BY <1>10, BridgedIsRested
  <2>2. missed = 1 /\ ~ (d = p + 1)
    BY <1>10
  <2>. QED  BY <1>3, <1>6, <1>7, <1>8, <1>10, <2>1, <2>2 DEF EntryOf, previous
<1>11. CASE d # p + 1 /\ d # p + 2
  <2>1. missed # 0 /\ missed # 1
    BY <1>11
  <2>. QED  BY <1>3, <1>6, <1>8, <1>11, <2>1 DEF EntryOf, previous
<1>. QED
  BY <1>9, <1>10, <1>11

\* The day before d of which a pass over the days in order knows.
LastBefore(T, d) == Max(Earlier(T, d))

LEMMA LastBeforeIs ==
  ASSUME NEW T \in SUBSET Int, IsFiniteSet(T), NEW d \in Int, Earlier(T, d) # {}
  PROVE  /\ LastBefore(T, d) \in T /\ LastBefore(T, d) \in Int /\ LastBefore(T, d) < d
         /\ \A t \in T : t < d => t <= LastBefore(T, d)
<1>1. Earlier(T, d) \in SUBSET Int /\ IsFiniteSet(Earlier(T, d))
  BY FS_Subset DEF Earlier
<1>2. Max(Earlier(T, d)) \in Earlier(T, d) /\ \A y \in Earlier(T, d) : y <= Max(Earlier(T, d))
  BY <1>1, LastDay
<1>. QED
  BY <1>2 DEF Earlier, LastBefore

\* A timeline written in one pass, each entry from the one before it: the entries of
\* the rule are one, and there is no other.
Follows(entry, T) ==
  entry = [d \in T |-> Advance(IF Earlier(T, d) = {} THEN {} ELSE {entry[Max(Earlier(T, d))]}, d)]

LEMMA EntriesFollow ==
  ASSUME WindowDays \in Nat, NEW T \in SUBSET Int, IsFiniteSet(T)
  PROVE  Follows([d \in T |-> EntryOf(T, d)], T)
<1> DEFINE g == [d \in T |-> EntryOf(T, d)]
<1>1. ASSUME NEW d \in T
      PROVE  g[d] = Advance(IF Earlier(T, d) = {} THEN {} ELSE {g[LastBefore(T, d)]}, d)
  <2>1. CASE Earlier(T, d) = {}
    BY <2>1, FirstEntry DEF Advance
  <2>2. CASE Earlier(T, d) # {}
    <3> DEFINE p == LastBefore(T, d)
    <3>1. p \in T /\ p < d /\ \A t \in T : t < d => t <= p
      BY <2>2, LastBeforeIs
    <3>2. EntryOf(T, d) = Advance({EntryOf(T, p)}, d)
      BY <3>1, NextEntry
    <3>. QED  BY <2>2, <3>1, <3>2
  <2>. QED  BY <2>1, <2>2
<1>. QED
  BY <1>1 DEF Follows, LastBefore

\* streak.ts: the timeline holds the streak of every day of training.
LEMMA TimelineHoldsStreaks ==
  ASSUME WindowDays \in Nat, NEW T \in SUBSET Int, IsFiniteSet(T)
  PROVE  \A d \in T : Timeline(T)[d] = EntryOf(T, d)
<1> DEFINE F == CHOOSE entry : Follows(entry, T)
<1>1. Timeline(T) = F
  BY DEF Timeline, Follows
<1>2. Follows(F, T)
  BY EntriesFollow
<1> HIDE DEF F
<1> DEFINE g == [d \in T |-> EntryOf(T, d)]
           C == {d \in T : F[d] # g[d]}
<1>3. C = {}
  <2> SUFFICES ASSUME C # {} PROVE FALSE
    OBVIOUS
  <2>1. C \in SUBSET Int /\ IsFiniteSet(C)
    BY FS_Subset
  <2>2. \E x \in C : \A y \in C : x <= y
    <3> HIDE DEF C
    <3>. QED  BY <2>1, FirstDay
  <2>3. PICK d \in C : \A y \in C : d <= y
    BY <2>2
  <2>4. /\ F[d] = Advance(IF Earlier(T, d) = {} THEN {} ELSE {F[LastBefore(T, d)]}, d)
        /\ g[d] = Advance(IF Earlier(T, d) = {} THEN {} ELSE {g[LastBefore(T, d)]}, d)
    BY <1>2, <2>3, EntriesFollow DEF Follows, LastBefore
  <2>5. Earlier(T, d) # {} => F[LastBefore(T, d)] = g[LastBefore(T, d)]
    <3> SUFFICES ASSUME Earlier(T, d) # {}
                 PROVE  F[LastBefore(T, d)] = g[LastBefore(T, d)]
      OBVIOUS
    <3>1. LastBefore(T, d) \in T /\ LastBefore(T, d) < d /\ LastBefore(T, d) \in Int
      BY LastBeforeIs, <2>3
    <3>2. LastBefore(T, d) \notin C
      BY <3>1, <2>1, <2>3
    <3>. QED  BY <3>1, <3>2
  <2>. QED  BY <2>3, <2>4, <2>5
<1>. QED
  BY <1>1, <1>3

LEMMA EarlierWith ==
  ASSUME NEW T \in SUBSET Int, NEW d \in Int, NEW p \in Int, p <= d
  PROVE  Earlier(T \cup {d}, p) = Earlier(T, p)
  BY DEF Earlier

\* streak.ts: what the timeline answers for any day.
LEMMA StreakOnIs ==
  ASSUME WindowDays \in Nat, NEW T \in SUBSET Int, IsFiniteSet(T), NEW d \in Int
  PROVE  StreakOn(T, d) =
           IF d \in T THEN StreakOfTraining(T, d) ELSE StreakOfTraining(T \cup {d}, d) - 1
<1>1. CASE d \in T
  <2>1. StreakOn(T, d) = Timeline(T)[d].length
    BY <1>1 DEF StreakOn
  <2>2. Timeline(T)[d] = EntryOf(T, d)
    BY <1>1, TimelineHoldsStreaks
  <2>. QED  BY <1>1, <2>1, <2>2 DEF EntryOf
<1>2. CASE d \notin T
  <2> DEFINE U == T \cup {d}
  <2>1. U \in SUBSET Int /\ IsFiniteSet(U) /\ d \in U /\ Earlier(U, d) = Earlier(T, d)
    BY FS_AddElement, EarlierWith
  <2>2. CASE Earlier(T, d) = {}
    <3>1. StreakOn(T, d) = 0
      BY <1>2, <2>2 DEF StreakOn
    <3>2. EntryOf(U, d).length = 1
      BY <2>1, <2>2, FirstEntry
    <3>. QED  BY <1>2, <3>1, <3>2 DEF EntryOf
  <2>3. CASE Earlier(T, d) # {}
    <3> DEFINE p == LastBefore(T, d)
    <3>1. p \in T /\ p \in Int /\ p < d /\ \A t \in T : t < d => t <= p
      BY <2>3, LastBeforeIs
    <3>2. Max(Earlier(T, d)) = p
      BY DEF LastBefore
    <3> HIDE DEF p
    <3>3. \A x \in Int : x <= p => (x \in T <=> x \in U)
      BY <3>1
    <3>4. StreakOfTraining(T, p) = StreakOfTraining(U, p)
      BY <3>1, <3>3, <2>1, RunsAreLocal
    <3>5. \A m \in Int : m < p => (m \in RestedDays(T) <=> m \in RestedDays(U))
      BY <3>1, <3>3, <2>1, RestedLocally
    <3>6. RestedDays(T) \in SUBSET Int /\ RestedDays(U) \in SUBSET Int
      BY <2>1, RestedDaysRule
    <3>7. NewestRest(T, p) = NewestRest(U, p)
      BY <3>5, <3>6 DEF NewestRest
    <3>8. EntryOf(T, p) = EntryOf(U, p)
      BY <3>4, <3>7 DEF EntryOf
    <3>9. EntryOf(U, d) = Advance({EntryOf(U, p)}, d)
      <4>1. p \in U /\ \A t \in U : t < d => t <= p
        BY <3>1
      <4>. QED  BY <2>1, <3>1, <4>1, NextEntry
    <3> DEFINE last == EntryOf(T, p)
    <3>10. Timeline(T)[p] = last /\ last.day = p /\ last.length \in Nat
      BY <3>1, TimelineHoldsStreaks, RunsAreFinite DEF EntryOf
    <3> HIDE DEF last
    <3>11. (CHOOSE e \in {last} : TRUE) = last
      OBVIOUS
    <3>12. StreakOn(T, d) =
             IF d - p - 1 = 0 \/ (d - p - 1 = 1 /\ CanBridge(p + 1, last.lastBridged)) THEN last.length ELSE 0
      BY <1>2, <2>3, <3>2, <3>10 DEF StreakOn
    <3>13. Advance({last}, d).length =
             IF d - p - 1 = 0 \/ (d - p - 1 = 1 /\ CanBridge(p + 1, last.lastBridged)) THEN last.length + 1 ELSE 1
      BY <3>10, <3>11 DEF Advance
    <3>14. StreakOfTraining(U, d) = Advance({last}, d).length
      BY <3>8, <3>9 DEF last, EntryOf
    <3>. QED  BY <1>2, <3>10, <3>12, <3>13, <3>14
  <2>. QED  BY <2>2, <2>3
<1>. QED
  BY <1>1, <1>2

----------------------------------------------------------------------------
(* What the card of a log is made of *)

\* A log that can be rated: finitely many events, on days, of skills there are.
LogTyped(E) ==
  /\ IsFiniteSet(E)
  /\ \A e \in E : e.day \in Int /\ e.at \in Int /\ (e.type # "void" => e.skill \in Skills)

LEMMA TrainingDaysAreDays ==
  ASSUME NEW E, LogTyped(E)
  PROVE  TrainingDays(E) \in SUBSET Int /\ IsFiniteSet(TrainingDays(E))
<1> DEFINE S == {f \in Counted(E) : f.type = "drill_completed"}
           f == [e \in S |-> e.day]
<1>1. IsFiniteSet(S)
  BY FS_Subset DEF LogTyped, Counted
<1>2. f \in Surjection(S, TrainingDays(E))
  BY DEF Surjection, TrainingDays
<1>3. IsFiniteSet(TrainingDays(E))
  BY <1>1, <1>2, FS_Surjection
<1>. QED
  BY <1>3 DEF TrainingDays, Counted, LogTyped

LEMMA StreaksCountToday ==
  ASSUME NEW T \in SUBSET Int, IsFiniteSet(T), NEW d \in T
  PROVE  StreakOfTraining(T, d) >= 1
<1>1. d \in RunDays(T, d)
  BY DEF RunDays
<1>2. Cardinality(RunDays(T, d)) # 0
  BY <1>1, RunsAreFinite, FS_EmptySet
<1>. QED
  BY <1>2, RunsAreFinite

\* A day of training adds to the streaks of no day before it, and takes from none.
LEMMA StreaksGrow ==
  ASSUME WindowDays \in Nat, NEW T \in SUBSET Int, IsFiniteSet(T), NEW D \in Int,
         \A t \in T : t <= D, NEW d \in Int, d <= D
  PROVE  /\ StreakOn(T, d) \in Nat
         /\ StreakOn(T \cup {D}, d) \in Nat
         /\ StreakOn(T, d) <= StreakOn(T \cup {D}, d)
<1> DEFINE U == T \cup {D}
<1>1. U \in SUBSET Int /\ IsFiniteSet(U)
  BY FS_AddElement
<1>2. ASSUME NEW V \in SUBSET Int, IsFiniteSet(V)
      PROVE  StreakOn(V, d) \in Nat
  <2>1. V \cup {d} \in SUBSET Int /\ IsFiniteSet(V \cup {d}) /\ d \in V \cup {d}
    BY <1>2, FS_AddElement
  <2>2. StreakOfTraining(V \cup {d}, d) \in Nat /\ StreakOfTraining(V \cup {d}, d) >= 1
    BY <2>1, RunsAreFinite, StreaksCountToday
  <2>3. StreakOfTraining(V, d) \in Nat
    BY <1>2, RunsAreFinite
  <2>. QED  BY <1>2, <2>2, <2>3, StreakOnIs
<1>3. CASE d = D /\ D \notin T
  <2>1. StreakOn(T, d) = StreakOfTraining(U, d) - 1 /\ StreakOn(U, d) = StreakOfTraining(U, d)
    BY <1>1, <1>3, StreakOnIs
  <2>. QED  BY <1>1, <1>2, <2>1
<1>4. CASE d = D /\ D \in T
  <2>1. U = T
    BY <1>4
  <2>. QED  BY <1>2, <2>1
<1>5. CASE d < D
  <2>1. d \in T <=> d \in U
    BY <1>5
  <2>2. CASE d \in T
    <3>1. StreakOfTraining(T, d) = StreakOfTraining(U, d)
      BY <1>1, <1>5, <2>2, RunsAreLocal
    <3>. QED  BY <1>1, <1>2, <2>1, <2>2, <3>1, StreakOnIs
  <2>3. CASE d \notin T
    <3>1. /\ T \cup {d} \in SUBSET Int /\ IsFiniteSet(T \cup {d})
          /\ U \cup {d} \in SUBSET Int /\ IsFiniteSet(U \cup {d})
          /\ d \in T \cup {d}
      BY <1>1, FS_AddElement
    <3>2. \A x \in Int : x <= d => (x \in T \cup {d} <=> x \in U \cup {d})
      BY <1>5
    <3>3. StreakOfTraining(T \cup {d}, d) = StreakOfTraining(U \cup {d}, d)
      BY <3>1, <3>2, RunsAreLocal
    <3>. QED  BY <1>1, <1>2, <2>1, <2>3, <3>3, StreakOnIs
  <2>. QED  BY <2>2, <2>3
<1>. QED
  BY <1>3, <1>4, <1>5

\* A longer streak multiplies by no less.
LEMMA MultipliersGrow ==
  ASSUME NEW m \in Nat, NEW n \in Nat, m <= n
  PROVE  StreakMultiplier(m) \in 4 .. 8 /\ StreakMultiplier(m) <= StreakMultiplier(n)
<1>1. ASSUME NEW k \in Nat
      PROVE  StreakMultiplier(k) = IF k >= 30 THEN 8 ELSE IF k >= 14 THEN 7 ELSE IF k >= 7 THEN 6
                                   ELSE IF k >= 3 THEN 5 ELSE 4
  <2> DEFINE reached == {i \in DOMAIN StreakTable : k >= StreakTable[i].minDays}
             top == IF k >= 30 THEN 5 ELSE IF k >= 14 THEN 4 ELSE IF k >= 7 THEN 3 ELSE IF k >= 3 THEN 2 ELSE 1
  <2>1. DOMAIN StreakTable = 1 .. 5
    BY DEF StreakTable
  <2>2. /\ StreakTable[1].minDays = 1 /\ StreakTable[2].minDays = 3 /\ StreakTable[3].minDays = 7
        /\ StreakTable[4].minDays = 14 /\ StreakTable[5].minDays = 30
        /\ StreakTable[1].quarters = 4 /\ StreakTable[2].quarters = 5 /\ StreakTable[3].quarters = 6
        /\ StreakTable[4].quarters = 7 /\ StreakTable[5].quarters = 8
    BY DEF StreakTable
  <2>3. StreakMultiplier(k) = IF reached = {} THEN StreakTable[1].quarters ELSE StreakTable[Max(reached)].quarters
    BY DEF StreakMultiplier
  <2>4. CASE k = 0
    <3>1. reached = {}
      BY <2>1, <2>2, <2>4
    <3>. QED  BY <2>2, <2>3, <2>4, <3>1
  <2>5. CASE k >= 1
    <3>1. top \in reached /\ \A i \in reached : i <= top /\ i \in Int
      BY <2>1, <2>2, <2>5
    <3>2. top \in Int /\ reached # {}
      BY <3>1
    <3>4. reached \in SUBSET Int
      BY <3>1
    <3> HIDE DEF reached, top
    <3>3. Max(reached) = top
      BY <3>1, <3>4, LastIs
    <3>. QED  BY <2>2, <2>3, <3>2, <3>3 DEF top
  <2>. QED  BY <2>4, <2>5
<1>. QED
  BY <1>1

\* A floored mean is a whole number, and no less over more.
LEMMA MeansGrow ==
  ASSUME NEW n \in Nat, NEW a \in Nat, NEW b \in Nat, a <= b
  PROVE  FloorMean(n, a) \in Nat /\ FloorMean(n, a) <= FloorMean(n, b)
<1>1. CASE n = 0
  BY <1>1 DEF FloorMean
<1>2. CASE n # 0
  <2> DEFINE q == a \div n
             r == b \div n
  <2>1. q \in Int /\ n * q <= a /\ a < n * (q + 1)
    BY <1>2
  <2>2. r \in Int /\ n * r <= b /\ b < n * (r + 1)
    BY <1>2
  <2>3. FloorMean(n, a) = q /\ FloorMean(n, b) = r
    BY <1>2 DEF FloorMean
  <2> HIDE DEF q, r
  <2>4. q >= 0
    <3> SUFFICES ASSUME q + 1 <= 0 PROVE FALSE
      BY <2>1
    <3>1. n * (q + 1) <= 0
      BY <2>1
    <3>. QED  BY <2>1, <3>1
  <2>5. q <= r
    <3> SUFFICES ASSUME r + 1 <= q PROVE FALSE
      BY <2>1, <2>2
    <3>1. n * (r + 1) <= n * q
      BY <2>1, <2>2
    <3>. QED  BY <2>1, <2>2, <3>1
  <2>. QED  BY <2>1, <2>2, <2>3, <2>4, <2>5
<1>. QED
  BY <1>1, <1>2

----------------------------------------------------------------------------
(* A log, and the same without its latest event *)

\* Take the latest event out of a log: the others count as they did, the days of
\* training lose at most that day, and none of them comes after it.
LEMMA LogsGrow ==
  ASSUME NEW L, LogTyped(L), NEW e \in L, e.type # "void",
         \A f \in L \ {e} : f.at < e.at /\ f.day <= e.day
  PROVE  /\ LogTyped(L \ {e})
         /\ \A f \in L \ {e} : f \in Counted(L) <=> f \in Counted(L \ {e})
         /\ \/ TrainingDays(L) = TrainingDays(L \ {e})
            \/ TrainingDays(L) = TrainingDays(L \ {e}) \cup {e.day}
         /\ \A t \in TrainingDays(L \ {e}) : t <= e.day
<1> DEFINE B == L \ {e}
<1>1. LogTyped(B)
  BY FS_Subset DEF LogTyped
<1>2. \A f \in B : f \in Counted(L) <=> f \in Counted(B)
  BY DEF Counted
<1>3. Counted(L) \subseteq L /\ Counted(B) \subseteq B
  BY DEF Counted
<1>4. CASE e \in Counted(L) /\ e.type = "drill_completed"
  <2>1. {f \in Counted(L) : f.type = "drill_completed"} = {f \in Counted(B) : f.type = "drill_completed"} \cup {e}
    BY <1>2, <1>3, <1>4
  <2>2. TrainingDays(L) = TrainingDays(B) \cup {e.day}
    BY <2>1 DEF TrainingDays
  <2>. QED  BY <1>1, <1>2, <1>3, <2>2 DEF TrainingDays
<1>5. CASE ~ (e \in Counted(L) /\ e.type = "drill_completed")
  <2>1. {f \in Counted(L) : f.type = "drill_completed"} = {f \in Counted(B) : f.type = "drill_completed"}
    BY <1>2, <1>3, <1>5
  <2>2. TrainingDays(L) = TrainingDays(B)
    BY <2>1 DEF TrainingDays
  <2>. QED  BY <1>1, <1>2, <1>3, <2>2 DEF TrainingDays
<1>. QED
  BY <1>4, <1>5

LEMMA BasePointsTyped ==
  ASSUME NEW e, e.type # "void" => e.skill \in Skills, e.type # "void"
  PROVE  BasePoints(e) \in Nat
<1>1. Taxonomy[e.skill].tier \in 1 .. 4
  BY SkillAssumption DEF Skills
<1>2. \A i \in 1 .. 4 : TierPoints[i] \in Nat
  BY DEF TierPoints
<1>. QED
  BY <1>1, <1>2 DEF BasePoints

LEMMA ProductsGrow ==
  ASSUME NEW p \in Nat, NEW m \in Nat, NEW n \in Nat, m <= n
  PROVE  p * m \in Nat /\ p * m <= p * n
  OBVIOUS

\* What an event earns is no less in the longer log: its streak, and so its multiplier,
\* only grew.
LEMMA EventPointsGrow ==
  ASSUME NEW L, LogTyped(L), NEW e \in L, e.type # "void",
         \A f \in L \ {e} : f.at < e.at /\ f.day <= e.day, NEW g \in Counted(L)
  PROVE  /\ EventPoints(L, g) \in Nat
         /\ EventPoints(L \ {e}, g) \in Nat
         /\ EventPoints(L \ {e}, g) <= EventPoints(L, g)
<1> DEFINE B == L \ {e}
           T == TrainingDays(B)
           U == TrainingDays(L)
<1>1. g \in L /\ g.type # "void" /\ g.day \in Int /\ g.day <= e.day /\ e.day \in Int /\ BasePoints(g) \in Nat
  BY BasePointsTyped DEF Counted, LogTyped
<1>2. T \in SUBSET Int /\ IsFiniteSet(T) /\ (\A t \in T : t <= e.day) /\ (U = T \/ U = T \cup {e.day})
  BY LogsGrow, TrainingDaysAreDays
<1> HIDE DEF T, U
<1>3. StreakOn(T, g.day) \in Nat /\ StreakOn(U, g.day) \in Nat /\ StreakOn(T, g.day) <= StreakOn(U, g.day)
  <2>1. WindowDays \in Nat
    BY SkillAssumption
  <2>2. /\ StreakOn(T, g.day) \in Nat /\ StreakOn(T \cup {e.day}, g.day) \in Nat
        /\ StreakOn(T, g.day) <= StreakOn(T \cup {e.day}, g.day)
    BY <1>1, <1>2, <2>1, StreaksGrow
  <2>. QED  BY <1>2, <2>2
<1> DEFINE m == StreakMultiplier(StreakOn(T, g.day))
           n == StreakMultiplier(StreakOn(U, g.day))
<1>4. m \in Nat /\ n \in Nat /\ m <= n
  BY <1>3, MultipliersGrow
<1>5. /\ EventPoints(B, g) = BasePoints(g) * (IF g.type \in StreakMultiplied THEN m ELSE 4)
      /\ EventPoints(L, g) = BasePoints(g) * (IF g.type \in StreakMultiplied THEN n ELSE 4)
  BY DEF EventPoints, T, U
<1> HIDE DEF m, n
<1>. QED
  BY <1>1, <1>4, <1>5, ProductsGrow

\* What earned points still does.
LEMMA MoreEarns ==
  ASSUME NEW L, LogTyped(L), NEW e \in L, e.type # "void",
         \A f \in L \ {e} : f.at < e.at /\ f.day <= e.day, NEW s
  PROVE  Earning(L \ {e}, s) \subseteq Earning(L, s)
<1> SUFFICES ASSUME NEW g \in Earning(L \ {e}, s) PROVE g \in Earning(L, s)
  OBVIOUS
<1>1. g \in L \ {e} /\ g \in Counted(L \ {e}) /\ g \in Counted(L) /\ g.at < e.at
  BY LogsGrow DEF Earning, Counted
<1>2. Counted(L) \subseteq Counted(L \ {e}) \cup {e}
  BY LogsGrow DEF Counted
<1>3. Earns(L, g)
  BY <1>1, <1>2 DEF Earning, Earns, Before
<1>. QED
  BY <1>1, <1>3 DEF Earning

LEMMA UnitsGrow ==
  ASSUME NEW S, NEW T, IsFiniteSet(T), S \subseteq T, NEW f \in [S -> Nat], NEW g \in [T -> Nat],
         \A x \in S : f[x] <= g[x]
  PROVE  /\ Cardinality(Units(f, S)) \in Nat /\ Cardinality(Units(g, T)) \in Nat
         /\ Cardinality(Units(f, S)) <= Cardinality(Units(g, T))
<1>1. Units(f, S) \subseteq Units(g, T)
  <2> SUFFICES ASSUME NEW x \in S, NEW k \in Nat, k \in 1 .. f[x] PROVE k \in 1 .. g[x] /\ x \in T
    BY DEF Units
  <2>. QED  OBVIOUS
<1>2. IsFiniteSet(Units(g, T)) /\ Cardinality(Units(g, T)) \in Nat
  BY UnitsAreSummed
<1>. QED
  BY <1>1, <1>2, FS_Subset, FS_CardinalityType

\* rate.ts: the points of a skill only grow with a later event.
LEMMA SkillPointsGrow ==
  ASSUME NEW L, LogTyped(L), NEW e \in L, e.type # "void",
         \A f \in L \ {e} : f.at < e.at /\ f.day <= e.day, NEW s
  PROVE  /\ SkillPoints(L, s) \in Nat /\ SkillPoints(L \ {e}, s) \in Nat
         /\ SkillPoints(L \ {e}, s) <= SkillPoints(L, s)
<1> DEFINE B == L \ {e}
           S == Earning(B, s)
           T == Earning(L, s)
           f == [g \in S |-> EventPoints(B, g)]
           h == [g \in T |-> EventPoints(L, g)]
<1>1. IsFiniteSet(L) /\ IsFiniteSet(B) /\ IsFiniteSet(T) /\ S \subseteq T /\ T \subseteq Counted(L)
  BY MoreEarns, FS_Subset DEF LogTyped, Earning, Counted
<1>2. \A g \in T : EventPoints(L, g) \in Nat /\ EventPoints(B, g) \in Nat /\ EventPoints(B, g) <= EventPoints(L, g)
  BY <1>1, EventPointsGrow
<1>3. SkillPoints(B, s) = Cardinality(Units(f, S))
  BY <1>1, <1>2, PointsAreCounted
<1>4. SkillPoints(L, s) = Cardinality(Units(h, T))
  BY <1>1, <1>2, PointsAreCounted
<1>5. f \in [S -> Nat] /\ h \in [T -> Nat] /\ \A g \in S : f[g] <= h[g]
  BY <1>1, <1>2
<1> HIDE DEF S, T, f, h
<1>. QED
  BY <1>1, <1>3, <1>4, <1>5, UnitsGrow

\* More points are never a lower rating, in any tier.
LEMMA RatingsGrow ==
  ASSUME NEW p \in Nat, NEW q \in Nat, p <= q, NEW t \in 1 .. 4
  PROVE  /\ RatingFromPoints(p, RatingConstants[t]) \in Nat
         /\ RatingFromPoints(q, RatingConstants[t]) \in Nat
         /\ RatingFromPoints(p, RatingConstants[t]) <= RatingFromPoints(q, RatingConstants[t])
<1> DEFINE k == RatingConstants[t]
           P == {r \in 1 .. 99 : 100000 * p >= 4 * k * Logarithms[r]}
           Q == {r \in 1 .. 99 : 100000 * q >= 4 * k * Logarithms[r]}
<1>1. k \in Nat
  BY DEF RatingConstants
<1> HIDE DEF k
<1>2. \A r \in 1 .. 99 : 4 * k * Logarithms[r] \in Nat
  BY <1>1, SkillAssumption
<1>3. P \subseteq Q /\ Q \subseteq 1 .. 99
  BY <1>2
<1>4. IsFiniteSet(Q) /\ IsFiniteSet(P) /\ Cardinality(P) <= Cardinality(Q)
  <2>0. 1 \in Int /\ 99 \in Int
    OBVIOUS
  <2>1. IsFiniteSet(1 .. 99)
    BY <2>0, FS_Interval, Zenon
  <2> HIDE DEF P, Q
  <2>2. IsFiniteSet(Q)
    BY <1>3, <2>1, FS_Subset
  <2>. QED  BY <1>3, <2>2, FS_Subset
<1>. QED
  BY <1>4, FS_CardinalityType DEF RatingFromPoints, k

LEMMA RatedIsFinite ==
  /\ IsFiniteSet(Skills)
  /\ \A area : IsFiniteSet(Rated(area)) /\ Rated(area) \subseteq Skills /\ Cardinality(Rated(area)) \in Nat
  /\ IsFiniteSet(Areas) /\ Cardinality(Areas) \in Nat
<1>1. IsFiniteSet(Skills)
  BY SkillAssumption DEF Skills
<1>2. \A area : IsFiniteSet(Rated(area)) /\ Rated(area) \subseteq Skills /\ Cardinality(Rated(area)) \in Nat
  BY <1>1, FS_Subset, FS_CardinalityType DEF Rated
<1> DEFINE A == {Taxonomy[s].area : s \in Skills}
           f == [s \in Skills |-> Taxonomy[s].area]
<1>3. f \in Surjection(Skills, A)
  BY DEF Surjection
<1>4. IsFiniteSet(A)
  BY <1>1, <1>3, FS_Surjection
<1>5. IsFiniteSet(Areas)
  BY <1>4, FS_Subset DEF Areas
<1>. QED
  BY <1>1, <1>2, <1>5, FS_CardinalityType

\* An area's mean and the card's are means of counted units.
LEMMA AreaSum ==
  ASSUME NEW ratings \in [Skills -> Nat], NEW area
  PROVE  MapThenSumSet(LAMBDA s : ratings[s], Rated(area))
           = Cardinality(Units([s \in Rated(area) |-> ratings[s]], Rated(area)))
<1> DEFINE S == Rated(area)
           f == [s \in S |-> ratings[s]]
           Step(g) == [t \in SUBSET S |->
                        IF t = {} THEN 0
                        ELSE ratings[CHOOSE x \in t : TRUE] + g[t \ {CHOOSE x \in t : TRUE}]]
           iter == CHOOSE g : g = Step(g)
<1>1. IsFiniteSet(S) /\ f \in [S -> Nat]
  BY RatedIsFinite
<1>2. MapThenSumSet(LAMBDA s : ratings[s], Rated(area)) = iter[S]
  BY DEF MapThenSumSet, MapThenFoldSet
<1>3. \A g : g = Step(g) <=> SumsUp(g, S, f)
  BY DEF Summed, SumsUp
<1> HIDE DEF S, f, Step
<1>4. SumsUp(iter, S, f)
  BY <1>1, <1>3, SumIsCount
<1> HIDE DEF iter
<1>5. iter[S] = Cardinality(Units(f, S))
  BY <1>1, <1>4, SumIsCount
<1>. QED
  BY <1>2, <1>5 DEF S, f

LEMMA AreasGrow ==
  ASSUME NEW r \in [Skills -> Nat], NEW q \in [Skills -> Nat], \A s \in Skills : r[s] <= q[s], NEW area
  PROVE  /\ AreaRating(r, area) \in Nat /\ AreaRating(q, area) \in Nat
         /\ AreaRating(r, area) <= AreaRating(q, area)
<1> DEFINE S == Rated(area)
           f == [s \in S |-> r[s]]
           g == [s \in S |-> q[s]]
<1>1. IsFiniteSet(S) /\ Cardinality(S) \in Nat /\ f \in [S -> Nat] /\ g \in [S -> Nat] /\ \A s \in S : f[s] <= g[s]
  BY RatedIsFinite
<1>2. /\ AreaRating(r, area) = FloorMean(Cardinality(S), Cardinality(Units(f, S)))
      /\ AreaRating(q, area) = FloorMean(Cardinality(S), Cardinality(Units(g, S)))
  BY AreaSum DEF AreaRating
<1> HIDE DEF S, f, g
<1>3. /\ Cardinality(Units(f, S)) \in Nat /\ Cardinality(Units(g, S)) \in Nat
      /\ Cardinality(Units(f, S)) <= Cardinality(Units(g, S))
  BY <1>1, UnitsGrow
<1>4. \A a, b \in Nat : a <= b => FloorMean(Cardinality(S), a) \in Nat
            /\ FloorMean(Cardinality(S), a) <= FloorMean(Cardinality(S), b)
  BY <1>1, MeansGrow
<1>. QED
  BY <1>2, <1>3, <1>4

LEMMA OverallSum ==
  ASSUME NEW ratings, \A a \in Areas : AreaRating(ratings, a) \in Nat
  PROVE  Overall(ratings) = FloorMean(Cardinality(Areas),
           Cardinality(Units([a \in Areas |-> AreaRating(ratings, a)], Areas)))
<1> DEFINE S == Areas
           f == [a \in S |-> AreaRating(ratings, a)]
           Step(g) == [t \in SUBSET S |->
                        IF t = {} THEN 0
                        ELSE AreaRating(ratings, CHOOSE x \in t : TRUE) + g[t \ {CHOOSE x \in t : TRUE}]]
           iter == CHOOSE g : g = Step(g)
<1>1. IsFiniteSet(S) /\ f \in [S -> Nat]
  BY RatedIsFinite
<1>2. Overall(ratings) = FloorMean(Cardinality(S), iter[S])
  BY DEF Overall, MapThenSumSet, MapThenFoldSet
<1>3. \A g : g = Step(g) <=> SumsUp(g, S, f)
  BY DEF Summed, SumsUp
<1> HIDE DEF S, f, Step
<1>4. SumsUp(iter, S, f)
  BY <1>1, <1>3, SumIsCount
<1> HIDE DEF iter
<1>5. iter[S] = Cardinality(Units(f, S))
  BY <1>1, <1>4, SumIsCount
<1>. QED
  BY <1>2, <1>5 DEF S, f

LEMMA OverallGrows ==
  ASSUME NEW r \in [Skills -> Nat], NEW q \in [Skills -> Nat], \A s \in Skills : r[s] <= q[s]
  PROVE  Overall(r) \in Nat /\ Overall(q) \in Nat /\ Overall(r) <= Overall(q)
<1> DEFINE f == [a \in Areas |-> AreaRating(r, a)]
           g == [a \in Areas |-> AreaRating(q, a)]
<1>1. IsFiniteSet(Areas) /\ Cardinality(Areas) \in Nat /\ f \in [Areas -> Nat] /\ g \in [Areas -> Nat]
      /\ \A a \in Areas : f[a] <= g[a]
  BY RatedIsFinite, AreasGrow
<1>2. /\ Overall(r) = FloorMean(Cardinality(Areas), Cardinality(Units(f, Areas)))
      /\ Overall(q) = FloorMean(Cardinality(Areas), Cardinality(Units(g, Areas)))
  BY AreasGrow, OverallSum
<1> HIDE DEF f, g
<1>3. /\ Cardinality(Units(f, Areas)) \in Nat /\ Cardinality(Units(g, Areas)) \in Nat
      /\ Cardinality(Units(f, Areas)) <= Cardinality(Units(g, Areas))
  BY <1>1, UnitsGrow
<1>4. \A a, b \in Nat : a <= b => FloorMean(Cardinality(Areas), a) \in Nat
            /\ FloorMean(Cardinality(Areas), a) <= FloorMean(Cardinality(Areas), b)
  BY <1>1, MeansGrow
<1>. QED
  BY <1>2, <1>3, <1>4

----------------------------------------------------------------------------
(* Practice, and its undoing *)

\* A log is a finite set of events on days, of skills that are rated.
SkillInv == LogTyped(skillEvents)

LEMMA SkillInitInv == SkillInit \/ skillEvents = {} => SkillInv
<1>1. ASSUME skillEvents = {} PROVE SkillInv
  BY <1>1, FS_EmptySet DEF SkillInv, LogTyped
<1>2. ASSUME SkillInit PROVE SkillInv
  <2>1. PICK T \in SUBSET PracticeDays :
          skillEvents = {[id |-> d, at |-> d, day |-> d, type |-> "drill_completed",
                          skill |-> FirstSkill, source |-> NoSource] : d \in T}
    BY <1>2 DEF SkillInit
  <2> DEFINE f == [d \in T |-> [id |-> d, at |-> d, day |-> d, type |-> "drill_completed",
                                skill |-> FirstSkill, source |-> NoSource]]
  <2>2. IsFiniteSet(T)
    BY SkillAssumption, FS_Subset
  <2>3. f \in Surjection(T, skillEvents)
    BY <2>1 DEF Surjection
  <2>4. IsFiniteSet(skillEvents)
    BY <2>2, <2>3, FS_Surjection
  <2>. QED  BY <2>1, <2>4, SkillAssumption DEF SkillInv, LogTyped, Skills
<1>. QED
  BY <1>1, <1>2

LEMMA LatestIsAMoment ==
  ASSUME SkillInv PROVE Latest \in Int
<1> DEFINE S == {e.at : e \in skillEvents}
           f == [e \in skillEvents |-> e.at]
<1>1. f \in Surjection(skillEvents, S)
  BY DEF Surjection
<1>2. IsFiniteSet(S)
  BY <1>1, FS_Surjection DEF SkillInv, LogTyped
<1>3. S \in SUBSET Int
  BY DEF SkillInv, LogTyped
<1> HIDE DEF S
<1>4. IsFiniteSet({0} \cup S) /\ {0} \cup S \in SUBSET Int /\ {0} \cup S # {}
  <2>1. IsFiniteSet(S \cup {0}) /\ S \cup {0} = {0} \cup S
    BY <1>2, FS_AddElement
  <2>. QED  BY <1>3, <2>1
<1>5. Max({0} \cup S) \in {0} \cup S
  BY <1>4, LastDay
<1>. QED
  BY <1>4, <1>5 DEF Latest, S

LEMMA SkillNextInv ==
  ASSUME SkillInv, [SkillNext]_skillEvents PROVE SkillInv'
<1>1. CASE UNCHANGED skillEvents
  BY <1>1 DEF SkillInv
<1>2. ASSUME NEW e, skillEvents' = skillEvents \cup {e}, e.day \in Int, e.at \in Int,
             e.type # "void" => e.skill \in Skills
      PROVE  SkillInv'
  <2>1. IsFiniteSet(skillEvents \cup {e})
    BY FS_AddElement DEF SkillInv, LogTyped
  <2>. QED  BY <1>2, <2>1 DEF SkillInv, LogTyped
<1>3. CASE AppendEvent
  <2>1. PICK o \in Offered, at \in {0, Latest + 1} :
          skillEvents' = skillEvents \cup
            {[id |-> NewId, at |-> at, day |-> o.day, type |-> o.type, skill |-> o.skill, source |-> o.source]}
    BY <1>3 DEF AppendEvent
  <2>2. at \in Int /\ o.day \in Int /\ o.skill \in Skills
    BY LatestIsAMoment, SkillAssumption DEF Skills
  <2> DEFINE e == [id |-> NewId, at |-> at, day |-> o.day, type |-> o.type, skill |-> o.skill, source |-> o.source]
  <2>3. skillEvents' = skillEvents \cup {e} /\ e.day \in Int /\ e.at \in Int /\ (e.type # "void" => e.skill \in Skills)
    BY <2>1, <2>2
  <2> HIDE DEF e
  <2>. QED  BY <1>2, <2>3
<1>4. CASE AppendVoid
  <2>1. PICK e \in skillEvents :
          skillEvents' = skillEvents \cup
            {[id |-> NewId, at |-> Latest + 1, day |-> Latest + 1, type |-> "void", voids |-> e.id]}
    BY <1>4 DEF AppendVoid
  <2> DEFINE f == [id |-> NewId, at |-> Latest + 1, day |-> Latest + 1, type |-> "void", voids |-> e.id]
  <2>2. skillEvents' = skillEvents \cup {f} /\ f.day \in Int /\ f.at \in Int /\ (f.type # "void" => f.skill \in Skills)
    BY <2>1, LatestIsAMoment
  <2> HIDE DEF f
  <2>. QED  BY <1>2, <2>2
<1>. QED
  BY <1>1, <1>3, <1>4 DEF SkillNext

\* streak.ts: whatever was done and voided, the one-pass timeline finds the streaks
\* the rule of the rested days gives, on every day.
THEOREM TimelineIsTheRule == SkillSpec => []StreaksAreRuns
<1>1. SkillInv => StreaksAreRuns
  <2> SUFFICES ASSUME SkillInv PROVE StreaksAreRuns
    OBVIOUS
  <2> DEFINE T == TrainingDays(skillEvents)
             Days == PracticeDays \cup {Max(PracticeDays) + i : i \in 1 .. 2}
  <2>1. T \in SUBSET Int /\ IsFiniteSet(T) /\ WindowDays \in Nat
    BY TrainingDaysAreDays, SkillAssumption DEF SkillInv
  <2>2. PracticeDays \in SUBSET Int /\ Max(PracticeDays) \in Int
    BY SkillAssumption, LastDay
  <2>3. Days \subseteq Int
    BY <2>2
  <2> HIDE DEF T, Days
  <2>4. \A d \in Days : StreakOn(T, d) = IF d \in T THEN StreakOfTraining(T, d)
                                         ELSE StreakOfTraining(T \cup {d}, d) - 1
    BY <2>1, <2>3, StreakOnIs
  <2>. QED  BY <2>4 DEF StreaksAreRuns, T, Days
<1>. QED
  BY <1>1, SkillInitInv, SkillNextInv, PTL DEF SkillSpec

\* rate.ts: what is done last never lowers a skill's points, a rating or the card.
THEOREM RatingsNeverDecay == SkillSpec => []RatingNeverDecays
<1>1. SkillInv => RatingNeverDecays
  <2> SUFFICES ASSUME SkillInv, NEW e \in skillEvents, e.type # "void",
                      \A f \in skillEvents \ {e} : f.at < e.at /\ f.day <= e.day
               PROVE  LET before == skillEvents \ {e}
                          were == SkillRatings(before)
                          are == SkillRatings(skillEvents)
                      IN  /\ \A s \in Skills :
                               SkillPoints(skillEvents, s) >= SkillPoints(before, s) /\ are[s] >= were[s]
                          /\ \A a \in Areas : AreaRating(are, a) >= AreaRating(were, a)
                          /\ Overall(are) >= Overall(were)
    BY Zenon DEF RatingNeverDecays
  <2> DEFINE before == skillEvents \ {e}
             were == SkillRatings(before)
             are == SkillRatings(skillEvents)
  <2>1. \A s \in Skills : /\ SkillPoints(skillEvents, s) \in Nat /\ SkillPoints(before, s) \in Nat
                          /\ SkillPoints(before, s) <= SkillPoints(skillEvents, s)
    BY SkillPointsGrow DEF SkillInv
  <2>2. \A s \in Skills : Taxonomy[s].tier \in 1 .. 4
    BY SkillAssumption DEF Skills
  <2>3. /\ were \in [Skills -> Nat] /\ are \in [Skills -> Nat]
        /\ \A s \in Skills : were[s] <= are[s]
    BY <2>1, <2>2, RatingsGrow DEF SkillRatings
  <2> HIDE DEF before, were, are
  <2>4. \A a \in Areas : AreaRating(were, a) \in Nat /\ AreaRating(are, a) \in Nat
        /\ AreaRating(were, a) <= AreaRating(are, a)
    BY <2>3, AreasGrow
  <2>5. Overall(were) \in Nat /\ Overall(are) \in Nat /\ Overall(were) <= Overall(are)
    BY <2>3, OverallGrows
  <2>6. \A m, n \in Nat : m <= n => n >= m
    OBVIOUS
  <2>. QED  BY <2>1, <2>3, <2>4, <2>5, <2>6 DEF before, were, are
<1>. QED
  BY <1>1, SkillInitInv, SkillNextInv, PTL DEF SkillSpec

----------------------------------------------------------------------------
(* The header row of a file *)

\* The columns a header can hold, and the kinds that are read.
ColumnSet == [kind : {"child", "birth", "email", "adult_email", "other"}, slot : {0}]
               \cup [kind : {"rel", "name"}, slot : Nat \ {0}]
ReadKinds == {"child", "birth", "rel", "name"}

\* Of the columns in s: what comes before an address, the first of each kind and
\* slot there, and the first address.
Reached(s) == {i \in s : \A j \in s : columns[j].kind = "email" => i < j}
Firsts(s) == {i \in s : columns[i].kind \in ReadKinds /\ \A j \in s : j < i => columns[j] # columns[i]}
Addresses(s) == {i \in s : columns[i].kind = "email" /\ \A j \in s : columns[j].kind = "email" => i <= j}

MappingOf(s) ==
  [taken |-> Firsts(Reached(s)), ignored |-> Reached(s) \ Firsts(Reached(s)), refused |-> Addresses(s)]

\* Reading one column more of a header gives the mapping of that many columns.
LEMMA MappingGrows ==
  ASSUME NEW n \in Nat, NEW s \in SUBSET (1 .. n), NEW x \in s, \A y \in s : y <= x
  PROVE  MappingOf(s) = MapColumn(MappingOf(s \ {x}), x)
<1> DEFINE t == s \ {x}
           m == MappingOf(t)
<1>1. t \subseteq Nat /\ x \in Nat /\ s = t \cup {x} /\ (\A y \in t : y < x)
  OBVIOUS
<1>2. m = [taken |-> Firsts(Reached(t)), ignored |-> Reached(t) \ Firsts(Reached(t)), refused |-> Addresses(t)]
  BY DEF MappingOf
<1>0. IsFiniteSet(t)
  <2>1. IsFiniteSet(1 .. n)
    BY FS_Interval
  <2>2. t \in SUBSET (1 .. n)
    OBVIOUS
  <2> HIDE DEF t
  <2>. QED  BY <2>1, <2>2, FS_Subset
<1> HIDE DEF t, m
<1>3. CASE \E j \in t : columns[j].kind = "email"
  <2>0. PICK j \in t : columns[j].kind = "email"
    BY <1>3
  <2>4. \A i \in t : i \in Nat /\ i < x /\ i <= x
    BY <1>1
  <2>5. ~ (x < j) /\ ~ (x <= j)
    BY <1>1, <2>4
  <2>1. Reached(s) = Reached(t)
    <3>1. \A i \in t : i \in Reached(s) <=> i \in Reached(t)
      BY <1>1, <2>4 DEF Reached
    <3>2. x \notin Reached(s) /\ x \notin t
      BY <1>1, <2>0, <2>5 DEF Reached
    <3>3. Reached(s) \subseteq t \cup {x} /\ Reached(t) \subseteq t
      BY <1>1 DEF Reached
    <3>. QED  BY <3>1, <3>2, <3>3
  <2>2. Addresses(s) = Addresses(t)
    <3>1. \A i \in t : i \in Addresses(s) <=> i \in Addresses(t)
      BY <1>1, <2>4 DEF Addresses
    <3>2. x \notin Addresses(s) /\ x \notin t
      BY <1>1, <2>0, <2>5 DEF Addresses
    <3>3. Addresses(s) \subseteq t \cup {x} /\ Addresses(t) \subseteq t
      BY <1>1 DEF Addresses
    <3>. QED  BY <3>1, <3>2, <3>3
  <2>3. Addresses(t) # {}
    <3> DEFINE E == {k \in t : columns[k].kind = "email"}
    <3>1. E \in SUBSET Int /\ E # {} /\ IsFiniteSet(E)
      <4>1. E \in SUBSET t
        OBVIOUS
      <4>2. E # {}
        BY <1>3
      <4> HIDE DEF E
      <4>3. IsFiniteSet(E)
        BY <1>0, <4>1, FS_Subset
      <4>. QED  BY <1>1, <4>1, <4>2, <4>3
    <3> HIDE DEF E
    <3>2. \E i \in E : \A k \in E : i <= k
      BY <3>1, FirstDay
    <3>. QED  BY <3>2 DEF E, Addresses
  <2>. QED  BY <1>2, <2>1, <2>2, <2>3 DEF MapColumn, MappingOf, m, t
<1>4. CASE ~ \E j \in t : columns[j].kind = "email"
  <2>1. Reached(t) = t /\ Addresses(t) = {}
    BY <1>4 DEF Reached, Addresses
  <2>2. CASE columns[x].kind = "email"
    <3>0. \A i \in t : i < x /\ i # x /\ ~ (x < x)
      BY <1>1
    <3>3. x \in s /\ t \subseteq s /\ s \subseteq t \cup {x}
      BY <1>1
    <3>4. x \notin Reached(s)
      BY <3>0, <3>3, <2>2, <1>1 DEF Reached
    <3>5. \A i \in t : i \in Reached(s)
      BY <3>0, <3>3, <1>4 DEF Reached
    <3>6. Reached(s) \subseteq s
      BY DEF Reached
    <3>1. Reached(s) = t
      BY <3>3, <3>4, <3>5, <3>6
    <3>2. Addresses(s) = {x}
      BY <1>1, <1>4, <2>2 DEF Addresses
    <3>. QED  BY <1>2, <2>1, <2>2, <3>1, <3>2 DEF MapColumn, MappingOf, m, t
  <2>3. CASE columns[x].kind # "email"
    <3>1. Reached(s) = s /\ Addresses(s) = {}
      BY <1>1, <1>4, <2>3 DEF Reached, Addresses
    <3>2. Takes(m, x) <=> columns[x].kind \in ReadKinds /\ \A j \in t : columns[j] # columns[x]
      <4>1. Takes(m, x) <=> columns[x].kind \in ReadKinds /\ \A j \in Firsts(t) : columns[j] # columns[x]
        BY <1>2, <2>1 DEF Takes, ReadKinds
      <4>2. ASSUME NEW j \in t, columns[j] = columns[x], columns[x].kind \in ReadKinds
            PROVE  \E i \in Firsts(t) : columns[i] = columns[x]
        <5> DEFINE E == {i \in t : columns[i] = columns[x]}
        <5>1. E \in SUBSET Int /\ E # {} /\ IsFiniteSet(E)
          <6>1. E \in SUBSET t
            OBVIOUS
          <6>2. E # {}
            BY <4>2
          <6> HIDE DEF E
          <6>3. IsFiniteSet(E)
            BY <1>0, <6>1, FS_Subset
          <6>. QED  BY <1>1, <6>1, <6>2, <6>3
        <5> HIDE DEF E
        <5>2. PICK i \in E : \A k \in E : i <= k
          BY <5>1, FirstDay
        <5>3. i \in t /\ columns[i] = columns[x] /\ \A k \in t : k < i => columns[k] # columns[x]
          BY <5>1, <5>2, <1>1 DEF E
        <5>. QED  BY <5>3, <4>2 DEF Firsts
      <4>3. Firsts(t) \subseteq t
        BY DEF Firsts
      <4>. QED  BY <4>1, <4>2, <4>3
    <3>4. x \notin t
      BY DEF t
    <3>8. \A i \in t : i \in Nat /\ i < x /\ ~ (x < i)
      BY <1>1
    <3>9. \A i \in t : i \in Firsts(s) <=> i \in Firsts(t)
      BY <1>1, <3>8 DEF Firsts
    <3>10. x \in Firsts(s) <=> Takes(m, x)
      BY <1>1, <3>2, <3>8 DEF Firsts
    <3>11. Firsts(s) \subseteq t \cup {x} /\ Firsts(t) \subseteq t
      BY <1>1 DEF Firsts
    <3>3. Firsts(s) = IF Takes(m, x) THEN Firsts(t) \cup {x} ELSE Firsts(t)
      BY <3>4, <3>9, <3>10, <3>11
    <3>5. m.refused = {} /\ m.taken = Firsts(t) /\ m.ignored = t \ Firsts(t)
      BY <1>2, <2>1
    <3>6. CASE Takes(m, x)
      <4>1. s \ Firsts(s) = t \ Firsts(t)
        BY <1>1, <3>3, <3>4, <3>6
      <4>2. MapColumn(m, x) = [m EXCEPT !.taken = Firsts(t) \cup {x}]
        BY <2>3, <3>5, <3>6 DEF MapColumn
      <4>. QED  BY <1>2, <2>1, <3>1, <3>3, <3>6, <4>1, <4>2 DEF MappingOf, m, t
    <3>7. CASE ~ Takes(m, x)
      <4>1. s \ Firsts(s) = (t \ Firsts(t)) \cup {x}
        BY <1>1, <3>3, <3>4, <3>7 DEF Firsts
      <4>2. MapColumn(m, x) = [m EXCEPT !.ignored = (t \ Firsts(t)) \cup {x}]
        BY <2>3, <3>5, <3>7 DEF MapColumn
      <4>. QED  BY <1>2, <2>1, <3>1, <3>3, <3>7, <4>1, <4>2 DEF MappingOf, m, t
    <3>. QED  BY <3>6, <3>7
  <2>. QED  BY <2>2, <2>3
<1>. QED
  BY <1>3, <1>4

\* The mapping of the model is the fold of MapColumn over the header, column by column.
MapsUp(iter) ==
  iter = [s \in SUBSET DOMAIN columns |->
            IF s = {} THEN NoMapping ELSE MapColumn(iter[s \ {Max(s)}], Max(s))]

LEMMA MappingsMapUp ==
  ASSUME NEW n \in Nat, DOMAIN columns = 1 .. n
  PROVE  MapsUp([s \in SUBSET DOMAIN columns |-> MappingOf(s)])
<1> DEFINE g == [s \in SUBSET DOMAIN columns |-> MappingOf(s)]
<1>1. ASSUME NEW s \in SUBSET DOMAIN columns
      PROVE  MappingOf(s) = IF s = {} THEN NoMapping ELSE MapColumn(g[s \ {Max(s)}], Max(s))
  <2>1. CASE s = {}
    <3>1. Reached({}) = {} /\ Firsts({}) = {} /\ Addresses({}) = {}
      BY DEF Reached, Firsts, Addresses
    <3>. QED  BY <2>1, <3>1 DEF MappingOf, NoMapping
  <2>2. CASE s # {}
    <3>1. IsFiniteSet(1 .. n) /\ s \in SUBSET (1 .. n)
      BY FS_Interval
    <3>2. IsFiniteSet(s) /\ s \in SUBSET Int
      BY <3>1, FS_Subset
    <3> DEFINE x == Max(s)
    <3>3. x \in s /\ \A y \in s : y <= x
      BY <2>2, <3>2, LastDay
    <3> HIDE DEF x
    <3>4. MappingOf(s) = MapColumn(MappingOf(s \ {x}), x)
      BY <3>1, <3>3, MappingGrows
    <3>5. s \ {x} \in SUBSET DOMAIN columns
      OBVIOUS
    <3>. QED  BY <2>2, <3>4, <3>5 DEF x
  <2>. QED  BY <2>1, <2>2
<1>. QED
  BY <1>1 DEF MapsUp

\* roster-import.ts: what one pass over the columns has taken, ignored and refused.
LEMMA MappingIs ==
  ASSUME NEW n \in Nat, DOMAIN columns = 1 .. n
  PROVE  Mapping = MappingOf(DOMAIN columns)
<1> DEFINE iter == CHOOSE g : MapsUp(g)
           g == [s \in SUBSET DOMAIN columns |-> MappingOf(s)]
<1>1. MapsUp(iter) /\ MapsUp(g)
  BY MappingsMapUp
<1>2. Mapping = iter[DOMAIN columns]
  <2> DEFINE Step(f) == [s \in SUBSET DOMAIN columns |->
                IF s = {} THEN NoMapping
                ELSE MapColumn(f[s \ {Max(s)}], [i \in DOMAIN columns |-> i][Max(s)])]
  <2>1. Mapping = (CHOOSE f : f = Step(f))[DOMAIN columns]
    BY DEF Mapping, FoldLeft, MapThenFoldSet
  <2>2. \A f : Step(f) = [s \in SUBSET DOMAIN columns |->
                IF s = {} THEN NoMapping ELSE MapColumn(f[s \ {Max(s)}], Max(s))]
    <3>1. ASSUME NEW s \in SUBSET DOMAIN columns, s # {}
          PROVE  [i \in DOMAIN columns |-> i][Max(s)] = Max(s)
      <4>1. IsFiniteSet(1 .. n) /\ s \in SUBSET (1 .. n)
        BY FS_Interval
      <4>2. IsFiniteSet(s) /\ s \in SUBSET Int
        BY <4>1, FS_Subset
      <4>3. Max(s) \in s
        BY <3>1, <4>2, LastDay
      <4>. QED  BY <4>3
    <3> DEFINE same == [i \in DOMAIN columns |-> i]
    <3>2. \A s \in SUBSET DOMAIN columns : s # {} => same[Max(s)] = Max(s)
      BY <3>1
    <3> HIDE DEF same
    <3>3. ASSUME NEW f
          PROVE  [s \in SUBSET DOMAIN columns |->
                    IF s = {} THEN NoMapping ELSE MapColumn(f[s \ {Max(s)}], same[Max(s)])]
                 = [s \in SUBSET DOMAIN columns |->
                    IF s = {} THEN NoMapping ELSE MapColumn(f[s \ {Max(s)}], Max(s))]
      <4>1. \A s \in SUBSET DOMAIN columns :
              (IF s = {} THEN NoMapping ELSE MapColumn(f[s \ {Max(s)}], same[Max(s)]))
              = (IF s = {} THEN NoMapping ELSE MapColumn(f[s \ {Max(s)}], Max(s)))
        BY <3>2
      <4>. QED  BY <4>1
    <3>. QED  BY <3>3 DEF same
  <2>3. \A f : f = Step(f) <=> MapsUp(f)
    BY <2>2 DEF MapsUp
  <2> HIDE DEF Step
  <2>. QED  BY <2>1, <2>3
<1> HIDE DEF iter
<1> DEFINE C == {s \in SUBSET DOMAIN columns : iter[s] # g[s]}
<1>3. C = {}
  <2> SUFFICES ASSUME C # {} PROVE FALSE
    OBVIOUS
  <2>9. IsFiniteSet(DOMAIN columns)
    BY FS_Interval
  <2>0. \A s \in SUBSET DOMAIN columns : IsFiniteSet(s)
    BY <2>9, FS_Subset
  <2>1. \A t \in C : IsFiniteSet(t)
    BY <2>0
  <2>2. \E s \in C : \A t \in C : ~ (t \subseteq s /\ t # s)
    <3> HIDE DEF C
    <3>. QED  BY <2>1, SmallestSet
  <2>3. PICK s \in C : \A t \in C : ~ (t \subseteq s /\ t # s)
    BY <2>2, Zenon
  <2>4. /\ iter[s] = IF s = {} THEN NoMapping ELSE MapColumn(iter[s \ {Max(s)}], Max(s))
        /\ g[s] = IF s = {} THEN NoMapping ELSE MapColumn(g[s \ {Max(s)}], Max(s))
    BY <1>1, <2>3 DEF MapsUp
  <2>5. s # {}
    BY <2>3, <2>4
  <2>6. Max(s) \in s
    <3>1. s \in SUBSET Int
      OBVIOUS
    <3>. QED  BY <2>1, <2>5, <3>1, LastDay
  <2>7. s \ {Max(s)} \in SUBSET DOMAIN columns /\ s \ {Max(s)} \notin C
    BY <2>3, <2>6
  <2>8. iter[s \ {Max(s)}] = g[s \ {Max(s)}]
    BY <2>7
  <2>. QED  BY <2>3, <2>4, <2>5, <2>8
<1>. QED
  BY <1>2, <1>3

\* The columns of a kind and slot, and the first of a set of columns.
Is(kind, slot) == {i \in DOMAIN columns : columns[i] = [kind |-> kind, slot |-> slot]}
First(set) == {i \in set : \A j \in set : i <= j}

LEMMA ColumnsAre ==
  ASSUME columns \in Seq(ColumnSet)
  PROVE  /\ \E n \in Nat : DOMAIN columns = 1 .. n
         /\ \A i \in DOMAIN columns :
              /\ i \in Nat /\ columns[i] = [kind |-> columns[i].kind, slot |-> columns[i].slot]
              /\ columns[i].kind \in {"child", "birth", "email", "adult_email", "other"} => columns[i].slot = 0
              /\ columns[i].kind \in {"rel", "name"} => columns[i].slot \in Nat \ {0}
<1>1. DOMAIN columns = 1 .. Len(columns) /\ Len(columns) \in Nat
  OBVIOUS
<1>2. \A i \in DOMAIN columns : columns[i] \in ColumnSet
  BY <1>1
<1>3. \A c \in ColumnSet :
        /\ c = [kind |-> c.kind, slot |-> c.slot]
        /\ c.kind \in {"child", "birth", "email", "adult_email", "other"} => c.slot = 0
        /\ c.kind \in {"rel", "name"} => c.slot \in Nat \ {0}
  BY DEF ColumnSet
<1>. QED
  BY <1>1, <1>2, <1>3

\* The first columns of each kind and slot, when no column is an address.
LEMMA TakenAre ==
  ASSUME columns \in Seq(ColumnSet), Is("email", 0) = {}
  PROVE  /\ Mapping.refused = {}
         /\ \A i \in DOMAIN columns :
              i \in Mapping.taken <=> columns[i].kind \in ReadKinds /\ i \in First(Is(columns[i].kind, columns[i].slot))
         /\ Mapping.taken \subseteq DOMAIN columns
         /\ Mapping.ignored = DOMAIN columns \ Mapping.taken
<1> DEFINE D == DOMAIN columns
<1>1. \A i \in D : columns[i].kind # "email"
  BY ColumnsAre DEF Is
<1>2. Reached(D) = D /\ Addresses(D) = {}
  BY <1>1 DEF Reached, Addresses
<1>3. Mapping = [taken |-> Firsts(D), ignored |-> D \ Firsts(D), refused |-> {}]
  BY <1>2, ColumnsAre, MappingIs DEF MappingOf
<1>4. \A i \in D : i \in Nat /\ columns[i] = [kind |-> columns[i].kind, slot |-> columns[i].slot]
  BY ColumnsAre
<1>5. ASSUME NEW i \in D
      PROVE  (\A j \in D : j < i => columns[j] # columns[i]) <=> i \in First(Is(columns[i].kind, columns[i].slot))
  <2>1. \A j \in D : j \in Is(columns[i].kind, columns[i].slot) <=> columns[j] = columns[i]
    BY <1>4 DEF Is
  <2>2. \A j \in D : ~ (j < i) <=> i <= j
    BY <1>4
  <2>3. Is(columns[i].kind, columns[i].slot) \subseteq D
    BY DEF Is
  <2>. QED  BY <2>1, <2>2, <2>3 DEF First
<1>6. \A i \in D : i \in Firsts(D) <=> columns[i].kind \in ReadKinds /\ i \in First(Is(columns[i].kind, columns[i].slot))
  BY <1>5 DEF Firsts
<1>7. Firsts(D) \subseteq D
  BY DEF Firsts
<1>. QED
  BY <1>3, <1>6, <1>7

LEMMA FirstExists ==
  ASSUME columns \in Seq(ColumnSet), NEW S \in SUBSET DOMAIN columns, S # {}
  PROVE  \E i \in S : First(S) = {i}
<1>1. IsFiniteSet(DOMAIN columns) /\ DOMAIN columns \in SUBSET Int
  BY ColumnsAre, FS_Interval
<1>2. IsFiniteSet(S) /\ S \in SUBSET Int
  BY <1>1, FS_Subset
<1>3. PICK i \in S : \A j \in S : i <= j
  BY <1>2, FirstDay
<1>4. \A j \in First(S) : j = i
  BY <1>2, <1>3 DEF First
<1>5. i \in First(S)
  BY <1>3 DEF First
<1>. QED
  BY <1>4, <1>5

\* The columns of a kind that has one slot, and of a guardian's slot.
LEMMA TakenOfKind ==
  ASSUME columns \in Seq(ColumnSet), Is("email", 0) = {}, NEW kind \in ReadKinds, NEW slot
  PROVE  {i \in Taken(kind) : columns[i].slot = slot} = First(Is(kind, slot))
<1>1. \A i \in DOMAIN columns : columns[i] = [kind |-> columns[i].kind, slot |-> columns[i].slot]
  BY ColumnsAre
<1>2. \A i \in DOMAIN columns : i \in Is(kind, slot) <=> columns[i].kind = kind /\ columns[i].slot = slot
  BY <1>1 DEF Is
<1>3. First(Is(kind, slot)) \subseteq DOMAIN columns /\ First(Is(kind, slot)) \subseteq Is(kind, slot)
  BY DEF First, Is
<1>4. Taken(kind) \subseteq DOMAIN columns
  BY TakenAre DEF Taken
<1>5. \A i \in DOMAIN columns : i \in Taken(kind) /\ columns[i].slot = slot <=> i \in First(Is(kind, slot))
  BY <1>2, <1>3, TakenAre DEF Taken
<1>. QED
  BY <1>3, <1>4, <1>5

\* A header with an address in it is refused, wherever the address stands.
LEMMA AddressesAreRefused ==
  ASSUME columns \in Seq(ColumnSet)
  PROVE  Mapping.refused # {} <=> Is("email", 0) # {}
<1>1. ASSUME Is("email", 0) # {} PROVE Mapping.refused # {}
  <2>1. PICK i \in DOMAIN columns : First(Is("email", 0)) = {i} /\ i \in Is("email", 0)
    BY <1>1, FirstExists DEF Is
  <2>2. \A j \in DOMAIN columns : columns[j].kind = "email" => j \in Is("email", 0)
    BY ColumnsAre DEF Is
  <2>3. columns[i].kind = "email" /\ \A j \in Is("email", 0) : i <= j
    BY <2>1 DEF First, Is
  <2>4. i \in Addresses(DOMAIN columns)
    BY <2>1, <2>2, <2>3 DEF Addresses
  <2>5. Mapping = MappingOf(DOMAIN columns)
    BY ColumnsAre, MappingIs
  <2>. QED  BY <2>4, <2>5 DEF MappingOf
<1>. QED
  BY <1>1, TakenAre

\* The guardians that are read are those with a name column among the first slots, each
\* with the first of its name columns and the first of its relationship columns.
LEMMA GuardiansAreUnderstood ==
  ASSUME columns \in Seq(ColumnSet), Is("email", 0) = {}
  PROVE  {[slot |-> g.slot, name |-> {g.name}, relationship |-> g.relationship] : g \in GuardianColumns}
           = {[slot |-> n, name |-> First(Is("name", n)), relationship |-> First(Is("rel", n))] :
                n \in {m \in 1 .. MaxGuardiansPerRow : Is("name", m) # {}}}
<1> DEFINE N == {i \in Taken("name") : columns[i].slot <= MaxGuardiansPerRow}
           M == {m \in 1 .. MaxGuardiansPerRow : Is("name", m) # {}}
           G(i) == [slot |-> columns[i].slot, name |-> {i},
                    relationship |-> {j \in Taken("rel") : columns[j].slot = columns[i].slot}]
           H(n) == [slot |-> n, name |-> First(Is("name", n)), relationship |-> First(Is("rel", n))]
<1>1. {[slot |-> g.slot, name |-> {g.name}, relationship |-> g.relationship] : g \in GuardianColumns}
        = {G(i) : i \in N}
  <2> DEFINE F(i) == [slot |-> columns[i].slot, name |-> i,
                      relationship |-> {j \in Taken("rel") : columns[j].slot = columns[i].slot}]
             K(g) == [slot |-> g.slot, name |-> {g.name}, relationship |-> g.relationship]
  <2>1. GuardianColumns = {F(i) : i \in N}
    BY Zenon DEF GuardianColumns
  <2>2. \A i : K(F(i)) = G(i)
    OBVIOUS
  <2> HIDE DEF F, K, G, N
  <2>3. {K(g) : g \in {F(i) : i \in N}} = {G(i) : i \in N}
    BY <2>2
  <2>. QED  BY <2>1, <2>3 DEF K
<1>2. ASSUME NEW i \in N
      PROVE  columns[i].slot \in M /\ G(i) = H(columns[i].slot)
  <2>1. i \in DOMAIN columns /\ columns[i].kind = "name"
    BY TakenAre DEF Taken
  <2>2. columns[i].slot \in Nat \ {0} /\ columns[i].slot \in 1 .. MaxGuardiansPerRow
    BY <2>1, ColumnsAre, CsvAssumption
  <2>3. i \in First(Is("name", columns[i].slot)) /\ First(Is("name", columns[i].slot)) \subseteq Is("name", columns[i].slot)
    BY <2>1, TakenAre DEF Taken, First
  <2>4. First(Is("name", columns[i].slot)) = {i}
    <3>1. Is("name", columns[i].slot) \in SUBSET DOMAIN columns /\ Is("name", columns[i].slot) # {}
      BY <2>3 DEF Is
    <3>2. \E j \in Is("name", columns[i].slot) : First(Is("name", columns[i].slot)) = {j}
      BY <3>1, FirstExists
    <3>. QED  BY <2>3, <3>2
  <2>5. {j \in Taken("rel") : columns[j].slot = columns[i].slot} = First(Is("rel", columns[i].slot))
    BY TakenOfKind DEF ReadKinds
  <2>. QED  BY <2>2, <2>3, <2>4, <2>5
<1>3. ASSUME NEW n \in M
      PROVE  \E i \in N : columns[i].slot = n
  <2>1. PICK i : First(Is("name", n)) = {i}
    <3>1. Is("name", n) \in SUBSET DOMAIN columns /\ Is("name", n) # {}
      BY DEF Is
    <3>. QED  BY <3>1, FirstExists
  <2>2. i \in {k \in Taken("name") : columns[k].slot = n}
    BY <2>1, TakenOfKind DEF ReadKinds
  <2>3. n <= MaxGuardiansPerRow
    BY CsvAssumption
  <2>. QED  BY <2>2, <2>3
<1> HIDE DEF N, M, G, H
<1>4. {G(i) : i \in N} = {H(n) : n \in M}
  BY <1>2, <1>3
<1>. QED
  BY <1>1, <1>4 DEF H, M

\* The header is understood as the rule of HeadersAreUnderstood states it.
LEMMA HeadersUnderstood ==
  ASSUME columns \in Seq(ColumnSet) PROVE HeadersAreUnderstood
<1>1. HeaderVerdict = "child_email_column" <=> Is("email", 0) # {}
  BY AddressesAreRefused DEF HeaderVerdict
<1>2. ASSUME HeaderVerdict = "ok"
      PROVE  /\ Is("email", 0) = {} /\ Taken("child") # {}
             /\ Taken("child") = First(Is("child", 0))
             /\ Taken("birth") = First(Is("birth", 0))
             /\ \A i \in Is("adult_email", 0) : i \in Mapping.ignored
  <2>1. Is("email", 0) = {} /\ Taken("child") # {}
    BY <1>2, AddressesAreRefused DEF HeaderVerdict
  <2>2. \A kind \in {"child", "birth"} : Taken(kind) = {i \in Taken(kind) : columns[i].slot = 0}
    BY <2>1, TakenAre, ColumnsAre DEF Taken
  <2>3. \A kind \in {"child", "birth"} : Taken(kind) = First(Is(kind, 0))
    BY <2>1, <2>2, TakenOfKind DEF ReadKinds
  <2>4. \A i \in Is("adult_email", 0) : i \in DOMAIN columns /\ columns[i].kind \notin ReadKinds
    BY DEF Is, ReadKinds
  <2>. QED  BY <2>1, <2>3, <2>4, TakenAre
<1>. QED
  BY <1>1, <1>2, GuardiansAreUnderstood DEF HeadersAreUnderstood, Is, First

----------------------------------------------------------------------------
(* What is left of a concatenation *)

\* What is left of a sequence after its first k elements.
Drop(s, k) == SubSeq(s, k + 1, Len(s))

\* The partial concatenations of s, as the library builds them.
Flattens(g, s) == g = [i \in 1 .. Len(s) |-> IF i = 1 THEN s[i] ELSE g[i - 1] \o s[i]]

\* Of finitely many places there is a first.
LEMMA FirstMissing ==
  ASSUME NEW n \in Nat, NEW C \in SUBSET (0 .. n), C # {}
  PROVE  \E m \in C : \A k \in C : m <= k
<1>1. IsFiniteSet(0 .. n)
  BY FS_Interval
<1>2. C \in SUBSET Int
  OBVIOUS
<1>3. IsFiniteSet(C)
  BY <1>1, FS_Subset, Zenon
<1>. QED
  BY <1>2, <1>3, FirstDay, Zenon

\* The concatenation of the first m pieces.
UpTo(g, s, m) == \A i \in 1 .. m : g[i] = IF i = 1 THEN s[i] ELSE g[i - 1] \o s[i]

LEMMA UpToExists ==
  ASSUME NEW s, NEW n \in Nat
  PROVE  \E g : UpTo(g, s, n)
<1> DEFINE C == {m \in 0 .. n : ~ \E g : UpTo(g, s, m)}
<1> SUFFICES ASSUME C # {} PROVE FALSE
  OBVIOUS
<1>1. \E m \in C : \A k \in C : m <= k
  <2>1. C \in SUBSET (0 .. n)
    OBVIOUS
  <2> HIDE DEF C
  <2>. QED  BY <2>1, FirstMissing
<1>2. PICK m \in C : \A k \in C : m <= k
  BY <1>1
<1>3. CASE m = 0
  <2>1. UpTo(s, s, 0)
    BY DEF UpTo
  <2>. QED  BY <1>2, <1>3, <2>1
<1>4. CASE m # 0
  <2>1. m \in 1 .. n /\ m - 1 \in 0 .. n /\ m - 1 \notin C
    BY <1>2, <1>4
  <2>2. PICK g : UpTo(g, s, m - 1)
    BY <2>1
  <2> DEFINE last == IF m = 1 THEN s[1] ELSE g[m - 1] \o s[m]
  <2>3. \E h : \A i \in 1 .. m : h[i] = IF i < m THEN g[i] ELSE last
    <3> HIDE DEF last
    <3>1. \A i \in 1 .. m : [j \in 1 .. m |-> IF j < m THEN g[j] ELSE last][i] = IF i < m THEN g[i] ELSE last
      OBVIOUS
    <3>. QED  BY <3>1, Zenon
  <2>4. PICK h : \A i \in 1 .. m : h[i] = IF i < m THEN g[i] ELSE last
    BY <2>3
  <2>5. ASSUME NEW i \in 1 .. m PROVE h[i] = IF i = 1 THEN s[i] ELSE h[i - 1] \o s[i]
    <3>1. CASE i = m
      <4>1. h[i] = last /\ (i # 1 => h[i - 1] = g[i - 1])
        BY <2>1, <2>4, <3>1
      <4>. QED  BY <3>1, <4>1
    <3>2. CASE i < m
      <4>1. h[i] = g[i] /\ (i # 1 => h[i - 1] = g[i - 1]) /\ i \in 1 .. (m - 1)
        BY <2>1, <2>4, <3>2
      <4>2. g[i] = IF i = 1 THEN s[i] ELSE g[i - 1] \o s[i]
        BY <2>2, <4>1 DEF UpTo
      <4>. QED  BY <4>1, <4>2
    <3>. QED  BY <2>1, <3>1, <3>2
  <2>6. UpTo(h, s, m)
    BY <2>5 DEF UpTo
  <2>. QED  BY <1>2, <2>6
<1>. QED
  BY <1>2, <1>3, <1>4

\* A concatenation is the last of its partial concatenations.
LEMMA FlattenIs ==
  ASSUME NEW s, Len(s) \in Nat, Len(s) # 0
  PROVE  \E g : UpTo(g, s, Len(s)) /\ FlattenSeq(s) = g[Len(s)]
<1> DEFINE F == CHOOSE g : Flattens(g, s)
<1>1. FlattenSeq(s) = F[Len(s)]
  BY DEF FlattenSeq, Flattens
<1>2. \E g : Flattens(g, s)
  <2>1. PICK g : UpTo(g, s, Len(s))
    BY UpToExists
  <2> DEFINE h == [i \in 1 .. Len(s) |-> g[i]]
  <2>2. \A i \in 1 .. Len(s) : h[i] = IF i = 1 THEN s[i] ELSE h[i - 1] \o s[i]
    <3> SUFFICES ASSUME NEW i \in 1 .. Len(s) PROVE h[i] = IF i = 1 THEN s[i] ELSE h[i - 1] \o s[i]
      OBVIOUS
    <3>1. h[i] = g[i] /\ (i # 1 => h[i - 1] = g[i - 1])
      OBVIOUS
    <3>. QED  BY <2>1, <3>1 DEF UpTo
  <2>3. h = [i \in 1 .. Len(s) |-> h[i]]
    OBVIOUS
  <2> HIDE DEF h
  <2>4. Flattens(h, s)
    BY <2>2, <2>3 DEF Flattens
  <2>. QED  BY <2>4
<1>3. Flattens(F, s)
  BY <1>2
<1> HIDE DEF F
<1>4. UpTo(F, s, Len(s))
  BY <1>3 DEF Flattens, UpTo
<1>. QED
  BY <1>1, <1>4

\* Concatenating three.
Regroups(a, b, c) == (a \o b) \o c = a \o (b \o c)

LEMMA Associative ==
  ASSUME NEW S, NEW a \in Seq(S), NEW b \in Seq(S), NEW c \in Seq(S)
  PROVE  Regroups(a, b, c)
  BY DEF Regroups

LEMMA NothingFlattens == FlattenSeq(<<>>) = <<>>
  BY DEF FlattenSeq

\* A concatenation is its first piece and then that of the others.
LEMMA FlattenFirst ==
  ASSUME NEW S, NEW s \in Seq(Seq(S)), NEW u \in Seq(Seq(S)), Len(s) = Len(u) + 1,
         \A i \in 1 .. Len(u) : u[i] = s[i + 1]
  PROVE  FlattenSeq(u) \in Seq(S) /\ FlattenSeq(s) = s[1] \o FlattenSeq(u)
<1>1. /\ Len(s) \in Nat /\ Len(u) \in Nat /\ Len(s) # 0
      /\ \A i \in 1 .. Len(s) : s[i] \in Seq(S)
      /\ \A i \in 1 .. Len(u) : u[i] \in Seq(S)
  OBVIOUS
<1>2. PICK g : UpTo(g, s, Len(s)) /\ FlattenSeq(s) = g[Len(s)]
  BY <1>1, FlattenIs
<1>3. s[1] \in Seq(S) /\ g[1] = s[1]
  BY <1>1, <1>2 DEF UpTo
<1>4. CASE Len(u) = 0
  <2>1. u = <<>> /\ FlattenSeq(u) = <<>>
    BY <1>4, NothingFlattens
  <2>2. s[1] \o <<>> = s[1] /\ <<>> \in Seq(S)
    BY <1>3, ConcatEmptySeq, EmptySeq
  <2>3. FlattenSeq(s) = s[1]
    BY <1>1, <1>2, <1>3, <1>4
  <2>. QED  BY <2>1, <2>2, <2>3
<1>5. CASE Len(u) # 0
  <2>1. PICK h : UpTo(h, u, Len(u)) /\ FlattenSeq(u) = h[Len(u)]
    BY <1>1, <1>5, FlattenIs
  <2> DEFINE Good(i) == h[i] \in Seq(S) /\ g[i + 1] = s[1] \o h[i]
             C == {i \in 0 .. Len(u) : i # 0 /\ ~ Good(i)}
  <2>2. C = {}
    <3> SUFFICES ASSUME C # {} PROVE FALSE
      OBVIOUS
    <3> HIDE DEF Good
    <3>1. \E m \in C : \A k \in C : m <= k
      <4>1. C \in SUBSET (0 .. Len(u))
        OBVIOUS
      <4> HIDE DEF C
      <4>. QED  BY <1>1, <4>1, FirstMissing
    <3>2. PICK m \in C : \A k \in C : m <= k
      BY <3>1
    <3>3. m \in 1 .. Len(u) /\ ~ Good(m) /\ m + 1 \in 1 .. Len(s)
      BY <1>1, <3>2
    <3>4. /\ h[m] = IF m = 1 THEN u[m] ELSE h[m - 1] \o u[m]
          /\ g[m + 1] = g[m] \o s[m + 1]
          /\ s[m + 1] = u[m] /\ u[m] \in Seq(S)
      <4>1. h[m] = IF m = 1 THEN u[m] ELSE h[m - 1] \o u[m]
        BY <2>1, <3>3 DEF UpTo
      <4>2. m + 1 # 1 /\ (m + 1) - 1 = m
        BY <3>3
      <4>3. g[m + 1] = g[(m + 1) - 1] \o s[m + 1]
        BY <1>2, <3>3, <4>2, Zenon DEF UpTo
      <4>. QED  BY <1>1, <3>3, <4>1, <4>2, <4>3, Zenon
    <3>5. CASE m = 1
      <4>1. h[m] = u[m] /\ g[m] = s[1] /\ g[m + 1] = s[1] \o u[m] /\ u[m] \in Seq(S)
        BY <1>3, <3>4, <3>5, Zenon
      <4>. QED  BY <3>3, <4>1, Zenon DEF Good
    <3>6. CASE m # 1
      <4> DEFINE p == m - 1
      <4>0. p \in 0 .. Len(u) /\ p # 0 /\ p \in 1 .. Len(u) /\ m = p + 1 /\ ~(m <= p)
        BY <1>1, <3>3, <3>6
      <4>1. p \in 1 .. Len(u) /\ m = p + 1 /\ Good(p)
        <5>1. p \notin C
          <6> HIDE DEF C, p
          <6>. QED  BY <3>2, <4>0
        <5>. QED  BY <4>0, <5>1, Zenon
      <4> HIDE DEF p
      <4>2. h[p] \in Seq(S) /\ g[m] = s[1] \o h[p] /\ h[m] = h[p] \o u[m]
        BY <3>4, <3>6, <4>1 DEF p, Good
      <4>3. h[m] \in Seq(S)
        BY <3>4, <4>2, ConcatProperties
      <4>4. g[m] \o u[m] = s[1] \o h[m]
        <5>1. s[1] \in Seq(S) /\ h[p] \in Seq(S) /\ u[m] \in Seq(S)
          BY <1>3, <3>4, <4>2
        <5>2. Regroups(s[1], h[p], u[m])
          BY <5>1, Associative, Zenon
        <5>3. (s[1] \o h[p]) \o u[m] = s[1] \o (h[p] \o u[m])
          BY <5>2, Zenon DEF Regroups
        <5>. QED  BY <4>2, <5>3, Zenon
      <4>. QED  BY <3>3, <3>4, <4>2, <4>3, <4>4 DEF Good
    <3>. QED  BY <3>5, <3>6
  <2>3. Len(u) \in 0 .. Len(u) /\ Len(u) # 0
    BY <1>1, <1>5
  <2>4. Good(Len(u))
    BY <2>2, <2>3, Zenon
  <2>. QED  BY <1>2, <2>1, <2>4
<1>. QED
  BY <1>4, <1>5

LEMMA DropIs ==
  ASSUME NEW S, NEW s \in Seq(S), NEW k \in 0 .. Len(s)
  PROVE  /\ Drop(s, k) \in Seq(S) /\ Len(Drop(s, k)) = Len(s) - k
         /\ \A i \in 1 .. (Len(s) - k) : Drop(s, k)[i] = s[k + i]
<1>1. Len(s) \in Nat /\ \A i \in 1 .. Len(s) : s[i] \in S
  OBVIOUS
<1>2. k + 1 \in Int /\ Len(s) \in Int /\ \A i \in (k + 1) .. Len(s) : s[i] \in S
  BY <1>1
<1>3. /\ Drop(s, k) \in Seq(S)
      /\ Len(Drop(s, k)) = IF k + 1 <= Len(s) THEN Len(s) - (k + 1) + 1 ELSE 0
      /\ \A i \in 1 .. (Len(s) - (k + 1) + 1) : Drop(s, k)[i] = s[k + 1 + i - 1]
  BY <1>2, SubSeqProperties DEF Drop
<1> DEFINE d == Drop(s, k)
<1> HIDE DEF d
<1>4. d \in Seq(S) /\ Len(d) = IF k + 1 <= Len(s) THEN Len(s) - (k + 1) + 1 ELSE 0
  BY <1>3, Zenon DEF d
<1>5. Len(d) = Len(s) - k
  BY <1>1, <1>4
<1>6. ASSUME NEW i \in 1 .. (Len(s) - k)
      PROVE  Drop(s, k)[i] = s[k + i]
  <2>1. i \in 1 .. (Len(s) - (k + 1) + 1) /\ k + 1 + i - 1 = k + i
    BY <1>1
  <2>2. Drop(s, k)[i] = s[k + 1 + i - 1]
    BY <1>3, <2>1, Zenon
  <2>. QED  BY <2>1, <2>2
<1>. QED
  BY <1>4, <1>5, <1>6, Zenon DEF d

\* What follows the first k pieces of a concatenation.
LEMMA LeftOver ==
  ASSUME NEW S, NEW s \in Seq(Seq(S)), NEW k \in 0 .. Len(s)
  PROVE  /\ FlattenSeq(Drop(s, k)) \in Seq(S)
         /\ k = Len(s) => FlattenSeq(Drop(s, k)) = <<>>
         /\ k # Len(s) => /\ s[k + 1] \in Seq(S) /\ FlattenSeq(Drop(s, k + 1)) \in Seq(S)
                          /\ FlattenSeq(Drop(s, k)) = s[k + 1] \o FlattenSeq(Drop(s, k + 1))
<1>1. Len(s) \in Nat /\ \A i \in 1 .. Len(s) : s[i] \in Seq(S)
  OBVIOUS
<1>2. CASE k = Len(s)
  <2>1. Drop(s, k) \in Seq(Seq(S)) /\ Len(Drop(s, k)) = 0
    BY <1>1, <1>2, DropIs
  <2>2. Drop(s, k) = <<>>
    BY <2>1
  <2>. QED  BY <1>2, <2>2, NothingFlattens, EmptySeq
<1>3. CASE k # Len(s)
  <2>1. k + 1 \in 0 .. Len(s)
    BY <1>1, <1>3
  <2>2. /\ Drop(s, k) \in Seq(Seq(S)) /\ Len(Drop(s, k)) = Len(s) - k
        /\ \A i \in 1 .. (Len(s) - k) : Drop(s, k)[i] = s[k + i]
    BY DropIs
  <2>3. /\ Drop(s, k + 1) \in Seq(Seq(S)) /\ Len(Drop(s, k + 1)) = Len(s) - (k + 1)
        /\ \A i \in 1 .. (Len(s) - (k + 1)) : Drop(s, k + 1)[i] = s[k + 1 + i]
    BY <2>1, DropIs
  <2>4. Len(Drop(s, k)) = Len(Drop(s, k + 1)) + 1 /\ Drop(s, k)[1] = s[k + 1] /\ s[k + 1] \in Seq(S)
    <3>1. 1 \in 1 .. (Len(s) - k) /\ k + 1 \in 1 .. Len(s) /\ Len(s) - k = Len(s) - (k + 1) + 1
      BY <1>1, <1>3
    <3>. QED  BY <1>1, <2>2, <2>3, <3>1, Zenon
  <2>5. \A i \in 1 .. Len(Drop(s, k + 1)) : Drop(s, k + 1)[i] = Drop(s, k)[i + 1]
    <3> SUFFICES ASSUME NEW i \in 1 .. (Len(s) - (k + 1)) PROVE Drop(s, k + 1)[i] = Drop(s, k)[i + 1]
      BY <2>3
    <3>1. i + 1 \in 1 .. (Len(s) - k) /\ k + (i + 1) = k + 1 + i
      BY <1>1
    <3>. QED  BY <2>2, <2>3, <3>1
  <2>6. /\ FlattenSeq(Drop(s, k + 1)) \in Seq(S)
        /\ FlattenSeq(Drop(s, k)) = s[k + 1] \o FlattenSeq(Drop(s, k + 1))
    <3>1. /\ FlattenSeq(Drop(s, k + 1)) \in Seq(S)
          /\ FlattenSeq(Drop(s, k)) = Drop(s, k)[1] \o FlattenSeq(Drop(s, k + 1))
      BY <2>2, <2>3, <2>4, <2>5, FlattenFirst, Zenon
    <3>. QED  BY <2>4, <3>1, Zenon
  <2>7. FlattenSeq(Drop(s, k)) \in Seq(S)
    BY <2>4, <2>6, ConcatProperties
  <2>. QED  BY <1>3, <2>4, <2>6, <2>7
<1>. QED
  BY <1>2, <1>3

LEMMA AllIsLeft ==
  ASSUME NEW S, NEW s \in Seq(S)
  PROVE  Drop(s, 0) = s
  BY SubSeqFull DEF Drop

----------------------------------------------------------------------------
(* What is left of a written table *)

\* The characters a written table is made of, and those of its fields.
Symbols(nl) == {LETTER, DELIMITER, QUOTE, CR} \cup (IF nl = <<CR>> THEN {} ELSE {LF})
Characters == {LETTER, DELIMITER, QUOTE, LF}
Tables == Seq(Seq(Seq(Characters)) \ {<<>>})
Quoted(v, qa) == qa \/ (\E i \in DOMAIN v : v[i] \in Special)

\* The pieces a written value, row and table are the concatenation of.
PieceOf(x, nl) == IF x = QUOTE THEN <<QUOTE, QUOTE>> ELSE IF x = LF THEN nl ELSE <<x>>
EscapedPieces(v, nl) == [i \in DOMAIN v |-> PieceOf(v[i], nl)]
FieldPiece(row, nl, qa, i) == (IF i = 1 THEN <<>> ELSE <<DELIMITER>>) \o Written(row[i], nl, qa)
RowPieces(row, nl, qa) == [i \in DOMAIN row |-> FieldPiece(row, nl, qa, i)]
TablePieces(table, nl, qa) == [i \in DOMAIN table |-> WrittenRow(table[i], nl, qa) \o nl]

\* What is left to write of a value after c characters, of a row after f fields, of a
\* table after r rows, and of a table after r rows and f fields of the next.
ValueLeft(v, nl, c) == FlattenSeq(Drop(EscapedPieces(v, nl), c))
RowLeft(row, nl, qa, f) == FlattenSeq(Drop(RowPieces(row, nl, qa), f))
TableLeft(table, nl, qa, r) == FlattenSeq(Drop(TablePieces(table, nl, qa), r))
FieldsLeft(table, nl, qa, r, f) == RowLeft(table[r + 1], nl, qa, f) \o (nl \o TableLeft(table, nl, qa, r + 1))

LEMMA SymbolsDiffer ==
  /\ LETTER \notin {DELIMITER, QUOTE, LF, CR, "end"} /\ DELIMITER \notin {QUOTE, LF, CR, "end"}
  /\ QUOTE \notin {LF, CR, "end"} /\ LF \notin {CR, "end"} /\ CR # "end"
  BY CsvAssumption

LEMMA NewlinesAre ==
  ASSUME NEW nl \in Newlines
  PROVE  /\ nl \in Seq(Symbols(nl)) /\ Len(nl) \in {1, 2} /\ nl[1] \in {LF, CR}
         /\ Len(nl) = 2 => nl[2] = LF /\ nl[1] = CR
         /\ nl = <<CR>> => LF \notin Symbols(nl)
         /\ Len(nl) = 1 /\ nl[1] = CR => nl = <<CR>>
<1>1. CASE nl = <<LF>>
  <2>1. nl # <<CR>>
    BY <1>1, SymbolsDiffer
  <2>2. Symbols(nl) = {LETTER, DELIMITER, QUOTE, CR, LF}
    BY <2>1 DEF Symbols
  <2>. QED  BY <1>1, <2>1, <2>2
<1>2. CASE nl = <<CR>>
  <2>1. Symbols(nl) = {LETTER, DELIMITER, QUOTE, CR}
    BY <1>2 DEF Symbols
  <2>. QED  BY <1>2, <2>1, SymbolsDiffer
<1>3. CASE nl = <<CR, LF>>
  <2>1. nl # <<CR>>
    BY <1>3
  <2>2. Symbols(nl) = {LETTER, DELIMITER, QUOTE, CR, LF}
    BY <2>1 DEF Symbols
  <2>. QED  BY <1>3, <2>1, <2>2
<1>. QED
  BY <1>1, <1>2, <1>3 DEF Newlines

LEMMA PiecesAre ==
  ASSUME NEW nl \in Newlines, NEW x \in Characters
  PROVE  PieceOf(x, nl) \in Seq(Symbols(nl))
<1>1. \A s \in {LETTER, DELIMITER, QUOTE} : s \in Symbols(nl)
  BY DEF Symbols
<1>2. <<QUOTE, QUOTE>> \in Seq(Symbols(nl))
  BY <1>1
<1>3. x # LF => <<x>> \in Seq(Symbols(nl))
  <2>1. x # LF => x \in Symbols(nl)
    BY <1>1 DEF Characters
  <2>. QED  BY <2>1
<1>. QED
  BY <1>2, <1>3, NewlinesAre, Zenon DEF PieceOf

LEMMA SeqIs ==
  ASSUME NEW S, NEW n \in Nat, NEW p \in [1 .. n -> S]
  PROVE  p \in Seq(S) /\ Len(p) = n
  OBVIOUS

LEMMA ValuesLeft ==
  ASSUME NEW nl \in Newlines, NEW v \in Seq(Characters), NEW c \in 0 .. Len(v)
  PROVE  /\ ValueLeft(v, nl, c) \in Seq(Symbols(nl))
         /\ c = Len(v) => ValueLeft(v, nl, c) = <<>>
         /\ c # Len(v) => /\ ValueLeft(v, nl, c + 1) \in Seq(Symbols(nl))
                          /\ ValueLeft(v, nl, c) = PieceOf(v[c + 1], nl) \o ValueLeft(v, nl, c + 1)
         /\ Escaped(v, nl) = ValueLeft(v, nl, 0)
<1> DEFINE p == EscapedPieces(v, nl)
<1>1. p \in Seq(Seq(Symbols(nl))) /\ Len(p) = Len(v) /\ \A i \in 1 .. Len(v) : p[i] = PieceOf(v[i], nl)
  <2>1. Len(v) \in Nat /\ DOMAIN v = 1 .. Len(v) /\ \A i \in 1 .. Len(v) : v[i] \in Characters
    OBVIOUS
  <2>2. p = [i \in 1 .. Len(v) |-> PieceOf(v[i], nl)]
    BY <2>1 DEF EscapedPieces
  <2>3. \A i \in 1 .. Len(v) : PieceOf(v[i], nl) \in Seq(Symbols(nl))
    BY <2>1, PiecesAre
  <2>4. p \in [1 .. Len(v) -> Seq(Symbols(nl))]
    BY <2>2, <2>3, Zenon
  <2>. QED  BY <2>1, <2>2, <2>4
<1>2. Escaped(v, nl) = FlattenSeq(p)
  BY DEF Escaped, EscapedPieces, PieceOf
<1> HIDE DEF p
<1>3. FlattenSeq(Drop(p, 0)) = FlattenSeq(p)
  BY <1>1, AllIsLeft
<1>4. c # Len(v) => c + 1 \in 1 .. Len(v)
  OBVIOUS
<1>5. /\ FlattenSeq(Drop(p, c)) \in Seq(Symbols(nl))
      /\ c = Len(p) => FlattenSeq(Drop(p, c)) = <<>>
      /\ c # Len(p) => /\ FlattenSeq(Drop(p, c + 1)) \in Seq(Symbols(nl))
                       /\ FlattenSeq(Drop(p, c)) = p[c + 1] \o FlattenSeq(Drop(p, c + 1))
  BY <1>1, LeftOver
<1>. QED
  BY <1>1, <1>2, <1>3, <1>4, <1>5, Zenon DEF ValueLeft, p

LEMMA WrittenIs ==
  ASSUME NEW nl \in Newlines, NEW qa \in BOOLEAN, NEW v \in Seq(Characters)
  PROVE  /\ Written(v, nl, qa) \in Seq(Symbols(nl))
         /\ Quoted(v, qa) => Written(v, nl, qa) = <<QUOTE>> \o ValueLeft(v, nl, 0) \o <<QUOTE>>
         /\ ~Quoted(v, qa) => /\ Written(v, nl, qa) = v
                              /\ \A i \in 1 .. Len(v) : v[i] = LETTER
<1>1. CASE Quoted(v, qa)
  <2>1. ValueLeft(v, nl, 0) \in Seq(Symbols(nl)) /\ Escaped(v, nl) = ValueLeft(v, nl, 0)
    BY ValuesLeft
  <2>2. Written(v, nl, qa) = <<QUOTE>> \o ValueLeft(v, nl, 0) \o <<QUOTE>>
    BY <1>1, <2>1 DEF Written, Quoted
  <2>3. <<QUOTE>> \in Seq(Symbols(nl))
    BY DEF Symbols
  <2>4. <<QUOTE>> \o ValueLeft(v, nl, 0) \o <<QUOTE>> \in Seq(Symbols(nl))
    BY <2>1, <2>3
  <2>. QED  BY <1>1, <2>2, <2>4
<1>2. CASE ~Quoted(v, qa)
  <2>1. Written(v, nl, qa) = v
    BY <1>2 DEF Written, Quoted
  <2>2. \A i \in 1 .. Len(v) : v[i] = LETTER
    <3>1. \A i \in 1 .. Len(v) : v[i] \in Characters /\ v[i] \notin Special
      BY <1>2 DEF Quoted
    <3>. QED  BY <3>1 DEF Characters, Special
  <2>3. v \in Seq(Symbols(nl))
    <3>1. \A i \in 1 .. Len(v) : v[i] \in Symbols(nl)
      BY <2>2 DEF Symbols
    <3>. QED  BY <3>1
  <2>. QED  BY <1>2, <2>1, <2>2, <2>3
<1>. QED
  BY <1>1, <1>2

LEMMA RowsLeft ==
  ASSUME NEW nl \in Newlines, NEW qa \in BOOLEAN, NEW row \in Seq(Seq(Characters)), NEW f \in 0 .. Len(row)
  PROVE  /\ RowLeft(row, nl, qa, f) \in Seq(Symbols(nl))
         /\ f = Len(row) => RowLeft(row, nl, qa, f) = <<>>
         /\ f # Len(row) => /\ RowLeft(row, nl, qa, f + 1) \in Seq(Symbols(nl))
                            /\ FieldPiece(row, nl, qa, f + 1) \in Seq(Symbols(nl))
                            /\ RowLeft(row, nl, qa, f) = FieldPiece(row, nl, qa, f + 1) \o RowLeft(row, nl, qa, f + 1)
         /\ WrittenRow(row, nl, qa) = RowLeft(row, nl, qa, 0)
<1> DEFINE p == RowPieces(row, nl, qa)
<1>1. /\ p \in Seq(Seq(Symbols(nl))) /\ Len(p) = Len(row)
      /\ \A i \in 1 .. Len(row) : p[i] = FieldPiece(row, nl, qa, i) /\ p[i] \in Seq(Symbols(nl))
  <2>1. Len(row) \in Nat /\ DOMAIN row = 1 .. Len(row) /\ \A i \in 1 .. Len(row) : row[i] \in Seq(Characters)
    OBVIOUS
  <2>2. p = [i \in 1 .. Len(row) |-> FieldPiece(row, nl, qa, i)]
    BY <2>1 DEF RowPieces
  <2>3. ASSUME NEW i \in 1 .. Len(row) PROVE FieldPiece(row, nl, qa, i) \in Seq(Symbols(nl))
    <3>1. Written(row[i], nl, qa) \in Seq(Symbols(nl))
      BY <2>1, WrittenIs
    <3>2. <<>> \in Seq(Symbols(nl)) /\ <<DELIMITER>> \in Seq(Symbols(nl))
      BY DEF Symbols
    <3>. QED  BY <3>1, <3>2, ConcatProperties DEF FieldPiece
  <2>4. p \in [1 .. Len(row) -> Seq(Symbols(nl))] /\ \A i \in 1 .. Len(row) : p[i] = FieldPiece(row, nl, qa, i)
    BY <2>2, <2>3, Zenon
  <2> HIDE DEF p
  <2>5. p \in Seq(Seq(Symbols(nl))) /\ Len(p) = Len(row)
    BY <2>1, <2>4, SeqIs, Zenon
  <2>. QED  BY <2>3, <2>4, <2>5, Zenon
<1>2. WrittenRow(row, nl, qa) = FlattenSeq(p)
  BY DEF WrittenRow, RowPieces, FieldPiece
<1> HIDE DEF p
<1>3. FlattenSeq(Drop(p, 0)) = FlattenSeq(p)
  BY <1>1, AllIsLeft
<1>4. f # Len(row) => f + 1 \in 1 .. Len(row)
  OBVIOUS
<1>5. /\ FlattenSeq(Drop(p, f)) \in Seq(Symbols(nl))
      /\ f = Len(p) => FlattenSeq(Drop(p, f)) = <<>>
      /\ f # Len(p) => /\ FlattenSeq(Drop(p, f + 1)) \in Seq(Symbols(nl))
                       /\ FlattenSeq(Drop(p, f)) = p[f + 1] \o FlattenSeq(Drop(p, f + 1))
  BY <1>1, LeftOver
<1>. QED
  BY <1>1, <1>2, <1>3, <1>4, <1>5, Zenon DEF RowLeft, p

LEMMA TablesLeft ==
  ASSUME NEW nl \in Newlines, NEW qa \in BOOLEAN, NEW table \in Tables, NEW r \in 0 .. Len(table)
  PROVE  /\ TableLeft(table, nl, qa, r) \in Seq(Symbols(nl))
         /\ r = Len(table) => TableLeft(table, nl, qa, r) = <<>>
         /\ r # Len(table) => /\ TableLeft(table, nl, qa, r + 1) \in Seq(Symbols(nl))
                              /\ FieldsLeft(table, nl, qa, r, 0) \in Seq(Symbols(nl))
                              /\ TableLeft(table, nl, qa, r) = FieldsLeft(table, nl, qa, r, 0)
         /\ WrittenTable(table, nl, qa) = TableLeft(table, nl, qa, 0)
<1> DEFINE p == TablePieces(table, nl, qa)
<1>1. \A i \in 1 .. Len(table) : table[i] \in Seq(Seq(Characters)) /\ WrittenRow(table[i], nl, qa) \in Seq(Symbols(nl))
  <2> SUFFICES ASSUME NEW i \in 1 .. Len(table)
      PROVE table[i] \in Seq(Seq(Characters)) /\ WrittenRow(table[i], nl, qa) \in Seq(Symbols(nl))
    OBVIOUS
  <2>1. table[i] \in Seq(Seq(Characters)) \ {<<>>}
    BY DEF Tables
  <2>2. 0 \in 0 .. Len(table[i])
    BY <2>1
  <2>. QED  BY <2>1, <2>2, RowsLeft
<1>2. nl \in Seq(Symbols(nl))
  BY NewlinesAre
<1>3. /\ p \in Seq(Seq(Symbols(nl))) /\ Len(p) = Len(table)
      /\ \A i \in 1 .. Len(table) : p[i] = WrittenRow(table[i], nl, qa) \o nl
  <2>1. Len(table) \in Nat /\ DOMAIN table = 1 .. Len(table)
    BY DEF Tables
  <2>2. p = [i \in 1 .. Len(table) |-> WrittenRow(table[i], nl, qa) \o nl]
    BY <2>1 DEF TablePieces
  <2>3. \A i \in 1 .. Len(table) : WrittenRow(table[i], nl, qa) \o nl \in Seq(Symbols(nl))
    BY <1>1, <1>2, ConcatProperties
  <2>4. /\ p \in [1 .. Len(table) -> Seq(Symbols(nl))]
        /\ \A i \in 1 .. Len(table) : p[i] = WrittenRow(table[i], nl, qa) \o nl
    BY <2>2, <2>3, Zenon
  <2> HIDE DEF p
  <2>5. p \in Seq(Seq(Symbols(nl))) /\ Len(p) = Len(table)
    BY <2>1, <2>4, SeqIs, Zenon
  <2>. QED  BY <2>4, <2>5, Zenon
<1>4. WrittenTable(table, nl, qa) = FlattenSeq(p)
  BY DEF WrittenTable, TablePieces
<1> HIDE DEF p
<1>5. FlattenSeq(Drop(p, 0)) = FlattenSeq(p)
  BY <1>3, AllIsLeft
<1>6. /\ FlattenSeq(Drop(p, r)) \in Seq(Symbols(nl))
      /\ r = Len(p) => FlattenSeq(Drop(p, r)) = <<>>
      /\ r # Len(p) => /\ p[r + 1] \in Seq(Symbols(nl))
                       /\ FlattenSeq(Drop(p, r + 1)) \in Seq(Symbols(nl))
                       /\ FlattenSeq(Drop(p, r)) = p[r + 1] \o FlattenSeq(Drop(p, r + 1))
  BY <1>3, LeftOver
<1>7. ASSUME r # Len(table)
      PROVE  /\ FlattenSeq(Drop(p, r)) \in Seq(Symbols(nl))
             /\ FlattenSeq(Drop(p, r)) = FieldsLeft(table, nl, qa, r, 0)
  <2>1. r + 1 \in 1 .. Len(table)
    BY <1>7 DEF Tables
  <2>2. 0 \in 0 .. Len(table[r + 1])
    BY <1>1, <2>1
  <2>3. /\ WrittenRow(table[r + 1], nl, qa) = RowLeft(table[r + 1], nl, qa, 0)
        /\ RowLeft(table[r + 1], nl, qa, 0) \in Seq(Symbols(nl))
    BY <1>1, <2>1, <2>2, RowsLeft
  <2>4. FlattenSeq(Drop(p, r)) = (RowLeft(table[r + 1], nl, qa, 0) \o nl) \o FlattenSeq(Drop(p, r + 1))
    BY <1>3, <1>6, <1>7, <2>1, <2>3, Zenon
  <2>5. Regroups(RowLeft(table[r + 1], nl, qa, 0), nl, FlattenSeq(Drop(p, r + 1)))
    BY <1>2, <1>3, <1>6, <1>7, <2>3, Associative, Zenon
  <2>. QED  BY <1>6, <2>4, <2>5, Zenon DEF Regroups, FieldsLeft, TableLeft, p
<1>. QED
  BY <1>3, <1>4, <1>5, <1>6, <1>7, Zenon DEF TableLeft, p

LEMMA FieldsAre ==
  ASSUME NEW nl \in Newlines, NEW qa \in BOOLEAN, NEW table \in Tables, NEW r \in 0 .. Len(table), r # Len(table),
         NEW f \in 0 .. Len(table[r + 1])
  PROVE  /\ FieldsLeft(table, nl, qa, r, f) \in Seq(Symbols(nl))
         /\ f = Len(table[r + 1]) => FieldsLeft(table, nl, qa, r, f) = nl \o TableLeft(table, nl, qa, r + 1)
         /\ f # Len(table[r + 1]) =>
              /\ FieldsLeft(table, nl, qa, r, f + 1) \in Seq(Symbols(nl))
              /\ Written(table[r + 1][f + 1], nl, qa) \o FieldsLeft(table, nl, qa, r, f + 1) \in Seq(Symbols(nl))
              /\ f = 0 => FieldsLeft(table, nl, qa, r, f)
                            = Written(table[r + 1][f + 1], nl, qa) \o FieldsLeft(table, nl, qa, r, f + 1)
              /\ f # 0 => FieldsLeft(table, nl, qa, r, f)
                            = <<DELIMITER>> \o (Written(table[r + 1][f + 1], nl, qa) \o FieldsLeft(table, nl, qa, r, f + 1))
<1> DEFINE row == table[r + 1]
           end == nl \o TableLeft(table, nl, qa, r + 1)
<1>1. row \in Seq(Seq(Characters)) /\ r + 1 \in 0 .. Len(table)
  BY DEF Tables
<1>2. nl \in Seq(Symbols(nl)) /\ TableLeft(table, nl, qa, r + 1) \in Seq(Symbols(nl))
  BY <1>1, NewlinesAre, TablesLeft
<1>3. end \in Seq(Symbols(nl))
  BY <1>2, ConcatProperties
<1>4. /\ RowLeft(row, nl, qa, f) \in Seq(Symbols(nl))
      /\ f = Len(row) => RowLeft(row, nl, qa, f) = <<>>
      /\ f # Len(row) => /\ RowLeft(row, nl, qa, f + 1) \in Seq(Symbols(nl))
                         /\ FieldPiece(row, nl, qa, f + 1) \in Seq(Symbols(nl))
                         /\ RowLeft(row, nl, qa, f) = FieldPiece(row, nl, qa, f + 1) \o RowLeft(row, nl, qa, f + 1)
  BY <1>1, RowsLeft
<1>5. \A g : FieldsLeft(table, nl, qa, r, g) = RowLeft(row, nl, qa, g) \o end
  BY DEF FieldsLeft
<1>6. FieldsLeft(table, nl, qa, r, f) \in Seq(Symbols(nl))
  <2>1. RowLeft(row, nl, qa, f) \o end \in Seq(Symbols(nl))
    BY <1>3, <1>4, ConcatProperties, Zenon
  <2>. QED  BY <1>5, <2>1, Zenon
<1>7. f = Len(row) => FieldsLeft(table, nl, qa, r, f) = end
  BY <1>3, <1>4, <1>5, ConcatEmptySeq
<1>8. ASSUME f # Len(row)
      PROVE  /\ FieldsLeft(table, nl, qa, r, f + 1) \in Seq(Symbols(nl))
             /\ Written(row[f + 1], nl, qa) \o FieldsLeft(table, nl, qa, r, f + 1) \in Seq(Symbols(nl))
             /\ f = 0 => FieldsLeft(table, nl, qa, r, f)
                           = Written(row[f + 1], nl, qa) \o FieldsLeft(table, nl, qa, r, f + 1)
             /\ f # 0 => FieldsLeft(table, nl, qa, r, f)
                           = <<DELIMITER>> \o (Written(row[f + 1], nl, qa) \o FieldsLeft(table, nl, qa, r, f + 1))
  <2> DEFINE w == Written(row[f + 1], nl, qa)
             a == FieldsLeft(table, nl, qa, r, f + 1)
  <2>1. f + 1 \in 1 .. Len(row) /\ row[f + 1] \in Seq(Characters)
    BY <1>1, <1>8
  <2>2. w \in Seq(Symbols(nl))
    BY <2>1, WrittenIs
  <2>3. a \in Seq(Symbols(nl)) /\ a = RowLeft(row, nl, qa, f + 1) \o end
    <3>1. RowLeft(row, nl, qa, f + 1) \o end \in Seq(Symbols(nl))
      BY <1>3, <1>4, <1>8, ConcatProperties, Zenon
    <3>. QED  BY <1>5, <3>1, Zenon
  <2>4. Regroups(FieldPiece(row, nl, qa, f + 1), RowLeft(row, nl, qa, f + 1), end)
    BY <1>3, <1>4, <1>8, Associative, Zenon
  <2>5. FieldsLeft(table, nl, qa, r, f) = FieldPiece(row, nl, qa, f + 1) \o a
    BY <1>4, <1>5, <1>8, <2>3, <2>4, Zenon DEF Regroups
  <2>6. FieldPiece(row, nl, qa, f + 1) = (IF f = 0 THEN <<>> ELSE <<DELIMITER>>) \o w
    BY DEF FieldPiece
  <2> HIDE DEF w, a
  <2>7. CASE f = 0
    <3>1. <<>> \o w = w
      BY <2>2, ConcatEmptySeq
    <3>. QED  BY <2>2, <2>3, <2>5, <2>6, <2>7, <3>1, ConcatProperties DEF w, a
  <2>8. CASE f # 0
    <3>1. <<DELIMITER>> \in Seq(Symbols(nl))
      BY DEF Symbols
    <3>2. Regroups(<<DELIMITER>>, w, a)
      BY <2>2, <2>3, <3>1, Associative, Zenon
    <3>3. w \o a \in Seq(Symbols(nl))
      BY <2>2, <2>3, ConcatProperties
    <3>4. FieldPiece(row, nl, qa, f + 1) = <<DELIMITER>> \o w
      BY <2>6, <2>8
    <3>5. FieldsLeft(table, nl, qa, r, f) = <<DELIMITER>> \o (w \o a)
      BY <2>5, <3>2, <3>4, Zenon DEF Regroups
    <3>. QED  BY <2>3, <2>8, <3>3, <3>5, Zenon DEF w, a
  <2>. QED  BY <2>7, <2>8
<1> HIDE DEF end
<1>. QED
  BY <1>6, <1>7, <1>8, Zenon DEF row, end

----------------------------------------------------------------------------
(* Where the reader stands in a file *)

WrittenWhole(nl, qa) == WrittenTable(export.table, nl, qa)

\* The characters of a written table the file has not.
Lost(nl) ==
  IF export.final \/ export.table = <<>> THEN 0 ELSE IF export.cut THEN Len(nl) + 1 ELSE Len(nl)

TextIs(nl, qa) ==
  /\ export.table \in Tables /\ export.final \in BOOLEAN /\ export.cut \in BOOLEAN
  /\ export.cut => ~export.final /\ export.table # <<>> /\ WrittenWhole(nl, qa)[Len(text) + 1] = QUOTE
  /\ text \in Seq(Symbols(nl)) /\ Len(WrittenWhole(nl, qa)) = Len(text) + Lost(nl)
  /\ \A i \in 1 .. Len(text) : text[i] = WrittenWhole(nl, qa)[i]

\* From its i-th character on, the written table is rest.
Lies(rest, i, nl, qa) ==
  /\ rest \in Seq(Symbols(nl)) /\ i \in 1 .. (Len(text) + 1) /\ i + Len(rest) = Len(text) + Lost(nl) + 1
  /\ \A k \in 1 .. Len(rest) : rest[k] = WrittenWhole(nl, qa)[i - 1 + k]

LEMMA LostIs ==
  ASSUME NEW nl \in Newlines, NEW qa \in BOOLEAN, TextIs(nl, qa)
  PROVE  /\ Lost(nl) \in Nat /\ Len(nl) \in {1, 2} /\ Lost(nl) \in {0, Len(nl), Len(nl) + 1}
         /\ export.cut <=> Lost(nl) = Len(nl) + 1
         /\ export.final => Lost(nl) = 0
         /\ Len(text) \in Nat
  BY NewlinesAre DEF TextIs, Lost

LEMMA SymbolsAre ==
  ASSUME NEW nl \in Newlines
  PROVE  /\ {LETTER, DELIMITER, QUOTE, CR} \subseteq Symbols(nl) /\ Symbols(nl) \subseteq {LETTER, DELIMITER, QUOTE, CR, LF}
         /\ "end" \notin Symbols(nl)
  BY SymbolsDiffer DEF Symbols

LEMMA Reads ==
  ASSUME NEW nl \in Newlines, NEW qa \in BOOLEAN, TextIs(nl, qa), NEW rest, NEW i, Lies(rest, i, nl, qa)
  PROVE  /\ Len(rest) \in Nat /\ i \in Nat /\ Len(rest) >= Lost(nl)
         /\ Len(rest) > Lost(nl) => i <= Len(text) /\ At(i) = rest[1] /\ At(i) # "end"
         /\ Len(rest) = Lost(nl) => i = Len(text) + 1 /\ At(i) = "end" /\ (export.cut => rest[1] = QUOTE)
         /\ Len(rest) > Lost(nl) + 1 => i + 1 <= Len(text) /\ At(i + 1) = rest[2]
         /\ Len(rest) = Lost(nl) + 1 => At(i + 1) = "end" /\ (export.cut => rest[2] = QUOTE)
<1> DEFINE w == WrittenWhole(nl, qa)
<1>1. /\ Lost(nl) \in Nat /\ Len(nl) \in {1, 2} /\ Len(text) \in Nat
      /\ export.cut => Lost(nl) = Len(nl) + 1
  BY LostIs
<1>2. /\ rest \in Seq(Symbols(nl)) /\ i \in 1 .. (Len(text) + 1) /\ i + Len(rest) = Len(text) + Lost(nl) + 1
      /\ \A k \in 1 .. Len(rest) : rest[k] = w[i - 1 + k]
  BY DEF Lies
<1>3. /\ export.cut => w[Len(text) + 1] = QUOTE
      /\ text \in Seq(Symbols(nl))
      /\ \A k \in 1 .. Len(text) : text[k] = w[k]
  BY DEF TextIs
<1> HIDE DEF w
<1>4. Len(rest) \in Nat /\ i \in Nat /\ DOMAIN text = 1 .. Len(text)
  BY <1>2, <1>3
<1>5. \A k \in Nat : At(k) = IF k \in 1 .. Len(text) THEN w[k] ELSE "end"
  BY <1>3, <1>4 DEF At
<1>6. \A k \in 1 .. Len(text) : w[k] # "end"
  <2>1. \A k \in 1 .. Len(text) : text[k] \in Symbols(nl)
    BY <1>3
  <2>. QED  BY <1>3, <2>1, SymbolsAre
<1>7. Len(rest) >= 1 => rest[1] = w[i]
  <2>1. Len(rest) >= 1 => 1 \in 1 .. Len(rest) /\ i - 1 + 1 = i
    BY <1>4
  <2>. QED  BY <1>2, <2>1, Zenon
<1>8. Len(rest) >= 2 => rest[2] = w[i + 1]
  <2>1. Len(rest) >= 2 => 2 \in 1 .. Len(rest) /\ i - 1 + 2 = i + 1
    BY <1>4
  <2>. QED  BY <1>2, <2>1, Zenon
<1>9. Len(rest) >= Lost(nl) /\ (export.cut => Lost(nl) >= 2)
  <2>1. Len(rest) >= Lost(nl)
    <3>1. i \in 1 .. (Len(text) + 1) /\ i + Len(rest) = Len(text) + Lost(nl) + 1
      BY <1>2
    <3>. QED  BY <1>1, <1>4, <3>1
  <2>2. Lost(nl) = Len(nl) + 1 => Lost(nl) >= 2
    <3>1. Lost(nl) \in Nat /\ Len(nl) \in {1, 2}
      BY <1>1
    <3>. QED  BY <3>1
  <2>. QED  BY <1>1, <2>1, <2>2, Zenon
<1>10. Len(rest) > Lost(nl) => i <= Len(text) /\ At(i) = rest[1] /\ At(i) # "end"
  <2>1. Len(rest) > Lost(nl) => i \in 1 .. Len(text) /\ Len(rest) >= 1
    BY <1>1, <1>2, <1>4
  <2>. QED  BY <1>4, <1>5, <1>6, <1>7, <2>1
<1>11. Len(rest) = Lost(nl) => i = Len(text) + 1 /\ At(i) = "end" /\ (export.cut => rest[1] = QUOTE)
  <2>1. Len(rest) = Lost(nl) => i = Len(text) + 1 /\ i \notin 1 .. Len(text)
    BY <1>1, <1>2, <1>4
  <2>2. export.cut /\ Len(rest) = Lost(nl) => Len(rest) >= 1
    BY <1>1, <1>4, <1>9
  <2>. QED  BY <1>3, <1>4, <1>5, <1>7, <2>1, <2>2
<1>12. Len(rest) > Lost(nl) + 1 => i + 1 <= Len(text) /\ At(i + 1) = rest[2]
  <2>1. Len(rest) > Lost(nl) + 1 => i + 1 \in 1 .. Len(text) /\ Len(rest) >= 2 /\ i + 1 \in Nat
    BY <1>1, <1>2, <1>4
  <2>. QED  BY <1>4, <1>5, <1>8, <2>1
<1>13. Len(rest) = Lost(nl) + 1 => At(i + 1) = "end" /\ (export.cut => rest[2] = QUOTE)
  <2>1. Len(rest) = Lost(nl) + 1 => i + 1 = Len(text) + 1 /\ i + 1 \notin 1 .. Len(text) /\ i + 1 \in Nat
    BY <1>1, <1>2, <1>4
  <2>2. export.cut /\ Len(rest) = Lost(nl) + 1 => Len(rest) >= 2
    BY <1>1, <1>4, <1>9
  <2>. QED  BY <1>3, <1>4, <1>5, <1>8, <2>1, <2>2
<1>. QED
  BY <1>4, <1>9, <1>10, <1>11, <1>12, <1>13, Zenon

Joined(rest, x, left) == rest = x \o left

LEMMA JoinedIs ==
  ASSUME NEW S, NEW x \in Seq(S), NEW left \in Seq(S), NEW rest, Joined(rest, x, left)
  PROVE  /\ Len(rest) = Len(x) + Len(left) /\ Len(left) \in Nat /\ Len(x) \in Nat
         /\ \A k \in 1 .. Len(x) : rest[k] = x[k]
         /\ Len(x) >= 1 => rest[1] = x[1]
<1>1. /\ Len(rest) = Len(x) + Len(left) /\ Len(left) \in Nat /\ Len(x) \in Nat
      /\ \A k \in 1 .. (Len(x) + Len(left)) : rest[k] = IF k <= Len(x) THEN x[k] ELSE left[k - Len(x)]
  BY ConcatProperties DEF Joined
<1>2. \A k \in 1 .. Len(x) : rest[k] = x[k]
  BY <1>1
<1>3. Len(x) >= 1 => rest[1] = x[1]
  <2>1. Len(x) >= 1 => 1 \in 1 .. Len(x)
    BY <1>1
  <2>. QED  BY <1>2, <2>1
<1>. QED
  BY <1>1, <1>2, <1>3

LEMMA Advances ==
  ASSUME NEW nl \in Newlines, NEW qa \in BOOLEAN, TextIs(nl, qa), NEW i, NEW x, NEW left \in Seq(Symbols(nl)),
         NEW rest, Joined(rest, x, left), x \in Seq(Symbols(nl)), Lies(rest, i, nl, qa)
  PROVE  Len(left) >= Lost(nl) => Lies(left, i + Len(x), nl, qa)
<1>1. /\ Len(rest) = Len(x) + Len(left) /\ Len(left) \in Nat /\ Len(x) \in Nat
      /\ \A k \in 1 .. (Len(x) + Len(left)) : rest[k] = IF k <= Len(x) THEN x[k] ELSE left[k - Len(x)]
  BY ConcatProperties DEF Joined
<1>2. /\ i \in 1 .. (Len(text) + 1) /\ i + Len(rest) = Len(text) + Lost(nl) + 1
      /\ \A k \in 1 .. Len(rest) : rest[k] = WrittenWhole(nl, qa)[i - 1 + k]
  BY DEF Lies
<1>3. Lost(nl) \in Nat /\ Len(text) \in Nat
  BY LostIs
<1>4. ASSUME Len(left) >= Lost(nl)
      PROVE  Lies(left, i + Len(x), nl, qa)
  <2>1. i + Len(x) \in 1 .. (Len(text) + 1) /\ (i + Len(x)) + Len(left) = Len(text) + Lost(nl) + 1
    BY <1>1, <1>2, <1>3, <1>4
  <2>2. ASSUME NEW k \in 1 .. Len(left) PROVE left[k] = WrittenWhole(nl, qa)[i + Len(x) - 1 + k]
    <3>1. /\ k + Len(x) \in 1 .. (Len(x) + Len(left)) /\ ~ (k + Len(x) <= Len(x)) /\ (k + Len(x)) - Len(x) = k
          /\ i - 1 + (k + Len(x)) = i + Len(x) - 1 + k
      BY <1>1, <1>2
    <3>. QED  BY <1>1, <1>2, <3>1
  <2>. QED  BY <2>1, <2>2 DEF Lies
<1>. QED
  BY <1>4

----------------------------------------------------------------------------
(* The line a reader stands on *)

\* The line breaks in the first f fields of a row and the first c characters of the next.
Breaks(row, f, c) ==
  {p \in (1 .. Len(row)) \X Nat : /\ p[1] <= f \/ (p[1] = f + 1 /\ p[2] <= c)
                                  /\ p[2] \in 1 .. Len(row[p[1]]) /\ row[p[1]][p[2]] = LF}

LEMMA BreaksGrow ==
  ASSUME NEW row, NEW f, NEW c \in Nat, NEW p \in Breaks(row, f, c)
  PROVE  p \in Breaks(row, f, c + 1)
<1>1. p[2] \in Nat
  BY DEF Breaks
<1>2. p[2] <= c => p[2] <= c + 1
  BY <1>1
<1>. QED  BY <1>2, Zenon DEF Breaks

LEMMA BreaksAreFinite ==
  ASSUME NEW row \in Seq(Seq(Characters)), NEW f \in Nat, NEW c \in Nat
  PROVE  IsFiniteSet(Breaks(row, f, c)) /\ Cardinality(Breaks(row, f, c)) \in Nat
<1> DEFINE g == [i \in 1 .. Len(row) |-> Len(row[i])]
<1>1. Len(row) \in Nat /\ \A i \in 1 .. Len(row) : Len(row[i]) \in Nat
  OBVIOUS
<1>2. g \in [1 .. Len(row) -> Nat] /\ \A i \in 1 .. Len(row) : g[i] = Len(row[i])
  BY <1>1
<1>3. IsFiniteSet(1 .. Len(row))
  BY <1>1, FS_Interval
<1> HIDE DEF g
<1>4. IsFiniteSet(Units(g, 1 .. Len(row)))
  <2>1. 1 .. Len(row) \in SUBSET (1 .. Len(row))
    OBVIOUS
  <2>. QED  BY <1>2, <1>3, <2>1, UnitsAreSummed, Zenon
<1>5. Breaks(row, f, c) \subseteq Units(g, 1 .. Len(row))
  <2>1. \A p \in Breaks(row, f, c) : p \in (1 .. Len(row)) \X Nat /\ p[1] \in 1 .. Len(row) /\ p[2] \in 1 .. Len(row[p[1]])
    BY DEF Breaks
  <2>2. \A p \in Breaks(row, f, c) : p[2] \in 1 .. g[p[1]]
    BY <1>2, <2>1, Zenon
  <2>. QED  BY <2>1, <2>2 DEF Units
<1>. QED
  BY <1>4, <1>5, FS_Subset, FS_CardinalityType

LEMMA LinesAre ==
  ASSUME NEW row \in Seq(Seq(Characters))
  PROVE  LinesOf(row) = 1 + Cardinality(Breaks(row, Len(row), 0)) /\ LinesOf(row) \in Nat
<1> DEFINE U == UNION {{<<i, j>> : j \in {k \in DOMAIN row[i] : row[i][k] = LF}} : i \in DOMAIN row}
<1>1. /\ Len(row) \in Nat /\ DOMAIN row = 1 .. Len(row)
      /\ \A i \in 1 .. Len(row) : row[i] \in Seq(Characters) /\ Len(row[i]) \in Nat /\ DOMAIN row[i] = 1 .. Len(row[i])
  OBVIOUS
<1>2. U = Breaks(row, Len(row), 0)
  <2>1. ASSUME NEW p \in U PROVE p \in Breaks(row, Len(row), 0)
    <3>0. PICK i \in 1 .. Len(row) : \E j \in 1 .. Len(row[i]) : row[i][j] = LF /\ p = <<i, j>>
      BY <1>1
    <3>1. PICK j \in 1 .. Len(row[i]) : row[i][j] = LF /\ p = <<i, j>>
      BY <3>0
    <3>2. p \in (1 .. Len(row)) \X Nat /\ p[1] = i /\ p[2] = j /\ i <= Len(row)
      BY <1>1, <3>1
    <3>. QED  BY <3>1, <3>2 DEF Breaks
  <2>2. ASSUME NEW p \in Breaks(row, Len(row), 0) PROVE p \in U
    <3>1. PICK i \in 1 .. Len(row), j \in Nat : p = <<i, j>>
      BY DEF Breaks
    <3>2. j \in 1 .. Len(row[i]) /\ row[i][j] = LF
      BY <3>1 DEF Breaks
    <3>. QED  BY <1>1, <3>1, <3>2
  <2> HIDE DEF U
  <2>. QED  BY <2>1, <2>2
<1>3. Cardinality(Breaks(row, Len(row), 0)) \in Nat
  BY <1>1, BreaksAreFinite
<1>4. LinesOf(row) = 1 + Cardinality(U)
  BY DEF LinesOf
<1> HIDE DEF U
<1>. QED
  BY <1>2, <1>3, <1>4

LEMMA NoBreaksYet ==
  ASSUME NEW row \in Seq(Seq(Characters))
  PROVE  Cardinality(Breaks(row, 0, 0)) = 0
<1>1. Breaks(row, 0, 0) = {}
  BY DEF Breaks
<1>. QED
  BY <1>1, FS_EmptySet

LEMMA BreaksOfFields ==
  ASSUME NEW row \in Seq(Seq(Characters)), NEW f \in 0 .. Len(row), f # Len(row)
  PROVE  Breaks(row, f, Len(row[f + 1])) = Breaks(row, f + 1, 0)
<1>1. \A p \in (1 .. Len(row)) \X Nat :
        p[2] \in 1 .. Len(row[p[1]]) =>
          ((p[1] <= f \/ (p[1] = f + 1 /\ p[2] <= Len(row[f + 1]))) <=> (p[1] <= f + 1 \/ (p[1] = f + 1 + 1 /\ p[2] <= 0)))
  OBVIOUS
<1>. QED
  BY <1>1 DEF Breaks

LEMMA BreaksOfValues ==
  ASSUME NEW row \in Seq(Seq(Characters)), NEW f \in 0 .. Len(row), f # Len(row),
         NEW c \in 0 .. Len(row[f + 1]), c # Len(row[f + 1])
  PROVE  Cardinality(Breaks(row, f, c + 1))
           = Cardinality(Breaks(row, f, c)) + IF row[f + 1][c + 1] = LF THEN 1 ELSE 0
<1>1. /\ f \in Nat /\ c \in Nat /\ f + 1 \in 1 .. Len(row) /\ c + 1 \in Nat /\ Len(row) \in Nat
      /\ c + 1 \in 1 .. Len(row[f + 1])
  <2>1. Len(row) \in Nat /\ f + 1 \in 1 .. Len(row)
    OBVIOUS
  <2>2. row[f + 1] \in Seq(Characters)
    BY <2>1
  <2>. QED  BY <2>1, <2>2
<1>2. IsFiniteSet(Breaks(row, f, c)) /\ Cardinality(Breaks(row, f, c)) \in Nat
  BY <1>1, BreaksAreFinite
<1> DEFINE q == <<f + 1, c + 1>>
<1>3. q \notin Breaks(row, f, c)
  BY <1>1 DEF Breaks
<1>4. CASE row[f + 1][c + 1] = LF
  <2>1. Breaks(row, f, c + 1) = Breaks(row, f, c) \cup {q}
    <3>1. ASSUME NEW p \in Breaks(row, f, c + 1) PROVE p \in Breaks(row, f, c) \cup {q}
      <4>1. PICK i \in 1 .. Len(row), j \in Nat : p = <<i, j>>
        BY DEF Breaks
      <4>2. (i <= f \/ (i = f + 1 /\ j <= c + 1)) /\ j \in 1 .. Len(row[i]) /\ row[i][j] = LF
        BY <4>1 DEF Breaks
      <4>3. CASE i = f + 1 /\ j = c + 1
        BY <4>1, <4>3
      <4>4. CASE ~ (i = f + 1 /\ j = c + 1)
        <5>1. i <= f \/ (i = f + 1 /\ j <= c)
          BY <1>1, <4>2, <4>4
        <5>. QED  BY <4>1, <4>2, <5>1 DEF Breaks
      <4>. QED  BY <4>3, <4>4
    <3>2. ASSUME NEW p \in Breaks(row, f, c) PROVE p \in Breaks(row, f, c + 1)
      BY <1>1, <3>2, BreaksGrow, Zenon
    <3>3. q \in Breaks(row, f, c + 1)
      BY <1>1, <1>4 DEF Breaks
    <3> HIDE DEF q
    <3>. QED  BY <3>1, <3>2, <3>3
  <2> HIDE DEF q
  <2>2. Cardinality(Breaks(row, f, c) \cup {q}) = Cardinality(Breaks(row, f, c)) + 1
    BY <1>2, <1>3, FS_AddElement
  <2>. QED  BY <1>4, <2>1, <2>2
<1>5. CASE row[f + 1][c + 1] # LF
  <2>1. Breaks(row, f, c + 1) = Breaks(row, f, c)
    <3>1. ASSUME NEW p \in Breaks(row, f, c + 1) PROVE p \in Breaks(row, f, c)
      <4>1. PICK i \in 1 .. Len(row), j \in Nat : p = <<i, j>>
        BY DEF Breaks
      <4>2. (i <= f \/ (i = f + 1 /\ j <= c + 1)) /\ j \in 1 .. Len(row[i]) /\ row[i][j] = LF
        BY <4>1 DEF Breaks
      <4>3. ~ (i = f + 1 /\ j = c + 1)
        BY <4>2, <1>5
      <4>4. i <= f \/ (i = f + 1 /\ j <= c)
        BY <1>1, <4>2, <4>3
      <4>. QED  BY <4>1, <4>2, <4>4 DEF Breaks
    <3>2. ASSUME NEW p \in Breaks(row, f, c) PROVE p \in Breaks(row, f, c + 1)
      BY <1>1, <3>2, BreaksGrow, Zenon
    <3>. QED  BY <3>1, <3>2
  <2>. QED  BY <1>2, <1>5, <2>1
<1>. QED
  BY <1>4, <1>5

LinesUpTo(table, n) == [i \in 1 .. n |-> LinesOf(table[i])]

LEMMA StartsAre ==
  ASSUME NEW table \in Tables, NEW n \in 0 .. Len(table)
  PROVE  /\ StartOf(table, n + 1) = 1 + Cardinality(Units(LinesUpTo(table, n), 1 .. n))
         /\ StartOf(table, n + 1) \in Nat
<1> DEFINE S == 1 .. ((n + 1) - 1)
           f == LinesUpTo(table, n)
           Step(g) == [t \in SUBSET S |->
                        IF t = {} THEN 0
                        ELSE LinesOf(table[CHOOSE x \in t : TRUE]) + g[t \ {CHOOSE x \in t : TRUE}]]
           iter == CHOOSE g : g = Step(g)
<1>0. Len(table) \in Nat /\ n \in Nat /\ S = 1 .. n
  BY DEF Tables
<1>1. IsFiniteSet(S) /\ f \in [S -> Nat] /\ \A i \in S : f[i] = LinesOf(table[i])
  <2>1. IsFiniteSet(S)
    BY <1>0, FS_Interval
  <2>2. \A i \in S : table[i] \in Seq(Seq(Characters))
    BY <1>0 DEF Tables
  <2>3. \A i \in S : LinesOf(table[i]) \in Nat
    BY <2>2, LinesAre
  <2>4. f = [i \in S |-> LinesOf(table[i])]
    BY <1>0 DEF LinesUpTo
  <2> HIDE DEF S, f
  <2>. QED  BY <2>1, <2>3, <2>4
<1>2. StartOf(table, n + 1) = 1 + iter[S]
  BY DEF StartOf, MapThenSumSet, MapThenFoldSet
<1>3. \A g : g = Step(g) <=> SumsUp(g, S, f)
  <2> HIDE DEF S, f
  <2>1. \A t \in SUBSET S : t # {} => f[CHOOSE x \in t : TRUE] = LinesOf(table[CHOOSE x \in t : TRUE])
    BY <1>1
  <2>. QED  BY <2>1 DEF Summed, SumsUp
<1> HIDE DEF S, f, Step
<1>4. SumsUp(iter, S, f)
  BY <1>1, <1>3, SumIsCount
<1> HIDE DEF iter
<1>5. iter[S] = Cardinality(Units(f, S))
  BY <1>1, <1>4, SumIsCount
<1>6. Cardinality(Units(f, S)) \in Nat
  <2>1. S \in SUBSET S
    OBVIOUS
  <2>. QED  BY <1>1, <2>1, UnitsAreSummed, Zenon
<1>7. StartOf(table, n + 1) = 1 + Cardinality(Units(f, S))
  BY <1>2, <1>5
<1>8. Units(f, S) = Units(LinesUpTo(table, n), 1 .. n)
  BY <1>0 DEF f
<1>. QED
  BY <1>6, <1>7, <1>8

LEMMA NextStart ==
  ASSUME NEW table \in Tables, NEW n \in 0 .. Len(table)
  PROVE  /\ StartOf(table, 1) = 1
         /\ n # Len(table) => StartOf(table, (n + 1) + 1) = StartOf(table, n + 1) + LinesOf(table[n + 1])
<1>1. Len(table) \in Nat /\ n \in Nat
  BY DEF Tables
<1>2. StartOf(table, 1) = 1
  <2>1. 0 \in 0 .. Len(table) /\ 0 + 1 = 1 /\ 1 .. 0 = {}
    BY <1>1
  <2>2. StartOf(table, 0 + 1) = 1 + Cardinality(Units(LinesUpTo(table, 0), 1 .. 0))
    BY <2>1, StartsAre
  <2>3. Units(LinesUpTo(table, 0), 1 .. 0) = {}
    BY <2>1 DEF Units
  <2>. QED  BY <2>1, <2>2, <2>3, FS_EmptySet
<1>3. ASSUME n # Len(table)
      PROVE  StartOf(table, (n + 1) + 1) = StartOf(table, n + 1) + LinesOf(table[n + 1])
  <2> DEFINE f == LinesUpTo(table, n)
             g == LinesUpTo(table, n + 1)
  <2>1. n + 1 \in 0 .. Len(table) /\ n + 1 \in 1 .. (n + 1)
    BY <1>1, <1>3
  <2>2. StartOf(table, (n + 1) + 1) = 1 + Cardinality(Units(g, 1 .. (n + 1)))
    BY <2>1, StartsAre
  <2>3. StartOf(table, n + 1) = 1 + Cardinality(Units(f, 1 .. n)) /\ StartOf(table, n + 1) \in Nat
    BY StartsAre
  <2>4. g \in [1 .. (n + 1) -> Nat] /\ \A i \in 1 .. (n + 1) : g[i] = LinesOf(table[i])
    <3>1. \A i \in 1 .. (n + 1) : table[i] \in Seq(Seq(Characters))
      <4> DEFINE Rows == Seq(Seq(Characters)) \ {<<>>}
      <4>1. table \in Seq(Rows) /\ n + 1 <= Len(table)
        BY <1>1, <2>1 DEF Tables
      <4>2. Rows \subseteq Seq(Seq(Characters))
        OBVIOUS
      <4> HIDE DEF Rows
      <4>3. \A i \in 1 .. (n + 1) : table[i] \in Rows
        BY <1>1, <4>1
      <4>. QED  BY <4>2, <4>3, Zenon
    <3>2. \A i \in 1 .. (n + 1) : LinesOf(table[i]) \in Nat
      BY <3>1, LinesAre
    <3>. QED  BY <3>2 DEF LinesUpTo
  <2>5. \A i \in 1 .. n : f[i] = LinesOf(table[i]) /\ i \in 1 .. (n + 1) /\ g[i] = LinesOf(table[i])
    BY <1>1, <2>4 DEF LinesUpTo
  <2> HIDE DEF f, g
  <2>6. Units(g, 1 .. n) = Units(f, 1 .. n)
    BY <2>5 DEF Units
  <2>7. 1 .. n \in SUBSET (1 .. (n + 1)) /\ n + 1 \notin 1 .. n /\ (1 .. n) \cup {n + 1} = 1 .. (n + 1)
    BY <1>1
  <2>8. IsFiniteSet(1 .. (n + 1))
    BY <1>1, FS_Interval
  <2>9. Cardinality(Units(g, (1 .. n) \cup {n + 1})) = g[n + 1] + Cardinality(Units(g, 1 .. n))
    <3>1. \A t \in SUBSET (1 .. (n + 1)), x \in 1 .. (n + 1) :
            x \notin t => Cardinality(Units(g, t \cup {x})) = g[x] + Cardinality(Units(g, t))
      BY <2>4, <2>8, UnitsAreSummed
    <3>. QED  BY <2>1, <2>7, <3>1, Zenon
  <2>10. Cardinality(Units(g, 1 .. n)) \in Nat /\ g[n + 1] \in Nat /\ g[n + 1] = LinesOf(table[n + 1])
    <3>1. Cardinality(Units(g, 1 .. n)) \in Nat
      BY <2>4, <2>7, <2>8, UnitsAreSummed, Zenon
    <3>. QED  BY <2>1, <2>4, <3>1
  <2>11. Cardinality(Units(g, 1 .. (n + 1))) = LinesOf(table[n + 1]) + Cardinality(Units(f, 1 .. n))
    BY <2>6, <2>7, <2>9, <2>10, Zenon
  <2>. QED  BY <2>2, <2>3, <2>6, <2>10, <2>11
<1>. QED
  BY <1>2, <1>3

----------------------------------------------------------------------------
(* What the reader has read *)

LEMMA PrefixGrows ==
  ASSUME NEW S, NEW s \in Seq(S), NEW c \in 0 .. Len(s)
  PROVE  /\ SubSeq(s, 1, c) \in Seq(S) /\ Len(SubSeq(s, 1, c)) = c
         /\ c # Len(s) => Append(SubSeq(s, 1, c), s[c + 1]) = SubSeq(s, 1, c + 1)
         /\ c = Len(s) => SubSeq(s, 1, c) = s
         /\ SubSeq(s, 1, 0) = <<>>
<1>1. Len(s) \in Nat /\ c \in Nat /\ \A i \in 1 .. Len(s) : s[i] \in S
  OBVIOUS
<1>2. SubSeq(s, 1, c) \in Seq(S) /\ Len(SubSeq(s, 1, c)) = c /\ \A i \in 1 .. c : SubSeq(s, 1, c)[i] = s[i]
  BY <1>1
<1>3. c # Len(s) => Append(SubSeq(s, 1, c), s[c + 1]) = SubSeq(s, 1, c + 1)
  BY <1>1, <1>2
<1>4. c = Len(s) => SubSeq(s, 1, c) = s
  BY SubSeqFull
<1>5. SubSeq(s, 1, 0) = <<>>
  BY SubSeqEmpty
<1>. QED
  BY <1>2, <1>3, <1>4, <1>5

----------------------------------------------------------------------------
(* What stands where the reader is *)

LEMMA FieldsLength ==
  ASSUME NEW nl \in Newlines, NEW qa \in BOOLEAN, NEW table \in Tables, NEW r \in 0 .. Len(table), r # Len(table),
         NEW f \in 0 .. Len(table[r + 1])
  PROVE  /\ TableLeft(table, nl, qa, r + 1) \in Seq(Symbols(nl))
         /\ Len(FieldsLeft(table, nl, qa, r, f)) \in Nat
         /\ Len(FieldsLeft(table, nl, qa, r, f)) >= Len(nl) + Len(TableLeft(table, nl, qa, r + 1))
<1> DEFINE row == table[r + 1]
           t == TableLeft(table, nl, qa, r + 1)
           a == RowLeft(row, nl, qa, f)
<1>1. row \in Seq(Seq(Characters)) /\ r + 1 \in 0 .. Len(table)
  BY DEF Tables
<1>2. nl \in Seq(Symbols(nl)) /\ t \in Seq(Symbols(nl)) /\ a \in Seq(Symbols(nl))
  BY <1>1, NewlinesAre, TablesLeft, RowsLeft
<1>3. FieldsLeft(table, nl, qa, r, f) = a \o (nl \o t)
  BY DEF FieldsLeft
<1> HIDE DEF t, a
<1>4. nl \o t \in Seq(Symbols(nl)) /\ Len(nl \o t) = Len(nl) + Len(t)
  BY <1>2, ConcatProperties
<1>5. Len(a \o (nl \o t)) = Len(a) + Len(nl \o t)
  BY <1>2, <1>4, ConcatProperties
<1>6. Len(a) \in Nat /\ Len(nl) \in Nat /\ Len(t) \in Nat
  BY <1>2
<1>7. Len(FieldsLeft(table, nl, qa, r, f)) = Len(a) + (Len(nl) + Len(t))
  BY <1>3, <1>4, <1>5
<1>8. /\ Len(FieldsLeft(table, nl, qa, r, f)) \in Nat
      /\ Len(FieldsLeft(table, nl, qa, r, f)) >= Len(nl) + Len(t)
  BY <1>6, <1>7
<1>. QED
  BY <1>2, <1>8 DEF t

\* An empty row's end, or a longer one.
LEMMA TableLength ==
  ASSUME NEW nl \in Newlines, NEW qa \in BOOLEAN, NEW table \in Tables, NEW r \in 0 .. Len(table)
  PROVE  /\ TableLeft(table, nl, qa, r) \in Seq(Symbols(nl))
         /\ Len(TableLeft(table, nl, qa, r)) \in Nat
         /\ r # Len(table) => Len(TableLeft(table, nl, qa, r)) >= Len(nl)
         /\ r = Len(table) => Len(TableLeft(table, nl, qa, r)) = 0
<1>1. TableLeft(table, nl, qa, r) \in Seq(Symbols(nl))
  BY TablesLeft
<1>2. r = Len(table) => Len(TableLeft(table, nl, qa, r)) = 0
  <2>1. r = Len(table) => TableLeft(table, nl, qa, r) = <<>>
    BY TablesLeft
  <2>2. Len(<<>>) = 0
    OBVIOUS
  <2>. QED  BY <2>1, <2>2
<1>3. ASSUME r # Len(table) PROVE Len(TableLeft(table, nl, qa, r)) >= Len(nl)
  <2>1. TableLeft(table, nl, qa, r) = FieldsLeft(table, nl, qa, r, 0)
    BY <1>3, TablesLeft
  <2>2. table[r + 1] \in Seq(Seq(Characters))
    BY <1>3 DEF Tables
  <2>3. 0 \in 0 .. Len(table[r + 1])
    BY <2>2
  <2> DEFINE l == Len(FieldsLeft(table, nl, qa, r, 0))
             t == TableLeft(table, nl, qa, r + 1)
  <2>4. l \in Nat /\ l >= Len(nl) + Len(t) /\ t \in Seq(Symbols(nl))
    BY <1>3, <2>3, FieldsLength, Zenon
  <2>5. Len(t) \in Nat /\ Len(nl) \in Nat
    BY <2>4, NewlinesAre
  <2> HIDE DEF t, l
  <2>6. l >= Len(nl)
    BY <2>4, <2>5
  <2>. QED  BY <2>1, <2>6 DEF l
<1>. QED
  BY <1>1, <1>2, <1>3

LEMMA ClosingQuote ==
  ASSUME NEW nl \in Newlines, NEW qa \in BOOLEAN, TextIs(nl, qa), NEW i,
         NEW a \in Seq(Symbols(nl)), Len(a) >= Len(nl), a[1] # QUOTE,
         NEW rest, Joined(rest, <<QUOTE>>, a), Lies(rest, i, nl, qa)
  PROVE  /\ At(i) \in {QUOTE, "end"}
         /\ At(i) = "end" => export.cut
         /\ At(i) = QUOTE => At(i + 1) # QUOTE /\ Lies(a, i + 1, nl, qa)
<1>1. <<QUOTE>> \in Seq(Symbols(nl)) /\ Len(<<QUOTE>>) = 1 /\ <<QUOTE>> # <<>> /\ <<QUOTE>>[1] = QUOTE
  BY SymbolsAre
<1>2. /\ Len(rest) = 1 + Len(a) /\ Len(a) \in Nat /\ rest[1] = QUOTE
      /\ Len(a) >= Lost(nl) => Lies(a, i + 1, nl, qa)
  <2>1. /\ Len(rest) = Len(<<QUOTE>>) + Len(a) /\ Len(a) \in Nat
        /\ Len(<<QUOTE>>) >= 1 => rest[1] = <<QUOTE>>[1]
    <3> DEFINE q == <<QUOTE>>
    <3>1. q \in Seq(Symbols(nl)) /\ Joined(rest, q, a)
      BY <1>1
    <3> HIDE DEF q
    <3>2. Len(rest) = Len(q) + Len(a) /\ Len(a) \in Nat /\ (Len(q) >= 1 => rest[1] = q[1])
      BY <3>1, JoinedIs
    <3>. QED  BY <3>2 DEF q
  <2>2. Len(a) >= Lost(nl) => Lies(a, i + Len(<<QUOTE>>), nl, qa)
    BY <1>1, Advances, Zenon
  <2>. QED  BY <1>1, <2>1, <2>2
<1>3. Lost(nl) \in Nat /\ Len(nl) \in {1, 2} /\ Lost(nl) \in {0, Len(nl), Len(nl) + 1}
  BY LostIs
<1>4. export.cut <=> Lost(nl) = Len(nl) + 1
  BY LostIs
<1>5. /\ Len(rest) >= Lost(nl)
      /\ Len(rest) > Lost(nl) => At(i) = rest[1]
      /\ Len(rest) = Lost(nl) => At(i) = "end"
  BY Reads
<1>6. QUOTE # "end"
  BY SymbolsDiffer
<1>7. CASE Len(rest) = Lost(nl)
  <2>1. Lost(nl) = Len(nl) + 1
    BY <1>2, <1>3, <1>7
  <2>. QED  BY <1>4, <1>5, <1>6, <1>7, <2>1
<1>8. CASE Len(rest) > Lost(nl)
  <2>1. At(i) = QUOTE /\ Len(a) >= Lost(nl)
    BY <1>2, <1>3, <1>5, <1>8
  <2>2. Lies(a, i + 1, nl, qa)
    BY <1>2, <2>1
  <2>3. /\ Len(a) > Lost(nl) => At(i + 1) = a[1]
        /\ Len(a) = Lost(nl) => At(i + 1) = "end"
    BY <2>2, Reads
  <2>4. Len(a) > Lost(nl) \/ Len(a) = Lost(nl)
    BY <1>2, <1>3, <2>1
  <2>. QED  BY <1>6, <2>1, <2>2, <2>3, <2>4
<1>9. Len(rest) = Lost(nl) \/ Len(rest) > Lost(nl)
  BY <1>2, <1>3, <1>5
<1>. QED
  BY <1>7, <1>8, <1>9

LEMMA QuotedCharacter ==
  ASSUME NEW nl \in Newlines, NEW qa \in BOOLEAN, TextIs(nl, qa), NEW i, NEW x \in Characters,
         NEW a \in Seq(Symbols(nl)), Len(a) >= Len(nl) + 1,
         NEW rest, Joined(rest, PieceOf(x, nl), a), Lies(rest, i, nl, qa)
  PROVE  /\ Lies(a, i + Len(PieceOf(x, nl)), nl, qa)
         /\ x = QUOTE => At(i) = QUOTE /\ At(i + 1) = QUOTE /\ Len(PieceOf(x, nl)) = 2
         /\ x = LF => \/ At(i) = LF /\ Len(PieceOf(x, nl)) = 1
                      \/ At(i) = CR /\ Len(PieceOf(x, nl)) = IF At(i + 1) = LF THEN 2 ELSE 1
         /\ x \notin {QUOTE, LF} => At(i) = x /\ Len(PieceOf(x, nl)) = 1
<1> DEFINE p == PieceOf(x, nl)
<1>1. p \in Seq(Symbols(nl))
  BY PiecesAre
<1>2. Lost(nl) \in Nat /\ Len(nl) \in {1, 2} /\ Lost(nl) \in {0, Len(nl), Len(nl) + 1}
  BY LostIs
<1>3. /\ Len(rest) = Len(p) + Len(a) /\ Len(a) \in Nat /\ Len(p) \in Nat
      /\ \A k \in 1 .. Len(p) : rest[k] = p[k]
      /\ Len(a) >= Lost(nl) => Lies(a, i + Len(p), nl, qa)
  <2> HIDE DEF p
  <2>1. Joined(rest, p, a)
    BY DEF p
  <2>2. /\ Len(rest) = Len(p) + Len(a) /\ Len(a) \in Nat /\ Len(p) \in Nat
        /\ \A k \in 1 .. Len(p) : rest[k] = p[k]
    BY <1>1, <2>1, JoinedIs
  <2>3. Len(a) >= Lost(nl) => Lies(a, i + Len(p), nl, qa)
    BY <1>1, <2>1, Advances, Zenon
  <2>. QED  BY <2>2, <2>3
<1>4. Len(a) >= Lost(nl)
  BY <1>2, <1>3
<1>5. /\ Len(rest) > Lost(nl) => At(i) = rest[1]
      /\ Len(rest) > Lost(nl) + 1 => At(i + 1) = rest[2]
  BY Reads
<1> HIDE DEF p
<1>6. Len(p) >= 1 => At(i) = p[1]
  <2>1. Len(p) >= 1 => 1 \in 1 .. Len(p) /\ Len(rest) > Lost(nl)
    BY <1>2, <1>3, <1>4
  <2>. QED  BY <1>3, <1>5, <2>1
<1>7. Len(p) >= 2 => At(i + 1) = p[2]
  <2>1. Len(p) >= 2 => 2 \in 1 .. Len(p) /\ Len(rest) > Lost(nl) + 1
    BY <1>2, <1>3, <1>4
  <2>. QED  BY <1>3, <1>5, <2>1
<1>8. CASE x = QUOTE
  <2>1. p = <<QUOTE, QUOTE>>
    BY <1>8 DEF p, PieceOf
  <2>2. Len(p) = 2 /\ p[1] = QUOTE /\ p[2] = QUOTE
    BY <2>1
  <2>3. x # LF
    BY <1>8, SymbolsDiffer
  <2>. QED  BY <1>3, <1>4, <1>6, <1>7, <1>8, <2>2, <2>3 DEF p
<1>9. CASE x = LF
  <2>1. p = nl /\ x # QUOTE
    BY <1>9, SymbolsDiffer DEF p, PieceOf
  <2>2. /\ nl[1] \in {LF, CR} /\ Len(nl) = 2 => nl[2] = LF /\ nl[1] = CR
    BY NewlinesAre
  <2>3. CASE Len(nl) = 2
    <3>1. At(i) = CR /\ At(i + 1) = LF
      BY <1>6, <1>7, <2>1, <2>3, NewlinesAre
    <3>. QED  BY <1>3, <1>4, <1>9, <2>1, <2>3, <3>1 DEF p
  <2>4. CASE Len(nl) = 1 /\ nl[1] = LF
    BY <1>3, <1>4, <1>6, <1>9, <2>1, <2>4 DEF p
  <2>5. CASE Len(nl) = 1 /\ nl[1] = CR
    <3>1. nl = <<CR>> /\ LF \notin Symbols(nl)
      BY <2>5, NewlinesAre
    <3>2. Lies(a, i + 1, nl, qa)
      BY <1>3, <1>4, <2>1, <2>5
    <3>3. At(i + 1) # LF
      <4>1. /\ Len(a) > Lost(nl) => At(i + 1) = a[1]
            /\ Len(a) = Lost(nl) => At(i + 1) = "end"
        BY <3>2, Reads
      <4>2. a[1] \in Symbols(nl)
        <5>1. 1 \in 1 .. Len(a)
          BY <1>2, <1>3
        <5>. QED  BY <5>1
      <4>3. Len(a) > Lost(nl) \/ Len(a) = Lost(nl)
        BY <1>2, <1>3, <1>4
      <4>. QED  BY <3>1, <4>1, <4>2, <4>3, SymbolsDiffer
    <3>. QED  BY <1>3, <1>4, <1>6, <1>9, <2>1, <2>5, <3>3 DEF p
  <2>6. Len(nl) = 2 \/ (Len(nl) = 1 /\ nl[1] = LF) \/ (Len(nl) = 1 /\ nl[1] = CR)
    BY NewlinesAre
  <2>. QED  BY <2>3, <2>4, <2>5, <2>6
<1>10. CASE x \notin {QUOTE, LF}
  <2>1. p = <<x>>
    BY <1>10 DEF p, PieceOf
  <2>2. Len(p) = 1 /\ p[1] = x
    BY <2>1
  <2>. QED  BY <1>3, <1>4, <1>6, <1>10, <2>2 DEF p
<1>. QED
  BY <1>8, <1>9, <1>10

LEMMA PlainCharacter ==
  ASSUME NEW nl \in Newlines, NEW qa \in BOOLEAN, TextIs(nl, qa), NEW i,
         NEW v \in Seq(Symbols(nl)), NEW c \in 0 .. Len(v), c # Len(v), v[c + 1] = LETTER,
         NEW a \in Seq(Symbols(nl)), Len(a) >= Len(nl), Lies(Drop(v, c) \o a, i, nl, qa)
  PROVE  At(i) = LETTER /\ Lies(Drop(v, c + 1) \o a, i + 1, nl, qa)
<1> DEFINE rest == Drop(v, c) \o a
           left == Drop(v, c + 1) \o a
<1>1. Len(v) \in Nat /\ c + 1 \in 0 .. Len(v) /\ c \in Nat
  OBVIOUS
<1>2. /\ Drop(v, c) \in Seq(Symbols(nl)) /\ Len(Drop(v, c)) = Len(v) - c
      /\ \A k \in 1 .. (Len(v) - c) : Drop(v, c)[k] = v[c + k]
  BY DropIs
<1>3. /\ Drop(v, c + 1) \in Seq(Symbols(nl)) /\ Len(Drop(v, c + 1)) = Len(v) - (c + 1)
      /\ \A k \in 1 .. (Len(v) - (c + 1)) : Drop(v, c + 1)[k] = v[c + 1 + k]
  BY <1>1, DropIs
<1>4. <<LETTER>> \in Seq(Symbols(nl)) /\ Len(<<LETTER>>) = 1 /\ <<LETTER>>[1] = LETTER /\ <<LETTER>> # <<>>
  BY SymbolsAre
<1>5. Drop(v, c) = <<LETTER>> \o Drop(v, c + 1)
  <2> DEFINE d == Drop(v, c)
             e == Drop(v, c + 1)
  <2>0. Len(d) = Len(v) - c
    BY <1>2
  <2> HIDE DEF d, e
  <2>1. /\ <<LETTER>> \o e \in Seq(Symbols(nl)) /\ Len(<<LETTER>> \o e) = 1 + Len(e)
        /\ \A k \in 1 .. (1 + Len(e)) : (<<LETTER>> \o e)[k] = IF k <= 1 THEN <<LETTER>>[k] ELSE e[k - 1]
    BY <1>3, <1>4, ConcatProperties DEF e
  <2>2. Len(d) = 1 + Len(e) /\ d \in Seq(Symbols(nl)) /\ Len(e) \in Nat
    BY <1>1, <1>2, <1>3 DEF d, e
  <2>3. ASSUME NEW k \in 1 .. Len(d) PROVE d[k] = (<<LETTER>> \o e)[k]
    <3>1. CASE k = 1
      <4>1. d[1] = v[c + 1] /\ (<<LETTER>> \o e)[1] = LETTER
        BY <1>1, <1>2, <1>4, <2>1, <2>2 DEF d
      <4>. QED  BY <3>1, <4>1
    <3>2. CASE k # 1
      <4>1. k - 1 \in 1 .. (Len(v) - (c + 1)) /\ k \in 1 .. (Len(v) - c) /\ c + 1 + (k - 1) = c + k /\ ~ (k <= 1)
        BY <1>1, <2>0, <3>2
      <4>2. d[k] = v[c + k] /\ e[k - 1] = v[c + k]
        BY <1>2, <1>3, <4>1 DEF d, e
      <4>3. k \in 1 .. (1 + Len(e))
        BY <2>2
      <4>. QED  BY <2>1, <4>1, <4>2, <4>3
    <3>. QED  BY <3>1, <3>2
  <2>4. d = <<LETTER>> \o e
    BY <2>1, <2>2, <2>3, SeqEqual
  <2>. QED  BY <2>4 DEF d, e
<1>6. Joined(rest, <<LETTER>>, left)
  <2>1. Regroups(<<LETTER>>, Drop(v, c + 1), a)
    BY <1>3, <1>4, Associative, Zenon
  <2>. QED  BY <1>5, <2>1, Zenon DEF Regroups, Joined
<1>7. left \in Seq(Symbols(nl)) /\ Len(left) >= Len(a)
  <2>1. left \in Seq(Symbols(nl)) /\ Len(left) = Len(Drop(v, c + 1)) + Len(a)
    BY <1>3, ConcatProperties, Zenon
  <2>2. Len(a) \in Nat /\ Len(Drop(v, c + 1)) \in Nat
    BY <1>1, <1>3
  <2> HIDE DEF left
  <2>. QED  BY <2>1, <2>2
<1>8. Lies(rest, i, nl, qa)
  OBVIOUS
<1> HIDE DEF rest, left
<1>9. /\ Len(rest) = 1 + Len(left) /\ Len(left) \in Nat /\ rest[1] = LETTER
      /\ Len(left) >= Lost(nl) => Lies(left, i + 1, nl, qa)
  <2>1. /\ Len(rest) = Len(<<LETTER>>) + Len(left) /\ Len(left) \in Nat
        /\ Len(<<LETTER>>) >= 1 => rest[1] = <<LETTER>>[1]
    <3> DEFINE q == <<LETTER>>
    <3>1. q \in Seq(Symbols(nl)) /\ Joined(rest, q, left) /\ left \in Seq(Symbols(nl))
      BY <1>4, <1>6, <1>7
    <3> HIDE DEF q
    <3>2. Len(rest) = Len(q) + Len(left) /\ Len(left) \in Nat /\ (Len(q) >= 1 => rest[1] = q[1])
      BY <3>1, JoinedIs
    <3>. QED  BY <3>2 DEF q
  <2>2. Len(left) >= Lost(nl) => Lies(left, i + Len(<<LETTER>>), nl, qa)
    BY <1>4, <1>6, <1>7, <1>8, Advances, Zenon
  <2>. QED  BY <1>4, <2>1, <2>2
<1>10. Lost(nl) \in Nat /\ Len(nl) \in {1, 2} /\ Lost(nl) \in {0, Len(nl), Len(nl) + 1} /\ Len(a) \in Nat
  BY LostIs
<1>11. /\ Len(rest) >= Lost(nl)
       /\ Len(rest) > Lost(nl) => At(i) = rest[1]
       /\ Len(rest) = Lost(nl) /\ export.cut => rest[1] = QUOTE
  BY <1>8, Reads
<1>12. Len(rest) > Lost(nl)
  <2>1. Len(rest) = Lost(nl) => Lost(nl) = Len(nl) + 1
    BY <1>7, <1>9, <1>10
  <2>2. Len(rest) = Lost(nl) => export.cut
    BY <2>1, LostIs
  <2>3. Len(rest) # Lost(nl)
    BY <1>9, <1>11, <2>2, SymbolsDiffer
  <2>. QED  BY <1>9, <1>10, <1>11, <2>3
<1>13. Len(left) >= Lost(nl)
  BY <1>9, <1>10, <1>12
<1>. QED
  BY <1>9, <1>11, <1>12, <1>13 DEF left

\* At the start of a value, written with quotes or without.
LEMMA StartOfValue ==
  ASSUME NEW nl \in Newlines, NEW qa \in BOOLEAN, TextIs(nl, qa), NEW i, NEW v \in Seq(Characters),
         NEW a \in Seq(Symbols(nl)), Len(a) >= Len(nl), a[1] # QUOTE, Lies(Written(v, nl, qa) \o a, i, nl, qa)
  PROVE  /\ Quoted(v, qa) /\ At(i) = QUOTE => Lies(ValueLeft(v, nl, 0) \o (<<QUOTE>> \o a), i + 1, nl, qa)
         /\ Quoted(v, qa) => At(i) = QUOTE
         /\ ~Quoted(v, qa) => At(i) # QUOTE /\ Lies(Drop(v, 0) \o a, i, nl, qa)
<1>1. Lost(nl) \in Nat /\ Len(nl) \in {1, 2} /\ Lost(nl) \in {0, Len(nl), Len(nl) + 1} /\ Len(a) \in Nat
  BY LostIs
<1>2. CASE Quoted(v, qa)
  <2> DEFINE q == <<QUOTE>>
             w == ValueLeft(v, nl, 0)
             left == w \o (q \o a)
             rest == Written(v, nl, qa) \o a
  <2>1. q \in Seq(Symbols(nl)) /\ Len(q) = 1 /\ q[1] = QUOTE
    BY SymbolsAre
  <2>2. w \in Seq(Symbols(nl)) /\ Written(v, nl, qa) = (q \o w) \o q
    BY <1>2, ValuesLeft, WrittenIs
  <2>3. Lies(rest, i, nl, qa)
    OBVIOUS
  <2> HIDE DEF q, w
  <2>4. q \o a \in Seq(Symbols(nl)) /\ Len(q \o a) = 1 + Len(a) /\ q \o w \in Seq(Symbols(nl))
    <3>1. q \o a \in Seq(Symbols(nl)) /\ Len(q \o a) = Len(q) + Len(a)
      BY <2>1, ConcatProperties, Zenon
    <3>2. q \o w \in Seq(Symbols(nl))
      BY <2>1, <2>2, ConcatProperties, Zenon
    <3>. QED  BY <2>1, <3>1, <3>2, Zenon
  <2>5. left \in Seq(Symbols(nl)) /\ Len(left) >= Len(a) + 1 /\ Len(left) \in Nat
    <3> DEFINE b == q \o a
    <3>1. b \in Seq(Symbols(nl)) /\ Len(b) = 1 + Len(a)
      BY <2>4
    <3> HIDE DEF b, left, rest
    <3>0. w \in Seq(Symbols(nl))
      BY <2>2, Zenon
    <3>2. left = w \o b
      BY DEF b, left
    <3>3. left \in Seq(Symbols(nl))
      BY <3>0, <3>1, <3>2, ConcatProperties, Zenon
    <3>4. Joined(left, w, b)
      BY <3>2 DEF Joined
    <3>5. Len(left) = Len(w) + Len(b) /\ Len(w) \in Nat
      BY <3>0, <3>1, <3>4, JoinedIs
    <3>. QED  BY <1>1, <3>1, <3>3, <3>5
  <2>6. Regroups(q \o w, q, a) /\ Regroups(q, w, q \o a)
    BY <2>1, <2>2, <2>4, Associative, Zenon
  <2>7. Joined(rest, q, left)
    BY <2>2, <2>6, Zenon DEF Regroups, Joined
  <2> HIDE DEF left, rest
  <2>8. Len(rest) = Len(q) + Len(left) /\ (Len(q) >= 1 => rest[1] = q[1])
    BY <2>1, <2>5, <2>7, JoinedIs
  <2>9. Len(left) >= Lost(nl) => Lies(left, i + Len(q), nl, qa)
    BY <2>1, <2>3, <2>5, <2>7, Advances, Zenon
  <2>10. Len(rest) > Lost(nl) /\ Len(left) >= Lost(nl) /\ rest[1] = QUOTE
    BY <1>1, <2>1, <2>5, <2>8
  <2>11. At(i) = QUOTE
    BY <2>3, <2>10, Reads
  <2>. QED  BY <1>2, <2>1, <2>9, <2>10, <2>11 DEF left, q, w
<1>3. CASE ~Quoted(v, qa)
  <2>1. Written(v, nl, qa) = v /\ Drop(v, 0) = v /\ v \in Seq(Symbols(nl)) /\ \A k \in 1 .. Len(v) : v[k] = LETTER
    BY <1>3, WrittenIs, AllIsLeft
  <2> DEFINE rest == v \o a
  <2>2. Lies(rest, i, nl, qa) /\ Joined(rest, v, a)
    BY <2>1 DEF Joined
  <2>3. rest = a \/ rest[1] = LETTER
    <3>1. CASE v = <<>>
      BY <3>1, ConcatEmptySeq
    <3>2. CASE v # <<>>
      <4>1. Len(v) >= 1 /\ 1 \in 1 .. Len(v)
        BY <3>2
      <4> HIDE DEF rest
      <4>2. rest[1] = v[1]
        BY <2>1, <2>2, <4>1, JoinedIs
      <4>. QED  BY <2>1, <4>1, <4>2
    <3>. QED  BY <3>1, <3>2
  <2> HIDE DEF rest
  <2>4. rest[1] # QUOTE
    BY <2>3, SymbolsDiffer
  <2>5. /\ Len(rest) \in Nat /\ Len(rest) >= Lost(nl)
        /\ Len(rest) > Lost(nl) => At(i) = rest[1]
        /\ Len(rest) = Lost(nl) => At(i) = "end"
    BY <2>2, Reads
  <2>6. At(i) # QUOTE
    BY <1>1, <2>4, <2>5, SymbolsDiffer
  <2>. QED  BY <1>3, <2>1, <2>2, <2>6 DEF rest
<1>. QED
  BY <1>2, <1>3

\* Behind a value: the next one of its row, or the row's end.
LEMMA NextValue ==
  ASSUME NEW nl \in Newlines, NEW qa \in BOOLEAN, TextIs(nl, qa), NEW i,
         NEW r \in 0 .. Len(export.table), r # Len(export.table),
         NEW f \in 1 .. Len(export.table[r + 1]), f # Len(export.table[r + 1])
  PROVE  LET a == FieldsLeft(export.table, nl, qa, r, f)
         IN  /\ a[1] = DELIMITER
             /\ Lies(a, i, nl, qa) =>
                  /\ At(i) = DELIMITER
                  /\ Lies(Written(export.table[r + 1][f + 1], nl, qa) \o FieldsLeft(export.table, nl, qa, r, f + 1),
                          i + 1, nl, qa)
<1> DEFINE row == export.table[r + 1]
           a == FieldsLeft(export.table, nl, qa, r, f)
           c == FieldsLeft(export.table, nl, qa, r, f + 1)
           w == Written(row[f + 1], nl, qa)
           b == w \o c
           d == <<DELIMITER>>
<1>1. export.table \in Tables
  BY DEF TextIs
<1>2. row \in Seq(Seq(Characters)) /\ f \in 0 .. Len(row) /\ f # 0 /\ f + 1 \in 1 .. Len(row) /\ f + 1 \in 0 .. Len(row)
  <2>1. row \in Seq(Seq(Characters)) /\ f \in 1 .. Len(row) /\ f # Len(row)
    <3> DEFINE Rows == Seq(Seq(Characters)) \ {<<>>}
               table == export.table
    <3>1. table \in Seq(Rows) /\ r \in 0 .. Len(table) /\ r # Len(table)
          /\ f \in 1 .. Len(table[r + 1]) /\ f # Len(table[r + 1])
      BY <1>1 DEF Tables
    <3>2. Rows \subseteq Seq(Seq(Characters))
      OBVIOUS
    <3> HIDE DEF Rows, table
    <3>3. table[r + 1] \in Rows
      BY <3>1
    <3>. QED  BY <3>1, <3>2, <3>3, Zenon DEF table
  <2>2. Len(row) \in Nat
    BY <2>1
  <2> HIDE DEF row
  <2>. QED  BY <2>1, <2>2
<1>3. a \in Seq(Symbols(nl)) /\ b \in Seq(Symbols(nl)) /\ c \in Seq(Symbols(nl)) /\ a = d \o b
  BY <1>1, <1>2, FieldsAre, Zenon
<1>4. w \in Seq(Symbols(nl))
  <2>1. row[f + 1] \in Seq(Characters)
    BY <1>2
  <2>. QED  BY <2>1, WrittenIs
<1>5. Len(c) \in Nat /\ Len(c) >= Len(nl)
  <2> DEFINE t == TableLeft(export.table, nl, qa, r + 1)
  <2>1. t \in Seq(Symbols(nl)) /\ Len(c) \in Nat /\ Len(c) >= Len(nl) + Len(t)
    BY <1>1, <1>2, FieldsLength
  <2>2. Len(t) \in Nat /\ Len(nl) \in Nat
    BY <2>1, NewlinesAre
  <2> HIDE DEF t, c
  <2>. QED  BY <2>1, <2>2
<1>6. d \in Seq(Symbols(nl)) /\ Len(d) = 1 /\ d[1] = DELIMITER
  BY SymbolsAre
<1>7. Joined(a, d, b) /\ Joined(b, w, c)
  BY <1>3 DEF Joined
<1> HIDE DEF a, b, c, w, d
<1>8. Len(b) = Len(w) + Len(c) /\ Len(w) \in Nat
  BY <1>3, <1>4, <1>7, JoinedIs
<1>9. Len(a) = Len(d) + Len(b) /\ Len(b) \in Nat /\ (Len(d) >= 1 => a[1] = d[1])
  BY <1>3, <1>6, <1>7, JoinedIs
<1>10. a[1] = DELIMITER
  BY <1>6, <1>9
<1>11. ASSUME Lies(a, i, nl, qa)
       PROVE  At(i) = DELIMITER /\ Lies(b, i + 1, nl, qa)
  <2>1. Lost(nl) \in Nat /\ Len(nl) \in {1, 2} /\ Lost(nl) \in {0, Len(nl), Len(nl) + 1}
    BY LostIs
  <2>2. /\ Len(a) >= Lost(nl)
        /\ Len(a) > Lost(nl) => At(i) = a[1]
        /\ Len(a) = Lost(nl) /\ export.cut => a[1] = QUOTE
    BY <1>11, Reads
  <2>3. Len(a) = 1 + Len(b) /\ Len(b) >= Len(nl)
    BY <1>5, <1>6, <1>8, <1>9, <2>1
  <2>4. Len(a) # Lost(nl)
    <3>1. Len(a) = Lost(nl) => Lost(nl) = Len(nl) + 1
      BY <1>9, <2>1, <2>3
    <3>2. Len(a) = Lost(nl) => export.cut
      BY <3>1, LostIs
    <3>. QED  BY <1>10, <2>2, <3>2, SymbolsDiffer
  <2>5. Len(a) > Lost(nl) /\ Len(b) >= Lost(nl)
    BY <1>9, <2>1, <2>2, <2>3, <2>4
  <2>6. Len(b) >= Lost(nl) => Lies(b, i + Len(d), nl, qa)
    BY <1>3, <1>6, <1>7, <1>11, Advances, Zenon
  <2>. QED  BY <1>6, <1>10, <2>2, <2>5, <2>6
<1>. QED
  BY <1>10, <1>11, Zenon DEF a, b, c, w

\* Behind a row.
LEMMA NextRow ==
  ASSUME NEW nl \in Newlines, NEW qa \in BOOLEAN, TextIs(nl, qa), NEW i,
         NEW r \in 0 .. Len(export.table), r # Len(export.table)
  PROVE  LET a == FieldsLeft(export.table, nl, qa, r, Len(export.table[r + 1]))
             e == IF At(i) = CR /\ At(i + 1) = LF THEN 2 ELSE 1
         IN  /\ a[1] \in {LF, CR}
             /\ Lies(a, i, nl, qa) =>
                  /\ At(i) \in {LF, CR, "end"}
                  /\ At(i) = "end" => r + 1 = Len(export.table) /\ i = Len(text) + 1 /\ ~export.cut
                  /\ At(i) # "end" => Lies(TableLeft(export.table, nl, qa, r + 1), i + e, nl, qa)
                  /\ At(i) # "end" /\ r + 1 = Len(export.table) => i + e = Len(text) + 1 /\ ~export.cut
<1> DEFINE row == export.table[r + 1]
           t == TableLeft(export.table, nl, qa, r + 1)
           a == FieldsLeft(export.table, nl, qa, r, Len(row))
           e == IF At(i) = CR /\ At(i + 1) = LF THEN 2 ELSE 1
<1>1. export.table \in Tables
  BY DEF TextIs
<1>2. row \in Seq(Seq(Characters)) /\ Len(row) \in 0 .. Len(row) /\ r + 1 \in 0 .. Len(export.table) /\ r \in Nat
  BY <1>1 DEF Tables
<1>3. a = nl \o t
  BY <1>1, <1>2, FieldsAre, Zenon
<1>4. /\ t \in Seq(Symbols(nl)) /\ Len(t) \in Nat
      /\ r + 1 # Len(export.table) => Len(t) >= Len(nl)
      /\ r + 1 = Len(export.table) => Len(t) = 0
  BY <1>1, <1>2, TableLength
<1>5. nl \in Seq(Symbols(nl))
  BY NewlinesAre
<1>6. Joined(a, nl, t)
  BY <1>3 DEF Joined
<1> HIDE DEF a, t, row
<1>7. /\ Len(a) = Len(nl) + Len(t)
      /\ \A k \in 1 .. Len(nl) : a[k] = nl[k]
  BY <1>4, <1>5, <1>6, JoinedIs
<1>8. Lost(nl) \in Nat /\ Len(nl) \in {1, 2} /\ Lost(nl) \in {0, Len(nl), Len(nl) + 1}
  BY LostIs
<1>9. a[1] = nl[1] /\ nl[1] \in {LF, CR} /\ (Len(nl) = 2 => a[2] = LF /\ nl[1] = CR)
  <2>1. 1 \in 1 .. Len(nl) /\ (Len(nl) = 2 => 2 \in 1 .. Len(nl))
    <3>1. Len(nl) = 1 \/ Len(nl) = 2
      BY <1>8
    <3>. QED  BY <3>1
  <2>2. nl[1] \in {LF, CR} /\ (Len(nl) = 2 => nl[2] = LF /\ nl[1] = CR)
    BY NewlinesAre
  <2>. QED  BY <1>7, <2>1, <2>2
<1>10. export.cut <=> Lost(nl) = Len(nl) + 1
  BY LostIs
<1>11. ASSUME Lies(a, i, nl, qa)
       PROVE  /\ At(i) \in {LF, CR, "end"}
              /\ At(i) = "end" => r + 1 = Len(export.table) /\ i = Len(text) + 1 /\ ~export.cut
              /\ At(i) # "end" => Lies(t, i + e, nl, qa)
              /\ At(i) # "end" /\ r + 1 = Len(export.table) => i + e = Len(text) + 1 /\ ~export.cut
  <2>1. /\ Len(a) >= Lost(nl) /\ i \in Nat
        /\ Len(a) > Lost(nl) => At(i) = a[1] /\ At(i) # "end"
        /\ Len(a) = Lost(nl) => i = Len(text) + 1 /\ At(i) = "end" /\ (export.cut => a[1] = QUOTE)
        /\ Len(a) > Lost(nl) + 1 => At(i + 1) = a[2]
        /\ Len(a) = Lost(nl) + 1 => At(i + 1) = "end" /\ (export.cut => a[2] = QUOTE)
    BY <1>11, Reads
  <2>2. Len(t) >= Lost(nl) => Lies(t, i + Len(nl), nl, qa)
    BY <1>4, <1>5, <1>6, <1>11, Advances, Zenon
  <2>3. CASE Len(a) = Lost(nl)
    <3>1. a[1] # QUOTE
      BY <1>9, SymbolsDiffer
    <3>2. ~export.cut
      BY <2>1, <2>3, <3>1
    <3>3. Lost(nl) # Len(nl) + 1
      BY <1>10, <3>2
    <3>4. Len(t) = 0
      BY <1>4, <1>7, <1>8, <2>3, <3>3
    <3>5. r + 1 = Len(export.table)
      <4>1. Len(nl) = 1 \/ Len(nl) = 2
        BY <1>8
      <4>2. ~(Len(t) >= Len(nl))
        BY <3>4, <4>1
      <4>. QED  BY <1>4, <4>2, Zenon
    <3>. QED  BY <2>1, <2>3, <3>2, <3>5
  <2>4. CASE Len(a) > Lost(nl)
    <3>1. At(i) = nl[1] /\ At(i) # "end"
      BY <1>9, <2>1, <2>4
    <3>2. e = Len(nl) /\ Len(t) >= Lost(nl)
      <4>1. CASE Len(nl) = 2
        <5>1. Len(a) # Lost(nl) + 1
          <6>1. a[2] # QUOTE
            BY <1>9, <4>1, SymbolsDiffer
          <6>2. Len(a) = Lost(nl) + 1 => ~export.cut
            BY <2>1, <6>1
          <6>3. Len(a) = Lost(nl) + 1 => Lost(nl) # Len(nl) + 1
            BY <1>10, <6>2
          <6>4. Len(t) = 0 \/ Len(t) >= 2
            BY <1>4, <4>1
          <6>. QED  BY <1>4, <1>7, <1>8, <4>1, <6>3, <6>4
        <5>2. Len(a) > Lost(nl) + 1
          BY <1>4, <1>7, <1>8, <2>4, <5>1
        <5>3. At(i + 1) = LF /\ At(i) = CR
          BY <1>9, <2>1, <3>1, <4>1, <5>2
        <5>. QED  BY <1>4, <1>7, <1>8, <4>1, <5>2, <5>3
      <4>2. CASE Len(nl) = 1 /\ nl[1] = LF
        <5>1. At(i) # CR
          BY <3>1, <4>2, SymbolsDiffer
        <5>. QED  BY <1>4, <1>7, <1>8, <2>4, <4>2, <5>1
      <4>3. CASE Len(nl) = 1 /\ nl[1] = CR
        <5>1. nl = <<CR>> /\ LF \notin Symbols(nl)
          BY <4>3, NewlinesAre
        <5>2. Len(t) >= Lost(nl)
          BY <1>4, <1>7, <1>8, <2>4, <4>3
        <5>3. Lies(t, i + 1, nl, qa)
          BY <2>2, <4>3, <5>2
        <5>4. At(i + 1) # LF
          <6>1. /\ Len(t) > Lost(nl) => At(i + 1) = t[1]
                /\ Len(t) = Lost(nl) => At(i + 1) = "end"
            BY <5>3, Reads
          <6>2. Len(t) > Lost(nl) => t[1] \in Symbols(nl)
            <7>1. Len(t) > Lost(nl) => 1 \in 1 .. Len(t)
              BY <1>4, <1>8
            <7>. QED  BY <1>4, <7>1
          <6>3. Len(t) > Lost(nl) \/ Len(t) = Lost(nl)
            BY <1>4, <1>8, <5>2
          <6>. QED  BY <5>1, <6>1, <6>2, <6>3, SymbolsDiffer
        <5>. QED  BY <4>3, <5>2, <5>4
      <4>4. Len(nl) = 2 \/ (Len(nl) = 1 /\ nl[1] = LF) \/ (Len(nl) = 1 /\ nl[1] = CR)
        BY <1>8, <1>9
      <4>. QED  BY <4>1, <4>2, <4>3, <4>4
    <3> HIDE DEF e
    <3>3. Lies(t, i + e, nl, qa)
      BY <2>2, <3>2
    <3>4. ASSUME r + 1 = Len(export.table) PROVE i + e = Len(text) + 1 /\ ~export.cut
      <4>1. Len(t) = 0 /\ Lost(nl) = 0
        BY <1>4, <1>8, <3>2, <3>4
      <4>2. (i + e) + Len(t) = Len(text) + Lost(nl) + 1
        BY <3>3 DEF Lies
      <4>3. i + e \in Nat /\ Len(text) \in Nat
        BY <3>3, Reads, LostIs
      <4>4. Lost(nl) # Len(nl) + 1
        BY <1>8, <4>1
      <4>. QED  BY <1>10, <4>1, <4>2, <4>3, <4>4
    <3>. QED  BY <1>9, <3>1, <3>3, <3>4
  <2>5. Len(a) = Lost(nl) \/ Len(a) > Lost(nl)
    BY <1>4, <1>7, <1>8, <2>1
  <2>. QED  BY <2>3, <2>4, <2>5
<1>12. a[1] \in {LF, CR}
  BY <1>9
<1>. QED
  BY <1>11, <1>12, Zenon DEF a, t, row, e

----------------------------------------------------------------------------
(* What has been read of a file is what was written *)

\* A reader that has not stopped.
ReaderRecord ==
  [index : Nat, line : Nat, startLine : Nat, inside : {"file", "field", "quotes", "tail"}, value : Seq(Characters),
   fields : Seq(Seq(Characters)), records : Seq([line : Nat, fields : Seq(Seq(Characters))]), result : {NoResult}]

\* The row and the value a reader is in, what of the table is written behind that value,
\* and the line c characters into the value.
RowOf(rd) == export.table[Len(rd.records) + 1]
ValueOf(rd) == RowOf(rd)[Len(rd.fields) + 1]
Behind(rd, nl, qa) == FieldsLeft(export.table, nl, qa, Len(rd.records), Len(rd.fields) + 1)
LineOf(rd, c) ==
  StartOf(export.table, Len(rd.records) + 1) + Cardinality(Breaks(RowOf(rd), Len(rd.fields), c))

Fits(row, f) == f <= MaxFieldsPerRecord /\ \A j \in 1 .. f : Len(row[j]) <= MaxFieldCharacters

\* What is read so far: whole records as they were written, and within the limits; the
\* first fields of the row; the first characters of the value.
RecordsRead(rd) ==
  /\ rd \in ReaderRecord /\ rd.result = NoResult
  /\ Len(rd.records) <= Len(export.table) /\ Len(rd.records) <= MaxRecords
  /\ \A i \in 1 .. Len(rd.records) :
       /\ rd.records[i] = [line |-> StartOf(export.table, i), fields |-> export.table[i]]
       /\ Fits(export.table[i], Len(export.table[i]))

FieldsRead(rd) ==
  /\ Len(rd.records) # Len(export.table) /\ rd.startLine = StartOf(export.table, Len(rd.records) + 1)
  /\ Len(rd.fields) < Len(RowOf(rd)) /\ rd.fields = SubSeq(RowOf(rd), 1, Len(rd.fields))
  /\ Fits(RowOf(rd), Len(rd.fields))

ValueRead(rd) ==
  /\ Len(rd.value) <= Len(ValueOf(rd)) /\ rd.value = SubSeq(ValueOf(rd), 1, Len(rd.value))
  /\ rd.line = LineOf(rd, Len(rd.value))

\* What lies from the reader's index on: between records, what is left of the table;
\* before a field, the whole of its value as written; in quotes, what is left of the
\* value, a closing quote and what follows; outside them, what is left and what follows.
AtRecord(rd, nl, qa) ==
  \/ /\ Len(rd.records) # Len(export.table) /\ rd.line = StartOf(export.table, Len(rd.records) + 1)
     /\ Lies(TableLeft(export.table, nl, qa, Len(rd.records)), rd.index, nl, qa)
  \/ Len(rd.records) = Len(export.table) /\ rd.index = Len(text) + 1 /\ ~export.cut

AtField(rd, nl, qa) ==
  /\ rd.line = LineOf(rd, 0)
  /\ Lies(Written(ValueOf(rd), nl, qa) \o Behind(rd, nl, qa), rd.index, nl, qa)

InQuotes(rd, nl, qa) ==
  /\ ValueRead(rd) /\ Quoted(ValueOf(rd), qa)
  /\ Lies(ValueLeft(ValueOf(rd), nl, Len(rd.value)) \o (<<QUOTE>> \o Behind(rd, nl, qa)), rd.index, nl, qa)

InTail(rd, nl, qa) ==
  /\ ValueRead(rd) /\ (Quoted(ValueOf(rd), qa) => Len(rd.value) = Len(ValueOf(rd)))
  /\ Lies(Drop(ValueOf(rd), Len(rd.value)) \o Behind(rd, nl, qa), rd.index, nl, qa)

StandsIn(rd, nl, qa) ==
  /\ RecordsRead(rd)
  /\ rd.inside = "file" => AtRecord(rd, nl, qa)
  /\ rd.inside # "file" => FieldsRead(rd)
  /\ rd.inside = "field" => AtField(rd, nl, qa)
  /\ rd.inside = "quotes" => InQuotes(rd, nl, qa)
  /\ rd.inside = "tail" => InTail(rd, nl, qa)

\* The records that were written.
WrittenRecords ==
  [i \in DOMAIN export.table |-> [line |-> StartOf(export.table, i), fields |-> export.table[i]]]

\* FilesAreReadBack, of any state of the reader.
StoppedRight(rd) ==
  /\ rd.result = "ok" =>
       /\ ~export.cut /\ ~OverLimit([i \in DOMAIN rd.records |-> rd.records[i].fields])
       /\ \/ rd.records = WrittenRecords
          \/ /\ WrittenRecords # <<>> /\ ~export.final
             /\ WrittenRecords[Len(WrittenRecords)].fields = << <<>> >>
             /\ rd.records = SubSeq(WrittenRecords, 1, Len(WrittenRecords) - 1)
  /\ (rd.result \notin {NoResult, "ok"} /\ ~export.cut) => OverLimit(export.table)

\* The reader stands where it should, or has stopped and has read what was written.
Keeps(rd, nl, qa) == StandsIn(rd, nl, qa) \/ (rd.result # NoResult /\ StoppedRight(rd))

LEMMA RowsAre ==
  ASSUME NEW nl \in Newlines, NEW qa \in BOOLEAN, TextIs(nl, qa), NEW rd, RecordsRead(rd), FieldsRead(rd)
  PROVE  /\ export.table \in Tables
         /\ Len(rd.records) \in 0 .. Len(export.table) /\ Len(rd.records) # Len(export.table)
         /\ Len(rd.records) + 1 \in 0 .. Len(export.table)
         /\ RowOf(rd) \in Seq(Seq(Characters)) /\ ValueOf(rd) \in Seq(Characters)
         /\ Len(rd.fields) \in 0 .. Len(RowOf(rd)) /\ Len(rd.fields) # Len(RowOf(rd))
         /\ Len(rd.fields) + 1 \in 1 .. Len(RowOf(rd)) /\ Len(rd.fields) + 1 \in 0 .. Len(RowOf(rd))
<1>1. export.table \in Tables /\ rd \in ReaderRecord
  BY DEF TextIs, RecordsRead
<1>2. /\ Len(rd.records) \in Nat /\ Len(rd.fields) \in Nat /\ Len(export.table) \in Nat
      /\ Len(rd.records) <= Len(export.table) /\ Len(rd.records) # Len(export.table)
      /\ Len(rd.fields) < Len(RowOf(rd))
  <2>1. Len(rd.records) \in Nat /\ Len(rd.fields) \in Nat
    BY <1>1 DEF ReaderRecord
  <2>2. Len(export.table) \in Nat
    BY <1>1 DEF Tables
  <2>. QED  BY <2>1, <2>2 DEF RecordsRead, FieldsRead
<1>3. Len(rd.records) + 1 \in 1 .. Len(export.table)
  BY <1>2
<1>4. RowOf(rd) \in Seq(Seq(Characters))
  BY <1>1, <1>3 DEF Tables, RowOf
<1>5. Len(RowOf(rd)) \in Nat
  BY <1>4
<1>6. Len(rd.fields) + 1 \in 1 .. Len(RowOf(rd))
  BY <1>2, <1>5
<1>7. ValueOf(rd) \in Seq(Characters)
  BY <1>4, <1>6 DEF ValueOf
<1>. QED
  BY <1>1, <1>2, <1>3, <1>4, <1>5, <1>6, <1>7

\* Something is always written behind a value: a delimiter or a line break.
LEMMA BehindIs ==
  ASSUME NEW nl \in Newlines, NEW qa \in BOOLEAN, TextIs(nl, qa), NEW rd, RecordsRead(rd), FieldsRead(rd)
  PROVE  /\ Behind(rd, nl, qa) \in Seq(Symbols(nl)) /\ Len(Behind(rd, nl, qa)) \in Nat
         /\ Len(Behind(rd, nl, qa)) >= Len(nl)
         /\ Behind(rd, nl, qa)[1] \in {DELIMITER, LF, CR}
<1> DEFINE r == Len(rd.records)
           f == Len(rd.fields) + 1
           row == RowOf(rd)
           t == TableLeft(export.table, nl, qa, r + 1)
           a == Behind(rd, nl, qa)
<1>1. export.table \in Tables /\ r \in 0 .. Len(export.table) /\ r # Len(export.table) /\ f \in 1 .. Len(row)
      /\ f \in 0 .. Len(row)
  BY RowsAre
<1>2. row = export.table[r + 1] /\ a = FieldsLeft(export.table, nl, qa, r, f)
  BY DEF RowOf, Behind
<1> HIDE DEF r, f, row, a, t
<1>3. a \in Seq(Symbols(nl))
  BY <1>1, <1>2, FieldsAre
<1>4. t \in Seq(Symbols(nl)) /\ Len(a) \in Nat /\ Len(a) >= Len(nl) + Len(t)
  BY <1>1, <1>2, FieldsLength DEF t
<1>5. Len(t) \in Nat /\ Len(nl) \in Nat
  BY <1>4, NewlinesAre
<1>6. Len(a) >= Len(nl)
  BY <1>4, <1>5
<1>7. CASE f = Len(row)
  <2>1. a[1] \in {LF, CR}
    BY <1>1, <1>2, <1>7, NextRow
  <2>. QED  BY <1>3, <1>4, <1>6, <2>1 DEF a
<1>8. CASE f # Len(row)
  <2>1. a[1] = DELIMITER
    BY <1>1, <1>2, <1>8, NextValue
  <2>. QED  BY <1>3, <1>4, <1>6, <2>1 DEF a
<1>. QED
  BY <1>7, <1>8

\* A step within a value stays in its row and its field.
SamePlace(rd, rd2) ==
  /\ rd2 \in ReaderRecord /\ rd2.records = rd.records /\ rd2.fields = rd.fields
  /\ rd2.startLine = rd.startLine /\ rd2.result = rd.result

LEMMA PlaceStays ==
  ASSUME NEW rd, NEW rd2, SamePlace(rd, rd2), RecordsRead(rd), FieldsRead(rd)
  PROVE  /\ RecordsRead(rd2) /\ FieldsRead(rd2)
         /\ RowOf(rd2) = RowOf(rd) /\ ValueOf(rd2) = ValueOf(rd)
         /\ \A nl, qa : Behind(rd2, nl, qa) = Behind(rd, nl, qa)
         /\ \A c : LineOf(rd2, c) = LineOf(rd, c)
  BY DEF SamePlace, RecordsRead, FieldsRead, RowOf, ValueOf, Behind, LineOf

\* The line moves on with each line break of the value.
LEMMA LinesCount ==
  ASSUME NEW nl \in Newlines, NEW qa \in BOOLEAN, TextIs(nl, qa), NEW rd, RecordsRead(rd), FieldsRead(rd),
         NEW c \in 0 .. Len(ValueOf(rd))
  PROVE  /\ LineOf(rd, c) \in Nat
         /\ c # Len(ValueOf(rd)) => LineOf(rd, c + 1) = LineOf(rd, c) + IF ValueOf(rd)[c + 1] = LF THEN 1 ELSE 0
<1> DEFINE row == RowOf(rd)
           f == Len(rd.fields)
           s == StartOf(export.table, Len(rd.records) + 1)
<1>1. /\ export.table \in Tables /\ Len(rd.records) \in 0 .. Len(export.table)
      /\ row \in Seq(Seq(Characters)) /\ f \in 0 .. Len(row) /\ f # Len(row)
      /\ ValueOf(rd) = row[f + 1] /\ ValueOf(rd) \in Seq(Characters)
  BY RowsAre DEF ValueOf
<1>2. s \in Nat
  BY <1>1, StartsAre
<1>3. \A d : LineOf(rd, d) = s + Cardinality(Breaks(row, f, d))
  BY DEF LineOf
<1> HIDE DEF row, f, s
<1>4. c \in Nat /\ f \in Nat
  BY <1>1
<1>5. Cardinality(Breaks(row, f, c)) \in Nat
  BY <1>1, <1>4, BreaksAreFinite
<1>6. ASSUME c # Len(ValueOf(rd))
      PROVE  Cardinality(Breaks(row, f, c + 1))
               = Cardinality(Breaks(row, f, c)) + IF ValueOf(rd)[c + 1] = LF THEN 1 ELSE 0
  BY <1>1, <1>6, BreaksOfValues
<1>. QED
  BY <1>2, <1>3, <1>5, <1>6

\* One more character of the value.
LEMMA ValueGrows ==
  ASSUME NEW nl \in Newlines, NEW qa \in BOOLEAN, TextIs(nl, qa), NEW rd, RecordsRead(rd), FieldsRead(rd), ValueRead(rd),
         NEW rd2, SamePlace(rd, rd2), Len(rd.value) # Len(ValueOf(rd)),
         rd2.value = Append(rd.value, ValueOf(rd)[Len(rd.value) + 1]),
         rd2.line = rd.line + IF ValueOf(rd)[Len(rd.value) + 1] = LF THEN 1 ELSE 0
  PROVE  ValueRead(rd2) /\ Len(rd2.value) = Len(rd.value) + 1
<1> DEFINE v == ValueOf(rd)
           c == Len(rd.value)
<1>1. v \in Seq(Characters)
  BY RowsAre
<1>2. c \in Nat
  BY DEF RecordsRead, ReaderRecord
<1>3. c <= Len(v) /\ c # Len(v) /\ rd.value = SubSeq(v, 1, c) /\ rd.line = LineOf(rd, c)
  BY DEF ValueRead
<1>4. rd2.value = Append(rd.value, v[c + 1]) /\ rd2.line = rd.line + IF v[c + 1] = LF THEN 1 ELSE 0
  OBVIOUS
<1>5. c \in 0 .. Len(v) => LineOf(rd, c + 1) = LineOf(rd, c) + IF v[c + 1] = LF THEN 1 ELSE 0
  BY <1>3, LinesCount
<1>6. ValueOf(rd2) = v /\ \A d : LineOf(rd2, d) = LineOf(rd, d)
  BY PlaceStays
<1> HIDE DEF v, c
<1>7. c \in 0 .. Len(v) /\ c + 1 \in 0 .. Len(v) /\ c + 1 <= Len(v)
  BY <1>1, <1>2, <1>3
<1>8. rd2.value = SubSeq(v, 1, c + 1)
  BY <1>1, <1>3, <1>4, <1>7, PrefixGrows
<1>9. Len(rd2.value) = c + 1
  BY <1>1, <1>7, <1>8, PrefixGrows
<1>10. rd2.line = LineOf(rd2, c + 1)
  BY <1>3, <1>4, <1>5, <1>6, <1>7
<1>11. ValueRead(rd2)
  BY <1>6, <1>7, <1>8, <1>9, <1>10 DEF ValueRead
<1>. QED
  BY <1>9, <1>11 DEF c

----------------------------------------------------------------------------
(* The steps of the reader *)

\* A reader's record over any sets of values, fields and records: the provers check a
\* record's update over these.
Readers(V, F, R) ==
  [index : Nat, line : Nat, startLine : Nat, inside : {"file", "field", "quotes", "tail"}, value : V,
   fields : F, records : R, result : {NoResult}]

\* A step within a value, by what it leaves of the reader.
Moved(rd, inside, value, index, line) ==
  [rd EXCEPT !.inside = inside, !.value = value, !.index = index, !.line = line]

MovesTo(rd, rd2, i, v, n, l) ==
  /\ i \in {"file", "field", "quotes", "tail"} /\ v \in Seq(Characters) /\ n \in Nat /\ l \in Nat
  /\ rd2 = Moved(rd, i, v, n, l)

LEMMA MovedIs ==
  ASSUME NEW rd \in ReaderRecord, NEW i, NEW v, NEW n, NEW l, NEW rd2, MovesTo(rd, rd2, i, v, n, l)
  PROVE  /\ SamePlace(rd, rd2)
         /\ rd2.inside = i /\ rd2.value = v /\ rd2.index = n /\ rd2.line = l
<1> DEFINE V == Seq(Characters)
           F == Seq(Seq(Characters))
           R == Seq([line : Nat, fields : Seq(Seq(Characters))])
<1>1. ReaderRecord = Readers(V, F, R)
  BY DEF ReaderRecord, Readers
<1>2. v \in V
  BY DEF MovesTo
<1> HIDE DEF V, F, R
<1>3. rd \in Readers(V, F, R)
  BY <1>1
<1>4. rd2 = Moved(rd, i, v, n, l) /\ i \in {"file", "field", "quotes", "tail"} /\ n \in Nat /\ l \in Nat
  BY DEF MovesTo
<1>5. /\ rd2 \in Readers(V, F, R) /\ rd2.records = rd.records /\ rd2.fields = rd.fields
      /\ rd2.startLine = rd.startLine /\ rd2.result = rd.result
      /\ rd2.inside = i /\ rd2.value = v /\ rd2.index = n /\ rd2.line = l
  BY <1>2, <1>3, <1>4 DEF Readers, Moved
<1>. QED
  BY <1>1, <1>5, Zenon DEF SamePlace

LEMMA ReaderIs ==
  ASSUME NEW rd \in ReaderRecord
  PROVE  /\ rd.index \in Nat /\ rd.line \in Nat /\ rd.value \in Seq(Characters)
         /\ rd.inside \in {"file", "field", "quotes", "tail"}
         /\ [rd EXCEPT !.inside = rd.inside] = rd
  BY DEF ReaderRecord

LEMMA AReader ==
  ASSUME NEW rd \in ReaderRecord
  PROVE  \E V, F, R : rd \in Readers(V, F, R)
  BY DEF ReaderRecord, Readers

\* A field starts: its value is quoted exactly when a quote is what lies there.
StartsField(rd, rd2) ==
  rd2 = IF At(rd.index) = QUOTE
        THEN [rd EXCEPT !.inside = "quotes", !.value = <<>>, !.index = @ + 1]
        ELSE [rd EXCEPT !.inside = "tail", !.value = <<>>]

LEMMA FieldStarts ==
  ASSUME NEW nl \in Newlines, NEW qa \in BOOLEAN, TextIs(nl, qa), NEW rd, StandsIn(rd, nl, qa), rd.inside = "field",
         NEW rd2, StartsField(rd, rd2)
  PROVE  StandsIn(rd2, nl, qa)
<1> DEFINE v == ValueOf(rd)
           a == Behind(rd, nl, qa)
<1>1. RecordsRead(rd) /\ FieldsRead(rd) /\ AtField(rd, nl, qa) /\ rd \in ReaderRecord
  BY DEF StandsIn, RecordsRead
<1>2. v \in Seq(Characters)
  BY <1>1, RowsAre
<1>3. a \in Seq(Symbols(nl)) /\ Len(a) >= Len(nl) /\ a[1] # QUOTE
  BY <1>1, BehindIs, SymbolsDiffer
<1>4. rd.line = LineOf(rd, 0) /\ Lies(Written(v, nl, qa) \o a, rd.index, nl, qa)
  BY <1>1 DEF AtField
<1>5. /\ SamePlace(rd, rd2) /\ rd2.value = <<>> /\ rd2.line = rd.line
      /\ At(rd.index) = QUOTE => rd2.inside = "quotes" /\ rd2.index = rd.index + 1
      /\ At(rd.index) # QUOTE => rd2.inside = "tail" /\ rd2.index = rd.index
  <2>1. <<>> \in Seq(Characters) /\ rd.index + 1 \in Nat /\ rd.index \in Nat /\ rd.line \in Nat
    BY <1>1, ReaderIs
  <2>2. PICK V, F, R : rd \in Readers(V, F, R)
    BY <1>1, AReader
  <2>3. CASE At(rd.index) = QUOTE
    <3>1. rd2 = Moved(rd, "quotes", <<>>, rd.index + 1, rd.line)
      BY <2>2, <2>3 DEF Readers, Moved, StartsField
    <3>2. MovesTo(rd, rd2, "quotes", <<>>, rd.index + 1, rd.line)
      BY <2>1, <3>1 DEF MovesTo
    <3>3. /\ SamePlace(rd, rd2) /\ rd2.inside = "quotes" /\ rd2.value = <<>>
          /\ rd2.index = rd.index + 1 /\ rd2.line = rd.line
      BY <1>1, <3>2, MovedIs
    <3>. QED  BY <2>3, <3>3, Zenon
  <2>4. CASE At(rd.index) # QUOTE
    <3>1. rd2 = Moved(rd, "tail", <<>>, rd.index, rd.line)
      BY <2>2, <2>4 DEF Readers, Moved, StartsField
    <3>2. MovesTo(rd, rd2, "tail", <<>>, rd.index, rd.line)
      BY <2>1, <3>1 DEF MovesTo
    <3>3. /\ SamePlace(rd, rd2) /\ rd2.inside = "tail" /\ rd2.value = <<>>
          /\ rd2.index = rd.index /\ rd2.line = rd.line
      BY <1>1, <3>2, MovedIs
    <3>. QED  BY <2>4, <3>3, Zenon
  <2>. QED  BY <2>3, <2>4
<1>6. /\ RecordsRead(rd2) /\ FieldsRead(rd2) /\ ValueOf(rd2) = v /\ Behind(rd2, nl, qa) = a
      /\ LineOf(rd2, 0) = LineOf(rd, 0)
  BY <1>1, <1>5, PlaceStays
<1> HIDE DEF v, a
<1>7. /\ Quoted(v, qa) /\ At(rd.index) = QUOTE => Lies(ValueLeft(v, nl, 0) \o (<<QUOTE>> \o a), rd.index + 1, nl, qa)
      /\ Quoted(v, qa) => At(rd.index) = QUOTE
      /\ ~Quoted(v, qa) => At(rd.index) # QUOTE /\ Lies(Drop(v, 0) \o a, rd.index, nl, qa)
  BY <1>2, <1>3, <1>4, StartOfValue, Zenon
<1>8. Len(rd2.value) = 0
  BY <1>5
<1>9. ValueRead(rd2)
  <2>1. 0 \in 0 .. Len(v) /\ 0 <= Len(v)
    BY <1>2
  <2>2. rd2.value = SubSeq(v, 1, 0)
    BY <1>2, <1>5, <2>1, PrefixGrows
  <2>. QED  BY <1>4, <1>5, <1>6, <1>8, <2>1, <2>2 DEF ValueRead
<1>10. CASE At(rd.index) = QUOTE
  <2>1. InQuotes(rd2, nl, qa)
    BY <1>5, <1>6, <1>7, <1>8, <1>9, <1>10, Zenon DEF InQuotes
  <2>. QED  BY <1>5, <1>6, <1>10, <2>1 DEF StandsIn
<1>11. CASE At(rd.index) # QUOTE
  <2>1. InTail(rd2, nl, qa)
    BY <1>5, <1>6, <1>7, <1>8, <1>9, <1>11, Zenon DEF InTail
  <2>. QED  BY <1>5, <1>6, <1>11, <2>1 DEF StandsIn
<1>. QED
  BY <1>10, <1>11

\* In quotes, once the value is read, the closing quote is what lies there; before, a
\* character of the value, a doubled quote or a line break.
ReadsQuoted(rd, rd2) ==
  rd2 = CASE At(rd.index) = "end" -> [rd EXCEPT !.result = "csv_unterminated_quote"]
          [] At(rd.index) = QUOTE /\ At(rd.index + 1) = QUOTE ->
               [rd EXCEPT !.value = Append(@, QUOTE), !.index = @ + 2]
          [] At(rd.index) = QUOTE /\ At(rd.index + 1) # QUOTE ->
               [rd EXCEPT !.inside = "tail", !.index = @ + 1]
          [] At(rd.index) = CR ->
               [rd EXCEPT !.value = Append(@, LF), !.line = @ + 1,
                          !.index = @ + IF At(@ + 1) = LF THEN 2 ELSE 1]
          [] OTHER ->
               [rd EXCEPT !.value = Append(@, At(rd.index)), !.index = @ + 1,
                          !.line = @ + IF At(rd.index) = LF THEN 1 ELSE 0]

\* What a character of a quoted value does to the reader.
LEMMA ReadsAre ==
  ASSUME NEW V, NEW F, NEW R, NEW rd \in Readers(V, F, R), NEW rd2, ReadsQuoted(rd, rd2), rd.inside = "quotes",
         NEW x \in Characters, NEW e,
         x = QUOTE => At(rd.index) = QUOTE /\ At(rd.index + 1) = QUOTE /\ e = 2,
         x = LF => \/ At(rd.index) = LF /\ e = 1
                   \/ At(rd.index) = CR /\ e = IF At(rd.index + 1) = LF THEN 2 ELSE 1,
         x \notin {QUOTE, LF} => At(rd.index) = x /\ e = 1
  PROVE  rd2 = Moved(rd, "quotes", Append(rd.value, x), rd.index + e, rd.line + IF x = LF THEN 1 ELSE 0)
<1>1. rd.index \in Nat /\ rd.line \in Nat
  BY DEF Readers
<1> DEFINE w == Append(rd.value, x)
<1>2. x \in {LETTER, DELIMITER, QUOTE, LF}
  BY DEF Characters
<1>3. CASE x = QUOTE
  <2>1. rd2 = [rd EXCEPT !.value = w, !.index = @ + 2]
    BY <1>3, SymbolsDiffer DEF ReadsQuoted
  <2> HIDE DEF w
  <2>2. rd.line + (IF x = LF THEN 1 ELSE 0) = rd.line /\ e = 2
    BY <1>1, <1>3, SymbolsDiffer
  <2>. QED  BY <2>1, <2>2 DEF Readers, Moved, w
<1>4. CASE x = LF
  <2>1. rd.line + (IF x = LF THEN 1 ELSE 0) = rd.line + 1
    BY <1>4
  <2>2. CASE At(rd.index) = LF
    <3>1. rd2 = [rd EXCEPT !.value = w, !.index = @ + 1, !.line = @ + 1]
      BY <1>4, <2>2, SymbolsDiffer DEF ReadsQuoted
    <3>2. e = 1
      BY <1>4, <2>2, SymbolsDiffer
    <3> HIDE DEF w
    <3>. QED  BY <2>1, <3>1, <3>2 DEF Readers, Moved, w
  <2>3. CASE At(rd.index) = CR
    <3>1. e = IF At(rd.index + 1) = LF THEN 2 ELSE 1
      BY <1>4, <2>3, SymbolsDiffer
    <3>2. rd2 = [rd EXCEPT !.value = w, !.line = @ + 1, !.index = @ + e]
      BY <1>4, <2>3, <3>1, SymbolsDiffer DEF ReadsQuoted
    <3> HIDE DEF w
    <3>. QED  BY <2>1, <3>2 DEF Readers, Moved, w
  <2>. QED  BY <1>4, <2>2, <2>3
<1>5. CASE x \notin {QUOTE, LF}
  <2>1. rd2 = [rd EXCEPT !.value = w, !.index = @ + 1, !.line = @ + 0]
    BY <1>2, <1>5, SymbolsDiffer DEF ReadsQuoted
  <2>2. e = 1 /\ x # LF
    BY <1>5
  <2> HIDE DEF w
  <2>. QED  BY <2>1, <2>2 DEF Readers, Moved, w
<1>. QED
  BY <1>3, <1>4, <1>5

LEMMA ReadsEnd ==
  ASSUME NEW rd, NEW rd2, ReadsQuoted(rd, rd2)
  PROVE  /\ At(rd.index) = "end" => rd2 = [rd EXCEPT !.result = "csv_unterminated_quote"]
         /\ At(rd.index) = QUOTE /\ At(rd.index + 1) # QUOTE => rd2 = [rd EXCEPT !.inside = "tail", !.index = @ + 1]
<1> DEFINE r1 == [rd EXCEPT !.result = "csv_unterminated_quote"]
           r2 == [rd EXCEPT !.value = Append(@, QUOTE), !.index = @ + 2]
           r3 == [rd EXCEPT !.inside = "tail", !.index = @ + 1]
           r4 == [rd EXCEPT !.value = Append(@, LF), !.line = @ + 1,
                            !.index = @ + IF At(@ + 1) = LF THEN 2 ELSE 1]
           r5 == [rd EXCEPT !.value = Append(@, At(rd.index)), !.index = @ + 1,
                            !.line = @ + IF At(rd.index) = LF THEN 1 ELSE 0]
<1>1. rd2 = CASE At(rd.index) = "end" -> r1
              [] At(rd.index) = QUOTE /\ At(rd.index + 1) = QUOTE -> r2
              [] At(rd.index) = QUOTE /\ At(rd.index + 1) # QUOTE -> r3
              [] At(rd.index) = CR -> r4
              [] OTHER -> r5
  BY Zenon DEF ReadsQuoted
<1>2. QUOTE # "end" /\ QUOTE # CR /\ CR # "end"
  BY SymbolsDiffer
<1> HIDE DEF r1, r2, r3, r4, r5
<1>3. At(rd.index) = "end" => rd2 = r1
  BY <1>1, <1>2
<1>4. At(rd.index) = QUOTE /\ At(rd.index + 1) # QUOTE => rd2 = r3
  BY <1>1, <1>2
<1>. QED
  BY <1>3, <1>4, Zenon DEF r1, r3

LEMMA QuoteEnds ==
  ASSUME NEW nl \in Newlines, NEW qa \in BOOLEAN, TextIs(nl, qa), NEW rd, StandsIn(rd, nl, qa), rd.inside = "quotes",
         NEW rd2, ReadsQuoted(rd, rd2), Len(rd.value) = Len(ValueOf(rd))
  PROVE  Keeps(rd2, nl, qa)
<1> DEFINE v == ValueOf(rd)
           a == Behind(rd, nl, qa)
           i == rd.index
           rest == ValueLeft(v, nl, Len(v)) \o (<<QUOTE>> \o a)
<1>1. RecordsRead(rd) /\ FieldsRead(rd) /\ InQuotes(rd, nl, qa) /\ ValueRead(rd) /\ rd \in ReaderRecord
  BY DEF StandsIn, RecordsRead, InQuotes
<1>2. v \in Seq(Characters) /\ Len(v) \in 0 .. Len(v)
  BY <1>1, RowsAre
<1>3. a \in Seq(Symbols(nl)) /\ Len(a) >= Len(nl) /\ a[1] # QUOTE
  BY <1>1, BehindIs, SymbolsDiffer
<1>4. Lies(rest, i, nl, qa)
  BY <1>1 DEF InQuotes
<1>5. Len(rd.value) = Len(v)
  OBVIOUS
<1>6. \A d : LineOf(rd, d) = LineOf(rd, d) /\ rd.index \in Nat /\ rd.line \in Nat /\ rd.value \in Seq(Characters)
  BY <1>1, ReaderIs
<1> HIDE DEF v, a, i
<1>7. Joined(rest, <<QUOTE>>, a)
  <2>1. ValueLeft(v, nl, Len(v)) = <<>>
    BY <1>2, ValuesLeft
  <2>2. <<QUOTE>> \o a \in Seq(Symbols(nl))
    BY <1>3, SymbolsAre
  <2> DEFINE u == <<QUOTE>> \o a
  <2>3. rest = ValueLeft(v, nl, Len(v)) \o u
    OBVIOUS
  <2>4. u \in Seq(Symbols(nl))
    BY <2>2
  <2> HIDE DEF u, rest
  <2>5. rest = u
    BY <2>1, <2>3, <2>4
  <2>. QED  BY <2>5 DEF Joined, u
<1>8. Drop(v, Len(v)) \o a = a
  <2>1. Drop(v, Len(v)) \in Seq(Characters) /\ Len(Drop(v, Len(v))) = Len(v) - Len(v)
    BY <1>2, DropIs, Zenon
  <2>2. Len(v) \in Nat
    BY <1>2
  <2> DEFINE d == Drop(v, Len(v))
  <2>3. d \in Seq(Characters) /\ Len(d) = 0
    BY <2>1, <2>2
  <2> HIDE DEF d
  <2>4. d = <<>>
    BY <2>3
  <2>5. <<>> \o a = a
    BY <1>3
  <2>. QED  BY <2>4, <2>5 DEF d
<1> HIDE DEF rest
<1>9. /\ At(i) \in {QUOTE, "end"}
      /\ At(i) = "end" => export.cut
      /\ At(i) = QUOTE => At(i + 1) # QUOTE /\ Lies(a, i + 1, nl, qa)
  BY <1>3, <1>4, <1>7, ClosingQuote, Zenon
<1>10. CASE At(i) = "end"
  <2>1. rd2 = [rd EXCEPT !.result = "csv_unterminated_quote"]
    BY <1>10, ReadsEnd, Zenon DEF i
  <2>2. rd2.result = "csv_unterminated_quote"
    BY <1>1, <2>1 DEF ReaderRecord
  <2>. QED  BY <1>9, <1>10, <2>2 DEF Keeps, StoppedRight, NoResult
<1>11. CASE At(i) = QUOTE
  <2>1. At(i + 1) # QUOTE /\ At(i) # "end"
    BY <1>9, <1>11, SymbolsDiffer
  <2>2. rd2 = [rd EXCEPT !.inside = "tail", !.index = @ + 1]
    BY <1>11, <2>1, ReadsEnd, Zenon DEF i
  <2>3. PICK V, F, R : rd \in Readers(V, F, R)
    BY <1>1, AReader
  <2>4. rd2 = Moved(rd, "tail", rd.value, rd.index + 1, rd.line)
    BY <2>2, <2>3 DEF Readers, Moved
  <2>5. MovesTo(rd, rd2, "tail", rd.value, rd.index + 1, rd.line)
    BY <1>6, <2>4 DEF MovesTo
  <2>6. SamePlace(rd, rd2) /\ rd2.inside = "tail" /\ rd2.value = rd.value /\ rd2.index = i + 1 /\ rd2.line = rd.line
    BY <1>1, <2>5, MovedIs DEF i
  <2>7. /\ RecordsRead(rd2) /\ FieldsRead(rd2) /\ ValueOf(rd2) = v /\ Behind(rd2, nl, qa) = a
        /\ \A d : LineOf(rd2, d) = LineOf(rd, d)
    BY <1>1, <2>6, PlaceStays DEF v, a
  <2>8. ValueRead(rd2)
    BY <1>1, <2>6, <2>7 DEF ValueRead, v
  <2>9. InTail(rd2, nl, qa)
    BY <1>5, <1>8, <1>9, <1>11, <2>6, <2>7, <2>8, Zenon DEF InTail
  <2>. QED  BY <2>6, <2>7, <2>9 DEF StandsIn, Keeps
<1>. QED
  BY <1>9, <1>10, <1>11

LEMMA QuoteGoesOn ==
  ASSUME NEW nl \in Newlines, NEW qa \in BOOLEAN, TextIs(nl, qa), NEW rd, StandsIn(rd, nl, qa), rd.inside = "quotes",
         NEW rd2, ReadsQuoted(rd, rd2), Len(rd.value) # Len(ValueOf(rd))
  PROVE  StandsIn(rd2, nl, qa)
<1> DEFINE v == ValueOf(rd)
           a == Behind(rd, nl, qa)
           i == rd.index
           c == Len(rd.value)
           x == v[c + 1]
           w == ValueLeft(v, nl, c + 1)
           u == <<QUOTE>> \o a
           left == w \o u
           rest == ValueLeft(v, nl, c) \o u
           e == Len(PieceOf(x, nl))
<1>1. /\ RecordsRead(rd) /\ FieldsRead(rd) /\ InQuotes(rd, nl, qa) /\ ValueRead(rd) /\ rd \in ReaderRecord
      /\ Quoted(v, qa)
  BY DEF StandsIn, RecordsRead, InQuotes
<1>2. v \in Seq(Characters)
  BY <1>1, RowsAre
<1>3. a \in Seq(Symbols(nl)) /\ Len(a) >= Len(nl)
  BY <1>1, BehindIs
<1>4. Lies(rest, i, nl, qa)
  BY <1>1 DEF InQuotes
<1>5. rd.index \in Nat /\ rd.line \in Nat /\ rd.value \in Seq(Characters)
  BY <1>1, ReaderIs
<1>6. c \in 0 .. Len(v) /\ c # Len(v) /\ c + 1 \in 1 .. Len(v) /\ x \in Characters
  <2>1. c \in Nat /\ Len(v) \in Nat
    BY <1>2, <1>5
  <2>2. c <= Len(v)
    BY <1>1 DEF ValueRead
  <2>. QED  BY <1>2, <2>1, <2>2
<1>7. ValueOf(rd) = v /\ Len(rd.value) = c /\ rd.index = i
  OBVIOUS
<1> HIDE DEF v, a, i, c
<1>8. u \in Seq(Symbols(nl)) /\ Len(u) = Len(a) + 1
  BY <1>3, SymbolsAre
<1>9. w \in Seq(Symbols(nl)) /\ ValueLeft(v, nl, c) = PieceOf(x, nl) \o w /\ PieceOf(x, nl) \in Seq(Symbols(nl))
  BY <1>2, <1>6, ValuesLeft, PiecesAre
<1> HIDE DEF u, w, x
<1>10. left \in Seq(Symbols(nl)) /\ Len(left) = Len(w) + Len(u)
  <2>1. w \in Seq(Symbols(nl)) /\ u \in Seq(Symbols(nl))
    BY <1>8, <1>9
  <2> HIDE DEF e, rest
  <2>. QED  BY <2>1, ConcatProperties, Zenon
<1>11. Joined(rest, PieceOf(x, nl), left)
  <2>1. Regroups(PieceOf(x, nl), w, u)
    BY <1>8, <1>9, Associative
  <2>2. rest = (PieceOf(x, nl) \o w) \o u
    BY <1>9, Zenon
  <2>. QED  BY <2>1, <2>2, Zenon DEF Joined, Regroups
<1>12. Len(left) >= Len(nl) + 1
  <2>1. Len(a) \in Nat /\ Len(w) \in Nat /\ Len(nl) \in {1, 2}
    BY <1>3, <1>9, NewlinesAre
  <2> HIDE DEF left
  <2>. QED  BY <1>3, <1>8, <1>10, <2>1
<1> HIDE DEF left, rest
<1>13. /\ Lies(left, i + e, nl, qa)
       /\ x = QUOTE => At(i) = QUOTE /\ At(i + 1) = QUOTE /\ e = 2
       /\ x = LF => \/ At(i) = LF /\ e = 1
                    \/ At(i) = CR /\ e = IF At(i + 1) = LF THEN 2 ELSE 1
       /\ x \notin {QUOTE, LF} => At(i) = x /\ e = 1
  BY <1>4, <1>6, <1>10, <1>11, <1>12, QuotedCharacter, ZenonT(40)
<1>14. e \in Nat
  BY <1>9
<1> HIDE DEF e
<1>15. PICK V, F, R : rd \in Readers(V, F, R)
  BY <1>1, AReader
<1> DEFINE value2 == Append(rd.value, x)
           line2 == rd.line + IF x = LF THEN 1 ELSE 0
<1>16. rd2 = Moved(rd, "quotes", value2, rd.index + e, line2)
  BY <1>6, <1>7, <1>13, <1>15, ReadsAre
<1>17. value2 \in Seq(Characters) /\ rd.index + e \in Nat /\ line2 \in Nat
  BY <1>5, <1>6, <1>14
<1> HIDE DEF value2, line2
<1>18. MovesTo(rd, rd2, "quotes", value2, rd.index + e, line2)
  BY <1>16, <1>17 DEF MovesTo
<1>19. SamePlace(rd, rd2) /\ rd2.inside = "quotes" /\ rd2.value = value2 /\ rd2.index = i + e /\ rd2.line = line2
  BY <1>1, <1>7, <1>18, MovedIs
<1>20. RecordsRead(rd2) /\ FieldsRead(rd2) /\ ValueOf(rd2) = v /\ Behind(rd2, nl, qa) = a
  BY <1>1, <1>19, PlaceStays DEF v, a
<1>21. ValueRead(rd2) /\ Len(rd2.value) = c + 1
  <2>1. rd2.value = Append(rd.value, ValueOf(rd)[Len(rd.value) + 1])
    BY <1>19 DEF value2, x, v, c
  <2>2. rd2.line = rd.line + IF ValueOf(rd)[Len(rd.value) + 1] = LF THEN 1 ELSE 0
    BY <1>19 DEF line2, x, v, c
  <2>. QED  BY <1>1, <1>19, <2>1, <2>2, ValueGrows DEF c
<1>22. InQuotes(rd2, nl, qa)
  <2>1. Lies(ValueLeft(v, nl, c + 1) \o (<<QUOTE>> \o a), i + e, nl, qa)
    BY <1>13 DEF left, w, u
  <2>. QED  BY <1>1, <1>19, <1>20, <1>21, <2>1, Zenon DEF InQuotes
<1>. QED
  BY <1>19, <1>20, <1>22 DEF StandsIn

\* Outside quotes what lies there is a character of the value, or what is behind it.
LEMMA TailIs ==
  ASSUME NEW nl \in Newlines, NEW qa \in BOOLEAN, TextIs(nl, qa), NEW rd, StandsIn(rd, nl, qa), rd.inside = "tail"
  PROVE  LET v == ValueOf(rd)
             a == Behind(rd, nl, qa)
             c == Len(rd.value)
         IN  /\ c \in 0 .. Len(v) /\ v \in Seq(Characters)
             /\ c # Len(v) => /\ At(rd.index) = LETTER /\ v[c + 1] = LETTER /\ ~Quoted(v, qa)
                              /\ Lies(Drop(v, c + 1) \o a, rd.index + 1, nl, qa)
             /\ c = Len(v) => /\ rd.value = v /\ Lies(a, rd.index, nl, qa)
                              /\ At(rd.index) \in {DELIMITER, LF, CR, "end"}
<1> DEFINE v == ValueOf(rd)
           a == Behind(rd, nl, qa)
           i == rd.index
           c == Len(rd.value)
<1>1. /\ RecordsRead(rd) /\ FieldsRead(rd) /\ InTail(rd, nl, qa) /\ ValueRead(rd) /\ rd \in ReaderRecord
      /\ rd.value = SubSeq(v, 1, c) /\ c <= Len(v)
  BY DEF StandsIn, RecordsRead, InTail, ValueRead
<1>2. v \in Seq(Characters)
  BY <1>1, RowsAre
<1>3. a \in Seq(Symbols(nl)) /\ Len(a) >= Len(nl) /\ a[1] \in {DELIMITER, LF, CR}
  BY <1>1, BehindIs
<1>4. Lies(Drop(v, c) \o a, i, nl, qa) /\ (Quoted(v, qa) => c = Len(v))
  BY <1>1 DEF InTail
<1>5. rd.value \in Seq(Characters)
  BY <1>1, ReaderIs
<1>6. c \in 0 .. Len(v)
  <2>1. c \in Nat /\ Len(v) \in Nat
    BY <1>2, <1>5
  <2>. QED  BY <1>1, <2>1
<1> HIDE DEF v, a, i, c
<1>7. ASSUME c # Len(v)
      PROVE  At(i) = LETTER /\ v[c + 1] = LETTER /\ ~Quoted(v, qa) /\ Lies(Drop(v, c + 1) \o a, i + 1, nl, qa)
  <2>1. ~Quoted(v, qa)
    BY <1>4, <1>7
  <2>2. v \in Seq(Symbols(nl)) /\ \A k \in 1 .. Len(v) : v[k] = LETTER
    BY <1>2, <2>1, WrittenIs, Zenon
  <2>3. c + 1 \in 1 .. Len(v)
    BY <1>2, <1>6, <1>7
  <2>4. v[c + 1] = LETTER
    BY <2>2, <2>3
  <2>. QED  BY <1>3, <1>4, <1>6, <1>7, <2>1, <2>2, <2>4, PlainCharacter, Zenon
<1>8. ASSUME c = Len(v)
      PROVE  rd.value = v /\ Lies(a, i, nl, qa) /\ At(i) \in {DELIMITER, LF, CR, "end"}
  <2>1. rd.value = v
    BY <1>1, <1>2, <1>6, <1>8, PrefixGrows
  <2> DEFINE d == Drop(v, c)
  <2>2. d \in Seq(Characters) /\ Len(d) = Len(v) - c
    BY <1>2, <1>6, DropIs, Zenon
  <2>3. Len(v) \in Nat /\ Lies(d \o a, i, nl, qa)
    BY <1>2, <1>4
  <2> HIDE DEF d
  <2>4. d = <<>>
    BY <1>8, <2>2, <2>3
  <2>5. <<>> \o a = a
    BY <1>3
  <2>6. Lies(a, i, nl, qa)
    BY <2>3, <2>4, <2>5, Zenon
  <2>7. Len(a) >= Lost(nl) /\ Len(a) \in Nat /\ Lost(nl) \in Nat
    BY <2>6, Reads, LostIs
  <2>8. Len(a) > Lost(nl) => At(i) = a[1]
    BY <2>6, Reads
  <2>9. Len(a) = Lost(nl) => At(i) = "end"
    BY <2>6, Reads
  <2>10. At(i) \in {DELIMITER, LF, CR, "end"}
    BY <1>3, <2>7, <2>8, <2>9
  <2>. QED  BY <2>1, <2>6, <2>10
<1>. QED
  BY <1>2, <1>6, <1>7, <1>8 DEF v, a, c, i

ReadsTail(rd, rd2) == rd2 = [rd EXCEPT !.value = Append(@, At(rd.index)), !.index = @ + 1]

LEMMA TailGoesOn ==
  ASSUME NEW nl \in Newlines, NEW qa \in BOOLEAN, TextIs(nl, qa), NEW rd, StandsIn(rd, nl, qa), rd.inside = "tail",
         At(rd.index) # DELIMITER, ~IsRecordEnd(At(rd.index)), NEW rd2, ReadsTail(rd, rd2)
  PROVE  StandsIn(rd2, nl, qa)
<1> DEFINE v == ValueOf(rd)
           a == Behind(rd, nl, qa)
           c == Len(rd.value)
<1>1. RecordsRead(rd) /\ FieldsRead(rd) /\ ValueRead(rd) /\ rd \in ReaderRecord
  BY DEF StandsIn, RecordsRead, InTail
<1>2. /\ c # Len(v) /\ v \in Seq(Characters) /\ At(rd.index) = LETTER /\ v[c + 1] = LETTER /\ ~Quoted(v, qa)
      /\ Lies(Drop(v, c + 1) \o a, rd.index + 1, nl, qa)
  BY TailIs DEF IsRecordEnd
<1>3. rd.index \in Nat /\ rd.line \in Nat /\ rd.value \in Seq(Characters)
  BY <1>1, ReaderIs
<1> HIDE DEF v, a
<1>4. PICK V, F, R : rd \in Readers(V, F, R)
  BY <1>1, AReader
<1> DEFINE value2 == Append(rd.value, LETTER)
<1>5. value2 \in Seq(Characters) /\ rd.index + 1 \in Nat
  BY <1>3 DEF Characters
<1>6. rd2 = [rd EXCEPT !.value = value2, !.index = @ + 1]
  BY <1>2, Zenon DEF ReadsTail
<1> HIDE DEF value2, c
<1>7. rd2 = Moved(rd, "tail", value2, rd.index + 1, rd.line)
  BY <1>4, <1>6 DEF Moved, Readers
<1>8. MovesTo(rd, rd2, "tail", value2, rd.index + 1, rd.line)
  BY <1>3, <1>5, <1>7 DEF MovesTo
<1>9. SamePlace(rd, rd2) /\ rd2.inside = "tail" /\ rd2.value = value2 /\ rd2.index = rd.index + 1 /\ rd2.line = rd.line
  BY <1>1, <1>8, MovedIs
<1>10. RecordsRead(rd2) /\ FieldsRead(rd2) /\ ValueOf(rd2) = v /\ Behind(rd2, nl, qa) = a
  BY <1>1, <1>9, PlaceStays DEF v, a
<1>11. ValueRead(rd2) /\ Len(rd2.value) = c + 1
  <2>1. rd2.value = Append(rd.value, ValueOf(rd)[Len(rd.value) + 1])
    BY <1>2, <1>9 DEF value2, v, c
  <2>2. LETTER # LF
    BY SymbolsDiffer
  <2>3. rd2.line = rd.line + IF ValueOf(rd)[Len(rd.value) + 1] = LF THEN 1 ELSE 0
    BY <1>2, <1>3, <1>9, <2>2 DEF v, c
  <2>4. Len(rd.value) # Len(ValueOf(rd))
    BY <1>2 DEF v, c
  <2>. QED  BY <1>1, <1>9, <2>1, <2>3, <2>4, ValueGrows DEF c
<1>12. InTail(rd2, nl, qa)
  BY <1>2, <1>9, <1>10, <1>11, Zenon DEF InTail
<1>. QED
  BY <1>9, <1>10, <1>12 DEF StandsIn

\* A record opens on the line the reader is on.
OpensRecord(rd, rd2) == rd2 = [rd EXCEPT !.inside = "field", !.startLine = rd.line, !.fields = <<>>]

LEMMA OpenedIs ==
  ASSUME NEW rd \in ReaderRecord, NEW rd2, OpensRecord(rd, rd2)
  PROVE  /\ rd2 \in ReaderRecord /\ rd2.records = rd.records /\ rd2.fields = <<>> /\ rd2.startLine = rd.line
         /\ rd2.result = rd.result /\ rd2.inside = "field" /\ rd2.index = rd.index /\ rd2.line = rd.line
<1> DEFINE V == Seq(Characters)
           F == Seq(Seq(Characters))
           R == Seq([line : Nat, fields : Seq(Seq(Characters))])
           fields2 == <<>>
<1>1. ReaderRecord = Readers(V, F, R)
  BY DEF ReaderRecord, Readers
<1>2. fields2 \in F
  OBVIOUS
<1>3. rd2 = [rd EXCEPT !.inside = "field", !.startLine = rd.line, !.fields = fields2]
  BY DEF OpensRecord
<1> HIDE DEF V, F, R, fields2
<1>4. /\ rd2 \in Readers(V, F, R) /\ rd2.records = rd.records /\ rd2.fields = fields2 /\ rd2.startLine = rd.line
      /\ rd2.result = rd.result /\ rd2.inside = "field" /\ rd2.index = rd.index /\ rd2.line = rd.line
  BY <1>1, <1>2, <1>3 DEF Readers
<1>. QED
  BY <1>1, <1>4, Zenon DEF fields2

LEMMA RecordOpens ==
  ASSUME NEW nl \in Newlines, NEW qa \in BOOLEAN, TextIs(nl, qa), NEW rd, StandsIn(rd, nl, qa), rd.inside = "file",
         Len(rd.records) # Len(export.table), NEW rd2, OpensRecord(rd, rd2)
  PROVE  StandsIn(rd2, nl, qa)
<1> DEFINE r == Len(rd.records)
           row == export.table[r + 1]
           a == FieldsLeft(export.table, nl, qa, r, 1)
<1>1. /\ RecordsRead(rd) /\ rd \in ReaderRecord /\ r # Len(export.table) /\ r <= Len(export.table)
      /\ rd.line = StartOf(export.table, r + 1) /\ Lies(TableLeft(export.table, nl, qa, r), rd.index, nl, qa)
  BY DEF StandsIn, AtRecord, RecordsRead
<1>2. export.table \in Tables
  BY DEF TextIs
<1>3. /\ rd2 \in ReaderRecord /\ rd2.records = rd.records /\ rd2.fields = <<>> /\ rd2.startLine = rd.line
      /\ rd2.result = rd.result /\ rd2.inside = "field" /\ rd2.index = rd.index /\ rd2.line = rd.line
  BY <1>1, OpenedIs
<1>4. r \in 0 .. Len(export.table) /\ r + 1 \in 1 .. Len(export.table)
  <2>1. r \in Nat
    BY <1>1 DEF ReaderRecord
  <2>2. Len(export.table) \in Nat
    BY <1>2 DEF Tables
  <2>. QED  BY <1>1, <2>1, <2>2
<1>5. row \in Seq(Seq(Characters)) /\ row # <<>>
  BY <1>2, <1>4 DEF Tables
<1>6. Len(row) \in Nat /\ Len(row) # 0
  BY <1>5
<1>7. RecordsRead(rd2)
  BY <1>1, <1>3 DEF RecordsRead
<1>8. Len(rd2.records) = r /\ RowOf(rd2) = row /\ Len(rd2.fields) = 0
  BY <1>3 DEF RowOf
<1>9. Behind(rd2, nl, qa) = a /\ ValueOf(rd2) = row[0 + 1]
      /\ LineOf(rd2, 0) = StartOf(export.table, r + 1) + Cardinality(Breaks(row, 0, 0))
  BY <1>8 DEF Behind, ValueOf, LineOf
<1> HIDE DEF r, row
<1>10. FieldsRead(rd2)
  <2>1. rd2.fields = SubSeq(row, 1, 0)
    BY <1>3, <1>5, <1>6, PrefixGrows
  <2>2. Fits(row, 0)
    BY CsvAssumption DEF Fits
  <2>. QED  BY <1>1, <1>3, <1>6, <1>8, <2>1, <2>2 DEF FieldsRead
<1>11. Cardinality(Breaks(row, 0, 0)) = 0
  BY <1>5, NoBreaksYet
<1>12. StartOf(export.table, r + 1) \in Nat
  BY <1>2, <1>4, StartsAre
<1>13. TableLeft(export.table, nl, qa, r) = Written(row[0 + 1], nl, qa) \o a
  <2>1. TableLeft(export.table, nl, qa, r) = FieldsLeft(export.table, nl, qa, r, 0)
    BY <1>1, <1>2, <1>4, TablesLeft
  <2>2. 0 \in 0 .. Len(row) /\ 0 # Len(row)
    BY <1>6
  <2>3. FieldsLeft(export.table, nl, qa, r, 0)
          = Written(export.table[r + 1][0 + 1], nl, qa) \o FieldsLeft(export.table, nl, qa, r, 0 + 1)
    BY <1>1, <1>2, <1>4, <2>2, FieldsAre, Zenon DEF row
  <2>. QED  BY <2>1, <2>3 DEF row
<1>14. AtField(rd2, nl, qa)
  BY <1>1, <1>3, <1>9, <1>11, <1>12, <1>13 DEF AtField
<1>. QED
  BY <1>3, <1>7, <1>10, <1>14 DEF StandsIn

\* A reader stops with a result.
StopsWith(rd, rd2, result) == rd2 = [rd EXCEPT !.result = result]

LEMMA EndedIs ==
  ASSUME NEW rd \in ReaderRecord, NEW rd2, NEW result, StopsWith(rd, rd2, result)
  PROVE  rd2.result = result /\ rd2.records = rd.records
  BY DEF StopsWith, ReaderRecord

\* No record that was read is over a limit.
LEMMA NoneOverLimit ==
  ASSUME NEW nl \in Newlines, NEW qa \in BOOLEAN, TextIs(nl, qa), NEW rd, RecordsRead(rd)
  PROVE  ~OverLimit([i \in DOMAIN rd.records |-> rd.records[i].fields])
<1> DEFINE n == Len(rd.records)
           rows == [i \in DOMAIN rd.records |-> rd.records[i].fields]
<1>1. /\ n \in Nat /\ DOMAIN rd.records = 1 .. n /\ n <= MaxRecords
      /\ n <= Len(export.table)
      /\ \A i \in 1 .. n : rd.records[i].fields = export.table[i] /\ Fits(export.table[i], Len(export.table[i]))
  <2>1. /\ rd \in ReaderRecord /\ n <= MaxRecords /\ n <= Len(export.table)
        /\ \A i \in 1 .. n : /\ rd.records[i] = [line |-> StartOf(export.table, i), fields |-> export.table[i]]
                             /\ Fits(export.table[i], Len(export.table[i]))
    BY Zenon DEF RecordsRead
  <2>2. n \in Nat /\ DOMAIN rd.records = 1 .. n
    BY <2>1 DEF ReaderRecord
  <2> HIDE DEF n, rows
  <2>3. ASSUME NEW i \in 1 .. n
        PROVE  rd.records[i].fields = export.table[i]
    <3>1. rd.records[i] = [line |-> StartOf(export.table, i), fields |-> export.table[i]]
      BY <2>1
    <3>2. [line |-> StartOf(export.table, i), fields |-> export.table[i]].fields = export.table[i]
      OBVIOUS
    <3>. QED  BY <3>1, <3>2, Zenon
  <2>. QED  BY <2>1, <2>2, <2>3, Zenon
<1>2. export.table \in Tables /\ Len(export.table) \in Nat
  BY DEF TextIs, Tables
<1>3. \A i \in 1 .. n : export.table[i] \in Seq(Seq(Characters))
  BY <1>1, <1>2 DEF Tables
<1>4. rows = [i \in 1 .. n |-> export.table[i]]
  BY <1>1
<1> HIDE DEF rows, n
<1>5. DOMAIN rows = 1 .. n /\ \A i \in 1 .. n : rows[i] = export.table[i]
  BY <1>4
<1>6. Len(rows) = n
  <2>1. rows \in Seq(Seq(Seq(Characters)))
    BY <1>1, <1>3, <1>4
  <2>. QED  BY <1>1, <1>5, <2>1
<1>7. \A i \in 1 .. n : /\ Len(rows[i]) <= MaxFieldsPerRecord
                        /\ \A k \in DOMAIN rows[i] : Len(rows[i][k]) <= MaxFieldCharacters
  <2>1. TAKE i \in 1 .. n
  <2>2. rows[i] \in Seq(Seq(Characters)) /\ Fits(rows[i], Len(rows[i]))
    BY <1>1, <1>3, <1>5
  <2>3. DOMAIN rows[i] = 1 .. Len(rows[i])
    BY <2>2
  <2>. QED  BY <2>2, <2>3 DEF Fits
<1>8. /\ MaxRecords \in Nat /\ MaxFieldsPerRecord \in Nat /\ MaxFieldCharacters \in Nat
      /\ \A i \in 1 .. n : /\ Len(rows[i]) \in Nat
                           /\ \A k \in DOMAIN rows[i] : Len(rows[i][k]) \in Nat
  <2>1. \A i \in 1 .. n : rows[i] \in Seq(Seq(Characters))
    BY <1>3, <1>5
  <2>. QED  BY <2>1, CsvAssumption
<1>9. ~OverLimit(rows)
  BY <1>1, <1>5, <1>6, <1>7, <1>8 DEF OverLimit
<1>. QED
  BY <1>9 DEF rows

LEMMA WrittenRecordsAre ==
  ASSUME NEW nl \in Newlines, NEW qa \in BOOLEAN, TextIs(nl, qa)
  PROVE  /\ Len(WrittenRecords) = Len(export.table) /\ Len(WrittenRecords) \in Nat
         /\ DOMAIN WrittenRecords = 1 .. Len(export.table)
         /\ \A i \in 1 .. Len(export.table) :
              WrittenRecords[i] = [line |-> StartOf(export.table, i), fields |-> export.table[i]]
         /\ WrittenRecords \in Seq([line : Nat, fields : Seq(Seq(Characters))])
<1> DEFINE R == [line : Nat, fields : Seq(Seq(Characters))]
           n == Len(export.table)
           entry(i) == [line |-> StartOf(export.table, i), fields |-> export.table[i]]
<1>1. export.table \in Tables
  BY DEF TextIs
<1>2. n \in Nat /\ DOMAIN export.table = 1 .. n /\ \A i \in 1 .. n : export.table[i] \in Seq(Seq(Characters))
  BY <1>1 DEF Tables
<1>3. \A i \in 1 .. n : StartOf(export.table, i) \in Nat
  <2>1. TAKE i \in 1 .. n
  <2>2. i - 1 \in 0 .. n /\ (i - 1) + 1 = i
    BY <1>2
  <2>3. StartOf(export.table, (i - 1) + 1) \in Nat
    BY <1>1, <2>2, StartsAre, Zenon
  <2>. QED  BY <2>2, <2>3
<1>4. \A i \in 1 .. n : entry(i) \in R
  BY <1>2, <1>3
<1>5. WrittenRecords = [i \in 1 .. n |-> entry(i)]
  BY <1>2 DEF WrittenRecords
<1> HIDE DEF R, entry, n
<1>6. WrittenRecords \in [1 .. n -> R]
  BY <1>4, <1>5
<1>7. WrittenRecords \in Seq(R) /\ Len(WrittenRecords) = n
  BY <1>2, <1>6, SeqIs
<1>8. DOMAIN WrittenRecords = 1 .. n /\ \A i \in 1 .. n : WrittenRecords[i] = entry(i)
  BY <1>5
<1>. QED
  BY <1>2, <1>7, <1>8 DEF n, R, entry

\* A file that ends before its last row: the row is one empty value, not quoted.
LEMMA OnlyNothingIsLeft ==
  ASSUME NEW nl \in Newlines, NEW qa \in BOOLEAN, TextIs(nl, qa), NEW rd, StandsIn(rd, nl, qa), rd.inside = "file",
         Len(rd.records) # Len(export.table), At(rd.index) = "end"
  PROVE  /\ ~export.cut /\ ~export.final /\ Len(rd.records) + 1 = Len(export.table)
         /\ export.table[Len(rd.records) + 1] = << <<>> >>
<1> DEFINE r == Len(rd.records)
           row == export.table[r + 1]
           rd2 == [rd EXCEPT !.inside = "field", !.startLine = rd.line, !.fields = <<>>]
           rd3 == [rd2 EXCEPT !.inside = "tail", !.value = <<>>]
           a == FieldsLeft(export.table, nl, qa, r, 1)
           i == rd.index
<1>1. RecordsRead(rd) /\ rd \in ReaderRecord /\ r # Len(export.table)
  BY DEF StandsIn, RecordsRead
<1>2. OpensRecord(rd, rd2)
  BY DEF OpensRecord
<1> HIDE DEF rd2
<1>3. /\ rd2 \in ReaderRecord /\ rd2.records = rd.records /\ rd2.fields = <<>> /\ rd2.inside = "field" /\ rd2.index = i
      /\ StandsIn(rd2, nl, qa)
  BY <1>1, <1>2, OpenedIs, RecordOpens
<1>4. RecordsRead(rd2) /\ FieldsRead(rd2)
  BY <1>3 DEF StandsIn
<1>5. RowOf(rd2) = row /\ ValueOf(rd2) = row[1] /\ Behind(rd2, nl, qa) = a
  <2>1. Len(rd2.fields) = 0 /\ Len(rd2.records) = r
    BY <1>3
  <2>2. Len(rd2.fields) + 1 = 1
    BY <2>1
  <2>. QED  BY <2>1, <2>2 DEF RowOf, ValueOf, Behind
<1>6. /\ row \in Seq(Seq(Characters)) /\ row[1] \in Seq(Characters) /\ r \in 0 .. Len(export.table)
      /\ r + 1 \in 0 .. Len(export.table) /\ 1 \in 1 .. Len(row)
  <2>1. Len(rd2.fields) + 1 = 1 /\ Len(rd2.records) = r
    BY <1>3
  <2>. QED  BY <1>4, <1>5, <2>1, RowsAre
<1>7. At(i) = "end" /\ QUOTE # "end" /\ LETTER # "end" /\ DELIMITER # "end" /\ QUOTE \notin {DELIMITER, LF, CR}
  BY SymbolsDiffer
<1>8. StartsField(rd2, rd3)
  BY <1>3, <1>7 DEF StartsField
<1>9. rd3.inside = "tail" /\ SamePlace(rd2, rd3) /\ rd3.index = i /\ rd3.value = <<>>
  <2>1. rd2.index \in Nat /\ rd2.line \in Nat /\ <<>> \in Seq(Characters)
    BY <1>3, ReaderIs
  <2>2. PICK V, F, R : rd2 \in Readers(V, F, R)
    BY <1>3, AReader
  <2>3. rd3 = Moved(rd2, "tail", <<>>, rd2.index, rd2.line)
    BY <2>2 DEF Readers, Moved
  <2> HIDE DEF rd3
  <2>4. MovesTo(rd2, rd3, "tail", <<>>, rd2.index, rd2.line)
    BY <2>1, <2>3 DEF MovesTo
  <2>. QED  BY <1>3, <2>4, MovedIs
<1> HIDE DEF rd3
<1>10. StandsIn(rd3, nl, qa)
  BY <1>3, <1>8, FieldStarts
<1>11. RowOf(rd3) = row /\ ValueOf(rd3) = row[1] /\ Behind(rd3, nl, qa) = a
  BY <1>4, <1>5, <1>9, PlaceStays
<1> HIDE DEF i
<1>12. row[1] = <<>> /\ Lies(a, i, nl, qa)
  <2>1. Len(rd3.value) = Len(ValueOf(rd3)) => rd3.value = ValueOf(rd3) /\ Lies(Behind(rd3, nl, qa), rd3.index, nl, qa)
    BY <1>9, <1>10, TailIs
  <2>2. Len(rd3.value) # Len(ValueOf(rd3)) => At(rd3.index) = LETTER
    BY <1>9, <1>10, TailIs
  <2>. QED  BY <1>7, <1>9, <1>11, <2>1, <2>2
<1>13. Len(row) = 1
  <2>1. SUFFICES ASSUME 1 # Len(row) PROVE FALSE
    OBVIOUS
  <2>2. At(i) = DELIMITER
    BY <1>1, <1>6, <1>12, <2>1, NextValue DEF row, a
  <2>. QED  BY <1>7, <2>2
<1>14. a = FieldsLeft(export.table, nl, qa, r, Len(row))
  BY <1>13
<1> HIDE DEF a
<1>15. r + 1 = Len(export.table) /\ ~export.cut
  BY <1>1, <1>6, <1>7, <1>12, <1>14, NextRow DEF row
<1>16. ~export.final
  <2>1. Len(a) \in Nat /\ Len(a) >= Len(nl) /\ Len(nl) \in {1, 2}
    BY <1>4, <1>5, BehindIs, NewlinesAre
  <2>2. Len(a) > Lost(nl) => At(i) # "end"
    BY <1>12, Reads
  <2>3. SUFFICES ASSUME export.final PROVE FALSE
    OBVIOUS
  <2>4. Lost(nl) = 0
    BY <2>3, LostIs
  <2>5. Len(a) > Lost(nl)
    <3>1. CASE Len(nl) = 1
      BY <2>1, <2>4, <3>1
    <3>2. CASE Len(nl) = 2
      BY <2>1, <2>4, <3>2
    <3>. QED  BY <2>1, <3>1, <3>2
  <2>. QED  BY <1>7, <2>2, <2>5
<1>17. row = << <<>> >>
  <2> HIDE DEF row
  <2>. QED  BY <1>6, <1>12, <1>13
<1>. QED
  BY <1>15, <1>16, <1>17 DEF r, row

\* At the end of the file every record has been read.
LEMMA FileEnds ==
  ASSUME NEW nl \in Newlines, NEW qa \in BOOLEAN, TextIs(nl, qa), NEW rd, StandsIn(rd, nl, qa), rd.inside = "file",
         rd.index > Len(text), NEW rd2, StopsWith(rd, rd2, "ok")
  PROVE  Keeps(rd2, nl, qa)
<1> DEFINE r == Len(rd.records)
           n == Len(export.table)
           R == [line : Nat, fields : Seq(Seq(Characters))]
<1>1. RecordsRead(rd) /\ rd \in ReaderRecord /\ AtRecord(rd, nl, qa)
  BY DEF StandsIn, RecordsRead
<1>2. rd2.result = "ok" /\ rd2.records = rd.records
  BY <1>1, EndedIs
<1>3. rd.records \in Seq(R) /\ r \in Nat /\ r <= n /\ DOMAIN rd.records = 1 .. r /\ rd.index \in Nat
  <2>1. rd.records \in Seq(R) /\ rd.index \in Nat
    BY <1>1 DEF ReaderRecord
  <2>2. r <= n
    BY <1>1 DEF RecordsRead
  <2>. QED  BY <2>1, <2>2
<1>4. \A i \in 1 .. r : rd.records[i] = [line |-> StartOf(export.table, i), fields |-> export.table[i]]
  BY <1>1, Zenon DEF RecordsRead
<1>5. ~OverLimit([i \in DOMAIN rd2.records |-> rd2.records[i].fields])
  BY <1>1, <1>2, NoneOverLimit
<1>6. /\ Len(WrittenRecords) = n /\ n \in Nat /\ DOMAIN WrittenRecords = 1 .. n /\ WrittenRecords \in Seq(R)
      /\ \A i \in 1 .. n : WrittenRecords[i] = [line |-> StartOf(export.table, i), fields |-> export.table[i]]
  <2>1. export.table \in Tables
    BY DEF TextIs
  <2>2. n \in Nat
    BY <2>1 DEF Tables
  <2>. QED  BY <2>2, WrittenRecordsAre
<1> HIDE DEF R, r, n
<1>7. \A i \in 1 .. r : rd.records[i] = WrittenRecords[i]
  BY <1>3, <1>4, <1>6
<1>8. CASE r = n
  <2>1. rd.records = WrittenRecords
    BY <1>3, <1>6, <1>7, <1>8, SeqEqual DEF r
  <2>2. ~export.cut
    BY <1>1, <1>8 DEF AtRecord, r, n
  <2>. QED  BY <1>2, <1>5, <2>1, <2>2 DEF Keeps, StoppedRight, NoResult
<1>9. CASE r # n
  <2>1. At(rd.index) = "end"
    <3>1. text \in Seq(Symbols(nl)) /\ Len(text) \in Nat
      BY DEF TextIs
    <3>2. rd.index \notin DOMAIN text
      BY <1>3, <3>1
    <3>. QED  BY <3>2 DEF At
  <2>2. ~export.cut /\ ~export.final /\ r + 1 = n /\ export.table[r + 1] = << <<>> >>
    BY <1>9, <2>1, OnlyNothingIsLeft DEF r, n
  <2>3. rd.records = SubSeq(WrittenRecords, 1, Len(WrittenRecords) - 1)
    <3> DEFINE s == SubSeq(WrittenRecords, 1, r)
    <3>1. r \in 0 .. Len(WrittenRecords) /\ Len(WrittenRecords) - 1 = r
      BY <1>3, <1>6, <2>2
    <3>2. s \in Seq(R) /\ Len(s) = r
      BY <1>6, <3>1, PrefixGrows
    <3>3. \A i \in 1 .. r : s[i] = WrittenRecords[i]
      <4>1. \A i \in 1 .. r : SubSeq(WrittenRecords, 1, r)[i] = WrittenRecords[1 + i - 1]
        BY <1>3, <1>6, <3>1
      <4>. QED  BY <1>3, <4>1
    <3> HIDE DEF s
    <3>4. s = rd.records
      BY <1>3, <1>7, <3>2, <3>3, SeqEqual DEF r
    <3>. QED  BY <3>1, <3>4 DEF s
  <2>4. WrittenRecords # <<>> /\ WrittenRecords[Len(WrittenRecords)].fields = << <<>> >>
    <3>1. n \in 1 .. n /\ n = Len(WrittenRecords)
      BY <1>3, <1>6, <2>2
    <3>2. WrittenRecords[n] = [line |-> StartOf(export.table, n), fields |-> export.table[n]]
      BY <1>6, <3>1
    <3>3. [line |-> StartOf(export.table, n), fields |-> export.table[n]].fields = export.table[n]
      OBVIOUS
    <3>4. WrittenRecords[n].fields = << <<>> >>
      BY <2>2, <3>2, <3>3, Zenon
    <3>5. WrittenRecords # <<>>
      BY <3>1
    <3>. QED  BY <3>1, <3>4, <3>5, Zenon
  <2>. QED  BY <1>2, <1>5, <2>2, <2>3, <2>4 DEF Keeps, StoppedRight, NoResult
<1>. QED
  BY <1>8, <1>9

\* The reader rd stands behind the last character of a field: what it has read of the row,
\* and what lies ahead of it in the text.
FieldEnded(rd, nl, qa) ==
  LET r == Len(rd.records)
      f == Len(rd.fields)
      row == export.table[r + 1]
      i == rd.index
      e == IF At(i) = CR /\ At(i + 1) = LF THEN 2 ELSE 1
  IN  /\ r \in Nat /\ r + 1 \in 1 .. Len(export.table) /\ export.table \in Tables
      /\ f \in Nat /\ f + 1 \in 1 .. Len(row) /\ row \in Seq(Seq(Characters)) /\ Len(row) \in Nat
      /\ rd.value = row[f + 1]
      /\ Append(rd.fields, rd.value) = SubSeq(row, 1, f + 1)
      /\ Len(Append(rd.fields, rd.value)) = f + 1
      /\ Append(rd.fields, rd.value) \in Seq(Seq(Characters))
      /\ rd.line = StartOf(export.table, r + 1) + Cardinality(Breaks(row, f + 1, 0))
      /\ At(i) = DELIMITER =>
           /\ f + 1 # Len(row)
           /\ Lies(Written(row[f + 1 + 1], nl, qa) \o FieldsLeft(export.table, nl, qa, r, f + 1 + 1), i + 1, nl, qa)
      /\ At(i) # DELIMITER =>
           /\ f + 1 = Len(row) /\ At(i) \in {LF, CR, "end"}
           /\ At(i) = "end" => r + 1 = Len(export.table) /\ i = Len(text) + 1 /\ ~export.cut
           /\ At(i) # "end" => Lies(TableLeft(export.table, nl, qa, r + 1), i + e, nl, qa)
           /\ At(i) # "end" /\ r + 1 = Len(export.table) => i + e = Len(text) + 1 /\ ~export.cut

\* A field ends where its value does: on a delimiter when the row has another field, on
\* the end of a record when it has none.
LEMMA FieldEnds ==
  ASSUME NEW nl \in Newlines, NEW qa \in BOOLEAN, TextIs(nl, qa), NEW rd, StandsIn(rd, nl, qa), rd.inside = "tail",
         At(rd.index) = DELIMITER \/ IsRecordEnd(At(rd.index))
  PROVE  FieldEnded(rd, nl, qa)
<1> DEFINE r == Len(rd.records)
           f == Len(rd.fields)
           row == export.table[r + 1]
           v == row[f + 1]
           i == rd.index
           e == IF At(i) = CR /\ At(i + 1) = LF THEN 2 ELSE 1
           a == FieldsLeft(export.table, nl, qa, r, f + 1)
           fields2 == Append(rd.fields, rd.value)
<1>1. RecordsRead(rd) /\ FieldsRead(rd) /\ ValueRead(rd) /\ rd \in ReaderRecord
  BY DEF StandsIn, RecordsRead, InTail
<1>2. RowOf(rd) = row /\ ValueOf(rd) = v /\ Behind(rd, nl, qa) = a
  BY DEF RowOf, ValueOf, Behind
<1>3. /\ r \in 0 .. Len(export.table) /\ r # Len(export.table) /\ export.table \in Tables
      /\ row \in Seq(Seq(Characters)) /\ v \in Seq(Characters)
      /\ f \in 0 .. Len(row) /\ f # Len(row) /\ f + 1 \in 1 .. Len(row) /\ f + 1 \in 0 .. Len(row)
  BY <1>1, <1>2, RowsAre
<1>4. r \in Nat /\ f \in Nat /\ Len(row) \in Nat /\ r + 1 \in 1 .. Len(export.table)
  <2>1. Len(export.table) \in Nat
    BY <1>3 DEF Tables
  <2>2. Len(row) \in Nat
    BY <1>3
  <2>3. r \in 0 .. Len(export.table) /\ r # Len(export.table) /\ f \in 0 .. Len(row)
    BY <1>3
  <2> HIDE DEF r, f, row
  <2>. QED  BY <2>1, <2>2, <2>3
<1>5. LETTER # DELIMITER /\ ~IsRecordEnd(LETTER) /\ DELIMITER \notin {LF, CR, "end"}
  BY SymbolsDiffer DEF IsRecordEnd
<1>6. rd.value = v /\ Lies(a, i, nl, qa) /\ Len(rd.value) = Len(v)
  <2>1. Len(rd.value) # Len(ValueOf(rd)) => At(rd.index) = LETTER
    BY TailIs
  <2>2. Len(rd.value) = Len(ValueOf(rd)) => rd.value = ValueOf(rd) /\ Lies(Behind(rd, nl, qa), rd.index, nl, qa)
    BY TailIs
  <2>3. Len(rd.value) = Len(ValueOf(rd))
    BY <1>5, <2>1
  <2>. QED  BY <1>2, <2>2, <2>3
<1>7. fields2 = SubSeq(row, 1, f + 1) /\ Len(fields2) = f + 1 /\ fields2 \in Seq(Seq(Characters))
  <2>1. rd.fields = SubSeq(row, 1, f)
    BY <1>1, <1>2 DEF FieldsRead
  <2>2. fields2 = Append(SubSeq(row, 1, f), row[f + 1])
    BY <1>6, <2>1, Zenon
  <2> HIDE DEF fields2, row, f
  <2>. QED  BY <1>3, <2>2, PrefixGrows
<1>8. rd.line = StartOf(export.table, r + 1) + Cardinality(Breaks(row, f + 1, 0))
  <2>1. rd.line = StartOf(export.table, r + 1) + Cardinality(Breaks(row, f, Len(v)))
    BY <1>1, <1>2, <1>6 DEF ValueRead, LineOf
  <2>2. Breaks(row, f, Len(v)) = Breaks(row, f + 1, 0)
    BY <1>3, BreaksOfFields
  <2>. QED  BY <2>1, <2>2
<1> HIDE DEF fields2, i, e
<1>9. ASSUME f + 1 # Len(row)
      PROVE  /\ At(i) = DELIMITER
             /\ Lies(Written(row[f + 1 + 1], nl, qa) \o FieldsLeft(export.table, nl, qa, r, f + 1 + 1), i + 1, nl, qa)
  <2> DEFINE k == f + 1
  <2>1. k \in 1 .. Len(export.table[r + 1]) /\ k # Len(export.table[r + 1])
    BY <1>3, <1>9
  <2>2. Lies(FieldsLeft(export.table, nl, qa, r, k), i, nl, qa)
    BY <1>6
  <2> HIDE DEF k, r
  <2>3. /\ At(i) = DELIMITER
        /\ Lies(Written(export.table[r + 1][k + 1], nl, qa) \o FieldsLeft(export.table, nl, qa, r, k + 1), i + 1, nl, qa)
    BY <1>3, <2>1, <2>2, NextValue
  <2>. QED  BY <2>3 DEF k, r
<1>10. ASSUME f + 1 = Len(row)
       PROVE  /\ At(i) \in {LF, CR, "end"}
              /\ At(i) = "end" => r + 1 = Len(export.table) /\ i = Len(text) + 1 /\ ~export.cut
              /\ At(i) # "end" => Lies(TableLeft(export.table, nl, qa, r + 1), i + e, nl, qa)
              /\ At(i) # "end" /\ r + 1 = Len(export.table) => i + e = Len(text) + 1 /\ ~export.cut
  <2>1. Lies(FieldsLeft(export.table, nl, qa, r, Len(export.table[r + 1])), i, nl, qa)
    BY <1>6, <1>10
  <2> HIDE DEF r
  <2>. QED  BY <1>3, <2>1, NextRow DEF e
<1>11. At(i) = DELIMITER => f + 1 # Len(row)
  BY <1>5, <1>10
<1>. QED
  BY <1>3, <1>4, <1>6, <1>7, <1>8, <1>9, <1>10, <1>11 DEF FieldEnded, fields2, i, e

\* A field closes, or the record with it.
LastOfRecord(rd) == Append(rd.fields, rd.value)
EndOf(rd) == IF At(rd.index) = "end" THEN 0 ELSE IF At(rd.index) = CR /\ At(rd.index + 1) = LF THEN 2 ELSE 1

EndsRecord(rd, rd2) ==
  rd2 = [rd EXCEPT !.fields = LastOfRecord(rd), !.inside = "file", !.index = @ + EndOf(rd),
                   !.line = @ + IF At(rd.index) = "end" THEN 0 ELSE 1,
                   !.records = Append(@, [line |-> rd.startLine, fields |-> LastOfRecord(rd)])]

ClosesField(rd, rd2) == rd2 = [rd EXCEPT !.fields = LastOfRecord(rd), !.inside = "field", !.index = @ + 1]

LEMMA ClosedIs ==
  ASSUME NEW rd \in ReaderRecord, LastOfRecord(rd) \in Seq(Seq(Characters)), NEW rd2, ClosesField(rd, rd2)
  PROVE  /\ rd2 \in ReaderRecord /\ rd2.records = rd.records /\ rd2.fields = LastOfRecord(rd)
         /\ rd2.startLine = rd.startLine
         /\ rd2.result = rd.result /\ rd2.inside = "field" /\ rd2.index = rd.index + 1 /\ rd2.line = rd.line
<1> DEFINE V == Seq(Characters)
           F == Seq(Seq(Characters))
           R == Seq([line : Nat, fields : Seq(Seq(Characters))])
<1>1. ReaderRecord = Readers(V, F, R)
  BY DEF ReaderRecord, Readers
<1> DEFINE fields2 == LastOfRecord(rd)
           i2 == rd.index + 1
<1>2. fields2 \in F
  OBVIOUS
<1>3. rd2 = [rd EXCEPT !.fields = fields2, !.inside = "field", !.index = i2]
  BY DEF ClosesField
<1>4. i2 \in Nat
  BY ReaderIs
<1> HIDE DEF V, F, R, fields2, i2
<1>5. /\ rd2 \in Readers(V, F, R) /\ rd2.records = rd.records /\ rd2.fields = fields2 /\ rd2.startLine = rd.startLine
      /\ rd2.result = rd.result /\ rd2.inside = "field" /\ rd2.index = i2 /\ rd2.line = rd.line
  BY <1>1, <1>2, <1>3, <1>4 DEF Readers
<1>. QED
  BY <1>1, <1>5, Zenon DEF fields2, i2

LEMMA RecordEndedIs ==
  ASSUME NEW rd \in ReaderRecord, LastOfRecord(rd) \in Seq(Seq(Characters)), NEW rd2, EndsRecord(rd, rd2)
  PROVE  /\ rd2 \in ReaderRecord /\ rd2.records = Append(rd.records, [line |-> rd.startLine, fields |-> LastOfRecord(rd)])
         /\ rd2.result = rd.result /\ rd2.inside = "file" /\ rd2.index = rd.index + EndOf(rd) 
         /\ rd2.line = rd.line + IF At(rd.index) = "end" THEN 0 ELSE 1
<1> DEFINE V == Seq(Characters)
           F == Seq(Seq(Characters))
           R == Seq([line : Nat, fields : Seq(Seq(Characters))])
           records2 == Append(rd.records, [line |-> rd.startLine, fields |-> LastOfRecord(rd)])
           i2 == rd.index + EndOf(rd)
           l == rd.line + IF At(rd.index) = "end" THEN 0 ELSE 1
<1>1. ReaderRecord = Readers(V, F, R)
  BY DEF ReaderRecord, Readers
<1>2. LastOfRecord(rd) \in F
  OBVIOUS
<1>3. records2 \in R
  <2>1. rd.records \in R
        /\ [line |-> rd.startLine, fields |-> LastOfRecord(rd)] \in [line : Nat, fields : Seq(Seq(Characters))]
    BY DEF ReaderRecord
  <2>. QED  BY <2>1
<1>4. i2 \in Nat
  <2>1. rd.index \in Nat /\ EndOf(rd) \in Nat
    BY ReaderIs DEF EndOf
  <2>. QED  BY <2>1
<1>5. rd2 = [rd EXCEPT !.fields = LastOfRecord(rd), !.inside = "file", !.index = i2, !.line = l, !.records = records2]
  BY DEF EndsRecord
<1>7. l \in Nat
  BY ReaderIs
<1> HIDE DEF V, F, R, records2, i2, l
<1>6. /\ rd2 \in Readers(V, F, R) /\ rd2.records = records2
      /\ rd2.result = rd.result /\ rd2.inside = "file" /\ rd2.index = i2 /\ rd2.line = l
  BY <1>1, <1>2, <1>3, <1>4, <1>5, <1>7 DEF Readers
<1>. QED
  BY <1>1, <1>6, Zenon DEF records2, i2, l

LEMMA FieldCloses ==
  ASSUME NEW nl \in Newlines, NEW qa \in BOOLEAN, TextIs(nl, qa), NEW rd, StandsIn(rd, nl, qa), rd.inside = "tail",
         At(rd.index) = DELIMITER, Len(rd.value) <= MaxFieldCharacters, Len(LastOfRecord(rd)) <= MaxFieldsPerRecord,
         NEW rd2, ClosesField(rd, rd2)
  PROVE  StandsIn(rd2, nl, qa)
<1> DEFINE r == Len(rd.records)
           f == Len(rd.fields)
           row == export.table[r + 1]
           fields2 == LastOfRecord(rd)
<1>1. RecordsRead(rd) /\ FieldsRead(rd) /\ rd \in ReaderRecord
  BY DEF StandsIn, RecordsRead
<1>2. /\ f \in Nat /\ f + 1 \in 1 .. Len(row) /\ Len(row) \in Nat /\ rd.value = row[f + 1]
      /\ fields2 = SubSeq(row, 1, f + 1) /\ Len(fields2) = f + 1 /\ fields2 \in Seq(Seq(Characters))
      /\ rd.line = StartOf(export.table, r + 1) + Cardinality(Breaks(row, f + 1, 0))
      /\ f + 1 # Len(row)
      /\ Lies(Written(row[f + 1 + 1], nl, qa) \o FieldsLeft(export.table, nl, qa, r, f + 1 + 1), rd.index + 1, nl, qa)
  <2>1. FieldEnded(rd, nl, qa)
    BY FieldEnds, Zenon
  <2>. QED  BY <2>1 DEF FieldEnded, LastOfRecord
<1>5. Len(rd.value) <= MaxFieldCharacters /\ Len(fields2) <= MaxFieldsPerRecord
  OBVIOUS
<1>6. RowOf(rd) = row /\ Len(rd.records) = r
  BY DEF RowOf
<1>7. /\ rd2 \in ReaderRecord /\ rd2.records = rd.records /\ rd2.fields = fields2 /\ rd2.startLine = rd.startLine
      /\ rd2.result = rd.result /\ rd2.inside = "field" /\ rd2.index = rd.index + 1 /\ rd2.line = rd.line
  BY <1>1, <1>2, ClosedIs
<1> HIDE DEF fields2, r, f, row
<1>8. RecordsRead(rd2)
  BY <1>1, <1>7 DEF RecordsRead
<1>9. /\ RowOf(rd2) = row /\ ValueOf(rd2) = row[f + 1 + 1]
      /\ Behind(rd2, nl, qa) = FieldsLeft(export.table, nl, qa, r, f + 1 + 1)
      /\ LineOf(rd2, 0) = StartOf(export.table, r + 1) + Cardinality(Breaks(row, f + 1, 0))
  BY <1>2, <1>6, <1>7 DEF RowOf, ValueOf, Behind, LineOf, r, f
<1>10. Fits(row, f + 1)
  <2>1. Fits(row, f)
    BY <1>1, <1>6 DEF FieldsRead, f
  <2>2. \A k \in 1 .. (f + 1) : Len(row[k]) <= MaxFieldCharacters
    <3>1. TAKE k \in 1 .. (f + 1)
    <3>2. CASE k \in 1 .. f
      BY <2>1, <3>2 DEF Fits
    <3>3. CASE k = f + 1
      BY <1>2, <1>5, <3>3
    <3>. QED  BY <1>2, <3>1, <3>2, <3>3
  <2>. QED  BY <1>2, <1>5, <2>2 DEF Fits
<1>11. FieldsRead(rd2)
  <2>1. f + 1 < Len(row)
    BY <1>2
  <2>. QED  BY <1>1, <1>2, <1>6, <1>7, <1>9, <1>10, <2>1 DEF FieldsRead
<1>12. AtField(rd2, nl, qa)
  BY <1>2, <1>7, <1>9 DEF AtField
<1>. QED
  BY <1>7, <1>8, <1>11, <1>12 DEF StandsIn

LEMMA RecordEnds ==
  ASSUME NEW nl \in Newlines, NEW qa \in BOOLEAN, TextIs(nl, qa), NEW rd, StandsIn(rd, nl, qa), rd.inside = "tail",
         IsRecordEnd(At(rd.index)), Len(rd.value) <= MaxFieldCharacters, Len(LastOfRecord(rd)) <= MaxFieldsPerRecord,
         NEW rd2, EndsRecord(rd, rd2), Len(rd2.records) <= MaxRecords
  PROVE  StandsIn(rd2, nl, qa)
<1> DEFINE r == Len(rd.records)
           f == Len(rd.fields)
           n == Len(export.table)
           row == export.table[r + 1]
           i == rd.index
           e == IF At(i) = CR /\ At(i + 1) = LF THEN 2 ELSE 1
           entry == [line |-> rd.startLine, fields |-> LastOfRecord(rd)]
           l == rd.line + IF At(i) = "end" THEN 0 ELSE 1
           Entries == [line : Nat, fields : Seq(Seq(Characters))]
<1>1. RecordsRead(rd) /\ FieldsRead(rd) /\ rd \in ReaderRecord
  BY DEF StandsIn, RecordsRead
<1>2. DELIMITER # At(i)
  BY SymbolsDiffer DEF IsRecordEnd
<1>3. /\ r \in Nat /\ r + 1 \in 1 .. n /\ export.table \in Tables
      /\ f \in Nat /\ f + 1 \in 1 .. Len(row) /\ row \in Seq(Seq(Characters)) /\ Len(row) \in Nat
      /\ rd.value = row[f + 1] /\ LastOfRecord(rd) = SubSeq(row, 1, f + 1) /\ Len(LastOfRecord(rd)) = f + 1
      /\ LastOfRecord(rd) \in Seq(Seq(Characters))
      /\ rd.line = StartOf(export.table, r + 1) + Cardinality(Breaks(row, f + 1, 0))
      /\ f + 1 = Len(row) /\ At(i) \in {LF, CR, "end"}
      /\ At(i) = "end" => r + 1 = n /\ i = Len(text) + 1 /\ ~export.cut
      /\ At(i) # "end" => Lies(TableLeft(export.table, nl, qa, r + 1), i + e, nl, qa)
      /\ At(i) # "end" /\ r + 1 = n => i + e = Len(text) + 1 /\ ~export.cut
  <2>1. FieldEnded(rd, nl, qa)
    BY FieldEnds, Zenon
  <2>. QED  BY <1>2, <2>1 DEF FieldEnded, LastOfRecord
<1>4. i \in Nat /\ rd.line \in Nat /\ rd.startLine \in Nat /\ rd.records \in Seq(Entries)
  BY <1>1 DEF ReaderRecord
<1>5. RowOf(rd) = row /\ Len(rd.records) = r /\ EndOf(rd) = IF At(i) = "end" THEN 0 ELSE e
  BY DEF RowOf, EndOf
<1>6. LastOfRecord(rd) = row
  BY <1>3, PrefixGrows
<1>7. l \in Nat
  BY <1>4
<1>8. /\ rd2 \in ReaderRecord /\ rd2.records = Append(rd.records, entry)
      /\ rd2.result = rd.result /\ rd2.inside = "file" /\ rd2.index = i + EndOf(rd) /\ rd2.line = l
  <2>1. LastOfRecord(rd) \in Seq(Seq(Characters))
    BY <1>3
  <2>. QED  BY <1>1, <2>1, RecordEndedIs
<1>9. entry = [line |-> StartOf(export.table, r + 1), fields |-> row] /\ entry \in Entries
  <2>1. rd.startLine = StartOf(export.table, r + 1)
    BY <1>1, <1>5 DEF FieldsRead
  <2>. QED  BY <1>3, <1>4, <1>6, <2>1
<1>10. Fits(row, Len(row))
  <2>1. Fits(row, f)
    BY <1>1, <1>5 DEF FieldsRead
  <2>2. \A k \in 1 .. Len(row) : Len(row[k]) <= MaxFieldCharacters
    <3>1. TAKE k \in 1 .. Len(row)
    <3>2. CASE k \in 1 .. f
      BY <2>1, <3>2 DEF Fits
    <3>3. CASE k = f + 1
      BY <1>3, <3>3
    <3>4. k \in 1 .. f \/ k = f + 1
      <4>1. f \in Nat /\ Len(row) = f + 1 /\ k \in 1 .. Len(row)
        BY <1>3, <3>1
      <4> HIDE DEF f, row
      <4>. QED  BY <4>1
    <3>. QED  BY <3>2, <3>3, <3>4
  <2>. QED  BY <1>3, <2>2 DEF Fits
<1> HIDE DEF r, f, n, row, entry, Entries
<1>11. Len(rd2.records) = r + 1 /\ rd2.records[r + 1] = entry /\ \A k \in 1 .. r : rd2.records[k] = rd.records[k]
  BY <1>4, <1>5, <1>8, <1>9
<1>12. RecordsRead(rd2)
  <2>1. /\ \A k \in 1 .. r : /\ rd.records[k] = [line |-> StartOf(export.table, k), fields |-> export.table[k]]
                             /\ Fits(export.table[k], Len(export.table[k]))
        /\ rd.result = NoResult
    BY <1>1, <1>5 DEF RecordsRead
  <2>2. \A k \in 1 .. (r + 1) : /\ rd2.records[k] = [line |-> StartOf(export.table, k), fields |-> export.table[k]]
                                /\ Fits(export.table[k], Len(export.table[k]))
    <3>1. TAKE k \in 1 .. (r + 1)
    <3>2. CASE k \in 1 .. r
      BY <1>11, <2>1, <3>2
    <3>3. CASE k = r + 1
      BY <1>9, <1>10, <1>11, <3>3 DEF row
    <3>. QED  BY <1>3, <3>1, <3>2, <3>3
  <2>3. r + 1 <= n /\ Len(rd2.records) <= MaxRecords
    BY <1>3
  <2>. QED  BY <1>8, <1>11, <2>1, <2>2, <2>3 DEF RecordsRead, n
<1>13. AtRecord(rd2, nl, qa)
  <2>1. CASE r + 1 = n
    <3>1. rd2.index = Len(text) + 1 /\ ~export.cut
      BY <1>3, <1>4, <1>5, <1>8, <2>1
    <3>. QED  BY <1>11, <2>1, <3>1 DEF AtRecord, n
  <2>2. CASE r + 1 # n
    <3>1. At(i) # "end"
      BY <1>3, <2>2
    <3>2. Lies(TableLeft(export.table, nl, qa, r + 1), rd2.index, nl, qa)
      BY <1>3, <1>5, <1>8, <3>1
    <3>3. rd2.line = StartOf(export.table, (r + 1) + 1)
      <4> DEFINE k == Cardinality(Breaks(row, f + 1, 0))
                 s == StartOf(export.table, r + 1)
      <4>1. r \in 0 .. Len(export.table) /\ r # Len(export.table)
        BY <1>3 DEF n
      <4>2. StartOf(export.table, (r + 1) + 1) = s + LinesOf(export.table[r + 1])
        BY <1>3, <4>1, NextStart
      <4>3. LinesOf(row) = 1 + k
        BY <1>3, LinesAre
      <4>4. k \in Nat
        BY <1>3, BreaksAreFinite
      <4>5. s \in Nat
        BY <1>3, <4>1, StartsAre
      <4>6. rd2.line = s + k + 1
        BY <1>3, <1>8, <3>1
      <4> HIDE DEF k, s
      <4>. QED  BY <4>2, <4>3, <4>4, <4>5, <4>6 DEF row
    <3>. QED  BY <1>11, <2>2, <3>2, <3>3 DEF AtRecord, n
  <2>. QED  BY <2>1, <2>2
<1>. QED
  BY <1>8, <1>12, <1>13 DEF StandsIn

\* A field too long, a field too many, a record too many: the table is over a limit.
LEMMA Refused ==
  ASSUME NEW nl \in Newlines, NEW qa \in BOOLEAN, TextIs(nl, qa), NEW rd, StandsIn(rd, nl, qa), rd.inside = "tail",
         At(rd.index) = DELIMITER \/ IsRecordEnd(At(rd.index)),
         \/ Len(rd.value) > MaxFieldCharacters
         \/ Len(LastOfRecord(rd)) > MaxFieldsPerRecord
         \/ Len(rd.records) + 1 > MaxRecords
  PROVE  OverLimit(export.table)
<1> DEFINE r == Len(rd.records)
           f == Len(rd.fields)
           n == Len(export.table)
           row == export.table[r + 1]
<1>1. /\ r \in Nat /\ r + 1 \in 1 .. n /\ export.table \in Tables
      /\ f \in Nat /\ f + 1 \in 1 .. Len(row) /\ row \in Seq(Seq(Characters)) /\ Len(row) \in Nat
      /\ rd.value = row[f + 1] /\ Len(LastOfRecord(rd)) = f + 1
  <2>1. FieldEnded(rd, nl, qa)
    BY FieldEnds, Zenon
  <2>. QED  BY <2>1 DEF FieldEnded, LastOfRecord
<1>2. n \in Nat /\ DOMAIN export.table = 1 .. n /\ DOMAIN row = 1 .. Len(row)
  <2> DEFINE Rows == Seq(Seq(Characters)) \ {<<>>}
             table == export.table
  <2>1. table \in Seq(Rows)
    BY <1>1 DEF Tables
  <2>2. row \in Seq(Seq(Characters))
    BY <1>1
  <2> HIDE DEF Rows, table, row
  <2>3. Len(table) \in Nat /\ DOMAIN table = 1 .. Len(table)
    BY <2>1
  <2>4. DOMAIN row = 1 .. Len(row)
    BY <2>2
  <2>. QED  BY <2>3, <2>4, Zenon DEF table
<1>3. MaxRecords \in Nat /\ MaxFieldsPerRecord \in Nat /\ MaxFieldCharacters \in Nat
  BY CsvAssumption
<1> HIDE DEF f, n, r
<1>4. CASE Len(rd.value) > MaxFieldCharacters
  BY <1>1, <1>2, <1>4 DEF OverLimit
<1>5. CASE Len(LastOfRecord(rd)) > MaxFieldsPerRecord
  <2>1. Len(row) > MaxFieldsPerRecord
    BY <1>1, <1>3, <1>5
  <2>. QED  BY <1>1, <1>2, <2>1 DEF OverLimit
<1>6. CASE r + 1 > MaxRecords
  <2>1. n > MaxRecords
    BY <1>1, <1>2, <1>3, <1>6
  <2>. QED  BY <2>1 DEF OverLimit, n
<1>. QED
  BY <1>4, <1>5, <1>6 DEF r

\* What ending a field does: a limit it is over stops the reader, a delimiter closes the
\* field, anything else the record.
EndsField(rd, rd2) ==
  LET ended == [rd EXCEPT !.fields = LastOfRecord(rd), !.inside = "file", !.index = @ + EndOf(rd),
                  !.line = @ + IF At(rd.index) = "end" THEN 0 ELSE 1,
                  !.records = Append(@, [line |-> rd.startLine, fields |-> LastOfRecord(rd)])]
  IN rd2 = CASE Len(rd.value) > MaxFieldCharacters -> [rd EXCEPT !.result = "csv_field_too_long"]
             [] Len(rd.value) <= MaxFieldCharacters /\ Len(LastOfRecord(rd)) > MaxFieldsPerRecord ->
                  [rd EXCEPT !.result = "csv_too_many_fields"]
             [] OTHER ->
                  IF At(rd.index) = DELIMITER
                  THEN [rd EXCEPT !.fields = LastOfRecord(rd), !.inside = "field", !.index = @ + 1]
                  ELSE IF Len(ended.records) > MaxRecords
                  THEN [ended EXCEPT !.result = "csv_too_many_records"] ELSE ended

LEMMA EndsFieldIs ==
  ASSUME NEW rd, NEW rd2, EndsField(rd, rd2), NEW ended, EndsRecord(rd, ended),
         Len(rd.value) \in Nat, Len(LastOfRecord(rd)) \in Nat
  PROVE  \/ Len(rd.value) > MaxFieldCharacters /\ StopsWith(rd, rd2, "csv_field_too_long")
         \/ Len(LastOfRecord(rd)) > MaxFieldsPerRecord /\ StopsWith(rd, rd2, "csv_too_many_fields")
         \/ /\ Len(rd.value) <= MaxFieldCharacters /\ Len(LastOfRecord(rd)) <= MaxFieldsPerRecord
            /\ \/ At(rd.index) = DELIMITER /\ ClosesField(rd, rd2)
               \/ At(rd.index) # DELIMITER /\ Len(ended.records) > MaxRecords /\ StopsWith(ended, rd2, "csv_too_many_records")
               \/ At(rd.index) # DELIMITER /\ ~(Len(ended.records) > MaxRecords) /\ rd2 = ended
<1> DEFINE r1 == [rd EXCEPT !.result = "csv_field_too_long"]
           r2 == [rd EXCEPT !.result = "csv_too_many_fields"]
           r3 == [rd EXCEPT !.fields = LastOfRecord(rd), !.inside = "field", !.index = @ + 1]
           r4 == [ended EXCEPT !.result = "csv_too_many_records"]
           d == Len(rd.value)
           m == Len(LastOfRecord(rd))
           k == Len(ended.records)
<1>1. rd2 = CASE d > MaxFieldCharacters -> r1
              [] d <= MaxFieldCharacters /\ m > MaxFieldsPerRecord -> r2
              [] OTHER -> IF At(rd.index) = DELIMITER THEN r3 ELSE IF k > MaxRecords THEN r4 ELSE ended
  <2>1. ended = [rd EXCEPT !.fields = LastOfRecord(rd), !.inside = "file", !.index = @ + EndOf(rd),
                  !.line = @ + IF At(rd.index) = "end" THEN 0 ELSE 1,
                  !.records = Append(@, [line |-> rd.startLine, fields |-> LastOfRecord(rd)])]
    BY Zenon DEF EndsRecord
  <2>. QED  BY <2>1, Zenon DEF EndsField
<1>2. d \in Nat /\ m \in Nat /\ MaxFieldsPerRecord \in Nat /\ MaxFieldCharacters \in Nat
  BY CsvAssumption
<1> HIDE DEF r1, r2, r3, r4, d, m, k
<1>3. \/ d > MaxFieldCharacters /\ rd2 = r1
      \/ m > MaxFieldsPerRecord /\ rd2 = r2
      \/ /\ d <= MaxFieldCharacters /\ m <= MaxFieldsPerRecord
         /\ \/ At(rd.index) = DELIMITER /\ rd2 = r3
            \/ At(rd.index) # DELIMITER /\ k > MaxRecords /\ rd2 = r4
            \/ At(rd.index) # DELIMITER /\ ~(k > MaxRecords) /\ rd2 = ended
  BY <1>1, <1>2
<1>. QED
  BY <1>3, Zenon DEF r1, r2, r3, r4, d, m, k, StopsWith, ClosesField

LEMMA FieldOver ==
  ASSUME NEW nl \in Newlines, NEW qa \in BOOLEAN, TextIs(nl, qa), NEW rd, StandsIn(rd, nl, qa), rd.inside = "tail",
         At(rd.index) = DELIMITER \/ IsRecordEnd(At(rd.index)), NEW rd2, EndsField(rd, rd2)
  PROVE  Keeps(rd2, nl, qa)
<1> DEFINE ended == [rd EXCEPT !.fields = LastOfRecord(rd), !.inside = "file", !.index = @ + EndOf(rd),
                        !.line = @ + IF At(rd.index) = "end" THEN 0 ELSE 1,
                        !.records = Append(@, [line |-> rd.startLine, fields |-> LastOfRecord(rd)])]
<1>1. rd \in ReaderRecord /\ RecordsRead(rd)
  BY DEF StandsIn, RecordsRead
<1>2. EndsRecord(rd, ended)
  BY DEF EndsRecord
<1> HIDE DEF ended
<1>3. Len(rd.records) \in Nat /\ LastOfRecord(rd) \in Seq(Seq(Characters)) /\ rd.value \in Seq(Characters)
  <2>1. Append(rd.fields, rd.value) \in Seq(Seq(Characters)) /\ Len(rd.records) \in Nat
    <3>1. FieldEnded(rd, nl, qa)
      BY FieldEnds, Zenon
    <3>. QED  BY <3>1 DEF FieldEnded
  <2>. QED  BY <1>1, <2>1, ReaderIs DEF LastOfRecord
<1>4. Len(rd.value) \in Nat /\ Len(LastOfRecord(rd)) \in Nat /\ MaxRecords \in Nat
  BY <1>3, CsvAssumption
<1>5. ended \in ReaderRecord /\ Len(ended.records) = Len(rd.records) + 1
  <2>1. ended \in ReaderRecord /\ ended.records = Append(rd.records, [line |-> rd.startLine, fields |-> LastOfRecord(rd)])
    BY <1>1, <1>2, <1>3, RecordEndedIs
  <2>2. rd.records \in Seq([line : Nat, fields : Seq(Seq(Characters))]) /\ rd.startLine \in Nat
    BY <1>1 DEF ReaderRecord
  <2>3. [line |-> rd.startLine, fields |-> LastOfRecord(rd)] \in [line : Nat, fields : Seq(Seq(Characters))]
    BY <1>3, <2>2
  <2>. QED  BY <2>1, <2>2, <2>3
<1>6. \A result \in {"csv_field_too_long", "csv_too_many_fields", "csv_too_many_records"} :
        OverLimit(export.table) /\ rd2.result = result => Keeps(rd2, nl, qa)
  BY DEF Keeps, StoppedRight, NoResult
<1>7. \/ Len(rd.value) > MaxFieldCharacters /\ StopsWith(rd, rd2, "csv_field_too_long")
      \/ Len(LastOfRecord(rd)) > MaxFieldsPerRecord /\ StopsWith(rd, rd2, "csv_too_many_fields")
      \/ /\ Len(rd.value) <= MaxFieldCharacters /\ Len(LastOfRecord(rd)) <= MaxFieldsPerRecord
         /\ \/ At(rd.index) = DELIMITER /\ ClosesField(rd, rd2)
            \/ At(rd.index) # DELIMITER /\ Len(ended.records) > MaxRecords /\ StopsWith(ended, rd2, "csv_too_many_records")
            \/ At(rd.index) # DELIMITER /\ ~(Len(ended.records) > MaxRecords) /\ rd2 = ended
  BY <1>2, <1>4, EndsFieldIs, Zenon
<1>8. CASE Len(rd.value) > MaxFieldCharacters /\ StopsWith(rd, rd2, "csv_field_too_long")
  BY <1>1, <1>6, <1>8, Refused, EndedIs
<1>9. CASE Len(LastOfRecord(rd)) > MaxFieldsPerRecord /\ StopsWith(rd, rd2, "csv_too_many_fields")
  BY <1>1, <1>6, <1>9, Refused, EndedIs
<1>10. CASE /\ Len(rd.value) <= MaxFieldCharacters /\ Len(LastOfRecord(rd)) <= MaxFieldsPerRecord
            /\ At(rd.index) = DELIMITER /\ ClosesField(rd, rd2)
  BY <1>10, FieldCloses DEF Keeps
<1>11. CASE At(rd.index) # DELIMITER /\ Len(ended.records) > MaxRecords /\ StopsWith(ended, rd2, "csv_too_many_records")
  <2>1. Len(rd.records) + 1 > MaxRecords
    BY <1>5, <1>11
  <2>. QED  BY <1>5, <1>6, <1>11, <2>1, Refused, EndedIs
<1>12. CASE /\ Len(rd.value) <= MaxFieldCharacters /\ Len(LastOfRecord(rd)) <= MaxFieldsPerRecord
            /\ At(rd.index) # DELIMITER /\ ~(Len(ended.records) > MaxRecords) /\ rd2 = ended
  <2>1. Len(ended.records) <= MaxRecords
    BY <1>3, <1>4, <1>5, <1>12
  <2>. QED  BY <1>2, <1>12, <2>1, RecordEnds DEF Keeps
<1>. QED
  BY <1>7, <1>8, <1>9, <1>10, <1>11, <1>12

----------------------------------------------------------------------------
(* A file is opened, and read *)

LEMMA NewlineEnds ==
  ASSUME NEW nl \in Newlines
  PROVE  Len(nl) \in Nat /\ Len(nl) # 0 /\ nl[Len(nl)] \in {LF, CR}
<1>1. CASE Len(nl) = 1
  BY <1>1, NewlinesAre
<1>2. CASE Len(nl) = 2
  BY <1>2, NewlinesAre
<1>. QED
  BY <1>1, <1>2, NewlinesAre

\* A table of any row ends in the last character of a newline.
LEMMA LastIsNewline ==
  ASSUME NEW nl \in Newlines, NEW qa \in BOOLEAN, NEW table \in Tables, Len(table) # 0
  PROVE  /\ Len(TableLeft(table, nl, qa, 0)) \in Nat /\ Len(TableLeft(table, nl, qa, 0)) >= Len(nl)
         /\ TableLeft(table, nl, qa, 0)[Len(TableLeft(table, nl, qa, 0))] \in {LF, CR}
<1> DEFINE n == Len(table)
           T(r) == TableLeft(table, nl, qa, r)
           Good(r) == T(r)[Len(T(r))] \in {LF, CR}
           C == {k \in 0 .. (n - 1) : ~Good(n - 1 - k)}
<1>1. n \in Nat
  BY DEF Tables
<1>2. ASSUME NEW r \in 0 .. (n - 1)
      PROVE  /\ T(r) \in Seq(Symbols(nl)) /\ Len(T(r)) \in Nat /\ Len(T(r)) >= Len(nl)
             /\ r # n - 1 /\ Good(r + 1) => Good(r)
             /\ r = n - 1 => Good(r)
  <2>1. r \in 0 .. Len(table) /\ r # Len(table) /\ r + 1 \in 0 .. Len(table) /\ r \in Nat /\ r + 1 \in 1 .. Len(table)
    BY <1>1
  <2> DEFINE row == table[r + 1]
             b == RowLeft(row, nl, qa, 0)
             t == T(r + 1)
  <2>2. row \in Seq(Seq(Characters)) /\ 0 \in 0 .. Len(row)
    <3>1. row \in Seq(Seq(Characters))
      BY <2>1 DEF Tables
    <3>. QED  BY <3>1
  <2>3. b \in Seq(Symbols(nl))
    BY <2>2, RowsLeft
  <2>4. /\ t \in Seq(Symbols(nl)) /\ T(r) \in Seq(Symbols(nl)) /\ Len(T(r)) \in Nat /\ Len(T(r)) >= Len(nl)
        /\ r + 1 # n => Len(t) >= Len(nl)
        /\ r + 1 = n => Len(t) = 0
    BY <2>1, TableLength
  <2>5. T(r) = b \o (nl \o t)
    BY <2>1, TablesLeft DEF FieldsLeft
  <2>6. nl \in Seq(Symbols(nl))
    BY NewlinesAre
  <2> DEFINE u == nl \o t
             Tr == T(r)
  <2>7. /\ Len(u) = Len(nl) + Len(t) /\ u \in Seq(Symbols(nl))
        /\ \A k \in 1 .. (Len(nl) + Len(t)) : u[k] = IF k <= Len(nl) THEN nl[k] ELSE t[k - Len(nl)]
    BY <2>4, <2>6, ConcatProperties
  <2>8. Tr = b \o u
    BY <2>5
  <2> HIDE DEF u, b, Tr, t
  <2>9. /\ Len(Tr) = Len(b) + Len(u) /\ Len(b) \in Nat /\ Len(t) \in Nat /\ Len(nl) \in Nat /\ Len(nl) # 0
        /\ \A k \in 1 .. (Len(b) + Len(u)) : Tr[k] = IF k <= Len(b) THEN b[k] ELSE u[k - Len(b)]
    <3>1. \A k \in 1 .. (Len(b) + Len(u)) : (b \o u)[k] = IF k <= Len(b) THEN b[k] ELSE u[k - Len(b)]
      BY <2>3, <2>7, ConcatProperties
    <3>2. Len(b \o u) = Len(b) + Len(u)
      BY <2>3, <2>7, ConcatProperties
    <3>3. Len(b) \in Nat /\ Len(t) \in Nat /\ Len(nl) \in Nat /\ Len(nl) # 0
      BY <2>3, <2>4, NewlineEnds
    <3>. QED  BY <2>8, <3>1, <3>2, <3>3
  <2>10. Tr[Len(Tr)] = u[Len(u)]
    <3>1. Len(Tr) \in 1 .. (Len(b) + Len(u)) /\ ~(Len(Tr) <= Len(b)) /\ Len(Tr) - Len(b) = Len(u)
      BY <2>7, <2>9
    <3>. QED  BY <2>9, <3>1
  <2>11. CASE Len(t) # 0
    <3>1. Len(u) \in 1 .. (Len(nl) + Len(t)) /\ ~(Len(u) <= Len(nl)) /\ Len(u) - Len(nl) = Len(t)
      BY <2>7, <2>9, <2>11
    <3>2. u[Len(u)] = t[Len(t)]
      BY <2>7, <3>1
    <3>3. r # n - 1
      BY <1>1, <2>1, <2>4, <2>11
    <3>. QED  BY <2>4, <2>10, <3>2, <3>3 DEF Tr, t
  <2>12. CASE Len(t) = 0
    <3>1. Len(u) \in 1 .. (Len(nl) + Len(t)) /\ Len(u) <= Len(nl) /\ Len(u) = Len(nl)
      BY <2>7, <2>9, <2>12
    <3>2. u[Len(u)] = nl[Len(nl)]
      BY <2>7, <3>1
    <3>3. nl[Len(nl)] \in {LF, CR}
      BY NewlineEnds
    <3>4. Tr[Len(Tr)] \in {LF, CR}
      BY <2>10, <3>2, <3>3
    <3>. QED  BY <2>4, <3>4 DEF Tr
  <2>. QED  BY <2>11, <2>12
<1> HIDE DEF T
<1>3. C = {}
  <2>1. SUFFICES ASSUME C # {} PROVE FALSE
    OBVIOUS
  <2>2. C \in SUBSET (0 .. (n - 1)) /\ n - 1 \in Nat
    BY <1>1
  <2> HIDE DEF Good
  <2>3. PICK k \in C : \A x \in C : k <= x
    <3> HIDE DEF C
    <3>. QED  BY <2>1, <2>2, FirstMissing
  <2> DEFINE r == n - 1 - k
  <2>4. k \in 0 .. (n - 1) /\ ~Good(r) /\ r \in 0 .. (n - 1)
    BY <1>1, <2>3
  <2>5. r # n - 1
    BY <1>2, <2>4
  <2>6. k - 1 \in 0 .. (n - 1) /\ k - 1 \notin C
    BY <1>1, <2>3, <2>4, <2>5
  <2>7. n - 1 - (k - 1) = r + 1
    BY <1>1, <2>4
  <2>8. Good(r + 1)
    BY <2>6, <2>7
  <2> HIDE DEF r
  <2>. QED  BY <1>2, <2>4, <2>5, <2>8
<1>4. Good(0)
  <2> HIDE DEF Good
  <2>1. n - 1 \in 0 .. (n - 1) /\ n - 1 - (n - 1) = 0
    BY <1>1
  <2>. QED  BY <1>3, <2>1
<1>. QED
  BY <1>1, <1>2, <1>4 DEF T

LEMMA FreshReader ==
  ASSUME NEW V, NEW F, NEW R, NEW v \in V, NEW f \in F, NEW r \in R, NEW i \in Nat, NEW p \in {"file", "field", "quotes", "tail"},
         NEW z \in {NoResult}
  PROVE  [index |-> i, line |-> i, startLine |-> i, inside |-> p, value |-> v,
          fields |-> f, records |-> r, result |-> z] \in Readers(V, F, R)
  BY DEF Readers

\* A file as it is opened: all of the written table lies ahead, but for a last line break
\* or a last quote it may have lost.
LEMMA FileOpens ==
  ASSUME NEW upload \in Uploads, NEW nl \in Newlines, NEW qa \in BOOLEAN, NEW final \in BOOLEAN, NEW cut \in BOOLEAN,
         OpensFile(upload, nl, qa, final, cut)
  PROVE  TextIs(nl, qa) /\ StandsIn(reader, nl, qa)
<1> DEFINE table == upload.table
           w == WrittenTable(table, nl, qa)
           ended == IF final THEN w ELSE SubSeq(w, 1, Len(w) - Len(nl))
           m == IF final \/ table = <<>> THEN Len(w) ELSE Len(w) - Len(nl)
<1>1. /\ cut => ended # <<>> /\ ended[Len(ended)] = QUOTE
      /\ export = [table |-> table, final |-> final, cut |-> cut]
      /\ text = IF cut THEN SubSeq(ended, 1, Len(ended) - 1) ELSE ended
      /\ reader = [index |-> 1, line |-> 1, startLine |-> 1, inside |-> "file", value |-> <<>>,
                   fields |-> <<>>, records |-> <<>>, result |-> NoResult]
  BY DEF OpensFile
<1>2. table \in Tables /\ Len(table) \in Nat /\ (table = <<>> <=> Len(table) = 0)
  <2>1. table \in Tables
    BY CsvAssumption DEF Tables, Characters
  <2> HIDE DEF table
  <2>. QED  BY <2>1 DEF Tables
<1>3. export.table = table /\ export.final = final /\ export.cut = cut
  BY <1>1
<1> HIDE DEF table
<1>4. /\ w = TableLeft(table, nl, qa, 0) /\ w \in Seq(Symbols(nl)) /\ Len(w) \in Nat
      /\ Len(table) # 0 => Len(w) >= Len(nl) /\ w[Len(w)] \in {LF, CR}
      /\ Len(table) = 0 => Len(w) = 0
  <2>1. 0 \in 0 .. Len(table)
    BY <1>2
  <2>2. w = TableLeft(table, nl, qa, 0)
    BY <1>2, <2>1, TablesLeft
  <2> HIDE DEF w
  <2>. QED  BY <1>2, <2>1, <2>2, TableLength, LastIsNewline
<1>5. WrittenWhole(nl, qa) = w
  BY <1>3 DEF WrittenWhole
<1>6. Len(nl) \in Nat /\ Len(nl) # 0
  BY NewlineEnds
<1> HIDE DEF w
<1>7. m \in 0 .. Len(w) /\ m \in Nat
  BY <1>2, <1>4, <1>6
<1>8. ended = SubSeq(w, 1, m)
  <2>1. CASE final
    BY <1>4, <1>7, <2>1, PrefixGrows
  <2>2. CASE ~final /\ table # <<>>
    BY <2>2
  <2>3. CASE ~final /\ table = <<>>
    <3>1. Len(w) = 0 /\ Len(w) - Len(nl) < 1 /\ m = 0
      BY <1>2, <1>4, <1>6, <2>3
    <3>2. SubSeq(w, 1, Len(w) - Len(nl)) = <<>>
      BY <1>4, <1>6, <3>1
    <3>. QED  BY <1>4, <1>7, <2>3, <3>1, <3>2, PrefixGrows
  <2>. QED  BY <2>1, <2>2, <2>3
<1>9. ended \in Seq(Symbols(nl)) /\ Len(ended) = m
  BY <1>4, <1>7, <1>8, PrefixGrows
<1>10. \A i \in 1 .. m : ended[i] = w[i]
  <2>1. \A i \in 1 .. m : SubSeq(w, 1, m)[i] = w[1 + i - 1]
    BY <1>4, <1>7
  <2>. QED  BY <1>7, <1>8, <2>1
<1> HIDE DEF m, ended
<1>11. cut => m # 0 /\ ended[m] = QUOTE /\ m \in 1 .. m
  BY <1>1, <1>7, <1>9
<1>12. cut => ~final /\ table # <<>> /\ w[m] = QUOTE
  <2>1. SUFFICES ASSUME cut PROVE ~final /\ table # <<>> /\ w[m] = QUOTE
    OBVIOUS
  <2>2. w[m] = QUOTE
    BY <1>10, <1>11, <2>1
  <2>3. table # <<>>
    BY <1>2, <1>4, <1>7, <1>11, <2>1
  <2>4. ~final
    <3>1. SUFFICES ASSUME final PROVE FALSE
      OBVIOUS
    <3>2. m = Len(w)
      BY <3>1 DEF m
    <3>. QED  BY <1>2, <1>4, <2>2, <2>3, <3>2, SymbolsDiffer
  <2>. QED  BY <2>2, <2>3, <2>4
<1> DEFINE k == IF cut THEN m - 1 ELSE m
<1>13. /\ text \in Seq(Symbols(nl)) /\ Len(text) = k /\ k \in Nat /\ k <= m
       /\ \A i \in 1 .. k : text[i] = ended[i]
  <2>1. CASE cut
    <3>1. text = SubSeq(ended, 1, m - 1) /\ m - 1 \in 0 .. Len(ended) /\ k = m - 1
      BY <1>1, <1>7, <1>9, <1>11, <2>1
    <3>2. text \in Seq(Symbols(nl)) /\ Len(text) = m - 1
      BY <1>9, <3>1, PrefixGrows
    <3>3. \A i \in 1 .. (m - 1) : SubSeq(ended, 1, m - 1)[i] = ended[1 + i - 1]
      BY <1>9, <3>1
    <3>. QED  BY <1>7, <3>1, <3>2, <3>3
  <2>2. CASE ~cut
    BY <1>1, <1>7, <1>9, <2>2
  <2>. QED  BY <2>1, <2>2
<1>14. Len(w) = Len(text) + Lost(nl) /\ (cut => m = Len(text) + 1)
  <2>1. (final \/ table = <<>>) => ~cut /\ m = Len(w) /\ Lost(nl) = 0
    BY <1>3, <1>12 DEF Lost, m
  <2>2. ~(final \/ table = <<>>) => m = Len(w) - Len(nl) /\ Lost(nl) = IF cut THEN Len(nl) + 1 ELSE Len(nl)
    BY <1>3 DEF Lost, m
  <2>. QED  BY <1>4, <1>6, <1>7, <1>13, <2>1, <2>2
<1>15. \A i \in 1 .. Len(text) : text[i] = w[i]
  BY <1>7, <1>10, <1>13
<1>16. TextIs(nl, qa)
  BY <1>2, <1>3, <1>5, <1>12, <1>13, <1>14, <1>15 DEF TextIs
<1> HIDE DEF k
<1>17. /\ reader \in ReaderRecord /\ reader.result = NoResult /\ reader.inside = "file" /\ reader.index = 1
       /\ reader.line = 1
       /\ reader.records = <<>>
  <2> DEFINE V == Seq(Characters)
             F == Seq(Seq(Characters))
             R == Seq([line : Nat, fields : Seq(Seq(Characters))])
             none == <<>>
  <2>1. none \in V /\ none \in F /\ none \in R
    OBVIOUS
  <2>2. reader = [index |-> 1, line |-> 1, startLine |-> 1, inside |-> "file", value |-> none,
                  fields |-> none, records |-> none, result |-> NoResult]
    BY <1>1
  <2>3. ReaderRecord = Readers(V, F, R)
    BY DEF ReaderRecord, Readers
  <2> HIDE DEF V, F, R, none
  <2>4. /\ reader \in Readers(V, F, R) /\ reader.result = NoResult /\ reader.inside = "file"
        /\ reader.index = 1 /\ reader.line = 1 /\ reader.records = none
    <3>1. 1 \in Nat /\ "file" \in {"file", "field", "quotes", "tail"}
      OBVIOUS
    <3>2. NoResult \in {NoResult}
      OBVIOUS
    <3>5. reader \in Readers(V, F, R)
      BY <2>1, <2>2, <3>1, <3>2, FreshReader, Zenon
    <3>3. reader.result = NoResult /\ reader.inside = "file"
      BY <2>2
    <3>4. reader.index = 1 /\ reader.line = 1 /\ reader.records = none
      BY <2>2
    <3>. QED  BY <3>3, <3>4, <3>5
  <2>. QED  BY <2>3, <2>4 DEF none
<1>18. Len(reader.records) = 0
  BY <1>17
<1>19. RecordsRead(reader)
  BY <1>2, <1>3, <1>17, <1>18, CsvAssumption DEF RecordsRead
<1>20. AtRecord(reader, nl, qa)
  <2>1. CASE Len(table) = 0
    BY <1>2, <1>3, <1>4, <1>12, <1>13, <1>14, <1>17, <1>18, <2>1, LostIs, <1>16 DEF AtRecord, Lost
  <2>2. CASE Len(table) # 0
    <3>1. 0 \in 0 .. Len(table) /\ 0 + 1 = 1
      BY <1>2
    <3>2. StartOf(table, 1) = 1
      BY <1>2, <3>1, NextStart
    <3>3. Lies(w, 1, nl, qa)
      BY <1>4, <1>5, <1>13, <1>14, <1>16, LostIs DEF Lies
    <3>. QED  BY <1>3, <1>4, <1>17, <1>18, <2>2, <3>1, <3>2, <3>3 DEF AtRecord
  <2>. QED  BY <2>1, <2>2
<1>. QED
  BY <1>16, <1>17, <1>19, <1>20 DEF StandsIn

\* Every step of the reader keeps what it reads to what was written.
LEMMA StepKeeps ==
  ASSUME NEW nl \in Newlines, NEW qa \in BOOLEAN, TextIs(nl, qa), Keeps(reader, nl, qa), CsvNext
  PROVE  Keeps(reader', nl, qa)
<1>1. reader.result = NoResult
  BY DEF CsvNext, StartRecord, StartField, ReadQuoted, ReadTail, EndField, Reading
<1>2. StandsIn(reader, nl, qa)
  BY <1>1 DEF Keeps
<1>3. reader \in ReaderRecord
  BY <1>2 DEF StandsIn, RecordsRead
<1>4. CASE StartRecord
  <2>1. reader.inside = "file"
    BY <1>4 DEF StartRecord, Reading
  <2>2. CASE reader.index <= Len(text)
    <3>1. OpensRecord(reader, reader')
      BY <1>4, <2>2, Zenon DEF StartRecord, OpensRecord
    <3>2. Len(reader.records) # Len(export.table)
      <4>1. SUFFICES ASSUME Len(reader.records) = Len(export.table) PROVE FALSE
        OBVIOUS
      <4>2. reader.index = Len(text) + 1
        BY <1>2, <2>1, <4>1 DEF StandsIn, AtRecord
      <4>. QED  BY <2>2, <4>2, LostIs
    <3>. QED  BY <1>2, <2>1, <3>1, <3>2, RecordOpens DEF Keeps
  <2>3. CASE ~(reader.index <= Len(text))
    <3>1. StopsWith(reader, reader', "ok")
      BY <1>4, <2>3, Zenon DEF StartRecord, StopsWith
    <3>2. reader.index > Len(text)
      BY <1>3, <2>3, LostIs, ReaderIs
    <3>. QED  BY <1>2, <2>1, <3>1, <3>2, FileEnds
  <2>. QED  BY <2>2, <2>3
<1>5. CASE StartField
  <2>1. reader.inside = "field" /\ StartsField(reader, reader')
    BY <1>5, Zenon DEF StartField, Reading, StartsField, Here
  <2>. QED  BY <1>2, <2>1, FieldStarts DEF Keeps
<1>6. CASE ReadQuoted
  <2>1. reader.inside = "quotes" /\ ReadsQuoted(reader, reader')
    BY <1>6, Zenon DEF ReadQuoted, Reading, ReadsQuoted, Here
  <2>. QED  BY <1>2, <2>1, QuoteEnds, QuoteGoesOn DEF Keeps
<1>7. CASE ReadTail
  <2>1. /\ reader.inside = "tail" /\ ReadsTail(reader, reader')
        /\ At(reader.index) # DELIMITER /\ ~IsRecordEnd(At(reader.index))
    BY <1>7, Zenon DEF ReadTail, Reading, ReadsTail, Here
  <2>. QED  BY <1>2, <2>1, TailGoesOn DEF Keeps
<1>8. CASE EndField
  <2>1. /\ reader.inside = "tail" /\ EndsField(reader, reader')
        /\ At(reader.index) = DELIMITER \/ IsRecordEnd(At(reader.index))
    BY <1>8, Zenon DEF EndField, Reading, EndsField, EndOf, EndLength, LastOfRecord, Here
  <2>. QED  BY <1>2, <2>1, FieldOver
<1>. QED
  BY <1>4, <1>5, <1>6, <1>7, <1>8 DEF CsvNext

\* The inductive invariant of the reader: the columns are a header's, and some line break
\* and quoting explain the file and where the reader stands in it.
CsvInv ==
  /\ columns \in Seq(ColumnSet)
  /\ \E nl \in Newlines, qa \in BOOLEAN : TextIs(nl, qa) /\ Keeps(reader, nl, qa)

LEMMA CsvInitInv ==
  ASSUME NEW upload \in Uploads, NEW nl \in Newlines, NEW qa \in BOOLEAN, NEW final \in BOOLEAN, NEW cut \in BOOLEAN,
         OpensFile(upload, nl, qa, final, cut)
  PROVE  CsvInv
<1>1. columns \in Seq(ColumnSet)
  BY CsvAssumption DEF OpensFile, ColumnSet
<1>. QED
  BY <1>1, FileOpens DEF CsvInv, Keeps

LEMMA CsvStepInv ==
  ASSUME CsvInv, [CsvNext]_csvVars
  PROVE  CsvInv'
<1>1. UNCHANGED <<export, text, columns>>
  BY DEF CsvNext, StartRecord, StartField, ReadQuoted, ReadTail, EndField, Reading, csvVars
<1>2. PICK nl \in Newlines, qa \in BOOLEAN : TextIs(nl, qa) /\ Keeps(reader, nl, qa)
  BY DEF CsvInv
<1>3. Keeps(reader', nl, qa)
  BY <1>2, StepKeeps DEF csvVars
<1>4. TextIs(nl, qa)'
  BY <1>1, <1>2 DEF TextIs, WrittenWhole, Lost
<1>5. Keeps(reader, nl, qa)'
  BY <1>1, <1>3, ZenonT(40) DEF Keeps, StandsIn, StoppedRight, RecordsRead, FieldsRead, AtRecord, AtField, InQuotes, InTail, ValueRead, Lies, Lost,
    WrittenWhole, RowOf, ValueOf, Behind, LineOf, WrittenRecords
<1>6. (columns \in Seq(ColumnSet))'
  BY <1>1 DEF CsvInv
<1>. QED
  BY <1>4, <1>5, <1>6 DEF CsvInv

LEMMA FilesRead ==
  ASSUME CsvInv
  PROVE  FilesAreReadBack
<1>1. PICK nl \in Newlines, qa \in BOOLEAN : TextIs(nl, qa) /\ Keeps(reader, nl, qa)
  BY DEF CsvInv
<1>2. StoppedRight(reader)
  BY <1>1 DEF Keeps, StandsIn, RecordsRead, StoppedRight, NoResult
<1>. QED
  BY <1>2, Zenon DEF StoppedRight, FilesAreReadBack, WrittenRecords

\* csv.ts parseCsv: for every table, line break, quoting and ending of the file, what is
\* read is the rows that were written, each with the line it starts on, and a file is
\* refused only for a limit the table is over or a last quote that was lost.
THEOREM TablesAreReadBack == CsvSpec => []FilesAreReadBack
<1>1. CsvInit => CsvInv
  BY CsvInitInv DEF CsvInit
<1>2. CsvInv /\ [CsvNext]_csvVars => CsvInv'
  BY CsvStepInv
<1>3. CsvInv => FilesAreReadBack
  BY FilesRead
<1>. QED
  BY <1>1, <1>2, <1>3, PTL DEF CsvSpec

\* roster-import.ts mapHeaders: for every header row, an address anywhere in it refuses the
\* file, and otherwise the child, the birth date and each guardian are read from the first
\* column that names them, and an adult's address from none.
THEOREM ColumnsAreUnderstood == CsvSpec => []HeadersAreUnderstood
<1>1. CsvInit => CsvInv
  BY CsvInitInv DEF CsvInit
<1>2. CsvInv /\ [CsvNext]_csvVars => CsvInv'
  BY CsvStepInv
<1>3. CsvInv => HeadersAreUnderstood
  BY HeadersUnderstood DEF CsvInv
<1>. QED
  BY <1>1, <1>2, <1>3, PTL DEF CsvSpec

=============================================================================
