---------------------------- MODULE SumTheorems ----------------------------
(***************************************************************************)
(* What SumFunctionOnSet of the community modules computes.                *)
(*                                                                         *)
(* A sum over a set is a fold that takes the elements one by one, in an    *)
(* order nobody knows.  The lemmas say that the order plays no part: any   *)
(* element may be taken out of the sum, for all finite index sets.  The    *)
(* inductions are by a smallest set that is wrong, which needs no theorem  *)
(* that takes an operator.                                                 *)
(***************************************************************************)
EXTENDS Integers, Functions, FiniteSetTheorems, TLAPS

\* Among the sets that are wrong one has no wrong subset.
LEMMA SmallestSet ==
  ASSUME NEW S, IsFiniteSet(S), NEW Wrong \in SUBSET (SUBSET S), Wrong # {}
  PROVE  \E T \in Wrong : \A U \in SUBSET T : U # T => U \notin Wrong
  <1>1. FiniteSubsetsOf(S) = SUBSET S  BY FS_FiniteSubsetsOfFinite
  <1>2. IsWellFoundedOn(StrictSubsetOrdering(S), SUBSET S)
    BY <1>1, FS_StrictSubsetOrderingWellFounded
  <1>3. PICK T \in Wrong : \A U \in Wrong : ~(<<U, T>> \in StrictSubsetOrdering(S))
    BY <1>2, WFMin
  <1>4. ASSUME NEW U \in SUBSET T, U # T, U \in Wrong  PROVE FALSE
    BY <1>3, <1>4 DEF StrictSubsetOrdering
  <1> QED BY <1>4

-----------------------------------------------------------------------------
(* The fold is a recursive function on the subsets of the index set. *)

Picked(s) == CHOOSE x \in s : TRUE

Folding(it, f, S) ==
  it = [s \in SUBSET S |-> IF s = {} THEN 0 ELSE f[Picked(s)] + it[s \ {Picked(s)}]]

Fold(f, S) == CHOOSE it : Folding(it, f, S)

LEMMA SumIsFold == ASSUME NEW f, NEW S  PROVE SumFunctionOnSet(f, S) = Fold(f, S)[S]
  BY DEF SumFunctionOnSet, FoldFunctionOnSet, MapThenFoldSet, Fold, Folding, Picked

LEMMA PickedIn == ASSUME NEW s, s # {}  PROVE Picked(s) \in s
  BY DEF Picked

\* Two such functions agree wherever both are defined.
LEMMA FoldingsAgree ==
  ASSUME NEW f, NEW S, NEW T \in SUBSET S, IsFiniteSet(S),
         NEW g, Folding(g, f, S), NEW h, Folding(h, f, T)
  PROVE  g[T] = h[T]
  <1> DEFINE Wrong == {s \in SUBSET T : g[s] # h[s]}
  <1> SUFFICES ASSUME Wrong # {} PROVE FALSE
    OBVIOUS
  <1>1. IsFiniteSet(T)  BY FS_Subset
  <1>2. PICK s \in Wrong : \A u \in SUBSET s : u # s => u \notin Wrong
    <2>1. Wrong \in SUBSET (SUBSET T)  OBVIOUS
    <2> HIDE DEF Wrong
    <2> QED BY <1>1, <2>1, SmallestSet
  <1>3. s # {}  BY DEF Folding
  <1>4. s \ {Picked(s)} \in SUBSET s /\ s \ {Picked(s)} # s  BY <1>3, PickedIn
  <1>5. g[s \ {Picked(s)}] = h[s \ {Picked(s)}]  BY <1>2, <1>4
  <1>6. s \in SUBSET T /\ s \in SUBSET S  OBVIOUS
  <1>7. g[s] = f[Picked(s)] + g[s \ {Picked(s)}]  BY <1>3, <1>6 DEF Folding
  <1>8. h[s] = f[Picked(s)] + h[s \ {Picked(s)}]  BY <1>3, <1>6 DEF Folding
  <1> QED BY <1>5, <1>7, <1>8

\* The recursion defines a function.
LEMMA FoldExists == ASSUME NEW f, NEW S, IsFiniteSet(S)  PROVE Folding(Fold(f, S), f, S)
  <1> DEFINE Wrong == {T \in SUBSET S : ~Folding(Fold(f, T), f, T)}
  <1> SUFFICES ASSUME Wrong # {} PROVE FALSE
    OBVIOUS
  <1>1. PICK T \in Wrong : \A U \in SUBSET T : U # T => U \notin Wrong
    <2>1. Wrong \in SUBSET (SUBSET S)  OBVIOUS
    <2> HIDE DEF Wrong
    <2> QED BY <2>1, SmallestSet
  <1>2. \A U \in SUBSET T : U # T => Folding(Fold(f, U), f, U) /\ IsFiniteSet(U)
    <2>1. IsFiniteSet(T)  BY FS_Subset
    <2> QED BY <1>1, <2>1, FS_Subset
  <1> DEFINE it == [s \in SUBSET T |->
                     IF s # T THEN Fold(f, s)[s]
                     ELSE IF s = {} THEN 0 
                     ELSE f[Picked(s)] + Fold(f, s \ {Picked(s)})[s \ {Picked(s)}]]
  <1>3. ASSUME NEW s \in SUBSET T
        PROVE  it[s] = IF s = {} THEN 0 ELSE f[Picked(s)] + it[s \ {Picked(s)}]
    <2> DEFINE r == s \ {Picked(s)}
    <2>1. s # {} => r \in SUBSET s /\ r # s /\ r \in SUBSET T /\ r # T  BY PickedIn
    <2>2. CASE s = T  BY <2>1, <2>2
    <2>3. CASE s # T /\ s = {}
      <3>1. Folding(Fold(f, s), f, s)  BY <1>2, <2>3
      <3> QED BY <2>3, <3>1 DEF Folding
    <2>4. CASE s # T /\ s # {}
      <3>1. Folding(Fold(f, s), f, s) /\ Folding(Fold(f, r), f, r) /\ IsFiniteSet(s)
        BY <1>2, <2>1, <2>4
      <3>2. Fold(f, s)[s] = f[Picked(s)] + Fold(f, s)[r]  BY <2>4, <3>1 DEF Folding
      <3>3. Fold(f, s)[r] = Fold(f, r)[r]
        <4> HIDE DEF r
        <4> QED BY <2>1, <2>4, <3>1, FoldingsAgree
      <3>4. it[s] = Fold(f, s)[s] /\ it[r] = Fold(f, r)[r]  BY <2>1, <2>4
      <3> QED BY <2>4, <3>2, <3>3, <3>4
    <2> QED BY <2>2, <2>3, <2>4
  <1>4. Folding(it, f, T)
    <2>1. it = [s \in SUBSET T |-> it[s]]  OBVIOUS
    <2> HIDE DEF it
    <2> QED BY <1>3, <2>1 DEF Folding
  <1>5. Folding(Fold(f, T), f, T)
    <2> HIDE DEF it
    <2> QED BY <1>4 DEF Fold
  <1> QED BY <1>5

LEMMA SumOfNothing == ASSUME NEW f  PROVE SumFunctionOnSet(f, {}) = 0
  <1>1. Folding(Fold(f, {}), f, {})  BY FS_EmptySet, FoldExists
  <1> QED BY <1>1, SumIsFold DEF Folding

LEMMA SumTakes ==
  ASSUME NEW f, NEW S, IsFiniteSet(S), S # {}
  PROVE  SumFunctionOnSet(f, S) = f[Picked(S)] + SumFunctionOnSet(f, S \ {Picked(S)})
  <1> DEFINE r == S \ {Picked(S)}
  <1>1. IsFiniteSet(r) /\ r \in SUBSET S  BY FS_RemoveElement
  <1>2. Folding(Fold(f, S), f, S) /\ Folding(Fold(f, r), f, r)  BY <1>1, FoldExists
  <1>3. Fold(f, S)[S] = f[Picked(S)] + Fold(f, S)[r]  BY <1>2 DEF Folding
  <1> HIDE DEF r
  <1>4. Fold(f, S)[r] = Fold(f, r)[r]  BY <1>1, <1>2, FoldingsAgree
  <1> QED BY <1>3, <1>4, SumIsFold DEF r

-----------------------------------------------------------------------------
(* Sums of numbers. *)

Summable(f, S) == IsFiniteSet(S) /\ \A x \in S : f[x] \in Int

LEMMA SummableSubset ==
  ASSUME NEW f, NEW S, Summable(f, S), NEW T \in SUBSET S
  PROVE  Summable(f, T)
  BY FS_Subset DEF Summable

LEMMA SumIsInt ==
  ASSUME NEW f, NEW S, Summable(f, S)
  PROVE  SumFunctionOnSet(f, S) \in Int
  <1> DEFINE Wrong == {T \in SUBSET S : SumFunctionOnSet(f, T) \notin Int}
  <1> SUFFICES ASSUME Wrong # {} PROVE FALSE
    OBVIOUS
  <1>1. PICK T \in Wrong : \A U \in SUBSET T : U # T => U \notin Wrong
    <2>1. Wrong \in SUBSET (SUBSET S)  OBVIOUS
    <2> HIDE DEF Wrong
    <2> QED BY <2>1, SmallestSet DEF Summable
  <1>2. Summable(f, T) /\ IsFiniteSet(T)  BY SummableSubset DEF Summable
  <1>3. T # {}  BY SumOfNothing
  <1>4. Picked(T) \in T  BY <1>3, PickedIn
  <1>5. SumFunctionOnSet(f, T \ {Picked(T)}) \in Int  BY <1>1, <1>4
  <1>6. SumFunctionOnSet(f, T) = f[Picked(T)] + SumFunctionOnSet(f, T \ {Picked(T)})
    BY <1>2, <1>3, SumTakes
  <1> QED BY <1>2, <1>4, <1>5, <1>6 DEF Summable

\* Any element may be taken out.
LEMMA SumWithout ==
  ASSUME NEW f, NEW S, Summable(f, S), NEW x \in S
  PROVE  SumFunctionOnSet(f, S) = f[x] + SumFunctionOnSet(f, S \ {x})
  <1> DEFINE Sum(T) == SumFunctionOnSet(f, T)
             Wrong == {T \in SUBSET S : \E y \in T : Sum(T) # f[y] + Sum(T \ {y})}
  <1> SUFFICES ASSUME Wrong # {} PROVE FALSE
    OBVIOUS
  <1>1. PICK T \in Wrong : \A U \in SUBSET T : U # T => U \notin Wrong
    <2>1. Wrong \in SUBSET (SUBSET S)  OBVIOUS
    <2> HIDE DEF Wrong
    <2> QED BY <2>1, SmallestSet DEF Summable
  <1>2. PICK y \in T : Sum(T) # f[y] + Sum(T \ {y})  OBVIOUS
  <1> DEFINE c == Picked(T)
             r == T \ {c, y}
  <1>3. Summable(f, T) /\ IsFiniteSet(T) /\ c \in T  BY SummableSubset, PickedIn DEF Summable
  <1>4. Sum(T) = f[c] + Sum(T \ {c})  BY <1>3, SumTakes
  <1>5. c # y  BY <1>2, <1>4
  <1>6. T \ {c} \in SUBSET S /\ T \ {y} \in SUBSET S /\ r \in SUBSET S  OBVIOUS
  <1>7. Sum(T \ {c}) = f[y] + Sum((T \ {c}) \ {y})
    <2>1. T \ {c} \in SUBSET T /\ T \ {c} # T /\ y \in T \ {c}  BY <1>3, <1>5
    <2> QED BY <1>1, <1>6, <2>1
  <1>8. Sum(T \ {y}) = f[c] + Sum((T \ {y}) \ {c})
    <2>1. T \ {y} \in SUBSET T /\ T \ {y} # T /\ c \in T \ {y}  BY <1>3, <1>5
    <2> QED BY <1>1, <1>6, <2>1
  <1>9. (T \ {c}) \ {y} = r /\ (T \ {y}) \ {c} = r  OBVIOUS
  <1>10. Sum(r) \in Int /\ f[c] \in Int /\ f[y] \in Int
    BY <1>3, <1>6, SummableSubset, SumIsInt DEF Summable
  <1> HIDE DEF Sum, Wrong, c, r
  <1>11. Sum(T) = f[c] + (f[y] + Sum(r))  BY <1>4, <1>7, <1>9
  <1>12. Sum(T \ {y}) = f[c] + Sum(r)  BY <1>8, <1>9
  <1>13. Sum(T) = f[y] + Sum(T \ {y})  BY <1>10, <1>11, <1>12
  <1> QED BY <1>2, <1>13

LEMMA SumWith ==
  ASSUME NEW f, NEW S, NEW x, x \notin S, Summable(f, S \cup {x})
  PROVE  SumFunctionOnSet(f, S \cup {x}) = f[x] + SumFunctionOnSet(f, S)
  <1>1. (S \cup {x}) \ {x} = S  OBVIOUS
  <1> QED BY <1>1, SumWithout

LEMMA SumOfOne ==
  ASSUME NEW f, NEW x, f[x] \in Int
  PROVE  SumFunctionOnSet(f, {x}) = f[x]
  <1>1. {} \cup {x} = {x} /\ IsFiniteSet({x}) /\ x \notin {}  BY FS_Singleton
  <1>2. SumFunctionOnSet(f, {} \cup {x}) = f[x] + SumFunctionOnSet(f, {})
    <2> DEFINE e == {}
    <2>1. Summable(f, e \cup {x}) /\ x \notin e  BY <1>1 DEF Summable
    <2> HIDE DEF e
    <2>2. SumFunctionOnSet(f, e \cup {x}) = f[x] + SumFunctionOnSet(f, e)  BY <2>1, SumWith
    <2> QED BY <2>2 DEF e
  <1> QED BY <1>1, <1>2, SumOfNothing

\* A sum says nothing of what lies outside the index set.
LEMMA SumSame ==
  ASSUME NEW f, NEW g, NEW S, IsFiniteSet(S), \A x \in S : f[x] = g[x]
  PROVE  SumFunctionOnSet(f, S) = SumFunctionOnSet(g, S)
  <1> DEFINE Wrong == {T \in SUBSET S : SumFunctionOnSet(f, T) # SumFunctionOnSet(g, T)}
  <1> SUFFICES ASSUME Wrong # {} PROVE FALSE
    OBVIOUS
  <1>1. PICK T \in Wrong : \A U \in SUBSET T : U # T => U \notin Wrong
    <2>1. Wrong \in SUBSET (SUBSET S)  OBVIOUS
    <2> HIDE DEF Wrong
    <2> QED BY <2>1, SmallestSet
  <1>2. T # {}  BY SumOfNothing
  <1>3. Picked(T) \in T /\ IsFiniteSet(T)  BY <1>2, PickedIn, FS_Subset
  <1>4. SumFunctionOnSet(f, T \ {Picked(T)}) = SumFunctionOnSet(g, T \ {Picked(T)})
    BY <1>1, <1>3
  <1>5. f[Picked(T)] = g[Picked(T)]  BY <1>3
  <1>6. /\ SumFunctionOnSet(f, T) = f[Picked(T)] + SumFunctionOnSet(f, T \ {Picked(T)})
        /\ SumFunctionOnSet(g, T) = g[Picked(T)] + SumFunctionOnSet(g, T \ {Picked(T)})
    BY <1>2, <1>3, SumTakes
  <1> QED BY <1>4, <1>5, <1>6

\* One value changes.
LEMMA SumUpdated ==
  ASSUME NEW f, NEW g, NEW S, Summable(f, S), Summable(g, S), NEW x \in S,
         \A y \in S \ {x} : f[y] = g[y]
  PROVE  SumFunctionOnSet(g, S) = SumFunctionOnSet(f, S) - f[x] + g[x]
  <1>1. /\ SumFunctionOnSet(f, S) = f[x] + SumFunctionOnSet(f, S \ {x})
        /\ SumFunctionOnSet(g, S) = g[x] + SumFunctionOnSet(g, S \ {x})
    BY SumWithout
  <1>2. SumFunctionOnSet(f, S \ {x}) = SumFunctionOnSet(g, S \ {x})
    BY FS_RemoveElement, SumSame DEF Summable
  <1>3. SumFunctionOnSet(f, S \ {x}) \in Int  BY SummableSubset, SumIsInt
  <1>4. f[x] \in Int /\ g[x] \in Int  BY DEF Summable
  <1> QED BY <1>1, <1>2, <1>3, <1>4

\* The larger summands have the larger sum.
LEMMA SumMonotonic ==
  ASSUME NEW f, NEW g, NEW S, Summable(f, S), Summable(g, S), \A x \in S : f[x] <= g[x]
  PROVE  SumFunctionOnSet(f, S) <= SumFunctionOnSet(g, S)
  <1> DEFINE Wrong == {T \in SUBSET S : ~(SumFunctionOnSet(f, T) <= SumFunctionOnSet(g, T))}
  <1> SUFFICES ASSUME Wrong # {} PROVE FALSE
    OBVIOUS
  <1>1. PICK T \in Wrong : \A U \in SUBSET T : U # T => U \notin Wrong
    <2>1. Wrong \in SUBSET (SUBSET S)  OBVIOUS
    <2> HIDE DEF Wrong
    <2> QED BY <2>1, SmallestSet DEF Summable
  <1>2. T # {}  BY SumOfNothing
  <1> DEFINE c == Picked(T)
             r == T \ {c}
  <1>3. c \in T /\ Summable(f, T) /\ Summable(g, T)  BY <1>2, PickedIn, SummableSubset
  <1>4. SumFunctionOnSet(f, r) <= SumFunctionOnSet(g, r)  BY <1>1, <1>3
  <1>5. f[c] <= g[c] /\ f[c] \in Int /\ g[c] \in Int  BY <1>3 DEF Summable
  <1>6. SumFunctionOnSet(f, r) \in Int /\ SumFunctionOnSet(g, r) \in Int
    BY <1>3, SummableSubset, SumIsInt
  <1>7. /\ SumFunctionOnSet(f, T) = f[c] + SumFunctionOnSet(f, r)
        /\ SumFunctionOnSet(g, T) = g[c] + SumFunctionOnSet(g, r)
    BY <1>3, SumWithout
  <1>8. ~(SumFunctionOnSet(f, T) <= SumFunctionOnSet(g, T))  OBVIOUS
  <1> HIDE DEF Wrong, c, r
  <1> QED BY <1>4, <1>5, <1>6, <1>7, <1>8

LEMMA SumOfZeros ==
  ASSUME NEW f, NEW S, IsFiniteSet(S), \A x \in S : f[x] = 0
  PROVE  SumFunctionOnSet(f, S) = 0
  <1> DEFINE Wrong == {T \in SUBSET S : SumFunctionOnSet(f, T) # 0}
  <1> SUFFICES ASSUME Wrong # {} PROVE FALSE
    OBVIOUS
  <1>1. PICK T \in Wrong : \A U \in SUBSET T : U # T => U \notin Wrong
    <2>1. Wrong \in SUBSET (SUBSET S)  OBVIOUS
    <2> HIDE DEF Wrong
    <2> QED BY <2>1, SmallestSet
  <1>2. T # {} /\ IsFiniteSet(T)  BY SumOfNothing, FS_Subset
  <1>3. Picked(T) \in T  BY <1>2, PickedIn
  <1>4. SumFunctionOnSet(f, T \ {Picked(T)}) = 0 /\ f[Picked(T)] = 0  BY <1>1, <1>3
  <1> QED BY <1>2, <1>4, SumTakes

\* A sum of naturals is one.
LEMMA SumIsNat ==
  ASSUME NEW f, NEW S, IsFiniteSet(S), \A x \in S : f[x] \in Nat
  PROVE  SumFunctionOnSet(f, S) \in Nat
  <1> DEFINE z == [x \in S |-> 0]
  <1>1. Summable(f, S) /\ Summable(z, S)  BY DEF Summable
  <1>2. SumFunctionOnSet(z, S) = 0
    <2>1. \A x \in S : z[x] = 0  OBVIOUS
    <2> HIDE DEF z
    <2> QED BY <2>1, SumOfZeros
  <1>3. SumFunctionOnSet(z, S) <= SumFunctionOnSet(f, S)
    <2>1. \A x \in S : z[x] <= f[x]  OBVIOUS
    <2> HIDE DEF z
    <2> QED BY <1>1, <2>1, SumMonotonic
  <1>4. SumFunctionOnSet(f, S) \in Int  BY <1>1, SumIsInt
  <1> QED BY <1>2, <1>3, <1>4

\* An index set in two parts.
LEMMA SumInParts ==
  ASSUME NEW f, NEW S, Summable(f, S), NEW P \in SUBSET S
  PROVE  SumFunctionOnSet(f, S) = SumFunctionOnSet(f, P) + SumFunctionOnSet(f, S \ P)
  <1> DEFINE Sum(T) == SumFunctionOnSet(f, T)
             Wrong == {T \in SUBSET P : Sum((S \ P) \cup T) # Sum(T) + Sum(S \ P)}
  <1>1. ASSUME Wrong # {} PROVE FALSE
    <2>1. PICK T \in Wrong : \A U \in SUBSET T : U # T => U \notin Wrong
      <3>1. Wrong \in SUBSET (SUBSET P) /\ IsFiniteSet(P)  BY FS_Subset DEF Summable
      <3> HIDE DEF Wrong
      <3> QED BY <1>1, <3>1, SmallestSet
    <2>2. Sum(S \ P) \in Int  BY SummableSubset, SumIsInt
    <2>3. T # {}
      <3>1. (S \ P) \cup {} = S \ P /\ Sum({}) = 0  BY SumOfNothing
      <3> QED BY <2>2, <3>1
    <2> DEFINE c == Picked(T)
               r == T \ {c}
    <2>4. c \in T /\ c \in P /\ c \notin r /\ c \notin (S \ P) \cup r  BY <2>3, PickedIn
    <2>5. Sum((S \ P) \cup r) = Sum(r) + Sum(S \ P)  BY <2>1, <2>4
    <2>6. Summable(f, T) /\ Summable(f, r) /\ Summable(f, (S \ P) \cup T)
      BY SummableSubset
    <2>7. Sum(T) = f[c] + Sum(r)  BY <2>4, <2>6, SumWithout
    <2>8. Sum((S \ P) \cup T) = f[c] + Sum((S \ P) \cup r)
      <3>1. ((S \ P) \cup T) \ {c} = (S \ P) \cup r  BY <2>4
      <3>2. c \in (S \ P) \cup T  BY <2>4
      <3> QED BY <2>6, <3>1, <3>2, SumWithout
    <2>9. f[c] \in Int /\ Sum(r) \in Int  BY <2>4, <2>6, SumIsInt DEF Summable
    <2>10. Sum((S \ P) \cup T) # Sum(T) + Sum(S \ P)  BY <2>1
    <2> HIDE DEF Sum, Wrong, c, r
    <2> QED BY <2>2, <2>5, <2>7, <2>8, <2>9, <2>10
  <1>2. Sum((S \ P) \cup P) = Sum(P) + Sum(S \ P)  BY <1>1
  <1>3. (S \ P) \cup P = S  OBVIOUS
  <1> HIDE DEF Sum
  <1>4. Sum(S) = Sum(P) + Sum(S \ P)  BY <1>2, <1>3
  <1> QED BY <1>4 DEF Sum

\* A part of a sum of naturals is not larger than the sum.
LEMMA SumOfPart ==
  ASSUME NEW f, NEW S, IsFiniteSet(S), \A x \in S : f[x] \in Nat, NEW P \in SUBSET S
  PROVE  SumFunctionOnSet(f, P) <= SumFunctionOnSet(f, S)
  <1>1. Summable(f, S) /\ IsFiniteSet(S \ P) /\ IsFiniteSet(P)  BY FS_Subset DEF Summable
  <1>2. SumFunctionOnSet(f, S \ P) \in Nat /\ SumFunctionOnSet(f, P) \in Nat  BY <1>1, SumIsNat
  <1>3. SumFunctionOnSet(f, S) = SumFunctionOnSet(f, P) + SumFunctionOnSet(f, S \ P)
    BY <1>1, SumInParts
  <1> QED BY <1>2, <1>3

\* The sums of two functions add up to the sum of their sum.
LEMMA SumOfSums ==
  ASSUME NEW f, NEW g, NEW h, NEW S, Summable(f, S), Summable(g, S),
         \A x \in S : h[x] = f[x] + g[x]
  PROVE  SumFunctionOnSet(h, S) = SumFunctionOnSet(f, S) + SumFunctionOnSet(g, S)
  <1> DEFINE Wrong == {T \in SUBSET S :
               SumFunctionOnSet(h, T) # SumFunctionOnSet(f, T) + SumFunctionOnSet(g, T)}
  <1> SUFFICES ASSUME Wrong # {} PROVE FALSE
    OBVIOUS
  <1>1. PICK T \in Wrong : \A U \in SUBSET T : U # T => U \notin Wrong
    <2>1. Wrong \in SUBSET (SUBSET S)  OBVIOUS
    <2> HIDE DEF Wrong
    <2> QED BY <2>1, SmallestSet DEF Summable
  <1>2. T # {}  BY SumOfNothing
  <1> DEFINE c == Picked(T)
             r == T \ {c}
  <1>3. c \in T /\ Summable(f, T) /\ Summable(g, T)  BY <1>2, PickedIn, SummableSubset
  <1>4. Summable(h, T)  BY <1>3 DEF Summable
  <1>5. SumFunctionOnSet(h, r) = SumFunctionOnSet(f, r) + SumFunctionOnSet(g, r)
    BY <1>1, <1>3
  <1>6. f[c] \in Int /\ g[c] \in Int /\ h[c] = f[c] + g[c]  BY <1>3 DEF Summable
  <1>7. SumFunctionOnSet(f, r) \in Int /\ SumFunctionOnSet(g, r) \in Int
    BY <1>3, SummableSubset, SumIsInt
  <1>8. /\ SumFunctionOnSet(f, T) = f[c] + SumFunctionOnSet(f, r)
        /\ SumFunctionOnSet(g, T) = g[c] + SumFunctionOnSet(g, r)
        /\ SumFunctionOnSet(h, T) = h[c] + SumFunctionOnSet(h, r)
    BY <1>3, <1>4, SumWithout
  <1>9. SumFunctionOnSet(h, T) # SumFunctionOnSet(f, T) + SumFunctionOnSet(g, T)  OBVIOUS
  <1> HIDE DEF Wrong, c, r
  <1> QED BY <1>5, <1>6, <1>7, <1>8, <1>9
\* A sum over a part is a sum over the whole in which the rest counts nothing.
LEMMA SumZeroed ==
  ASSUME NEW f, NEW g, NEW S, Summable(f, S), NEW P \in SUBSET S,
         \A x \in S : g[x] = IF x \in P THEN f[x] ELSE 0
  PROVE  SumFunctionOnSet(g, S) = SumFunctionOnSet(f, P)
  <1>1. Summable(g, S) /\ IsFiniteSet(P) /\ IsFiniteSet(S \ P)  BY FS_Subset DEF Summable
  <1>2. SumFunctionOnSet(g, S) = SumFunctionOnSet(g, P) + SumFunctionOnSet(g, S \ P)
    BY <1>1, SumInParts
  <1>3. SumFunctionOnSet(g, P) = SumFunctionOnSet(f, P)  BY <1>1, SumSame
  <1>4. SumFunctionOnSet(g, S \ P) = 0
    <2>1. \A x \in S \ P : g[x] = 0  OBVIOUS
    <2> QED BY <1>1, <2>1, SumOfZeros
  <1>5. SumFunctionOnSet(f, P) \in Int  BY SummableSubset, SumIsInt
  <1> QED BY <1>2, <1>3, <1>4, <1>5

\* A sum may run over other names of its index set.
LEMMA SumRenamed ==
  ASSUME NEW S, IsFiniteSet(S), NEW e, NEW f, NEW g,
         \A x, y \in S : e[x] = e[y] => x = y,
         \A x \in S : g[x] = f[e[x]] /\ g[x] \in Int
  PROVE  SumFunctionOnSet(f, {e[x] : x \in S}) = SumFunctionOnSet(g, S)
  <1> DEFINE Image(T) == {e[x] : x \in T}
             Wrong == {T \in SUBSET S : \/ ~IsFiniteSet(Image(T))
                                       \/ SumFunctionOnSet(f, Image(T)) # SumFunctionOnSet(g, T)}
  <1> SUFFICES ASSUME Wrong # {} PROVE FALSE
    OBVIOUS
  <1>1. PICK T \in Wrong : \A U \in SUBSET T : U # T => U \notin Wrong
    <2>1. Wrong \in SUBSET (SUBSET S)  OBVIOUS
    <2> HIDE DEF Wrong
    <2> QED BY <2>1, SmallestSet
  <1>2. T # {}
    <2>1. Image({}) = {}  OBVIOUS
    <2> QED BY <2>1, SumOfNothing, FS_EmptySet
  <1> DEFINE c == Picked(T)
             r == T \ {c}
  <1>3. c \in T /\ IsFiniteSet(T) /\ IsFiniteSet(r)
    BY <1>2, PickedIn, FS_Subset, FS_RemoveElement
  <1> HIDE DEF c
  <1>4. Image(T) = Image(r) \cup {e[c]} /\ e[c] \notin Image(r)  BY <1>3
  <1>5. Summable(f, Image(r) \cup {e[c]}) /\ Summable(g, T)
    <2>1. IsFiniteSet(Image(T))
      <3>1. IsFiniteSet(Image(r))  BY <1>1, <1>3
      <3> HIDE DEF Image, r
      <3> QED BY <1>4, <3>1, FS_AddElement
    <2>2. \A y \in Image(T) : f[y] \in Int  OBVIOUS
    <2> QED BY <1>3, <1>4, <2>1, <2>2 DEF Summable
  <1>6. SumFunctionOnSet(f, Image(T)) = f[e[c]] + SumFunctionOnSet(f, Image(r))
    <2> HIDE DEF Image, r
    <2> QED BY <1>4, <1>5, SumWith
  <1>7. SumFunctionOnSet(g, T) = g[c] + SumFunctionOnSet(g, r)  BY <1>3, <1>5, SumWithout
  <1>8. SumFunctionOnSet(f, Image(r)) = SumFunctionOnSet(g, r)  BY <1>1, <1>3
  <1>9. g[c] = f[e[c]]  BY <1>3
  <1>10. SumFunctionOnSet(f, Image(T)) = SumFunctionOnSet(g, T)  BY <1>6, <1>7, <1>8, <1>9
  <1>11. IsFiniteSet(Image(T))  BY <1>4, <1>5 DEF Summable
  <1> QED BY <1>10, <1>11

\* The least number of a set, for what a sum over 1..n does.
LEMMA SmallestNumber ==
  ASSUME NEW W \in SUBSET Nat, W # {}
  PROVE  \E n \in W : \A k \in W : n <= k
  <1>1. PICK n \in W : \A k \in W : ~(<<k, n>> \in OpToRel(<, Nat))
    BY NatLessThanWellFounded, WFMin
  <1>2. \A k \in W : ~(k < n)  BY <1>1 DEF OpToRel
  <1> QED BY <1>2

LEMMA SumToNext ==
  ASSUME NEW f, NEW n \in Nat, \A i \in 1..(n + 1) : f[i] \in Int
  PROVE  SumFunctionOnSet(f, 1..(n + 1)) = f[n + 1] + SumFunctionOnSet(f, 1..n)
  <1>1. 1..(n + 1) = (1..n) \cup {n + 1} /\ n + 1 \notin 1..n  OBVIOUS
  <1>2. IsFiniteSet(1..(n + 1))  BY FS_Interval
  <1> QED BY <1>1, <1>2, SumWith DEF Summable

\* Part of the summands is set to nothing.
LEMMA SumCleared ==
  ASSUME NEW f, NEW g, NEW S, Summable(f, S), NEW P \in SUBSET S,
         \A x \in S : g[x] = IF x \in P THEN 0 ELSE f[x]
  PROVE  SumFunctionOnSet(g, S) = SumFunctionOnSet(f, S) - SumFunctionOnSet(f, P)
  <1>1. SumFunctionOnSet(f, S) = SumFunctionOnSet(f, P) + SumFunctionOnSet(f, S \ P)
    BY SumInParts
  <1>2. SumFunctionOnSet(g, S) = SumFunctionOnSet(f, S \ P)
    <2>1. S \ P \in SUBSET S /\ \A x \in S : g[x] = IF x \in S \ P THEN f[x] ELSE 0  OBVIOUS
    <2> QED BY <2>1, SumZeroed
  <1>3. SumFunctionOnSet(f, P) \in Int /\ SumFunctionOnSet(f, S \ P) \in Int
    BY SummableSubset, SumIsInt
  <1> QED BY <1>1, <1>2, <1>3

\* Summands that were nothing are filled in.
LEMMA SumFilled ==
  ASSUME NEW f, NEW g, NEW h, NEW S, Summable(f, S), NEW P \in SUBSET S, Summable(h, P),
         \A x \in P : f[x] = 0, \A x \in S : g[x] = IF x \in P THEN h[x] ELSE f[x]
  PROVE  SumFunctionOnSet(g, S) = SumFunctionOnSet(f, S) + SumFunctionOnSet(h, P)
  <1>1. IsFiniteSet(P) /\ IsFiniteSet(S \ P) /\ Summable(g, S)  BY FS_Subset DEF Summable
  <1>2. /\ SumFunctionOnSet(f, S) = SumFunctionOnSet(f, P) + SumFunctionOnSet(f, S \ P)
        /\ SumFunctionOnSet(g, S) = SumFunctionOnSet(g, P) + SumFunctionOnSet(g, S \ P)
    BY <1>1, SumInParts
  <1>3. SumFunctionOnSet(f, P) = 0  BY <1>1, SumOfZeros
  <1>4. SumFunctionOnSet(g, P) = SumFunctionOnSet(h, P)  BY <1>1, SumSame
  <1>5. SumFunctionOnSet(g, S \ P) = SumFunctionOnSet(f, S \ P)
    <2>1. \A x \in S \ P : g[x] = f[x]  OBVIOUS
    <2> QED BY <1>1, <2>1, SumSame
  <1>6. SumFunctionOnSet(h, P) \in Int /\ SumFunctionOnSet(f, S \ P) \in Int
    BY SummableSubset, SumIsInt
  <1> QED BY <1>2, <1>3, <1>4, <1>5, <1>6
=============================================================================
