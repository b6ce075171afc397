------------------------------ MODULE SumFacts ------------------------------
(***************************************************************************)
(* What the proofs use of finite sets and of the sum of a function over a  *)
(* finite set of its arguments (SumFunctionOnSet of the community          *)
(* modules).  Each fact is a definition here and a theorem in module Sums. *)
(* The lemmas of the components take them as their hypothesis SumFacts;    *)
(* the theorems at the end of each proof module discharge it with Sums'    *)
(* theorem Facts.  The library's theorems about finite sets and induction, *)
(* of which the provers would otherwise carry every statement through      *)
(* every step, are in scope only there.                                    *)
(***************************************************************************)
EXTENDS Integers, FiniteSets, Functions

-----------------------------------------------------------------------------
(* Finite sets *)

EmptyFinite ==
    /\ IsFiniteSet({})
    /\ Cardinality({}) = 0
    /\ \A S : IsFiniteSet(S) => (Cardinality(S) = 0 <=> S = {})

SingletonFinite == \A x : IsFiniteSet({x})

SubsetFinite == \A S, T : IsFiniteSet(S) /\ T \subseteq S => IsFiniteSet(T)

AddFinite ==
    \A S, x : IsFiniteSet(S) =>
        /\ IsFiniteSet(S \cup {x})
        /\ Cardinality(S \cup {x}) = IF x \in S THEN Cardinality(S) ELSE Cardinality(S) + 1

RemoveFinite ==
    \A S, x : IsFiniteSet(S) =>
        /\ IsFiniteSet(S \ {x})
        /\ Cardinality(S \ {x}) = IF x \in S THEN Cardinality(S) - 1 ELSE Cardinality(S)

UnionFinite == \A S, T : IsFiniteSet(S) /\ IsFiniteSet(T) => IsFiniteSet(S \cup T)

PowerFinite == \A S : IsFiniteSet(S) => IsFiniteSet(SUBSET S)

IntervalFinite == \A a, b \in Int : IsFiniteSet(a..b)

CardinalityType == \A S : IsFiniteSet(S) => Cardinality(S) \in Nat

FiniteFacts ==
    /\ EmptyFinite /\ SingletonFinite /\ SubsetFinite /\ AddFinite /\ RemoveFinite
    /\ UnionFinite /\ PowerFinite /\ IntervalFinite /\ CardinalityType

-----------------------------------------------------------------------------
(* Sums *)

\* The function has a value to add at every element of S.
Summable(f, S) == \A x \in S : f[x] \in Int

\* From f to g, only the value at x changes.
Changed(f, g, S, x) ==
    /\ x \in S
    /\ Summable(f, S) /\ Summable(g, S)
    /\ \A y \in S : y # x => f[y] = g[y]

\* From f on S to g on T, x joins.
Grown(f, g, S, T, x) ==
    /\ x \notin S /\ T = S \cup {x}
    /\ Summable(g, T)
    /\ \A y \in S : f[y] = g[y]

\* From f to g, m is taken from x and given to y.
Moved(f, g, S, x, y, m) ==
    /\ m \in Int
    /\ x \in S /\ y \in S /\ x # y
    /\ g[x] = f[x] - m
    /\ g[y] = f[y] + m
    /\ \A z \in S \ {x, y} : g[z] = f[z]

\* From f to g, the accounts x, y and z change by a, b and c, which is nothing
\* altogether.
Exchanged(f, g, S, x, y, z, a, b, c) ==
    /\ a \in Int /\ b \in Int /\ c \in Int /\ a + b + c = 0
    /\ x \in S /\ y \in S /\ z \in S /\ x # y /\ x # z /\ y # z
    /\ g[x] = f[x] + a
    /\ g[y] = f[y] + b
    /\ g[z] = f[z] + c
    /\ \A w \in S \ {x, y, z} : g[w] = f[w]

\* h of a sum is at least the sum of h of the parts.
Superadditive(h) ==
    /\ \A a \in Nat : h[a] \in Nat
    /\ \A a, b \in Nat : h[a] + h[b] <= h[a + b]

SumOfNone == \A f : SumFunctionOnSet(f, {}) = 0

SumType ==
    \A f, S : IsFiniteSet(S) /\ Summable(f, S) => SumFunctionOnSet(f, S) \in Int

SumNat ==
    \A f, S : IsFiniteSet(S) /\ (\A x \in S : f[x] \in Nat) => SumFunctionOnSet(f, S) \in Nat

SumZero ==
    \A f, S : IsFiniteSet(S) /\ (\A x \in S : f[x] = 0) => SumFunctionOnSet(f, S) = 0

SumConstant ==
    \A f, S : \A c \in Int :
        IsFiniteSet(S) /\ (\A x \in S : f[x] = c)
            => SumFunctionOnSet(f, S) = c * Cardinality(S)

SumBound ==
    \A f, S : IsFiniteSet(S) /\ (\A x \in S : f[x] \in Nat)
        => \A x \in S : f[x] <= SumFunctionOnSet(f, S)

SumTakeOut ==
    \A f, S : IsFiniteSet(S) /\ Summable(f, S)
        => \A x \in S : SumFunctionOnSet(f, S) = f[x] + SumFunctionOnSet(f, S \ {x})

SumSame ==
    \A f, g, S : IsFiniteSet(S) /\ (\A x \in S : f[x] = g[x])
        => SumFunctionOnSet(f, S) = SumFunctionOnSet(g, S)

SumChange ==
    \A f, g, S, x : IsFiniteSet(S) /\ Changed(f, g, S, x)
        => SumFunctionOnSet(g, S) = SumFunctionOnSet(f, S) - f[x] + g[x]

SumMore ==
    \A f, g, S, T, x : IsFiniteSet(S) /\ Grown(f, g, S, T, x)
        => SumFunctionOnSet(g, T) = SumFunctionOnSet(f, S) + g[x]

SumRest ==
    \A f, S, T :
        /\ IsFiniteSet(S) /\ IsFiniteSet(T)
        /\ Summable(f, S) /\ \A x \in T : f[x] = 0
        => SumFunctionOnSet(f, S \cup T) = SumFunctionOnSet(f, S)

SumMoved ==
    \A f, g, S, x, y, m :
        IsFiniteSet(S) /\ Summable(f, S) /\ Moved(f, g, S, x, y, m)
            => SumFunctionOnSet(g, S) = SumFunctionOnSet(f, S)

SumExchanged ==
    \A f, g, S, x, y, z, a, b, c :
        IsFiniteSet(S) /\ Summable(f, S) /\ Exchanged(f, g, S, x, y, z, a, b, c)
            => SumFunctionOnSet(g, S) = SumFunctionOnSet(f, S)

SumMultiple ==
    \A f, g, h, S : \A c \in Int :
        /\ IsFiniteSet(S) /\ Summable(f, S) /\ Summable(g, S)
        /\ \A x \in S : h[x] = f[x] + c * g[x]
        => SumFunctionOnSet(h, S) = SumFunctionOnSet(f, S) + c * SumFunctionOnSet(g, S)

SumOfParts ==
    \A f, g, h, S :
        /\ IsFiniteSet(S) /\ Superadditive(h)
        /\ \A x \in S : f[x] \in Nat /\ g[x] = h[f[x]]
        => SumFunctionOnSet(g, S) <= h[SumFunctionOnSet(f, S)]

SumFacts ==
    /\ FiniteFacts
    /\ SumOfNone /\ SumType /\ SumNat /\ SumZero /\ SumConstant /\ SumBound /\ SumTakeOut
    /\ SumSame /\ SumChange /\ SumMore /\ SumRest /\ SumMoved /\ SumExchanged
    /\ SumMultiple /\ SumOfParts

=============================================================================
