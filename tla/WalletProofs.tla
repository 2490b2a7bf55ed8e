------------------------------ MODULE WalletProofs ------------------------------
(***************************************************************************)
(* Theorems about the wallet service, for every set of players and calls:  *)
(* first the lemmas about sums, rounding and bookings, then the service,   *)
(* its refinement of the account book, and the account book itself.        *)
(***************************************************************************)
EXTENDS Wallet, FiniteSetTheorems, WellFoundedInduction, TLAPS

(* A set of subsets of a finite set has a smallest member.                  *)
LEMMA Smallest ==
  ASSUME NEW S, IsFiniteSet(S), NEW B \in SUBSET SUBSET S, B # {}
  PROVE  \E T \in B : \A U \in B : U \subseteq T => U = T
<1>1. IsWellFoundedOn(StrictSubsetOrdering(S), SUBSET S)
  BY FS_StrictSubsetOrderingWellFounded, FS_FiniteSubsetsOfFinite
<1>2. PICK T \in B : \A U \in B : <<U, T>> \notin StrictSubsetOrdering(S)
  BY <1>1, WFMin
<1>3. \A U \in B : U \subseteq T => U = T
  BY <1>2 DEF StrictSubsetOrdering
<1>. QED BY <1>3

(* SumFunctionOnSet takes the elements in an order that CHOOSE fixes.       *)
Pick(s) == CHOOSE x \in s : TRUE
Sums(v, T, g) ==
  g = [s \in SUBSET T |-> IF s = {} THEN 0 ELSE v[Pick(s)] + g[s \ {Pick(s)}]]

LEMMA Picked == ASSUME NEW s, s # {} PROVE Pick(s) \in s
BY DEF Pick

LEMMA SumIsLast ==
  ASSUME NEW v, NEW T, NEW g, Sums(v, T, g)
  PROVE  \E h : Sums(v, T, h) /\ SumFunctionOnSet(v, T) = h[T]
BY Zenon DEF SumFunctionOnSet, FoldFunctionOnSet, MapThenFoldSet, Sums, Pick

LEMMA SumsAgree ==
  ASSUME NEW v, NEW T, IsFiniteSet(T), NEW U \in SUBSET T,
         NEW g, Sums(v, T, g), NEW h, Sums(v, U, h)
  PROVE  g[U] = h[U]
<1>. DEFINE B == {W \in SUBSET U : g[W] # h[W]}
<1>1. SUFFICES ASSUME B # {} PROVE FALSE
  OBVIOUS
<1>2. B \in SUBSET SUBSET T
  OBVIOUS
<1>3. PICK W \in B : \A X \in B : X \subseteq W => X = W
  <2>. HIDE DEF B
  <2>. QED BY <1>1, <1>2, Smallest
<1>4. g[W] = IF W = {} THEN 0 ELSE v[Pick(W)] + g[W \ {Pick(W)}]
  BY DEF Sums
<1>5. h[W] = IF W = {} THEN 0 ELSE v[Pick(W)] + h[W \ {Pick(W)}]
  BY DEF Sums
<1>6. W # {}
  BY <1>4, <1>5
<1>7. W \ {Pick(W)} \in SUBSET U /\ W \ {Pick(W)} # W
  BY <1>6, Picked
<1>8. W \ {Pick(W)} \notin B
  BY <1>3, <1>7
<1>. QED BY <1>4, <1>5, <1>7, <1>8

LEMMA SumsExist ==
  ASSUME NEW v, NEW S, IsFiniteSet(S)
  PROVE  \E g : Sums(v, S, g)
<1>. DEFINE B == {T \in SUBSET S : ~ \E g : Sums(v, T, g)}
<1>1. SUFFICES ASSUME B # {} PROVE FALSE
  OBVIOUS
<1>2. PICK T \in B : \A U \in B : U \subseteq T => U = T
  <2>1. B \in SUBSET SUBSET S
    OBVIOUS
  <2>. HIDE DEF B
  <2>. QED BY <1>1, <2>1, Smallest
<1>. DEFINE H(U) == (CHOOSE g : Sums(v, U, g))[U]
           G == [s \in SUBSET T |-> IF s = {} THEN 0 ELSE v[Pick(s)] + H(s \ {Pick(s)})]
<1>3. ASSUME NEW U \in SUBSET T, U # T PROVE Sums(v, U, CHOOSE g : Sums(v, U, g))
  BY <1>2, <1>3
<1>4. ASSUME NEW U \in SUBSET T, U # T PROVE G[U] = H(U)
  <2>. DEFINE g == CHOOSE g : Sums(v, U, g)
             R == U \ {Pick(U)}
             h == CHOOSE h : Sums(v, R, h)
  <2>1. Sums(v, U, g)
    BY <1>3, <1>4
  <2>2. g[U] = IF U = {} THEN 0 ELSE v[Pick(U)] + g[R]
    BY <2>1 DEF Sums
  <2>3. R \in SUBSET T /\ R # T /\ R \in SUBSET U /\ IsFiniteSet(U)
    BY <1>4, FS_Subset
  <2>4. Sums(v, R, h)
    BY <1>3, <2>3
  <2>5. g[R] = h[R]
    <3>. HIDE DEF g, h, R
    <3>. QED BY <2>1, <2>3, <2>4, SumsAgree
  <2>6. G[U] = IF U = {} THEN 0 ELSE v[Pick(U)] + h[R]
    OBVIOUS
  <2>. QED BY <2>2, <2>5, <2>6
<1>5. ASSUME NEW s \in SUBSET T, s # {} PROVE G[s \ {Pick(s)}] = H(s \ {Pick(s)})
  BY <1>4, <1>5, Picked
<1>6. G = [s \in SUBSET T |-> IF s = {} THEN 0 ELSE v[Pick(s)] + G[s \ {Pick(s)}]]
  <2>1. \A s \in SUBSET T : s # {} => G[s \ {Pick(s)}] = H(s \ {Pick(s)})
    BY <1>5
  <2>. HIDE DEF H
  <2>. QED BY <2>1
<1>7. Sums(v, T, G)
  BY <1>6 DEF Sums
<1>. QED BY <1>2, <1>7

(* The sum over a finite set: nothing for the empty set, else one element   *)
(* and the sum over the others.                                             *)
LEMMA SumUnfolds ==
  ASSUME NEW v, NEW T, IsFiniteSet(T)
  PROVE  SumFunctionOnSet(v, T) =
           IF T = {} THEN 0 ELSE v[Pick(T)] + SumFunctionOnSet(v, T \ {Pick(T)})
<1>. DEFINE R == T \ {Pick(T)}
<1>1. PICK g : Sums(v, T, g) /\ SumFunctionOnSet(v, T) = g[T]
  BY SumsExist, SumIsLast
<1>2. IsFiniteSet(R) /\ R \in SUBSET T
  BY FS_Subset
<1>3. PICK h : Sums(v, R, h) /\ SumFunctionOnSet(v, R) = h[R]
  BY <1>2, SumsExist, SumIsLast
<1>4. g[R] = h[R]
  <2>. HIDE DEF R
  <2>. QED BY <1>1, <1>2, <1>3, SumsAgree
<1>5. g[T] = IF T = {} THEN 0 ELSE v[Pick(T)] + g[R]
  BY <1>1 DEF Sums
<1>. QED BY <1>1, <1>3, <1>4, <1>5

LEMMA SumType ==
  ASSUME NEW v, NEW S, IsFiniteSet(S), \A x \in S : v[x] \in Int
  PROVE  SumFunctionOnSet(v, S) \in Int
<1>. DEFINE B == {T \in SUBSET S : SumFunctionOnSet(v, T) \notin Int}
<1>1. SUFFICES ASSUME B # {} PROVE FALSE
  OBVIOUS
<1>2. PICK T \in B : \A U \in B : U \subseteq T => U = T
  <2>1. B \in SUBSET SUBSET S
    OBVIOUS
  <2>. HIDE DEF B
  <2>. QED BY <1>1, <2>1, Smallest
<1>3. SumFunctionOnSet(v, T) =
        IF T = {} THEN 0 ELSE v[Pick(T)] + SumFunctionOnSet(v, T \ {Pick(T)})
  BY <1>2, FS_Subset, SumUnfolds
<1>4. T # {}
  BY <1>2, <1>3
<1>5. Pick(T) \in T
  BY <1>4, Picked
<1>6. SumFunctionOnSet(v, T \ {Pick(T)}) \in Int
  BY <1>2, <1>5
<1>. QED BY <1>2, <1>3, <1>4, <1>5, <1>6

(* Any element can be taken out.                                            *)
LEMMA SumSplits ==
  ASSUME NEW v, NEW S, IsFiniteSet(S), \A x \in S : v[x] \in Int, NEW e \in S
  PROVE  SumFunctionOnSet(v, S) = v[e] + SumFunctionOnSet(v, S \ {e})
<1>. DEFINE Holds(T) == \A x \in T : SumFunctionOnSet(v, T) = v[x] + SumFunctionOnSet(v, T \ {x})
           B == {T \in SUBSET S : ~Holds(T)}
<1>1. SUFFICES ASSUME B # {} PROVE FALSE
  <2>1. B = {} => Holds(S)
    OBVIOUS
  <2>. QED BY <2>1
<1>2. PICK T \in B : \A U \in B : U \subseteq T => U = T
  <2>1. B \in SUBSET SUBSET S
    OBVIOUS
  <2>. HIDE DEF B
  <2>. QED BY <1>1, <2>1, Smallest
<1>a. \A U \in SUBSET T : U # T => Holds(U)
  BY <1>2
<1>b. T \in SUBSET S /\ ~Holds(T)
  BY <1>2
<1>. DEFINE p == Pick(T)
<1>3. PICK x \in T : SumFunctionOnSet(v, T) # v[x] + SumFunctionOnSet(v, T \ {x})
  BY <1>b
<1>4. p \in T
  BY <1>3, Picked
<1>5. SumFunctionOnSet(v, T) = v[p] + SumFunctionOnSet(v, T \ {p})
  BY <1>b, <1>4, FS_Subset, SumUnfolds
<1>6. x # p
  BY <1>3, <1>5
<1>. HIDE DEF p
<1>7. SumFunctionOnSet(v, T \ {p}) = v[x] + SumFunctionOnSet(v, (T \ {p}) \ {x})
  BY <1>a, <1>4, <1>6
<1>8. SumFunctionOnSet(v, T \ {x}) = v[p] + SumFunctionOnSet(v, (T \ {x}) \ {p})
  BY <1>a, <1>4, <1>6
<1>9. (T \ {p}) \ {x} = (T \ {x}) \ {p}
  OBVIOUS
<1>10. SumFunctionOnSet(v, (T \ {x}) \ {p}) \in Int
  <2>1. IsFiniteSet((T \ {x}) \ {p}) /\ (T \ {x}) \ {p} \subseteq S
    BY <1>b, FS_Subset
  <2>. QED BY <2>1, SumType
<1>11. v[x] \in Int /\ v[p] \in Int
  BY <1>b, <1>4
<1>12. \A a, b, c \in Int : a + (b + c) = b + (a + c)
  OBVIOUS
<1>13. SumFunctionOnSet(v, T) = v[x] + SumFunctionOnSet(v, T \ {x})
  <2>. DEFINE rest == SumFunctionOnSet(v, (T \ {x}) \ {p})
  <2>1. SumFunctionOnSet(v, T) = v[p] + (v[x] + rest)
    BY <1>5, <1>7, <1>9
  <2>2. v[x] + SumFunctionOnSet(v, T \ {x}) = v[x] + (v[p] + rest)
    BY <1>8
  <2>3. rest \in Int
    BY <1>10
  <2>. HIDE DEF rest
  <2>. QED BY <2>1, <2>2, <2>3, <1>11, <1>12
<1>. QED BY <1>3, <1>13

(* Only the values on the set matter.                                       *)
LEMMA SumDepends ==
  ASSUME NEW v, NEW w, NEW S, IsFiniteSet(S), \A x \in S : v[x] = w[x]
  PROVE  SumFunctionOnSet(v, S) = SumFunctionOnSet(w, S)
<1>. DEFINE B == {T \in SUBSET S : SumFunctionOnSet(v, T) # SumFunctionOnSet(w, T)}
<1>1. SUFFICES ASSUME B # {} PROVE FALSE
  OBVIOUS
<1>2. PICK T \in B : \A U \in B : U \subseteq T => U = T
  <2>1. B \in SUBSET SUBSET S
    OBVIOUS
  <2>. HIDE DEF B
  <2>. QED BY <1>1, <2>1, Smallest
<1>3. IsFiniteSet(T)
  BY <1>2, FS_Subset
<1>4. SumFunctionOnSet(v, T) =
        IF T = {} THEN 0 ELSE v[Pick(T)] + SumFunctionOnSet(v, T \ {Pick(T)})
  BY <1>3, SumUnfolds
<1>5. SumFunctionOnSet(w, T) =
        IF T = {} THEN 0 ELSE w[Pick(T)] + SumFunctionOnSet(w, T \ {Pick(T)})
  BY <1>3, SumUnfolds
<1>6. T # {} /\ Pick(T) \in T
  BY <1>2, <1>4, <1>5, Picked
<1>7. SumFunctionOnSet(v, T \ {Pick(T)}) = SumFunctionOnSet(w, T \ {Pick(T)})
  BY <1>2, <1>6
<1>. QED BY <1>2, <1>4, <1>5, <1>6, <1>7

(* Values on one more element: the sum grows by the value there.            *)
LEMMA SumGrows ==
  ASSUME NEW v, NEW S, IsFiniteSet(S), NEW x, x \notin S,
         \A y \in S \union {x} : v[y] \in Int
  PROVE  SumFunctionOnSet(v, S \union {x}) = v[x] + SumFunctionOnSet(v, S)
<1>1. IsFiniteSet(S \union {x})
  BY FS_AddElement
<1>2. (S \union {x}) \ {x} = S
  OBVIOUS
<1>. QED BY <1>1, <1>2, SumSplits

-----------------------------------------------------------------------------
(* Rounding to paise keeps an integer an integer, what is not negative not  *)
(* negative, and moves a balance by half a paisa at most.                   *)
LEMMA Rounding ==
  ASSUME NEW x \in Int
  PROVE  /\ ToFixed2(x) \in Int
         /\ x >= 0 => ToFixed2(x) >= 0
         /\ Distance(ToFixed2(x), x) <= PAISA \div 2
BY SMT DEF ToFixed2, PAISA, Distance

(* A request leaves three integer balances and records three integers.      *)
LEMMA ArithmeticType ==
  ASSUME NEW w \in Wallets, NEW r \in Requests
  PROVE  /\ DeductionFromBonus(w, r) \in Int
         /\ DeductionFromMain(w, r) \in Int
         /\ DeductionFromWinning(w, r) \in Int
         /\ Deductions(w, r) \in Wallets
         /\ BreakDown(w, r) \in Wallets
         /\ UpdatedBalances(w, r) \in Wallets
<1>1. r.amount \in Int /\ r.fee \in Wallets /\ Sign(r) \in Int
  BY DEF Requests, Wallets, Sign
<1>2. /\ DeductionFromBonus(w, r) \in Int
      /\ AmountAfterBonus(w, r) \in Int
      /\ DeductionFromMain(w, r) \in Int
      /\ DeductionFromWinning(w, r) \in Int
  BY <1>1 DEF DeductionFromBonus, AmountAfterBonus, DeductionFromMain,
              DeductionFromWinning, Least, Sign, Wallets, Purses
<1>3. Deductions(w, r) \in Wallets
  BY <1>1, <1>2 DEF Deductions, Wallets, Purses
<1>4. BreakDown(w, r) \in Wallets
  BY <1>3 DEF BreakDown, Wallets, Purses
<1>5. ASSUME NEW p \in Purses
      PROVE  w[p] + Sign(r) * BreakDown(w, r)[p] \in Int
  BY <1>4 DEF Wallets, Sign
<1>6. UpdatedBalances(w, r) \in Wallets
  BY <1>5, Rounding DEF UpdatedBalances, Wallets
<1>. QED BY <1>2, <1>3, <1>4, <1>6

-----------------------------------------------------------------------------
USE RequestAssumption, OpeningAssumption

(* The sum of what is posted to a purse is an integer, and so is the number *)
(* of the entries.                                                          *)
LEMMA PostedType ==
  ASSUME NEW u, NEW p \in Purses, NEW book \in SUBSET EntryType, IsFiniteSet(book)
  PROVE  /\ IsFiniteSet(EntriesOf(u, book))
         /\ Cardinality(EntriesOf(u, book)) \in Nat
         /\ \A e \in EntryType : Sign(Req[e.call]) * e.breakDown[p] \in Int
         /\ Posted(u, p, book) \in Int
<1>. DEFINE v == [e \in EntriesOf(u, book) |-> Sign(Req[e.call]) * e.breakDown[p]]
<1>1. IsFiniteSet(EntriesOf(u, book)) /\ Cardinality(EntriesOf(u, book)) \in Nat
  BY FS_Subset, FS_CardinalityType DEF EntriesOf
<1>2. ASSUME NEW e \in EntryType PROVE Sign(Req[e.call]) * e.breakDown[p] \in Int
  BY DEF EntryType, Wallets, Sign
<1>3. \A e \in EntriesOf(u, book) : v[e] \in Int
  BY <1>2 DEF EntriesOf
<1>4. DOMAIN v = EntriesOf(u, book)
  OBVIOUS
<1>5. SumFunctionOnSet(v, EntriesOf(u, book)) \in Int
  <2>. HIDE DEF v
  <2>. QED BY <1>1, <1>3, SumType
<1>. QED BY <1>1, <1>2, <1>4, <1>5 DEF Posted, SumFunction

(* One more entry of a player is added to what is posted.                   *)
LEMMA PostedGrows ==
  ASSUME NEW u, NEW p \in Purses, NEW book \in SUBSET EntryType, IsFiniteSet(book),
         NEW e \in EntryType, e \notin book, Req[e.call].user = u
  PROVE  /\ Posted(u, p, book \union {e})
              = Sign(Req[e.call]) * e.breakDown[p] + Posted(u, p, book)
         /\ Cardinality(EntriesOf(u, book \union {e}))
              = Cardinality(EntriesOf(u, book)) + 1
<1>. DEFINE S == EntriesOf(u, book)
            T == EntriesOf(u, book \union {e})
            v == [d \in S |-> Sign(Req[d.call]) * d.breakDown[p]]
            w == [d \in T |-> Sign(Req[d.call]) * d.breakDown[p]]
<1>1. T = S \union {e} /\ e \notin S
  BY DEF EntriesOf
<1>2. IsFiniteSet(S) /\ \A d \in EntryType : Sign(Req[d.call]) * d.breakDown[p] \in Int
  BY PostedType
<1>3. Cardinality(T) = Cardinality(S) + 1
  BY <1>1, <1>2, FS_AddElement
<1>4. Posted(u, p, book) = SumFunctionOnSet(v, S)
        /\ Posted(u, p, book \union {e}) = SumFunctionOnSet(w, T)
  <2>1. DOMAIN v = S /\ DOMAIN w = T
    OBVIOUS
  <2>. QED BY <2>1 DEF Posted, SumFunction
<1>5. \A d \in S : v[d] = w[d]
  BY <1>1
<1>6. \A d \in T : w[d] = Sign(Req[d.call]) * d.breakDown[p] /\ d \in EntryType
  BY DEF EntriesOf
<1>7. SumFunctionOnSet(v, S) = SumFunctionOnSet(w, S)
  <2>. HIDE DEF S, T, v, w
  <2>. QED BY <1>2, <1>5, SumDepends
<1>8. SumFunctionOnSet(w, T) = w[e] + SumFunctionOnSet(w, S)
  <2>1. \A d \in S \union {e} : w[d] \in Int
    BY <1>1, <1>2, <1>6
  <2>. HIDE DEF S, T, w
  <2>. QED BY <1>1, <1>2, <2>1, SumGrows
<1>. QED BY <1>1, <1>3, <1>4, <1>6, <1>7, <1>8

(* Balances that the book explains are explained after the next booking of  *)
(* the same player, as long as it is computed from those balances.          *)
LEMMA BookingIsExplained ==
  ASSUME NEW c \in Calls, NEW w \in Wallets,
         NEW book \in SUBSET EntryType, IsFiniteSet(book),
         \A e \in book : e.call # c,
         Explained(Req[c].user, w, book)
  PROVE  Explained(Req[c].user, UpdatedBalances(w, Req[c]),
                   book \union {Entry(c, BreakDown(w, Req[c]))})
<1>. DEFINE u == Req[c].user
            e == Entry(c, BreakDown(w, Req[c]))
            n == Cardinality(EntriesOf(u, book))
<1>1. Req[c] \in Requests /\ u \in Users /\ BreakDown(w, Req[c]) \in Wallets
  BY ArithmeticType DEF Requests
<1>2. e \in EntryType /\ e \notin book /\ e.call = c /\ e.breakDown = BreakDown(w, Req[c])
  BY <1>1 DEF Entry, EntryType
<1>3. ASSUME NEW p \in Purses
      PROVE  Distance(UpdatedBalances(w, Req[c])[p],
                      Opening[u][p] + Posted(u, p, book \union {e}))
               <= (PAISA \div 2) * Cardinality(EntriesOf(u, book \union {e}))
  <2>. DEFINE d == Sign(Req[c]) * BreakDown(w, Req[c])[p]
  <2>1. d \in Int /\ w[p] \in Int /\ Opening[u][p] \in Int
    BY <1>1 DEF Wallets, Sign
  <2>2. n \in Nat /\ Posted(u, p, book) \in Int
    BY PostedType
  <2>3. /\ Posted(u, p, book \union {e}) = d + Posted(u, p, book)
        /\ Cardinality(EntriesOf(u, book \union {e})) = n + 1
    <3>1. Req[e.call].user = u /\ Sign(Req[e.call]) * e.breakDown[p] = d
      BY <1>2
    <3>. HIDE DEF e, d, u
    <3>. QED BY <1>2, <3>1, PostedGrows
  <2>4. UpdatedBalances(w, Req[c])[p] = ToFixed2(w[p] + d)
    BY DEF UpdatedBalances
  <2>5. Distance(w[p], Opening[u][p] + Posted(u, p, book)) <= (PAISA \div 2) * n
    BY DEF Explained
  <2>6. ToFixed2(w[p] + d) \in Int /\ Distance(ToFixed2(w[p] + d), w[p] + d) <= PAISA \div 2
    BY <2>1, Rounding
  <2>7. \A a, b, x, y \in Int : \A k \in Nat :
          Distance(a, b) <= 20 * k /\ Distance(x, a + y) <= 20
            => Distance(x, b + y) <= 20 * (k + 1)
    BY DEF Distance
  <2>8. PAISA \div 2 = 20
    BY DEF PAISA
  <2>9. Opening[u][p] + Posted(u, p, book) \in Int
          /\ Opening[u][p] + (d + Posted(u, p, book)) = (Opening[u][p] + Posted(u, p, book)) + d
    BY <2>1, <2>2
  <2>. HIDE DEF u, e, n, d
  <2>. QED BY <2>1, <2>2, <2>3, <2>4, <2>5, <2>6, <2>7, <2>8, <2>9
<1>. QED BY <1>3 DEF Explained

(* Another player's booking says nothing of this one's balances.            *)
LEMMA BookingOfAnother ==
  ASSUME NEW u, NEW w, NEW book, NEW e, Req[e.call].user # u
  PROVE  Explained(u, w, book \union {e}) <=> Explained(u, w, book)
<1>1. EntriesOf(u, book \union {e}) = EntriesOf(u, book)
  BY DEF EntriesOf
<1>. QED BY <1>1 DEF Explained, Posted

(* With nothing booked the balances are the opening ones.                   *)
LEMMA NothingIsExplained ==
  ASSUME NEW u \in Users PROVE Explained(u, Opening[u], {})
<1>1. EntriesOf(u, {}) = {}
  BY DEF EntriesOf
<1>2. ASSUME NEW p \in Purses PROVE Posted(u, p, {}) = 0
  <2>. DEFINE v == [e \in {} |-> Sign(Req[e.call]) * e.breakDown[p]]
  <2>1. SumFunctionOnSet(v, {}) = 0
    <3>. HIDE DEF v
    <3>. QED BY FS_EmptySet, SumUnfolds
  <2>2. DOMAIN v = {} /\ Posted(u, p, {}) = SumFunction(v)
    BY <1>1 DEF Posted
  <2>. QED BY <2>1, <2>2 DEF SumFunction
<1>3. \A p \in Purses : Opening[u][p] \in Int
  OBVIOUS
<1>4. Cardinality(EntriesOf(u, {})) = 0
  BY <1>1, FS_EmptySet
<1>. QED BY <1>2, <1>3, <1>4 DEF Explained, Distance, PAISA
-----------------------------------------------------------------------------
(* The three parts of a debit add up to its amount: the winning purse gives *)
(* whatever the bonus and the main purse leave.                             *)
LEMMA DebitAddsUp ==
  ASSUME NEW w \in Wallets, NEW r \in Requests, ~r.credit,
         Total(r.fee) = r.amount
  PROVE  Total(Deductions(w, r)) = r.amount
<1>1. r.amount \in Int
  BY DEF Requests
<1>2. CASE r.type = "adminRefund"
  BY <1>2 DEF Deductions
<1>3. CASE r.type # "adminRefund"
  <2>1. Total(Deductions(w, r)) = DeductionFromMain(w, r) + DeductionFromWinning(w, r)
                                    + DeductionFromBonus(w, r)
    BY <1>3 DEF Deductions, Total, Purses
  <2>2. DeductionFromWinning(w, r) =
          r.amount - DeductionFromBonus(w, r) - DeductionFromMain(w, r)
    BY <1>1, ArithmeticType DEF DeductionFromWinning, AmountAfterBonus, Sign
  <2>. QED BY <1>1, <2>1, <2>2, ArithmeticType
<1>. QED BY <1>2, <1>3

(* A fee that the balance check accepts is debited from the same wallet     *)
(* without a refusal, and from the purses the check promised.               *)
THEOREM CheckedFeeIsDebited ==
  ASSUME NEW w \in Wallets, NEW r \in Requests,
         r.type = "joinFee", ~r.credit,
         CheckPasses(w, r.amount, r.fee["bonus"]), w["win"] >= 0
  PROVE  /\ ~NotEnoughBalance(w, r)
         /\ BreakDown(w, r) = CheckedSplit(w, r.amount, r.fee["bonus"])
<1>. DEFINE s == CheckedSplit(w, r.amount, r.fee["bonus"])
<1>1. r.amount \in Int /\ r.fee["bonus"] \in Int /\ \A p \in Purses : w[p] \in Int
  BY DEF Requests, Wallets, Purses
<1>2. /\ DeductionFromBonus(w, r) = s["bonus"] /\ s["bonus"] \in Int
      /\ AmountAfterBonus(w, r) = r.amount - s["bonus"]
  BY <1>1 DEF DeductionFromBonus, AmountAfterBonus, CheckedSplit, Sign, Least, Purses
<1>3. DeductionFromMain(w, r) = s["main"] /\ s["main"] \in Int
  BY <1>1, <1>2 DEF DeductionFromMain, CheckedSplit, Least, Purses
<1>4. DeductionFromWinning(w, r) = s["win"] /\ s["win"] \in Int
  BY <1>1, <1>2, <1>3 DEF DeductionFromWinning, CheckedSplit, Sign, Purses
<1>5. \A p \in Purses : Deductions(w, r)[p] = s[p]
  BY <1>2, <1>3, <1>4 DEF Deductions, Purses
<1>6. ~(w["win"] < s["win"])
  BY <1>1, <1>4 DEF CheckPasses, Purses
<1>7. ~NotEnoughBalance(w, r)
  BY <1>5, <1>6 DEF NotEnoughBalance, Purses
<1>8. \A p \in Purses : BreakDown(w, r)[p] = s[p]
  BY <1>5, <1>6 DEF BreakDown, Purses
<1>9. BreakDown(w, r) \in [Purses -> Int]
  BY ArithmeticType DEF Wallets
<1>10. s \in [Purses -> Int]
  BY <1>2, <1>3, <1>4 DEF CheckedSplit, Purses
<1>11. BreakDown(w, r) = s
  <2>. HIDE DEF s
  <2>. QED BY <1>8, <1>9, <1>10
<1>. QED BY <1>7, <1>11

(* What is left in each purse: the winning purse is never taken below zero, *)
(* the other two only by an administrator's debit.                          *)
LEMMA PurseArithmetic ==
  ASSUME NEW w \in Wallets, NEW r \in Requests,
         r.type = "withdrawal" => r.fee["main"] = 0,
         w["win"] >= 0
  PROVE  /\ UpdatedBalances(w, r)["win"] >= 0
         /\ (w["main"] >= 0 /\ w["bonus"] >= 0 /\ ~TakesBack(r)) =>
              /\ UpdatedBalances(w, r)["main"] >= 0
              /\ UpdatedBalances(w, r)["bonus"] >= 0
<1>. DEFINE left(p) == w[p] + Sign(r) * BreakDown(w, r)[p]
<1>1. \A p \in Purses : r.fee[p] \in Nat /\ w[p] \in Int
  BY DEF Requests, Wallets
<1>2. r.amount \in Nat /\ r.credit \in BOOLEAN
  BY DEF Requests
<1>3. \A p \in Purses : BreakDown(w, r)[p] \in Int /\ Deductions(w, r)[p] \in Int
  BY ArithmeticType DEF Wallets
<1>4. \A p \in Purses : left(p) \in Int
  BY <1>1, <1>3 DEF Sign
<1>5. left("win") >= 0
  <2>1. CASE r.credit
    <3>1. BreakDown(w, r)["win"] = r.fee["win"]
      BY <2>1 DEF BreakDown, Deductions, DeductionFromWinning, Purses
    <3>. QED BY <3>1, <2>1, <1>1 DEF Sign, Purses
  <2>2. CASE ~r.credit
    <3>1. BreakDown(w, r)["win"] = IF w["win"] < Deductions(w, r)["win"]
                                     THEN w["win"] ELSE Deductions(w, r)["win"]
      BY <2>2 DEF BreakDown, Purses
    <3>. QED BY <3>1, <2>2, <1>1, <1>3 DEF Sign, Purses
  <2>. QED BY <2>1, <2>2
<1>6. ASSUME w["main"] >= 0, w["bonus"] >= 0, ~TakesBack(r)
      PROVE  left("main") >= 0 /\ left("bonus") >= 0
  <2>1. CASE r.credit
    <3>1. /\ BreakDown(w, r)["main"] = r.fee["main"]
          /\ BreakDown(w, r)["bonus"] = r.fee["bonus"]
      BY <2>1 DEF BreakDown, Deductions, DeductionFromMain, DeductionFromBonus, Purses
    <3>. QED BY <3>1, <2>1, <1>1, <1>6 DEF Sign, Purses
  <2>2. CASE ~r.credit
    <3>1. r.type # "adminRefund"
      BY <2>2, <1>6 DEF TakesBack
    <3>2. /\ BreakDown(w, r)["main"] = DeductionFromMain(w, r)
          /\ BreakDown(w, r)["bonus"] = DeductionFromBonus(w, r)
      BY <3>1 DEF BreakDown, Deductions, Purses
    <3>3. DeductionFromBonus(w, r) \in Int /\ DeductionFromBonus(w, r) <= w["bonus"]
      BY <2>2, <1>1 DEF DeductionFromBonus, Least, Purses
    <3>4. AmountAfterBonus(w, r) \in Int
      BY <3>3, <1>2, <2>2 DEF AmountAfterBonus, Sign
    <3>5. DeductionFromMain(w, r) <= w["main"]
      BY <3>4, <1>1, <1>6, <2>2 DEF DeductionFromMain, Least, Purses
    <3>. QED BY <3>2, <3>3, <3>5, <2>2, <1>1, <1>3, <1>6 DEF Sign, Purses
  <2>. QED BY <2>1, <2>2
<1>7. \A p \in Purses : UpdatedBalances(w, r)[p] = ToFixed2(left(p))
  BY DEF UpdatedBalances
<1>. QED BY <1>4, <1>5, <1>6, <1>7, Rounding DEF Purses

-----------------------------------------------------------------------------
USE RequestAssumption, OpeningAssumption, CrashAssumption

(* A referral bonus adds a whole number of paise to the earning.            *)
LEMMA EarnedType == \A c \in Calls : Earned(c) \in Nat
<1>1. ASSUME NEW c \in Calls PROVE ToFixed2(Req[c].amount) \in Nat
  <2>1. Req[c].amount \in Int /\ Req[c].amount >= 0
    BY DEF Requests
  <2>. QED BY <2>1, Rounding
<1>. QED BY <1>1 DEF Earned

(* The documents and the calls keep their types: every interleaving of the  *)
(* database operations of #updateWallet, restarts included.                 *)
THEOREM TypeCorrect == Spec => []TypeOK
<1>1. Init => TypeOK
  BY DEF Init, TypeOK, Wallets, Nothing, States, InFlight, Ended, EntryType
<1>2. TypeOK /\ [Next]_vars => TypeOK'
  <2>. SUFFICES ASSUME TypeOK, [Next]_vars PROVE TypeOK'
    OBVIOUS
  <2>. USE DEF TypeOK, States, InFlight, Ended
  <2>a. \A c \in Calls : Req[c] \in Requests /\ UserOf(c) \in Users /\ Req[c].amount \in Nat
    BY DEF UserOf, Requests
  <2>b. Nothing \in Wallets
    BY DEF Nothing, Wallets
  <2>1. ASSUME NEW c \in Calls, ReadWallet(c) PROVE TypeOK'
    BY <2>1, <2>a DEF ReadWallet, Goto
  <2>2. ASSUME NEW c \in Calls, CheckTransaction(c) PROVE TypeOK'
    BY <2>2, <2>b DEF CheckTransaction, Goto, Forget
  <2>3. ASSUME NEW c \in Calls, RefuseBalance(c) PROVE TypeOK'
    BY <2>3, <2>b DEF RefuseBalance, Goto, Forget
  <2>4. ASSUME NEW c \in Calls, SetBalances(c) PROVE TypeOK'
    <3>1. UpdatedBalances(snapshot[c], Req[c]) \in Wallets
      BY <2>a, ArithmeticType
    <3>. QED BY <2>4, <2>a, <3>1 DEF SetBalances, Goto
  <2>5. ASSUME NEW c \in Calls, SaveTransaction(c) PROVE TypeOK'
    <3>1. Receipt(c) \in EntryType
      BY <2>a, ArithmeticType DEF Receipt, Entry, EntryType
    <3>. QED BY <2>5, <2>b, <3>1 DEF SaveTransaction, Goto, Forget
  <2>6. ASSUME NEW c \in Calls, AddEarning(c) PROVE TypeOK'
    BY <2>6, <2>a, EarnedType DEF AddEarning, Goto
  <2>7. ASSUME Crash PROVE TypeOK'
    BY <2>7 DEF Crash, AfterCrash
  <2>8. CASE UNCHANGED vars
    BY <2>8 DEF vars
  <2>. QED BY <2>1, <2>2, <2>3, <2>4, <2>5, <2>6, <2>7, <2>8 DEF Next
<1>. QED BY <1>1, <1>2, PTL DEF Spec

-----------------------------------------------------------------------------
(* The reason why no interleaving overdraws a purse: not only the wallets   *)
(* but every balance a call still holds in memory is within means, so the   *)
(* stale value it writes is too.                                            *)
Solvent ==
  /\ \A u \in Users : WithinMeans(wallet[u], u)
  /\ \A c \in Calls : WithinMeans(snapshot[c], UserOf(c))

(* Concurrent debits of one player may lose each other's effect, but none   *)
(* drives a purse below zero.                                               *)
THEOREM WalletNeverOverdrawn == Spec => []NeverOverdrawn
<1>. DEFINE Inv == TypeOK /\ Solvent
<1>a. \A c \in Calls : Req[c] \in Requests /\ UserOf(c) \in Users
  BY DEF UserOf, Requests
<1>b. \A u \in Users : WithinMeans(Nothing, u)
  BY DEF WithinMeans, Nothing, Purses
<1>1. Init => Solvent
  BY <1>a, <1>b DEF Init, Solvent, WithinMeans, Purses
<1>2. TypeOK /\ Solvent /\ [Next]_vars => Solvent'
  <2>. SUFFICES ASSUME TypeOK, Solvent, [Next]_vars PROVE Solvent'
    OBVIOUS
  <2>1. ASSUME NEW c \in Calls, ReadWallet(c) PROVE Solvent'
    BY <2>1, <1>a DEF ReadWallet, Solvent, TypeOK
  <2>2. ASSUME NEW c \in Calls, CheckTransaction(c) PROVE Solvent'
    BY <2>2, <1>a, <1>b DEF CheckTransaction, Forget, Solvent, TypeOK
  <2>3. ASSUME NEW c \in Calls, RefuseBalance(c) PROVE Solvent'
    BY <2>3, <1>a, <1>b DEF RefuseBalance, Forget, Solvent, TypeOK
  <2>4. ASSUME NEW c \in Calls, SetBalances(c) PROVE Solvent'
    <3>. DEFINE w == UpdatedBalances(snapshot[c], Req[c])
    <3>1. snapshot[c] \in Wallets /\ WithinMeans(snapshot[c], UserOf(c))
      BY DEF TypeOK, Solvent
    <3>2. w["win"] >= 0
      BY <3>1, <1>a, PurseArithmetic DEF WithinMeans
    <3>3. (\E d \in Calls : UserOf(d) = UserOf(c) /\ TakesBack(Req[d]))
            \/ (w["main"] >= 0 /\ w["bonus"] >= 0)
      BY <3>1, <1>a, PurseArithmetic DEF WithinMeans
    <3>4. WithinMeans(w, UserOf(c))
      BY <3>2, <3>3 DEF WithinMeans
    <3>5. \A u \in Users : WithinMeans(wallet'[u], u)
      BY <2>4, <3>4, <1>a DEF SetBalances, Solvent, TypeOK
    <3>. QED BY <2>4, <3>5 DEF SetBalances, Solvent
  <2>5. ASSUME NEW c \in Calls, SaveTransaction(c) PROVE Solvent'
    BY <2>5, <1>a, <1>b DEF SaveTransaction, Forget, Solvent, TypeOK
  <2>6. ASSUME NEW c \in Calls, AddEarning(c) PROVE Solvent'
    BY <2>6 DEF AddEarning, Solvent
  <2>7. ASSUME Crash PROVE Solvent'
    BY <2>7 DEF Crash, Solvent
  <2>8. CASE UNCHANGED vars
    BY <2>8 DEF vars, Solvent
  <2>. QED BY <2>1, <2>2, <2>3, <2>4, <2>5, <2>6, <2>7, <2>8 DEF Next
<1>3. Solvent => NeverOverdrawn
  BY DEF Solvent, NeverOverdrawn
<1>. QED BY <1>1, <1>2, <1>3, TypeCorrect, PTL DEF Spec

-----------------------------------------------------------------------------
(* A call has a transaction from the moment it saves it, and only referral  *)
(* bonuses have something to do after that.                                 *)
Filing ==
  \A c \in Calls : /\ Filed(c) <=> pc[c] \in {"earn", "done", "unearned"}
                   /\ pc[c] \in {"earn", "unearned"} => Req[c].type = "referral"

LEMMA FilingHolds == Spec => []Filing
<1>1. Init => Filing
  BY DEF Init, Filing, Filed
<1>2. TypeOK /\ Filing /\ [Next]_vars => Filing'
  <2>. SUFFICES ASSUME TypeOK, Filing, [Next]_vars PROVE Filing'
    OBVIOUS
  <2>. USE DEF Filing, TypeOK, Filed
  <2>1. ASSUME NEW c \in Calls, ReadWallet(c) PROVE Filing'
    BY <2>1 DEF ReadWallet, Goto
  <2>2. ASSUME NEW c \in Calls, CheckTransaction(c) PROVE Filing'
    BY <2>2 DEF CheckTransaction, Goto
  <2>3. ASSUME NEW c \in Calls, RefuseBalance(c) PROVE Filing'
    BY <2>3 DEF RefuseBalance, Goto
  <2>4. ASSUME NEW c \in Calls, SetBalances(c) PROVE Filing'
    BY <2>4 DEF SetBalances, Goto
  <2>5. ASSUME NEW c \in Calls, SaveTransaction(c) PROVE Filing'
    <3>1. /\ pc' = [pc EXCEPT ![c] = IF Req[c].type = "referral" THEN "earn" ELSE "done"]
          /\ transactions' = transactions \union {Receipt(c)}
          /\ Receipt(c).call = c
      BY <2>5 DEF SaveTransaction, Goto, Receipt, Entry
    <3>2. \A d \in Calls : Filed(d)' <=> Filed(d) \/ d = c
      BY <3>1
    <3>3. \A d \in Calls : d # c => pc'[d] = pc[d]
      BY <3>1
    <3>4. pc'[c] = IF Req[c].type = "referral" THEN "earn" ELSE "done"
      BY <3>1
    <3>. QED BY <3>2, <3>3, <3>4
  <2>6. ASSUME NEW c \in Calls, AddEarning(c) PROVE Filing'
    BY <2>6 DEF AddEarning, Goto
  <2>7. ASSUME Crash PROVE Filing'
    BY <2>7 DEF Crash, AfterCrash, States, InFlight, Ended
  <2>8. CASE UNCHANGED vars
    BY <2>8 DEF vars
  <2>. QED BY <2>1, <2>2, <2>3, <2>4, <2>5, <2>6, <2>7, <2>8 DEF Next
<1>. QED BY <1>1, <1>2, TypeCorrect, PTL DEF Spec

(* Why a retry is refused: a call that was answered has left its            *)
(* transaction behind, and transactions are never deleted.                  *)
AnswersAreFiled ==
  /\ \A c \in Calls : \A d \in answered[c] :
       pc[d] = "done" /\ SameTransaction(Req[d], Req[c])
  /\ \A c \in Calls : pc[c] = "idle" => answered[c] = {}

(* A request repeated after its answer is refused, whatever else the        *)
(* service is doing, unless its kind is exempt from the check.              *)
THEOREM RetriesAreRefused == Spec => []RetryAfterAnswerRefused
<1>1. Init => AnswersAreFiled /\ RetryAfterAnswerRefused
  BY DEF Init, AnswersAreFiled, RetryAfterAnswerRefused
<1>2. TypeOK /\ Filing /\ AnswersAreFiled /\ RetryAfterAnswerRefused /\ [Next]_vars
        => AnswersAreFiled' /\ RetryAfterAnswerRefused'
  <2>. SUFFICES ASSUME TypeOK, Filing, AnswersAreFiled, RetryAfterAnswerRefused, [Next]_vars
                PROVE  AnswersAreFiled' /\ RetryAfterAnswerRefused'
    OBVIOUS
  <2>. USE DEF AnswersAreFiled, RetryAfterAnswerRefused, TypeOK
  <2>1. ASSUME NEW c \in Calls, ReadWallet(c)
        PROVE  AnswersAreFiled' /\ RetryAfterAnswerRefused'
    BY <2>1 DEF ReadWallet, Goto
  <2>2. ASSUME NEW c \in Calls, CheckTransaction(c)
        PROVE  AnswersAreFiled' /\ RetryAfterAnswerRefused'
    <3>1. answered[c] # {} => AlreadyExists(c, transactions)
      BY DEF AlreadyExists, Filing, Filed
    <3>2. /\ pc[c] = "check" /\ answered' = answered /\ transactions' = transactions
          /\ \/ pc' = [pc EXCEPT ![c] = "refused"]
             \/ answered[c] = {} /\ pc' = [pc EXCEPT ![c] = "apply"]
      BY <3>1, <2>2 DEF CheckTransaction, Goto
    <3>3. CASE pc' = [pc EXCEPT ![c] = "refused"]
      BY <3>2, <3>3
    <3>4. CASE answered[c] = {} /\ pc' = [pc EXCEPT ![c] = "apply"]
      BY <3>2, <3>4
    <3>. QED BY <3>2, <3>3, <3>4
  <2>3. ASSUME NEW c \in Calls, RefuseBalance(c)
        PROVE  AnswersAreFiled' /\ RetryAfterAnswerRefused'
    BY <2>3 DEF RefuseBalance, Goto, Forget
  <2>4. ASSUME NEW c \in Calls, SetBalances(c)
        PROVE  AnswersAreFiled' /\ RetryAfterAnswerRefused'
    BY <2>4 DEF SetBalances, Goto
  <2>5. ASSUME NEW c \in Calls, SaveTransaction(c)
        PROVE  AnswersAreFiled' /\ RetryAfterAnswerRefused'
    <3>1. /\ pc[c] = "save" /\ answered' = answered
          /\ pc' \in {[pc EXCEPT ![c] = "earn"], [pc EXCEPT ![c] = "done"]}
      BY <2>5 DEF SaveTransaction, Goto
    <3>. QED BY <3>1
  <2>6. ASSUME NEW c \in Calls, AddEarning(c)
        PROVE  AnswersAreFiled' /\ RetryAfterAnswerRefused'
    BY <2>6 DEF AddEarning, Goto
  <2>7. ASSUME Crash
        PROVE  AnswersAreFiled' /\ RetryAfterAnswerRefused'
    BY <2>7 DEF Crash, AfterCrash
  <2>8. CASE UNCHANGED vars
    BY <2>8 DEF vars
  <2>. QED BY <2>1, <2>2, <2>3, <2>4, <2>5, <2>6, <2>7, <2>8 DEF Next
<1>. QED BY <1>1, <1>2, TypeCorrect, FilingHolds, PTL DEF Spec

-----------------------------------------------------------------------------
(* What a call can rely on as long as no other call of its player has been  *)
(* at work beside it: it is alone, and the wallet is still as it read it.   *)
OneAtATime ==
  \A c, d \in Calls : /\ Working(c) /\ Working(d) /\ UserOf(c) = UserOf(d)
                      /\ UserOf(c) \notin raced
                      => c = d
FreshSnapshots ==
  \A c \in Calls : pc[c] \in {"check", "apply"} /\ UserOf(c) \notin raced
                     => snapshot[c] = wallet[UserOf(c)]

LEMMA AloneAndFresh == Spec => [](OneAtATime /\ FreshSnapshots)
<1>. DEFINE Inv == OneAtATime /\ FreshSnapshots
<1>1. Init => Inv
  BY DEF Init, OneAtATime, FreshSnapshots, Working, InFlight
<1>2. TypeOK /\ Inv /\ [Next]_vars => Inv'
  <2>. SUFFICES ASSUME TypeOK, Inv, [Next]_vars PROVE Inv'
    OBVIOUS
  <2>. USE DEF TypeOK, OneAtATime, FreshSnapshots, Working, InFlight
  <2>1. ASSUME NEW c \in Calls, ReadWallet(c) PROVE Inv'
    <3>1. /\ pc[c] = "idle" /\ wallet' = wallet
          /\ snapshot' = [snapshot EXCEPT ![c] = wallet[UserOf(c)]]
          /\ pc' \in {[pc EXCEPT ![c] = "check"], [pc EXCEPT ![c] = "apply"]}
          /\ raced \subseteq raced'
      BY <2>1 DEF ReadWallet, Goto
    <3>2. (\E d \in Calls : Working(d) /\ UserOf(d) = UserOf(c)) => UserOf(c) \in raced'
      BY <2>1 DEF ReadWallet
    <3>3. \A d \in Calls : Working(d)' => Working(d) \/ d = c
      BY <3>1
    <3>4. OneAtATime'
      BY <3>1, <3>2, <3>3
    <3>5. FreshSnapshots'
      BY <3>1
    <3>. QED BY <3>4, <3>5
  <2>2. ASSUME NEW c \in Calls, CheckTransaction(c) PROVE Inv'
    BY <2>2 DEF CheckTransaction, Goto, Forget
  <2>3. ASSUME NEW c \in Calls, RefuseBalance(c) PROVE Inv'
    BY <2>3 DEF RefuseBalance, Goto, Forget
  <2>4. ASSUME NEW c \in Calls, SetBalances(c) PROVE Inv'
    <3>1. /\ pc[c] = "apply" /\ pc' = [pc EXCEPT ![c] = "save"]
          /\ \A u \in Users : u # UserOf(c) => wallet'[u] = wallet[u]
          /\ snapshot' = snapshot /\ raced' = raced
      BY <2>4 DEF SetBalances, Goto
    <3>2. OneAtATime'
      BY <3>1
    <3>3. ASSUME NEW d \in Calls, pc'[d] \in {"check", "apply"}, UserOf(d) \notin raced'
          PROVE  snapshot'[d] = wallet'[UserOf(d)]
      <4>1. d # c /\ pc[d] \in {"check", "apply"}
        BY <3>1, <3>3
      <4>2. UserOf(d) # UserOf(c)
        BY <3>1, <3>3, <4>1
      <4>3. UserOf(d) \in Users
        BY DEF UserOf, Requests
      <4>. QED BY <3>1, <3>3, <4>1, <4>2, <4>3
    <3>. QED BY <3>2, <3>3
  <2>5. ASSUME NEW c \in Calls, SaveTransaction(c) PROVE Inv'
    BY <2>5 DEF SaveTransaction, Goto, Forget
  <2>6. ASSUME NEW c \in Calls, AddEarning(c) PROVE Inv'
    BY <2>6 DEF AddEarning, Goto
  <2>7. ASSUME Crash PROVE Inv'
    BY <2>7 DEF Crash, AfterCrash, States, Ended
  <2>8. CASE UNCHANGED vars
    BY <2>8 DEF vars
  <2>. QED BY <2>1, <2>2, <2>3, <2>4, <2>5, <2>6, <2>7, <2>8 DEF Next
<1>. QED BY <1>1, <1>2, TypeCorrect, PTL DEF Spec

(* Only SetBalances books anything: saving the transaction and a restart    *)
(* move an entry from what is meant to what is stored, or leave it behind.  *)
Unbooked == \A c \in Calls : pc[c] \in {"idle", "check", "apply"} =>
              \A e \in Booked : e.call # c

LEMMA BookedIsTyped == TypeOK => Booked \in SUBSET EntryType
<1>1. \A c \in Calls : Req[c] \in Requests
  OBVIOUS
<1>2. TypeOK => \A c \in Calls : Receipt(c) \in EntryType
  BY <1>1, ArithmeticType DEF TypeOK, Receipt, Entry, EntryType
<1>. QED BY <1>2 DEF TypeOK, Booked

LEMMA OnlySetBalancesBooks ==
  ASSUME TypeOK, [Next]_vars
  PROVE  \/ wallet' = wallet /\ Booked' = Booked
         \/ \E c \in Calls : SetBalances(c) /\ Booked' = Booked \union {Receipt(c)}
<1>. DEFINE Pending == {d \in Calls : pc[d] \in {"save", "torn"}}
<1>. USE DEF TypeOK
<1>a. ASSUME wallet' = wallet, transactions' = transactions,
             Pending' = Pending, \A d \in Pending : snapshot'[d] = snapshot[d]
      PROVE  wallet' = wallet /\ Booked' = Booked
  <2>1. \A d \in Pending : Receipt(d)' = Receipt(d)
    BY <1>a DEF Receipt
  <2>. QED BY <1>a, <2>1 DEF Booked
<1>1. ASSUME NEW c \in Calls, ReadWallet(c) PROVE wallet' = wallet /\ Booked' = Booked
  BY <1>1, <1>a DEF ReadWallet, Goto
<1>2. ASSUME NEW c \in Calls, CheckTransaction(c) PROVE wallet' = wallet /\ Booked' = Booked
  BY <1>2, <1>a DEF CheckTransaction, Goto, Forget
<1>3. ASSUME NEW c \in Calls, RefuseBalance(c) PROVE wallet' = wallet /\ Booked' = Booked
  BY <1>3, <1>a DEF RefuseBalance, Goto, Forget
<1>4. ASSUME NEW c \in Calls, SetBalances(c) PROVE Booked' = Booked \union {Receipt(c)}
  <2>1. /\ pc[c] = "apply" /\ pc' = [pc EXCEPT ![c] = "save"]
        /\ transactions' = transactions /\ snapshot' = snapshot
    BY <1>4 DEF SetBalances, Goto
  <2>2. Pending' = Pending \union {c}
    BY <2>1
  <2>3. \A d \in Calls : Receipt(d)' = Receipt(d)
    BY <2>1 DEF Receipt
  <2>. QED BY <2>1, <2>2, <2>3 DEF Booked
<1>5. ASSUME NEW c \in Calls, SaveTransaction(c) PROVE wallet' = wallet /\ Booked' = Booked
  <2>1. /\ pc[c] = "save" /\ pc' = [pc EXCEPT ![c] = IF Req[c].type = "referral"
                                                     THEN "earn" ELSE "done"]
        /\ transactions' = transactions \union {Receipt(c)}
        /\ wallet' = wallet /\ \A d \in Calls \ {c} : snapshot'[d] = snapshot[d]
    BY <1>5 DEF SaveTransaction, Goto, Forget
  <2>2. Pending' = Pending \ {c} /\ c \in Pending
    BY <2>1
  <2>3. \A d \in Calls \ {c} : Receipt(d)' = Receipt(d)
    BY <2>1 DEF Receipt
  <2>. QED BY <2>1, <2>2, <2>3 DEF Booked
<1>6. ASSUME NEW c \in Calls, AddEarning(c) PROVE wallet' = wallet /\ Booked' = Booked
  BY <1>6, <1>a DEF AddEarning, Goto
<1>7. ASSUME Crash PROVE wallet' = wallet /\ Booked' = Booked
  BY <1>7, <1>a DEF Crash, AfterCrash, States, InFlight, Ended
<1>8. CASE UNCHANGED vars
  BY <1>8, <1>a DEF vars
<1>. QED BY <1>1, <1>2, <1>3, <1>4, <1>5, <1>6, <1>7, <1>8 DEF Next

(* A call that has not set the balances has nothing in the book.            *)
LEMMA NothingBookedYet ==
  ASSUME Filing PROVE Unbooked
BY DEF Filing, Filed, Unbooked, Booked, Receipt, Entry

(* The wallet is explained by the book it means to keep, for every player   *)
(* whose calls were never at work together.                                 *)
THEOREM LedgerIsExplained == Spec => []LedgerMatchesBalance
<1>. DEFINE Inv == IsFiniteSet(Booked) /\ LedgerMatchesBalance
<1>1. Init => Inv
  <2>1. Init => Booked = {}
    BY DEF Init, Booked
  <2>. QED BY <2>1, NothingIsExplained, FS_EmptySet DEF Init, LedgerMatchesBalance
<1>2. /\ TypeOK /\ Filing /\ OneAtATime /\ FreshSnapshots /\ Inv /\ [Next]_vars
      => Inv'
  <2>. SUFFICES ASSUME TypeOK, Filing, FreshSnapshots, Inv, [Next]_vars PROVE Inv'
    OBVIOUS
  <2>a. raced \subseteq raced'
    BY DEF Next, vars, ReadWallet, CheckTransaction, RefuseBalance, SetBalances,
           SaveTransaction, AddEarning, Crash
  <2>1. CASE wallet' = wallet /\ Booked' = Booked
    BY <2>a, <2>1 DEF LedgerMatchesBalance
  <2>2. ASSUME NEW c \in Calls, SetBalances(c), Booked' = Booked \union {Receipt(c)}
        PROVE  Inv'
    <3>. DEFINE u == UserOf(c)
                e == Receipt(c)
    <3>1. u \in Users /\ e.call = c /\ Req[c].user = u
      BY DEF UserOf, Requests, Receipt, Entry
    <3>2. pc[c] = "apply" /\ wallet' = [wallet EXCEPT ![u] = UpdatedBalances(snapshot[c], Req[c])]
      BY <2>2 DEF SetBalances
    <3>3. IsFiniteSet(Booked')
      BY <2>2, FS_AddElement
    <3>4. ASSUME NEW v \in Users \ raced', v # u PROVE Explained(v, wallet'[v], Booked')
      <4>1. Explained(v, wallet[v], Booked) /\ wallet'[v] = wallet[v]
        BY <2>a, <3>2, <3>4 DEF LedgerMatchesBalance, TypeOK
      <4>2. Req[e.call].user # v /\ Booked' = Booked \union {e}
        BY <2>2, <3>1, <3>4
      <4>. HIDE DEF e
      <4>. QED BY <4>1, <4>2, BookingOfAnother
    <3>5. ASSUME u \notin raced' PROVE Explained(u, wallet'[u], Booked')
      <4>1. snapshot[c] = wallet[u]
        BY <2>a, <3>2, <3>5 DEF FreshSnapshots
      <4>2. Explained(u, snapshot[c], Booked)
        BY <2>a, <3>1, <3>5, <4>1 DEF LedgerMatchesBalance
      <4>3. \A d \in Booked : d.call # c
        BY <3>2, NothingBookedYet DEF Unbooked
      <4>4. snapshot[c] \in Wallets /\ Booked \in SUBSET EntryType
        BY BookedIsTyped DEF TypeOK
      <4>5. Explained(u, UpdatedBalances(snapshot[c], Req[c]), Booked \union {e})
        BY <3>1, <4>2, <4>3, <4>4, BookingIsExplained DEF Receipt
      <4>6. wallet'[u] = UpdatedBalances(snapshot[c], Req[c])
        BY <3>1, <3>2 DEF TypeOK
      <4>. QED BY <2>2, <4>5, <4>6
    <3>. QED BY <3>3, <3>4, <3>5 DEF LedgerMatchesBalance
  <2>. QED BY <2>1, <2>2, OnlySetBalancesBooks
<1>. QED BY <1>1, <1>2, TypeCorrect, FilingHolds, AloneAndFresh, PTL DEF Spec

-----------------------------------------------------------------------------
(* The calls credited to a player are those that are done.                  *)
LEMMA CreditedCalls ==
  ASSUME Filing, NEW u
  PROVE  Credited(u) = {c \in Calls : /\ UserOf(c) = u /\ Req[c].type = "referral"
                                     /\ pc[c] = "done"}
BY DEF Filing, Credited

(* The earning of a player is the sum of the referral bonuses credited, each *)
(* rounded to paise.                                                        *)
THEOREM EarningIsTheSum == Spec => []EarningMatchesReferrals
<1>. DEFINE Amounts(S) == [c \in S |-> Earned(c)]
            Finite == \A u \in Users : IsFiniteSet(Credited(u))
            Inv == Finite /\ EarningMatchesReferrals
<1>1. Init => Inv
  <2>. SUFFICES ASSUME Init, NEW u \in Users
                PROVE  IsFiniteSet(Credited(u)) /\ earning[u] = SumFunction(Amounts(Credited(u)))
    BY DEF EarningMatchesReferrals
  <2>1. Credited(u) = {}
    BY DEF Init, Credited, Filed
  <2>. DEFINE v == Amounts({})
  <2>2. DOMAIN v = {}
    OBVIOUS
  <2>3. SumFunctionOnSet(v, {}) = 0
    <3>. HIDE DEF v
    <3>. QED BY FS_EmptySet, SumUnfolds
  <2>. QED BY <2>1, <2>2, <2>3, FS_EmptySet DEF Init, SumFunction
<1>2. TypeOK /\ Filing /\ Inv /\ [Next]_vars /\ Filing' => Inv'
  <2>. SUFFICES ASSUME TypeOK, Filing, Inv, [Next]_vars, Filing' PROVE Inv'
    OBVIOUS
  <2>. DEFINE Done(u) == {c \in Calls : /\ UserOf(c) = u /\ Req[c].type = "referral"
                                        /\ pc[c] = "done"}
  <2>a. \A u : Credited(u) = Done(u) /\ Credited(u)' = Done(u)'
    BY CreditedCalls DEF Filing, Credited
  <2>b. ASSUME earning' = earning,
               \A c \in Calls : Req[c].type = "referral" => (pc[c] = "done" <=> pc'[c] = "done")
        PROVE  Inv'
    <3>1. \A u : Credited(u)' = Credited(u)
      BY <2>a, <2>b
    <3>. QED BY <2>b, <3>1 DEF EarningMatchesReferrals
  <2>. USE DEF TypeOK
  <2>1. ASSUME NEW c \in Calls, ReadWallet(c) PROVE Inv'
    BY <2>1, <2>b DEF ReadWallet, Goto
  <2>2. ASSUME NEW c \in Calls, CheckTransaction(c) PROVE Inv'
    BY <2>2, <2>b DEF CheckTransaction, Goto
  <2>3. ASSUME NEW c \in Calls, RefuseBalance(c) PROVE Inv'
    BY <2>3, <2>b DEF RefuseBalance, Goto
  <2>4. ASSUME NEW c \in Calls, SetBalances(c) PROVE Inv'
    BY <2>4, <2>b DEF SetBalances, Goto
  <2>5. ASSUME NEW c \in Calls, SaveTransaction(c) PROVE Inv'
    BY <2>5, <2>b DEF SaveTransaction, Goto
  <2>6. ASSUME NEW c \in Calls, AddEarning(c) PROVE Inv'
    <3>. DEFINE u == UserOf(c)
                S == Credited(u)
                v == Amounts(S)
                w == Amounts(S \union {c})
    <3>1. /\ pc[c] = "earn" /\ pc' = [pc EXCEPT ![c] = "done"]
          /\ earning' = [earning EXCEPT ![u] = @ + Earned(c)]
      BY <2>6 DEF AddEarning, Goto
    <3>2. Req[c].type = "referral" /\ u \in Users /\ \A d \in Calls : Earned(d) \in Nat
      BY <3>1, EarnedType DEF Filing, UserOf, Requests
    <3>3. c \notin S /\ Credited(u)' = S \union {c}
      BY <2>a, <3>1, <3>2
    <3>4. ASSUME NEW x \in Users, x # u
          PROVE  IsFiniteSet(Credited(x)') /\ earning'[x] = SumFunction(Amounts(Credited(x)'))
      <4>1. Credited(x)' = Credited(x) /\ earning'[x] = earning[x]
        BY <2>a, <3>1, <3>4
      <4>. QED BY <4>1 DEF EarningMatchesReferrals
    <3>5. IsFiniteSet(S) /\ earning[u] = SumFunctionOnSet(v, S) /\ IsFiniteSet(S \union {c})
      BY <3>2, FS_AddElement DEF EarningMatchesReferrals, SumFunction
    <3>6. /\ \A d \in S : v[d] = w[d]
          /\ \A d \in S \union {c} : w[d] = Earned(d) /\ w[d] \in Int
          /\ DOMAIN w = S \union {c}
      BY <3>2 DEF Credited
    <3>7. SumFunctionOnSet(w, S \union {c}) = Earned(c) + earning[u]
      <4>. HIDE DEF S, v, w
      <4>1. SumFunctionOnSet(v, S) = SumFunctionOnSet(w, S)
        BY <3>5, <3>6, SumDepends
      <4>2. SumFunctionOnSet(w, S \union {c}) = w[c] + SumFunctionOnSet(w, S)
        BY <3>3, <3>5, <3>6, SumGrows
      <4>. QED BY <3>5, <3>6, <4>1, <4>2
    <3>8. earning'[u] = SumFunction(Amounts(Credited(u)')) /\ IsFiniteSet(Credited(u)')
      <4>1. earning'[u] = earning[u] + Earned(c) /\ earning[u] \in Nat
        BY <3>1, <3>2
      <4>2. Earned(c) + earning[u] = earning[u] + Earned(c)
        BY <3>2, <4>1
      <4>3. SumFunction(w) = earning'[u]
        BY <3>6, <3>7, <4>1, <4>2 DEF SumFunction
      <4>. QED BY <3>3, <3>5, <4>3
    <3>. QED BY <3>4, <3>8 DEF EarningMatchesReferrals
  <2>7. ASSUME Crash PROVE Inv'
    BY <2>7, <2>b DEF Crash, AfterCrash, States, InFlight, Ended
  <2>8. CASE UNCHANGED vars
    BY <2>8, <2>b DEF vars
  <2>. QED BY <2>1, <2>2, <2>3, <2>4, <2>5, <2>6, <2>7, <2>8 DEF Next
<1>. QED BY <1>1, <1>2, TypeCorrect, FilingHolds, PTL DEF Spec

(* Whatever interleaves and whenever the service dies: the balances of the  *)
(* players who did not race with themselves are what was booked, no purse   *)
(* is overdrawn and the earnings are the referral bonuses credited.         *)
THEOREM WalletIsSound == Spec => []WalletStaysSound
<1>1. LedgerMatchesBalance /\ NeverOverdrawn /\ EarningMatchesReferrals => WalletStaysSound
  BY DEF WalletStaysSound
<1>. QED BY <1>1, LedgerIsExplained, WalletNeverOverdrawn, EarningIsTheSum, PTL

-----------------------------------------------------------------------------
(* What the double transaction check has seen is still so when the balances *)
(* are set: whoever could have booked the same transaction meanwhile is a   *)
(* call of the same player.                                                 *)
Checked ==
  \A c \in Calls : pc[c] = "apply" /\ Undisturbed /\ ~SkipsDoubleCheck(Req[c])
                     => ~AlreadyExists(c, Booked)
NoneTorn == crashes = 0 => \A c \in Calls : pc[c] # "torn"

LEMMA CheckedStays == Spec => [](Checked /\ NoneTorn)
<1>. DEFINE Inv == Checked /\ NoneTorn
<1>1. Init => Inv
  BY DEF Init, Checked, NoneTorn
<1>2. /\ TypeOK /\ Filing /\ OneAtATime /\ Inv /\ [Next]_vars
      => Inv'
  <2>. SUFFICES ASSUME TypeOK, OneAtATime, Inv, [Next]_vars PROVE Inv'
    OBVIOUS
  <2>. USE DEF TypeOK
  <2>a. Undisturbed' => Undisturbed
    BY DEF Undisturbed, Next, vars, ReadWallet, CheckTransaction, RefuseBalance,
           SetBalances, SaveTransaction, AddEarning, Crash
  <2>b. ASSUME Booked' = Booked,
               \A c \in Calls : pc'[c] = "apply" /\ ~SkipsDoubleCheck(Req[c]) => pc[c] = "apply"
        PROVE  Checked'
    BY <2>a, <2>b DEF Checked, AlreadyExists
  <2>c. NoneTorn'
    BY DEF NoneTorn, Next, vars, ReadWallet, CheckTransaction, RefuseBalance, SetBalances,
           SaveTransaction, AddEarning, Crash, Goto
  <2>d. SUFFICES ASSUME Undisturbed' PROVE Checked'
    <3>1. ~Undisturbed' => Checked'
      BY DEF Checked
    <3>. QED BY <2>c, <2>d, <3>1
  <2>1. CASE wallet' = wallet /\ Booked' = Booked
    <3>1. ASSUME NEW c \in Calls, ReadWallet(c) PROVE Checked'
      BY <2>1, <2>b, <3>1 DEF ReadWallet, Goto
    <3>2. ASSUME NEW c \in Calls, CheckTransaction(c) PROVE Checked'
      <4>1. ASSUME NEW d \in Calls, pc'[d] = "apply", ~SkipsDoubleCheck(Req[d])
            PROVE  ~AlreadyExists(d, Booked')
        <5>1. CASE d # c
          BY <2>1, <2>a, <2>d, <3>2, <4>1, <5>1 DEF Checked, CheckTransaction, Goto
        <5>2. CASE d = c
          <6>1. pc[c] = "check" /\ ~AlreadyExists(c, transactions)
            BY <3>2, <4>1, <5>2 DEF CheckTransaction, Goto
          <6>2. ASSUME NEW b \in Calls, pc[b] \in {"save", "torn"},
                       UserOf(b) = UserOf(c)
                PROVE  FALSE
            <7>1. pc[b] = "save"
              BY <2>a, <2>d, <6>2 DEF NoneTorn, Undisturbed
            <7>. QED BY <2>a, <2>d, <6>1, <6>2, <7>1
                 DEF OneAtATime, Working, InFlight, Undisturbed
          <6>3. \A e \in Booked : SameTransaction(Req[e.call], Req[c]) => e \in transactions
            BY <6>2 DEF Booked, Receipt, Entry, SameTransaction, UserOf
          <6>. QED BY <2>1, <5>2, <6>1, <6>3 DEF AlreadyExists
        <5>. QED BY <5>1, <5>2
      <4>. QED BY <4>1 DEF Checked, AlreadyExists
    <3>3. ASSUME NEW c \in Calls, RefuseBalance(c) PROVE Checked'
      BY <2>1, <2>b, <3>3 DEF RefuseBalance, Goto
    <3>4. ASSUME NEW c \in Calls, SetBalances(c) PROVE Checked'
      BY <2>1, <2>b, <3>4 DEF SetBalances, Goto
    <3>5. ASSUME NEW c \in Calls, SaveTransaction(c) PROVE Checked'
      BY <2>1, <2>b, <3>5 DEF SaveTransaction, Goto
    <3>6. ASSUME NEW c \in Calls, AddEarning(c) PROVE Checked'
      BY <2>1, <2>b, <3>6 DEF AddEarning, Goto
    <3>7. ASSUME Crash PROVE Checked'
      BY <2>1, <2>b, <3>7 DEF Crash, AfterCrash
    <3>8. CASE UNCHANGED vars
      BY <2>1, <2>b, <3>8 DEF vars
    <3>. QED BY <3>1, <3>2, <3>3, <3>4, <3>5, <3>6, <3>7, <3>8 DEF Next
  <2>2. ASSUME NEW c \in Calls, SetBalances(c), Booked' = Booked \union {Receipt(c)}
        PROVE  Checked'
    <3>1. ASSUME NEW d \in Calls, pc'[d] = "apply", ~SkipsDoubleCheck(Req[d])
          PROVE  ~AlreadyExists(d, Booked')
      <4>1. pc[c] = "apply" /\ pc[d] = "apply" /\ d # c
        BY <2>2, <3>1 DEF SetBalances, Goto
      <4>2. ~AlreadyExists(d, Booked)
        BY <2>a, <2>d, <3>1, <4>1 DEF Checked
      <4>3. UserOf(d) # UserOf(c)
        BY <2>a, <2>d, <4>1 DEF OneAtATime, Working, InFlight, Undisturbed
      <4>4. Receipt(c).call = c
        BY DEF Receipt, Entry
      <4>. QED BY <2>2, <4>2, <4>3, <4>4 DEF AlreadyExists, SameTransaction, UserOf
    <3>. QED BY <3>1 DEF Checked, AlreadyExists
  <2>. QED BY <2>1, <2>2, OnlySetBalancesBooks
<1>. QED BY <1>1, <1>2, TypeCorrect, FilingHolds, AloneAndFresh, PTL DEF Spec

(* The book splits and compares requests as the wallet does.                *)
LEMMA SameArithmetic ==
  ASSUME NEW w, NEW r, NEW c, NEW book
  PROVE  /\ Book!SkipsDoubleCheck(r) = SkipsDoubleCheck(r)
         /\ Book!AlreadyExists(c, book) = AlreadyExists(c, book)
         /\ Book!NotEnoughBalance(w, r) = NotEnoughBalance(w, r)
         /\ Book!UpdatedBalances(w, r) = UpdatedBalances(w, r)
         /\ Book!Entry(c, Book!BreakDown(w, r)) = Entry(c, BreakDown(w, r))
<1>1. Book!Purses = Purses /\ Book!PAISA = PAISA /\ Book!TOLERANCE = TOLERANCE
  BY DEF Book!Purses, Purses, Book!PAISA, PAISA, Book!TOLERANCE, TOLERANCE
<1>2. Book!DeductionFromBonus(w, r) = DeductionFromBonus(w, r)
  BY DEF Book!DeductionFromBonus, DeductionFromBonus, Book!Least, Least
<1>3. Book!AmountAfterBonus(w, r) = AmountAfterBonus(w, r)
  BY <1>2 DEF Book!AmountAfterBonus, AmountAfterBonus, Book!Sign, Sign
<1>4. Book!DeductionFromMain(w, r) = DeductionFromMain(w, r)
  BY <1>3 DEF Book!DeductionFromMain, DeductionFromMain, Book!Least, Least
<1>5. Book!DeductionFromWinning(w, r) = DeductionFromWinning(w, r)
  BY <1>3, <1>4 DEF Book!DeductionFromWinning, DeductionFromWinning
<1>6. Book!Deductions(w, r) = Deductions(w, r)
  BY <1>1, <1>2, <1>4, <1>5 DEF Book!Deductions, Deductions
<1>7. Book!BreakDown(w, r) = BreakDown(w, r)
  BY <1>1, <1>6 DEF Book!BreakDown, BreakDown
<1>8. Book!Sign(r) = Sign(r)
  BY DEF Book!Sign, Sign
<1>9. \A x : Book!ToFixed2(x) = ToFixed2(x)
  BY <1>1 DEF Book!ToFixed2, ToFixed2
<1>10. Book!UpdatedBalances(w, r) = UpdatedBalances(w, r)
  BY <1>1, <1>7, <1>8, <1>9 DEF Book!UpdatedBalances, UpdatedBalances
<1>11. Book!NotEnoughBalance(w, r) = NotEnoughBalance(w, r)
  BY <1>1, <1>6 DEF Book!NotEnoughBalance, NotEnoughBalance, Book!RoundsToZero, RoundsToZero
<1>12. Book!SkipsDoubleCheck(r) = SkipsDoubleCheck(r)
  BY DEF Book!SkipsDoubleCheck, SkipsDoubleCheck
<1>13. Book!AlreadyExists(c, book) = AlreadyExists(c, book)
  BY DEF Book!AlreadyExists, AlreadyExists, Book!SameTransaction, SameTransaction
<1>14. Book!Entry(c, Book!BreakDown(w, r)) = Entry(c, BreakDown(w, r))
  BY <1>7 DEF Book!Entry, Entry
<1>. QED BY <1>10, <1>11, <1>12, <1>13, <1>14

(* Without races and restarts #updateWallet, four database operations long, *)
(* is the indivisible step of the account book.                             *)
THEOREM WalletImplementsTheBook == Spec => BookIsImplemented
<1>1. Init => Book!Init
  BY DEF Init, Book!Init, Booked
<1>2. /\ TypeOK /\ Filing /\ OneAtATime /\ FreshSnapshots /\ Checked /\ [Next]_vars
      => (Undisturbed' => [Book!Next]_(Book!vars))
  <2>. SUFFICES ASSUME TypeOK, Filing, FreshSnapshots, Checked, [Next]_vars, Undisturbed'
                PROVE  [Book!Next]_(Book!vars)
    OBVIOUS
  <2>a. Undisturbed
    BY DEF Undisturbed, Next, vars, ReadWallet, CheckTransaction, RefuseBalance,
           SetBalances, SaveTransaction, AddEarning, Crash, TypeOK
  <2>1. CASE wallet' = wallet /\ Booked' = Booked
    BY <2>1 DEF Book!vars
  <2>2. ASSUME NEW c \in Calls, SetBalances(c), Booked' = Booked \union {Receipt(c)}
        PROVE  Book!Apply(c)
    <3>. DEFINE r == Req[c]
                w == wallet[r.user]
    <3>1. pc[c] = "apply" /\ snapshot[c] = w
      BY <2>2, <2>a DEF SetBalances, FreshSnapshots, Undisturbed, UserOf
    <3>2. \A e \in Booked : e.call # c
      BY <3>1, NothingBookedYet DEF Unbooked
    <3>3. SkipsDoubleCheck(r) \/ ~AlreadyExists(c, Booked)
      BY <3>1, <2>a DEF Checked
    <3>4. ~NotEnoughBalance(w, r)
      BY <2>2, <3>1 DEF SetBalances
    <3>5. wallet' = [wallet EXCEPT ![r.user] = UpdatedBalances(w, r)]
      BY <2>2, <3>1 DEF SetBalances, UserOf
    <3>6. Booked' = Booked \union {Entry(c, BreakDown(w, r))}
      BY <2>2, <3>1 DEF Receipt
    <3>. QED BY <3>2, <3>3, <3>4, <3>5, <3>6, SameArithmetic DEF Book!Apply
  <2>. QED BY <2>1, <2>2, OnlySetBalancesBooks DEF Book!Next
<1>. QED BY <1>1, <1>2, TypeCorrect, FilingHolds, AloneAndFresh, CheckedStays, PTL
     DEF Spec, BookIsImplemented
-----------------------------------------------------------------------------
(* The account book by itself, the indivisible wallet that #updateWallet    *)
(* is while nothing disturbs it.                                            *)
VARIABLES balance, book

Acc == INSTANCE AccountBook

(* It splits, compares and adds up as the wallet does.                      *)
LEMMA SameAccount ==
  ASSUME NEW w, NEW r, NEW c, NEW entries
  PROVE  /\ Acc!SkipsDoubleCheck(r) = SkipsDoubleCheck(r)
         /\ Acc!AlreadyExists(c, entries) = AlreadyExists(c, entries)
         /\ Acc!NotEnoughBalance(w, r) = NotEnoughBalance(w, r)
         /\ Acc!UpdatedBalances(w, r) = UpdatedBalances(w, r)
         /\ Acc!BreakDown(w, r) = BreakDown(w, r) /\ Acc!Entry(c, w) = Entry(c, w)
         /\ Acc!TOLERANCE = TOLERANCE /\ Acc!Total(w) = Total(w)
<1>1. Acc!Purses = Purses /\ Acc!PAISA = PAISA /\ Acc!TOLERANCE = TOLERANCE
  BY DEF Acc!Purses, Purses, Acc!PAISA, PAISA, Acc!TOLERANCE, TOLERANCE
<1>2. Acc!DeductionFromBonus(w, r) = DeductionFromBonus(w, r)
  BY DEF Acc!DeductionFromBonus, DeductionFromBonus, Acc!Least, Least
<1>3. Acc!AmountAfterBonus(w, r) = AmountAfterBonus(w, r)
  BY <1>2 DEF Acc!AmountAfterBonus, AmountAfterBonus, Acc!Sign, Sign
<1>4. Acc!DeductionFromMain(w, r) = DeductionFromMain(w, r)
  BY <1>3 DEF Acc!DeductionFromMain, DeductionFromMain, Acc!Least, Least
<1>5. Acc!DeductionFromWinning(w, r) = DeductionFromWinning(w, r)
  BY <1>3, <1>4 DEF Acc!DeductionFromWinning, DeductionFromWinning
<1>6. Acc!Deductions(w, r) = Deductions(w, r)
  BY <1>1, <1>2, <1>4, <1>5 DEF Acc!Deductions, Deductions
<1>7. Acc!BreakDown(w, r) = BreakDown(w, r)
  BY <1>1, <1>6 DEF Acc!BreakDown, BreakDown
<1>8. Acc!Sign(r) = Sign(r)
  BY DEF Acc!Sign, Sign
<1>9. \A x : Acc!ToFixed2(x) = ToFixed2(x)
  BY <1>1 DEF Acc!ToFixed2, ToFixed2
<1>10. Acc!UpdatedBalances(w, r) = UpdatedBalances(w, r)
  BY <1>1, <1>7, <1>8, <1>9 DEF Acc!UpdatedBalances, UpdatedBalances
<1>11. Acc!NotEnoughBalance(w, r) = NotEnoughBalance(w, r)
  BY <1>1, <1>6 DEF Acc!NotEnoughBalance, NotEnoughBalance, Acc!RoundsToZero, RoundsToZero
<1>12. Acc!SkipsDoubleCheck(r) = SkipsDoubleCheck(r)
  BY DEF Acc!SkipsDoubleCheck, SkipsDoubleCheck
<1>13. Acc!AlreadyExists(c, entries) = AlreadyExists(c, entries)
  BY DEF Acc!AlreadyExists, AlreadyExists, Acc!SameTransaction, SameTransaction
<1>14. Acc!Entry(c, w) = Entry(c, w) /\ Acc!Total(w) = Total(w)
  BY DEF Acc!Entry, Entry, Acc!Total, Total
<1>. QED BY <1>1, <1>7, <1>10, <1>11, <1>12, <1>13, <1>14

LEMMA SameTypes == Acc!TypeOK <=> balance \in [Users -> Wallets] /\ book \in SUBSET EntryType
BY DEF Acc!TypeOK, Acc!Wallets, Wallets, Acc!Purses, Purses, Acc!EntryType, EntryType

LEMMA SameBooks ==
  ASSUME NEW u, NEW w, NEW entries
  PROVE  Acc!Explained(u, w, entries) = Explained(u, w, entries)
<1>1. Acc!Purses = Purses /\ Acc!PAISA = PAISA /\ \A r : Acc!Sign(r) = Sign(r)
  BY DEF Acc!Purses, Purses, Acc!PAISA, PAISA, Acc!Sign, Sign
<1>2. Acc!EntriesOf(u, entries) = EntriesOf(u, entries)
  BY DEF Acc!EntriesOf, EntriesOf
<1>3. \A f : Acc!SumFunction(f) = SumFunction(f)
  BY DEF Acc!SumFunction, SumFunction, Acc!SumFunctionOnSet, SumFunctionOnSet,
         Acc!FoldFunctionOnSet, FoldFunctionOnSet, Acc!MapThenFoldSet, MapThenFoldSet
<1>4. \A S : Acc!Cardinality(S) = Cardinality(S)
  BY DEF Acc!Cardinality, Cardinality
<1>5. ASSUME NEW p PROVE Acc!Posted(u, p, entries) = Posted(u, p, entries)
  BY <1>1, <1>2, <1>3 DEF Acc!Posted, Posted
<1>6. \A a, b : Acc!Distance(a, b) = Distance(a, b)
  BY DEF Acc!Distance, Distance
<1>. QED BY <1>1, <1>2, <1>4, <1>5, <1>6 DEF Acc!Explained, Explained

(* The book and the balances keep their types.                              *)
THEOREM BookTypeCorrect == Acc!Spec => []Acc!TypeOK
<1>1. Acc!Init => Acc!TypeOK
  BY SameTypes DEF Acc!Init, Wallets, EntryType
<1>2. Acc!TypeOK /\ [Acc!Next]_(Acc!vars) => Acc!TypeOK'
  <2>. SUFFICES ASSUME Acc!TypeOK, [Acc!Next]_(Acc!vars) PROVE Acc!TypeOK'
    OBVIOUS
  <2>1. ASSUME NEW c \in Calls, Acc!Apply(c) PROVE Acc!TypeOK'
    <3>1. Req[c] \in Requests /\ Req[c].user \in Users
      BY DEF Requests
    <3>2. balance[Req[c].user] \in Wallets
      BY <3>1, SameTypes
    <3>3. /\ UpdatedBalances(balance[Req[c].user], Req[c]) \in Wallets
          /\ Entry(c, BreakDown(balance[Req[c].user], Req[c])) \in EntryType
      BY <3>1, <3>2, ArithmeticType DEF Entry, EntryType
    <3>4. /\ balance' = [balance EXCEPT ![Req[c].user] =
                                UpdatedBalances(balance[Req[c].user], Req[c])]
          /\ book' = book \union {Entry(c, BreakDown(balance[Req[c].user], Req[c]))}
      BY <2>1, SameAccount DEF Acc!Apply
    <3>5. balance' \in [Users -> Wallets] /\ book' \in SUBSET EntryType
      BY <3>1, <3>3, <3>4, SameTypes
    <3>. QED BY <3>5, SameTypes DEF Acc!TypeOK, Acc!Wallets, Wallets, Acc!Purses, Purses, Acc!EntryType, EntryType
  <2>2. CASE UNCHANGED Acc!vars
    BY <2>2 DEF Acc!vars, Acc!TypeOK
  <2>. QED BY <2>1, <2>2 DEF Acc!Next
<1>. QED BY <1>1, <1>2, PTL DEF Acc!Spec

(* Every booked debit takes its amount, up to the shortage the code         *)
(* forgives as rounding.                                                    *)
THEOREM DebitsAreWhole == Acc!Spec => []Acc!DebitsTakeTheirAmount
<1>1. Acc!Init => Acc!DebitsTakeTheirAmount
  BY DEF Acc!Init, Acc!DebitsTakeTheirAmount
<1>2. Acc!TypeOK /\ Acc!DebitsTakeTheirAmount /\ [Acc!Next]_(Acc!vars) => Acc!DebitsTakeTheirAmount'
  <2>. SUFFICES ASSUME Acc!TypeOK, Acc!DebitsTakeTheirAmount, [Acc!Next]_(Acc!vars)
                PROVE  Acc!DebitsTakeTheirAmount'
    OBVIOUS
  <2>1. ASSUME NEW c \in Calls, Acc!Apply(c) PROVE Acc!DebitsTakeTheirAmount'
    <3>. DEFINE r == Req[c]
                w == balance[r.user]
                d == Deductions(w, r)
                b == BreakDown(w, r)
    <3>1. r \in Requests /\ Total(r.fee) = r.amount /\ r.amount \in Int
      BY DEF Requests
    <3>2. w \in Wallets
      BY <3>1, SameTypes DEF Requests
    <3>3. \A p \in Purses : w[p] \in Int /\ d[p] \in Int /\ b[p] \in Int
      BY <3>1, <3>2, ArithmeticType DEF Wallets
    <3>4. ASSUME ~r.credit
          PROVE  Total(b) <= r.amount /\ r.amount - Total(b) < TOLERANCE
      <4>1. d["main"] + d["win"] + d["bonus"] = r.amount
        BY <3>1, <3>2, <3>4, DebitAddsUp DEF Total
      <4>2. b["main"] = d["main"] /\ b["bonus"] = d["bonus"]
        BY DEF BreakDown, Purses
      <4>3. b["win"] = IF w["win"] < d["win"] THEN w["win"] ELSE d["win"]
        BY <3>4 DEF BreakDown, Purses
      <4>4. w["win"] < d["win"] => d["win"] - w["win"] < TOLERANCE
        BY <2>1, <3>4, SameAccount DEF Acc!Apply, NotEnoughBalance, RoundsToZero
      <4>. QED BY <3>1, <3>3, <4>1, <4>2, <4>3, <4>4 DEF Total, TOLERANCE, Purses
    <3>5. book' = book \union {Entry(c, b)}
      BY <2>1, SameAccount DEF Acc!Apply
    <3>6. Entry(c, b).call = c /\ Entry(c, b).breakDown = b
      BY DEF Entry
    <3>. QED BY <3>4, <3>5, <3>6, SameAccount DEF Acc!DebitsTakeTheirAmount
  <2>2. CASE UNCHANGED Acc!vars
    BY <2>2 DEF Acc!vars, Acc!DebitsTakeTheirAmount
  <2>. QED BY <2>1, <2>2 DEF Acc!Next
<1>. QED BY <1>1, <1>2, BookTypeCorrect, PTL DEF Acc!Spec

-----------------------------------------------------------------------------
(* The book explains the balances: whatever is booked, each purse is the    *)
(* opening one plus all its bookings, within half a paisa for each.         *)
THEOREM BalancesAreExplained == Acc!Spec => []Acc!BookExplainsBalance
<1>. DEFINE Inv == IsFiniteSet(book) /\ Acc!BookExplainsBalance
<1>1. Acc!Init => Inv
  BY NothingIsExplained, FS_EmptySet, SameBooks DEF Acc!Init, Acc!BookExplainsBalance
<1>2. Acc!TypeOK /\ Inv /\ [Acc!Next]_(Acc!vars) => Inv'
  <2>. SUFFICES ASSUME Acc!TypeOK, Inv, [Acc!Next]_(Acc!vars) PROVE Inv'
    OBVIOUS
  <2>1. ASSUME NEW c \in Calls, Acc!Apply(c) PROVE Inv'
    <3>. DEFINE u == Req[c].user
                w == balance[u]
                e == Entry(c, BreakDown(w, Req[c]))
    <3>1. u \in Users /\ w \in Wallets /\ e.call = c
      BY SameTypes DEF Requests, Entry
    <3>2. /\ balance' = [balance EXCEPT ![u] = UpdatedBalances(w, Req[c])]
          /\ book' = book \union {e}
          /\ \A d \in book : d.call # c
      BY <2>1, SameAccount DEF Acc!Apply
    <3>3. Explained(u, UpdatedBalances(w, Req[c]), book \union {e})
      BY <3>1, <3>2, BookingIsExplained, SameTypes, SameBooks DEF Acc!BookExplainsBalance
    <3>4. ASSUME NEW v \in Users, v # u PROVE Explained(v, balance[v], book \union {e})
      <4>1. Explained(v, balance[v], book)
        BY SameBooks DEF Acc!BookExplainsBalance
      <4>. HIDE DEF e
      <4>. QED BY <3>1, <3>4, <4>1, BookingOfAnother
    <3>5. ASSUME NEW v \in Users PROVE Explained(v, balance'[v], book')
      <4>. HIDE DEF e
      <4>. QED BY <3>1, <3>2, <3>3, <3>4, SameTypes
    <3>6. IsFiniteSet(book')
      BY <3>2, FS_AddElement
    <3>. QED BY <3>5, <3>6, SameBooks DEF Acc!BookExplainsBalance
  <2>2. CASE UNCHANGED Acc!vars
    BY <2>2 DEF Acc!vars, Acc!BookExplainsBalance
  <2>. QED BY <2>1, <2>2 DEF Acc!Next
<1>. QED BY <1>1, <1>2, BookTypeCorrect, PTL DEF Acc!Spec
=============================================================================
