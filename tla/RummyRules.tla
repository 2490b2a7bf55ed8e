----------------------------- MODULE RummyRules -----------------------------
(***************************************************************************)
(* The rules of Rummy: which groups of cards are sequences or sets, whether *)
(* a declared hand is valid, and what it costs when it is not.  A group is  *)
(* the sequence of its cards, sorted by number as the code sorts it; every  *)
(* group arrives with the state the client claims for it.                   *)
(***************************************************************************)
EXTENDS Integers, FiniteSets, Sequences, SequencesExt

CONSTANTS Hands,          \* hands: groups [cards |-> , claim |-> kind], with sorted cards
                          \* [number |-> 0 or 2..14, suit |-> ]
          WildNumber,     \* the number of the wild card, never a joker's
          MaxScore        \* 80

Kinds == {"undefined", "pureSequence", "impureSequence", "set"}

VARIABLES hand, declared

vars == <<hand, declared>>

TypeOK ==
  /\ {hand[i].claim : i \in DOMAIN hand} \subseteq Kinds
  /\ {declared.made, declared.valid, declared.decValid} \subseteq BOOLEAN
  /\ declared.score \in 0..MaxScore

NotYet == [made |-> FALSE, valid |-> FALSE, decValid |-> FALSE, score |-> 0]
Init == hand \in Hands /\ declared = NotYet
-----------------------------------------------------------------------------
Joker(card) == card.number = 0 \/ card.number = WildNumber
Real(cards) == SelectSeq(cards, LAMBDA c : ~Joker(c))
Jokers(cards) == Len(cards) - Len(Real(cards))

OneSuit(cards) == \A i \in DOMAIN cards : cards[i].suit = cards[1].suit
AceLow(n) == <<1>> \o Front(n)
Numbers(cards) == [i \in DOMAIN cards |-> cards[i].number]
Consecutive(n) == \A i \in 2..Len(n) : n[i] - n[i - 1] = 1
Rising(n) == \A i \in 2..Len(n) : n[i] > n[i - 1]

(* checkPureSequence: an ace that does not follow the king goes first.      *)
CheckPureSequence(cards) ==
  LET n == Numbers(cards)
  IN  OneSuit(cards) /\ (Consecutive(n) \/ (Last(n) = 14 /\ Consecutive(AceLow(n))))

(* What is missing between the cards of a run.                              *)
Missing(n) == Last(n) - n[1] + 1 - Len(n)

(* Mutant: an ace is never taken as a one.                                  *)
AceAlwaysHigh(cards) ==
  LET n == Numbers(Real(cards))
  IN  Len(n) <= 1 \/ (OneSuit(Real(cards)) /\ Rising(n) /\ Missing(n) <= Jokers(cards))

(* checkImpureSequence: jokers and wild cards fill what is missing.         *)
CheckImpureSequence(cards) ==
  LET n == Numbers(Real(cards))
  IN  \/ Len(n) <= 1
      \/ /\ OneSuit(Real(cards)) /\ Rising(n)
         /\ \/ Missing(n) <= Jokers(cards)
            \/ (Last(n) = 14 /\ Missing(AceLow(n)) <= Jokers(cards))

(* checkSet                                                                 *)
CheckSet(cards) ==
  LET real == Real(cards)
  IN  \/ Len(real) <= 1
      \/ \A i, k \in DOMAIN real : i # k => real[i].number = real[k].number /\ real[i].suit # real[k].suit

Valid(group) ==
  Len(group.cards) >= 3
    /\ (CheckPureSequence(group.cards) \/ CheckImpureSequence(group.cards) \/ CheckSet(group.cards))

(* The state of a group that is not valid stays what the client says it is. *)
Kind(group) ==
  CASE ~Valid(group) -> group.claim
    [] CheckPureSequence(group.cards) -> "pureSequence"
    [] OTHER -> IF CheckImpureSequence(group.cards) THEN "impureSequence" ELSE "set"

Count(groups, kind) == Cardinality({i \in DOMAIN groups : Kind(groups[i]) = kind})

(* checkDeclaredCards: one pure sequence, and two sequences in all.         *)
EnoughSequences(groups) ==
  /\ Count(groups, "pureSequence") > 0
  /\ Count(groups, "pureSequence") + Count(groups, "impureSequence") >= 2

(* calculateScore                                                           *)
CardScore(card) == IF Joker(card) THEN 0 ELSE IF card.number >= 11 THEN 10 ELSE card.number
GroupScore(group) == FoldLeft(LAMBDA sum, c : sum + CardScore(c), 0, group.cards)
CalculateScore(groups, decValid) ==
  LET free(g) == Valid(g) /\ (decValid \/ Kind(g) = "pureSequence")
      sum == FoldLeft(LAMBDA s, g : s + IF free(g) THEN 0 ELSE GroupScore(g), 0, groups)
  IN  IF sum > MaxScore THEN MaxScore ELSE sum

Declare ==
  /\ ~declared.made
  /\ declared' = [made |-> TRUE,
                  valid |-> EnoughSequences(hand) /\ \A i \in DOMAIN hand : Valid(hand[i]),
                  decValid |-> EnoughSequences(hand),
                  score |-> CalculateScore(hand, EnoughSequences(hand))]
  /\ UNCHANGED hand

Next == Declare

Spec == Init /\ [][Next]_vars
-----------------------------------------------------------------------------
(* The runs of a suit with n cards, the ace at either end.                  *)
Runs(n) == {{(f + i) : i \in 0..n - 1} : f \in 1..(15 - n)}
IsRun(cards, jokers) ==
  \E run \in Runs(Len(cards) + jokers) :
    /\ OneSuit(cards)
    /\ \A i, k \in DOMAIN cards : i # k => cards[i].number # cards[k].number
    /\ \A i \in DOMAIN cards : cards[i].number \in run \/ (cards[i].number = 14 /\ 1 \in run)

(* A sequence is what can be laid as a run of one suit, jokers and wild     *)
(* cards standing for what is missing, and the ace high or low: whatever    *)
(* the order of the code's comparisons makes of it.                         *)
SequencesAreRuns ==
  \A i \in DOMAIN hand :
    LET cards == hand[i].cards
    IN  /\ CheckPureSequence(cards) <=> \A k \in DOMAIN cards : cards[k].number # 0 /\ IsRun(cards, 0)
        /\ Len(Real(cards)) >= 1 => (CheckImpureSequence(cards) <=> IsRun(Real(cards), Jokers(cards)))

(* A declaration is accepted only for a hand that is laid out, whatever the *)
(* client claims, and costs nothing; a hand that is not costs its cards.    *)
DeclarationIsHonest ==
  declared.made =>
    /\ declared.valid =>
         /\ declared.score = 0
         /\ \E i \in DOMAIN hand : IsRun(hand[i].cards, 0)
    /\ declared.score = 0 /\ declared.decValid =>
         \A i \in DOMAIN hand : Valid(hand[i]) \/ GroupScore(hand[i]) = 0
=============================================================================
