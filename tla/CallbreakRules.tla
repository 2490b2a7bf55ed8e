--------------------------- MODULE CallbreakRules ---------------------------
(***************************************************************************)
(* The rules of one hand of Callbreak, as the code keeps them: which cards  *)
(* a player may throw, how firstCard and leadCard follow what is thrown,    *)
(* and who wins; then how the players' scores make the winners of the game  *)
(* and the dealer of the next round.  Scores are kept in tenths of a point. *)
(***************************************************************************)
EXTENDS Integers, FiniteSets, Sequences, SequencesExt

CONSTANTS Deck,           \* cards, [suit |-> , number |-> ]
          HandSize,       \* cards a player still holds: 13 at most
          Scores          \* the total scores to compare, a set of functions over Seats

VARIABLES hand,           \* what each player still holds
          thrown,         \* the cards on the table, in order
          firstCard, leadCard,  \* {} or a set of one card
          total           \* totalScore of the players

vars == <<hand, thrown, firstCard, leadCard, total>>

Seats == 1..4
NoCards == [s \in Seats |-> {}]
Turn == Len(thrown) + 1

TypeOK ==
  /\ hand \in [Seats -> SUBSET Deck]
  /\ thrown \in Seq(Deck) /\ Len(thrown) <= 4
  /\ {firstCard, leadCard} \subseteq {{}} \union {{c} : c \in Deck}
  /\ total \in Scores

(* dealCards: the same number of cards for everyone; or no cards and the    *)
(* scores of a game that is over.                                           *)
Init ==
  /\ thrown = <<>> /\ firstCard = {} /\ leadCard = {}
  /\ \/ /\ hand \in [Seats -> {h \in SUBSET Deck : Cardinality(h) = HandSize}]
        /\ \A s, t \in Seats : s # t => hand[s] \intersect hand[t] = {}
        /\ total = [s \in Seats |-> 0]
     \/ hand = NoCards /\ total \in Scores
-----------------------------------------------------------------------------
The(card) == CHOOSE c \in card : TRUE
Higher(c, d) == c.suit = d.suit /\ c.number > d.number

(* getPossibleCards                                                         *)
PossibleCards(held) ==
  LET first == The(firstCard)
      following == {c \in held : c.suit = first.suit}
      above == {c \in held : Higher(c, first)}
      trumps == {c \in held : c.suit = "spade"}
      over == {c \in held : Higher(c, The(leadCard))}
      preferred == IF leadCard # {} THEN <<following, over>> ELSE <<above, following, trumps>>
      possible == SelectSeq(preferred, LAMBDA cards : cards # {})
  IN  IF firstCard = {} \/ possible = <<>> THEN held ELSE Head(possible)

(* canBeLeadCard, canAddLeadCard: the highest trump on another suit.        *)
LeadAfter(card) ==
  IF firstCard = {} \/ Higher(card, The(firstCard)) THEN leadCard
  ELSE IF leadCard # {} THEN (IF Higher(card, The(leadCard)) THEN {card} ELSE leadCard)
  ELSE IF The(firstCard).suit # "spade" /\ card.suit = "spade" THEN {card} ELSE {}

(* canBeFirstCard: the highest card of the suit that was led.               *)
FirstAfter(card) ==
  IF firstCard = {} \/ Higher(card, The(firstCard)) THEN {card} ELSE firstCard

(* throwCard, autoThrowCard                                                 *)
ThrowCard(card) ==
  /\ Turn \in Seats
  /\ card \in PossibleCards(hand[Turn])
  /\ hand' = [hand EXCEPT ![Turn] = @ \ {card}]
  /\ thrown' = Append(thrown, card)
  /\ firstCard' = FirstAfter(card)
  /\ leadCard' = LeadAfter(card)
  /\ UNCHANGED total

Next == \E card \in Deck : ThrowCard(card)

Spec == Init /\ [][Next]_vars
-----------------------------------------------------------------------------
(* compareCards                                                             *)
CompareCards(c, d) ==
  IF c.suit = "spade" /\ d.suit # "spade" THEN c
  ELSE IF d.suit = "spade" /\ c.suit # "spade" THEN d
  ELSE IF c.number > d.number THEN c ELSE d

(* getStrongCard, getWinner                                                 *)
StrongCard ==
  LET stronger(best, card) ==
        IF card.suit \in {The(firstCard).suit, "spade"} THEN CompareCards(best, card) ELSE best
  IN  FoldLeft(stronger, The(firstCard), thrown)
Winner == CHOOSE i \in DOMAIN thrown : thrown[i] = StrongCard

(* getRoundScore                                                            *)
RoundScore(hands, bid) == IF hands < bid THEN -10 * bid ELSE 10 * bid + hands - bid

(* getGameWinners, when more than one player is still there.                *)
GameWinners ==
  LET step(best, s) ==
        IF total[s] > best.score THEN [score |-> total[s], winners |-> {s}]
        ELSE IF total[s] = best.score THEN [best EXCEPT !.winners = @ \union {s}]
        ELSE best
  IN  FoldLeft(step, [score |-> total[1], winners |-> {}], <<1, 2, 3, 4>>).winners

(* getNextRoundDealer: nobody deals for a score below nothing.              *)
NextRoundDealer ==
  LET step(best, s) == IF total[s] > best.score THEN [score |-> total[s], dealer |-> s] ELSE best
  IN  FoldLeft(step, [score |-> 0, dealer |-> 1], <<1, 2, 3, 4>>).dealer
-----------------------------------------------------------------------------
Best(cards) == CHOOSE c \in cards : \A d \in cards : d.number <= c.number
OfSuit(suit) == {c \in ToSet(thrown) : c.suit = suit}

(* The trick goes to the highest trump, or without one to the highest card  *)
(* of the suit led, although firstCard, from which getStrongCard starts, is *)
(* no longer the card that was led.                                         *)
StrongestCardWins ==
  Len(thrown) = 4 =>
    StrongCard = IF OfSuit("spade") # {} THEN Best(OfSuit("spade")) ELSE Best(OfSuit(thrown[1].suit))

(* Whoever can follow suit does: no card off the suit led lies on the table *)
(* while the one who threw it still holds that suit.                        *)
SuitIsFollowed ==
  \A s \in Seats : s \in DOMAIN thrown /\ thrown[s].suit # thrown[1].suit =>
    \A c \in hand[s] : c.suit # thrown[1].suit

(* There is always a card to throw, so the timer of a turn never throws     *)
(* none; the winners share the best score; the dealer has the best one, if  *)
(* it is above nothing.                                                     *)
ScoresDecide ==
  /\ \A s \in Seats : hand[s] # {} /\ Turn = s => PossibleCards(hand[s]) # {}
  /\ GameWinners = {s \in Seats : \A t \in Seats : total[t] <= total[s]}
  /\ LET d == NextRoundDealer
     IN  (total[d] > 0 \/ d = 1) /\ \A t \in Seats : total[t] > 0 => total[t] <= total[d]
  /\ \A hands, bid \in 1..4 : RoundScore(hands, bid) > 0 <=> hands >= bid
=============================================================================
