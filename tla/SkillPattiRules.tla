--------------------------- MODULE SkillPattiRules ---------------------------
(***************************************************************************)
(* Which hand wins in Skill Patti.  Before the common card is turned a hand *)
(* is three cards; afterwards it is the best three of four, and the code    *)
(* finds them by comparing what it makes of each three.  Cards are taken in *)
(* the order in which they were dealt, on which the code's cases depend.    *)
(***************************************************************************)
EXTENDS Integers, FiniteSets, Sequences, SequencesExt

CONSTANTS Cards           \* [number |-> 2..14, suit |-> ]

VARIABLES hands,          \* the three cards of each player
          commonCard,
          shown           \* what the comparison says once the cards are shown

vars == <<hands, commonCard, shown>>

Players == DOMAIN hands
Nobody == [winners |-> {}, hidden |-> TRUE, sideShow |-> "none"]

TypeOK ==
  /\ \A p \in Players : hands[p] \in [1..3 -> Cards]
  /\ commonCard \in Cards
  /\ shown.winners \subseteq Players /\ shown.hidden \in BOOLEAN
  /\ shown.sideShow \in {"none", "win", "lose", "draw"}

Distinct(s) == Cardinality(ToSet(s)) = Len(s)
Sorted(s) == s[1].number >= s[2].number /\ s[2].number >= s[3].number

(* dealCards, from any shuffle.  To bound the deals, the second player's    *)
(* cards come in descending order only, the first one's in every order.     *)
Init ==
  /\ hands \in [1..2 -> [1..3 -> Cards]]
  /\ commonCard \in Cards
  /\ Distinct(hands[1] \o hands[2] \o <<commonCard>>)
  /\ Sorted(hands[2])
  /\ shown = Nobody
-----------------------------------------------------------------------------
Categories == <<"highest", "pair", "color", "sequence", "pureSequence", "trail">>
Number(card) == card.number
Numbers(cards) == [i \in DOMAIN cards |-> cards[i].number]
Descending(cards) == SortSeq(cards, LAMBDA c, d : c.number > d.number)

(* getIsSequence: an ace stands above the king or below the two.            *)
IsSequence(cards) ==
  LET n == Numbers(Descending(cards))
  IN  IF n[1] = 14 THEN <<n[2], n[3]>> \in {<<13, 12>>, <<3, 2>>}
      ELSE n[2] = n[3] + 1 /\ n[1] = n[2] + 1

(* getIsColor                                                               *)
IsColor(cards) == cards[1].suit = cards[2].suit /\ cards[1].suit = cards[3].suit

(* getCardsCategory                                                         *)
Category(cards) ==
  LET n == Numbers(cards)
  IN  CASE n[1] = n[2] /\ n[1] = n[3] -> "trail"
        [] IsSequence(cards) /\ IsColor(cards) -> "pureSequence"
        [] IsSequence(cards) /\ ~IsColor(cards) -> "sequence"
        [] ~IsSequence(cards) /\ IsColor(cards) -> "color"
        [] OTHER -> IF Cardinality(ToSet(n)) = 2 THEN "pair" ELSE "highest"

(* getHighestCards                                                          *)
HighestCards(cards) == SubSeq(Numbers(SortSeq(cards, LAMBDA c, d : c.number > d.number)), 1, 3)

(* The best card beside a pair.                                             *)
Kicker(cards, pair) ==
  LET best == HighestCards(cards)
  IN  IF best[1] # pair THEN best[1] ELSE IF best[2] = pair THEN best[3] ELSE best[2]

(* getStrongCards: the numbers a hand is compared by.  Those of a pair or   *)
(* of no category come from all the cards a player has.                     *)
StrongCards(cards, three) ==
  LET n == Numbers(three)
      pair == IF n[1] \in {n[2], n[3]} THEN n[1] ELSE n[2]
  IN  CASE Category(three) = "highest" -> HighestCards(cards)
        [] Category(three) = "pair" -> <<pair, pair, Kicker(cards, pair)>>
        [] OTHER -> Numbers(Descending(three))

Info(cards, three) ==
  [category |-> IndexFirstSubSeq(<<Category(three)>>, Categories), cards |-> StrongCards(cards, three)]

(* The cards that decide within a category, in this order.                  *)
Deciding(category) ==
  CASE Categories[category] = "trail" -> <<1>>
    [] Categories[category] \in {"pureSequence", "sequence"} -> <<1, 2>>
    [] Categories[category] = "pair" -> <<1, 3>>
    [] OTHER -> <<1, 2, 3>>

(* comparePlayerCardsInfo: between two trails there is no draw.             *)
Compare(a, b) ==
  LET places == Deciding(a.category)
      differ == {i \in DOMAIN places : a.cards[places[i]] # b.cards[places[i]]}
      first == places[CHOOSE i \in differ : \A k \in differ : i <= k]
  IN  IF a.category # b.category THEN (IF a.category > b.category THEN "win" ELSE "lose")
      ELSE IF differ # {} THEN (IF a.cards[first] > b.cards[first] THEN "win" ELSE "lose")
      ELSE IF Categories[a.category] = "trail" THEN "lose" ELSE "draw"

Threes == <<<<1, 2, 3>>, <<1, 2, 4>>, <<1, 3, 4>>, <<2, 3, 4>>>>

(* getPlayerCardsInfo: the best of the four threes.                         *)
PlayerCardsInfo(cards) ==
  LET group(places) == [i \in 1..3 |-> cards[places[i]]]
      better(best, places) ==
        IF Compare(best, Info(cards, group(places))) = "lose" THEN Info(cards, group(places)) ELSE best
  IN  FoldLeft(better, [category |-> 1, cards |-> HighestCards(cards)], Threes)

WithCommon(p) == Append(hands[p], commonCard)

(* getWinners                                                               *)
Winners ==
  LET step(best, p) ==
        LET info == PlayerCardsInfo(WithCommon(p))
            result == Compare(best.info, info)
        IN  IF result = "lose" THEN [winners |-> {p}, info |-> info]
            ELSE IF result = "draw" THEN [best EXCEPT !.winners = @ \union {p}] ELSE best
  IN  FoldLeft(step, [winners |-> {1}, info |-> PlayerCardsInfo(WithCommon(1))], <<2>>).winners

(* sideShow: with the common card still hidden the three cards of each, and *)
(* later the best three of four.                                            *)
SideShow(hidden) ==
  LET info(p) == IF hidden THEN Info(hands[p], hands[p]) ELSE PlayerCardsInfo(WithCommon(p))
  IN  Compare(info(1), info(2))

Show ==
  /\ shown = Nobody
  /\ \E hidden \in BOOLEAN : shown' = [winners |-> Winners, hidden |-> hidden, sideShow |-> SideShow(hidden)]
  /\ UNCHANGED <<hands, commonCard>>

Next == Show

Spec == Init /\ [][Next]_vars
-----------------------------------------------------------------------------
(* What three cards are worth, by the rules of the game and without a       *)
(* comparison in cases: the category, then what decides in it.              *)
Worth(cards) ==
  LET n == Numbers(Descending(cards))
      c == Category(cards)
  IN  <<IndexFirstSubSeq(<<c>>, Categories)>>
        \o (IF c = "pair" /\ n[2] = n[3] THEN <<n[2], n[3], n[1]>> ELSE n)
Beats(a, b) == \E i \in 1..4 : a[i] > b[i] /\ \A k \in 1..(i - 1) : a[k] = b[k]
BestWorth(cards) ==
  LET all == {Worth([i \in 1..3 |-> cards[Threes[t][i]]]) : t \in 1..4}
  IN  CHOOSE w \in all : \A v \in all : ~Beats(v, w)

(* The pot goes to the best three cards among a player's four, and is       *)
(* shared exactly when two hands are worth the same.                        *)
BestHandWins ==
  shown # Nobody =>
    shown.winners = {p \in Players : \A q \in Players : ~Beats(BestWorth(WithCommon(q)), BestWorth(WithCommon(p)))}

(* A side show is lost by the weaker hand, whoever has asked for it, and    *)
(* the common card counts in it as soon as it is turned.                    *)
SideShowIsFair ==
  LET worth(p) == IF shown.hidden THEN Worth(hands[p]) ELSE BestWorth(WithCommon(p))
  IN  shown # Nobody =>
        shown.sideShow = IF Beats(worth(1), worth(2)) THEN "win"
                         ELSE IF Beats(worth(2), worth(1)) THEN "lose" ELSE "draw"
=============================================================================
