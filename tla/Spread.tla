------------------------------- MODULE Spread -------------------------------
(* The layer between a drawn hand and its interpretation: question analysis, *)
(* relationship signals, retrieved context and the readiness gate.  A hand   *)
(* is three draws, past, present and future; wording is left out, a signal   *)
(* and a retrieved unit stand for their identities.                          *)
EXTENDS Integers, Sequences, FiniteSets

Suits == {"wands", "cups", "swords", "pentacles"}
Element == [wands |-> "fire", cups |-> "water", swords |-> "air", pentacles |-> "earth"]
Conflicting == {{"fire", "water"}, {"air", "earth"}}
Orientations == {"upright", "reversed"}
Positions == <<"past", "present", "future">>

(* 22 majors and 14 ranks of 4 suits; ranks 1..10 are numbers, then courts. *)
Card == [suit : {"major"}, number : 0..21] \cup [suit : Suits, number : 1..14]
Draws == [card : Card, orientation : Orientations]

IsMinor(d) == d.card.suit # "major"
IsNumeric(d) == IsMinor(d) /\ d.card.number <= 10
IsCourt(d) == IsMinor(d) /\ d.card.number > 10

(* secrets.SystemRandom().sample(cards, 3) and an orientation for each.     *)
IsHand(h) ==
    /\ h \in [1..3 -> Draws]
    /\ \A i, j \in 1..3 : i # j => h[i].card # h[j].card

-----------------------------------------------------------------------------
(* assemble_relationship_signals.  The identities in the order in which     *)
(* sorted() puts them: by the priority of the kind, then by signal_id.      *)
Kind ==
    [turn |-> "turning_point", past_present |-> "transition",
     present_future |-> "transition", tension_1 |-> "tension", tension_2 |-> "tension",
     element_1 |-> "reinforcement", element_2 |-> "reinforcement",
     orientation |-> "reinforcement", repeated_suit |-> "reinforcement",
     court |-> "pattern", balance |-> "pattern", numeric |-> "pattern"]

Priority ==
    <<"turn", "past_present", "present_future", "tension_1", "tension_2",
      "element_1", "element_2", "orientation", "repeated_suit",
      "court", "balance", "numeric">>

BothMinor(h, i) == IsMinor(h[i]) /\ IsMinor(h[i + 1])
Repeats(h, i) == BothMinor(h, i) /\ h[i].card.suit = h[i + 1].card.suit
Conflicts(h, i) ==
    /\ BothMinor(h, i)
    /\ {Element[h[i].card.suit], Element[h[i + 1].card.suit]} \in Conflicting

SameOrientation(h) == \A i \in 1..3 : h[i].orientation = h[1].orientation
Turns(h) ==
    /\ h[1].orientation = "reversed"
    /\ h[2].orientation = "upright" /\ h[3].orientation = "upright"

Monotone(h) ==
    LET n(i) == h[i].card.number
    IN  (n(1) < n(2) /\ n(2) < n(3)) \/ (n(1) > n(2) /\ n(2) > n(3))

Applies(h, s) ==
    CASE s = "turn" -> Turns(h)
      [] s = "tension_1" -> Conflicts(h, 1)
      [] s = "tension_2" -> Conflicts(h, 2)
      [] s = "element_1" -> Repeats(h, 1)
      [] s = "element_2" -> Repeats(h, 2)
      [] s = "orientation" -> SameOrientation(h)
      [] s = "repeated_suit" ->
            \E i, j \in 1..3 : i # j /\ IsMinor(h[i]) /\ h[i].card.suit = h[j].card.suit
      [] s = "court" -> Cardinality({i \in 1..3 : IsCourt(h[i])}) >= 2
      [] s = "numeric" -> (\A i \in 1..3 : IsNumeric(h[i])) /\ Monotone(h)
      [] OTHER -> TRUE

MaxSignals == 6

Signals(h) ==
    LET all == SelectSeq(Priority, LAMBDA s : Applies(h, s))
    IN  SubSeq(all, 1, IF Len(all) < MaxSignals THEN Len(all) ELSE MaxSignals)

-----------------------------------------------------------------------------
(* analyze_question, from how many terms of each domain and which terms of  *)
(* each intent and time the question contains.                              *)
Domains == {"love_relationship", "career_work", "money_finance", "self_growth",
            "decision", "family_social"}

(* The domain with most matches; "decision" gives way in a tie, and any tie *)
(* that is left is too vague: general.                                      *)
ClassifyDomain(matches) ==
    LET best == {d \in Domains : matches[d] > 0 /\ \A e \in Domains : matches[e] <= matches[d]}
        winners == IF Cardinality(best) > 1 THEN best \ {"decision"} ELSE best
    IN  IF Cardinality(winners) = 1 THEN CHOOSE d \in winners : TRUE ELSE "general"

Frames == <<"explicit_period", "past", "present", "near_future">>

TemporalFrame(found) ==
    LET named == SelectSeq(Frames, LAMBDA f : f \in found)
    IN  IF named = <<>> THEN "unspecified" ELSE Head(named)

Intents(found, frame) ==
    LET timed == IF frame # "unspecified" THEN found \cup {"timing"} ELSE found
    IN  IF timed = {} THEN {"self_reflection"} ELSE timed

-----------------------------------------------------------------------------
(* _retrieval_payload: three units for each draw and one for each signal.   *)
PrimaryUnit(d) ==
    [source |-> "waite", section |-> "core", chunk |-> <<d.card, d.orientation>>]
PositionUnit(h, i) ==
    [source |-> "heuristics", section |-> "position",
     chunk |-> <<h[i].card, Positions[i], h[i].orientation>>]
QuestionUnit(h, i, domain) ==
    [source |-> "heuristics", section |-> "question",
     chunk |-> <<h[i].card, domain, Positions[i]>>]
SignalUnit(s) ==
    [source |-> "relationships", section |-> "relationship", chunk |-> <<s>>]

Units(h, domain) ==
    [i \in 1..9 |->
        LET draw == ((i - 1) \div 3) + 1
        IN  CASE i % 3 = 1 -> PrimaryUnit(h[draw])
              [] i % 3 = 2 -> PositionUnit(h, draw)
              [] OTHER -> QuestionUnit(h, draw, domain)]
    \o [i \in DOMAIN Signals(h) |-> SignalUnit(Signals(h)[i])]

(* RetrievedContextBundle: at most 24 units, each identity once.            *)
MaxUnits == 24
IsBundle(units) ==
    /\ Len(units) \in 1..MaxUnits
    /\ \A i, j \in DOMAIN units :
          i # j => <<units[i].source, units[i].chunk>> # <<units[j].source, units[j].chunk>>

(* validate_question_aware_readiness                                        *)
Ready(h, domain) ==
    LET units == Units(h, domain)
        in(section) == {units[i] : i \in {j \in DOMAIN units : units[j].section = section}}
    IN  /\ IsBundle(units)
        /\ domain # "general" => \E u \in in("question") : u.chunk[2] = domain
        /\ {u.chunk[2] : u \in in("position")} = {Positions[i] : i \in 1..3}
        /\ \E i \in DOMAIN Signals(h) : Kind[Signals(h)[i]] \in {"transition", "turning_point"}
        /\ Cardinality({PrimaryUnit(h[i]) : i \in 1..3}) = 3
        /\ {PrimaryUnit(h[i]) : i \in 1..3} \subseteq in("core")

(* TarotFixtureInterpreter.interpret takes the first four of at least three *)
(* signals; the first transition is a relationship, a later one a trend.    *)
MinFixtureSignals == 3
CanInterpretLocally(h) == Len(Signals(h)) >= MinFixtureSignals

Insights(h) ==
    LET used == SubSeq(Signals(h), 1, IF Len(Signals(h)) < 4 THEN Len(Signals(h)) ELSE 4)
    IN  [i \in DOMAIN used |->
            CASE Kind[used[i]] = "transition" -> IF i = 1 THEN "relationship" ELSE "trend"
              [] Kind[used[i]] \in {"reinforcement", "pattern"} -> "relationship"
              [] OTHER -> Kind[used[i]]]
=============================================================================
