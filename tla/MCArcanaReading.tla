--------------------------- MODULE MCArcanaReading ---------------------------
(* Small instances of ArcanaReading, and the pure operators of Spread and   *)
(* ProviderCall against what they are meant to compute.                     *)
EXTENDS ArcanaReading

CONSTANTS r1, r2, q1

C(s, n, o) == [card |-> [suit |-> s, number |-> n], orientation |-> o]

(* One hand with more signals than are kept, and one of unrelated cards.    *)
SomeHands ==
    {<<C("cups", 2, "upright"), C("cups", 5, "upright"), C("cups", 9, "upright")>>,
     <<C("swords", 9, "reversed"), C("pentacles", 4, "upright"), C("major", 3, "upright")>>}

SomeQuestions ==
    {[domain |-> "general", long |-> FALSE], [domain |-> "decision", long |-> TRUE]}

Good == [http |-> "ok", code |-> "none", usage |-> TRUE, model |-> TRUE,
         finish |-> "stop", content |-> "object"]
SomeBodies ==
    {Good, [Good EXCEPT !.usage = FALSE], [Good EXCEPT !.content = "unparsable"],
     [Good EXCEPT !.http = "limited", !.usage = FALSE]}

-----------------------------------------------------------------------------
SmallDeck ==
    {[suit |-> s, number |-> n] : s \in {"wands", "cups", "pentacles"}, n \in {2, 9, 13}}
    \cup {[suit |-> "major", number |-> n] : n \in {2, 9}}

SmallDeckHands ==
    {h \in [1..3 -> [card : SmallDeck, orientation : Orientations]] :
        \A i, j \in 1..3 : i # j => h[i].card # h[j].card}

(* draw raises unless the deck has 78 cards.                                *)
ASSUME DeckSize == Cardinality(Card) = 78

(* Whatever is cut off after six signals, both transitions stay: the        *)
(* readiness gate, which is for damaged context, refuses no hand that draw  *)
(* can store, and no reading is stuck at "drawn" for the cards it got.      *)

ASSUME EveryHandIsReady ==
    \A h \in SmallDeckHands :
        /\ {"past_present", "present_future"} \subseteq
              {Signals(h)[i] : i \in DOMAIN Signals(h)}
        /\ Ready(h, "decision") /\ Ready(h, "general")
        /\ Len(Insights(h)) \in 3..4
        /\ Cardinality({i \in DOMAIN Insights(h) : Insights(h)[i] = "trend"}) \in 1..2

(* The classified domain has the most matches alone, or shares them with    *)
(* "decision" only.                                                         *)
ASSUME DomainIsUnambiguous ==
    \A m \in [Domains -> 0..2] :
        LET d == ClassifyDomain(m)
        IN  d # "general" =>
                /\ m[d] > 0
                /\ \A e \in Domains \ {d} : m[e] < m[d] \/ (e = "decision" /\ m[e] = m[d])

ASSUME EveryQuestionHasAnIntent ==
    \A found \in SUBSET {"past", "present", "near_future", "explicit_period"} :
        /\ Intents({}, TemporalFrame(found)) # {}
        /\ (found # {}) <=> ("timing" \in Intents({"advice"}, TemporalFrame(found)))

(* The reserved estimate covers the measured cost of every answer that keeps *)
(* to its bounds, on both sides of the tier boundary.                       *)
Tokens == {0, 1, 31999, 32000, 32001, 60000}
ASSUME EstimateCoversMeasured ==
    \A model \in {"text", "vision"}, prompt \in Tokens, image \in {0, 1, 3000, 90001},
       used \in Tokens, out \in {0, 1, 8192} :
        used <= prompt + CeilDiv(image, 3) =>
            MeasuredCost(model, used, out) <= EstimateCost(model, prompt, image, 8192)
=============================================================================
