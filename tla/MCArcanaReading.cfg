\* Two live requests, the fixture, a journal and one reader; one crash.
SPECIFICATION Spec
CONSTANTS
    r1 = r1  r2 = r2  q1 = q1  NoOne = NoOne
    Calls = {r1, r2}
    Readers = {q1}
    Bodies <- SomeBodies
    Hands <- SomeHands
    Questions <- SomeQuestions
    MaxCrashes = 1
INVARIANTS ReadingCoherent PaidResultIsStored AnswersAreConsistent OutcomeIsHonest
CHECK_DEADLOCK FALSE
