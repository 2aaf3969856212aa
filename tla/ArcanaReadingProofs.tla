------------------------- MODULE ArcanaReadingProofs -------------------------
(* A reading, the live requests that interpret it and the answers that are  *)
(* read of it, for any hands, questions, requests and readers.              *)
EXTENDS ArcanaReading, SequenceTheorems, TLAPS

-----------------------------------------------------------------------------
(* The inductive invariant.  What a call has recorded at each of its stages.*)
HonestCall(c) ==
    /\ c.stage \in {"idle", "gate"} => ~c.sent
    /\ c.stage \in {"idle", "gate", "posting", "received"} => ~c.reported /\ ~c.measured
    /\ c.stage # "ended" => c.category = "none"
    /\ c.stage = "ended" =>
          /\ c.certainty = "not_dispatched" => ~c.sent
          /\ c.category = "outcome_unknown" => c.certainty = "unknown"
          /\ c.measured <=> c.reported
          /\ c.certainty # "dispatched" => ~c.measured

(* A request has called the provider only while it holds the reading's      *)
(* claim, and the live interpretation is of the request that completed it.  *)
RequestsFit ==
    /\ seen \in [Calls -> {"none", "draft", "drawn", "interpreted", "saved"}]
    /\ \A r \in Calls :
          /\ HonestCall(call[r])
          /\ seen[r] = "drawn" => status \notin {"none", "draft"}
          /\ pc[r] \in {"checking", "claiming", "calling", "storing"} => seen[r] = "drawn"
          /\ pc[r] \in {"start", "checking", "claiming"} => call[r] = NoCallYet
          /\ pc[r] = "storing" => call[r].category = "ok"
          /\ pc[r] \in {"calling", "storing", "stored"} => claim.holder = r
    /\ revision.source = "none" => revision = NoRevision
    /\ revision.source = "zhipu_live" =>
          revision.by \in Calls /\ pc[revision.by] = "stored"

(* A status that was read is backed by rows, and rows are only added.       *)
Stages == {"start", "status", "cards", "interpretation", "journal", "done"}

AnswersFit ==
    /\ answer \in [Readers -> [stage : Stages,
                               status : {"none", "draft", "drawn", "interpreted", "saved"},
                               cards : BOOLEAN, interpretation : BOOLEAN,
                               journal : BOOLEAN]]
    /\ \A q \in Readers : LET a == answer[q] IN
          /\ a.stage = "start" <=> a.status = "none"
          /\ a.status \in {"drawn", "interpreted", "saved"} => hand # <<>>
          /\ a.status \in {"interpreted", "saved"} => revision # NoRevision
          /\ a.status = "saved" => journal
          /\ a.status \in {"drawn", "interpreted", "saved"}
                /\ a.stage \in {"cards", "interpretation", "journal", "done"} => a.cards
          /\ a.status \in {"interpreted", "saved"}
                /\ a.stage \in {"interpretation", "journal", "done"} => a.interpretation
          /\ a.status = "saved" /\ a.stage \in {"journal", "done"} => a.journal

RInv == ReadingCoherent /\ RequestsFit /\ PaidResultIsStored /\ AnswersFit

-----------------------------------------------------------------------------
LEMMA HandsAreDrawn ==
    ASSUME ReadingAssumption, NEW h \in Hands PROVE h # <<>> /\ Len(h) = 3
<1>1. h \in [1..3 -> Draws]
  BY DEF ReadingAssumption, IsHand
<1>2. h \in Seq(Draws) /\ Len(h) = 3
  BY <1>1, SeqDef
<1> QED
  BY <1>2

LEMMA Initially == ASSUME ReadingAssumption, Init PROVE RInv
<1> USE DEF Init
<1>1. NoCallYet \in CallRecord /\ HonestCall(NoCallYet) /\ NoCallYet.category # "ok"
  BY DEF NoCallYet, CallRecord, Categories, HonestCall
<1>2. revision.source = "none" /\ revision.by = NoOne /\ revision = NoRevision
  BY DEF NoRevision
<1>3. TypeOK
  BY <1>1, <1>2 DEF TypeOK, FreeClaim
<1>4. ReadingCoherent
  BY <1>2, <1>3 DEF ReadingCoherent
<1>5. RequestsFit
  BY <1>1, <1>2 DEF RequestsFit
<1>6. PaidResultIsStored
  BY DEF PaidResultIsStored
<1>7. AnswersFit
  BY DEF AnswersFit, Unread, Stages
<1> QED
  BY <1>4, <1>5, <1>6, <1>7 DEF RInv

-----------------------------------------------------------------------------
(* One step of a call.                                                      *)
LEMMA ErrorsAreMapped ==
    ASSUME NEW b
    PROVE  MappedError(b) \in Categories /\ MappedError(b) \notin {"ok", "none", "outcome_unknown"}
<1>1. MappedError(b) \in {"authentication_failed", "rate_limited", "provider_unavailable",
                         "invalid_request"}
  BY DEF MappedError
<1> QED
  BY <1>1 DEF Categories

CallMoves(r) == CallStep(r) \/ RejectOutput(r) \/ AcceptOutput(r)

LEMMA CallsStayHonest ==
    ASSUME BodyAssumption, call \in [Calls -> CallRecord], NEW r \in Calls,
           HonestCall(call[r]), CallMoves(r)
    PROVE  /\ call' \in [Calls -> CallRecord]
           /\ HonestCall(call'[r])
           /\ \A s \in Calls : s # r => call'[s] = call[s]
<1> USE DEF CallRecord, Categories, HonestCall, Ends
<1>1. ASSUME NEW c \in Categories, RefuseLocally(r, c) \/ Unreadable(r, c)
      PROVE  /\ call' \in [Calls -> CallRecord]
             /\ HonestCall(call'[r])
             /\ \A s \in Calls : s # r => call'[s] = call[s]
  BY <1>1 DEF RefuseLocally, Unreadable
<1>2. CASE Post(r)
  BY <1>2 DEF Post
<1>5. CASE Delivered(r)
  BY <1>5, ZenonT(40) DEF Delivered
<1>6. CASE LosePost(r)
  BY <1>6 DEF LosePost
<1>7. CASE Receive(r)
  BY <1>7 DEF Receive
<1>3. ASSUME NEW b \in Bodies, Normalize(r, b)
      PROVE  /\ call' \in [Calls -> CallRecord]
             /\ HonestCall(call'[r])
             /\ \A s \in Calls : s # r => call'[s] = call[s]
  <2>1. b.usage \in BOOLEAN
    BY DEF BodyAssumption, Body
  <2>2. \/ \E c \in Categories \ {"ok", "none", "outcome_unknown"} :
              call' = [call EXCEPT ![r].stage = "ended", ![r].category = c,
                                   ![r].certainty = "dispatched",
                                   ![r].reported = b.usage, ![r].measured = b.usage]
        \/ call' = [call EXCEPT ![r].stage = "validating", ![r].reported = b.usage]
    BY <1>3, ErrorsAreMapped DEF Normalize
  <2>3. call[r].stage = "received"
    BY <1>3 DEF Normalize
  <2>4. CASE call' = [call EXCEPT ![r].stage = "validating", ![r].reported = b.usage]
    <3>1. call[r] \in CallRecord
      OBVIOUS
    <3>2. call'[r] = [call[r] EXCEPT !.stage = "validating", !.reported = b.usage]
      BY <2>4
    <3>3. \A s \in Calls : s # r => call'[s] = call[s]
      BY <2>4
    <3>4. call'[r] \in CallRecord
      BY <2>1, <3>1, <3>2
    <3>5. HonestCall(call'[r])
      BY <2>1, <2>3, <3>1, <3>2
    <3>6. call' \in [Calls -> CallRecord]
      BY <2>4, <3>4, <3>2
    <3> QED
      BY <3>3, <3>5, <3>6
  <2>5. ASSUME NEW c \in Categories \ {"ok", "none", "outcome_unknown"},
               call' = [call EXCEPT ![r].stage = "ended", ![r].category = c,
                                    ![r].certainty = "dispatched",
                                    ![r].reported = b.usage, ![r].measured = b.usage]
        PROVE  /\ call' \in [Calls -> CallRecord]
               /\ HonestCall(call'[r])
               /\ \A s \in Calls : s # r => call'[s] = call[s]
    BY <2>1, <2>3, <2>5
  <2> QED
    BY <2>2, <2>4, <2>5
<1>4. CASE RejectOutput(r) \/ AcceptOutput(r)
  BY <1>4 DEF RejectOutput, AcceptOutput
<1> QED
  BY <1>1, <1>2, <1>3, <1>4, <1>5, <1>6, <1>7 DEF CallMoves, CallStep

-----------------------------------------------------------------------------
(* The transactions on the reading, and what they leave standing.           *)
ReadingStep == Start \/ (\E h \in Hands : Draw(h)) \/ Interpret \/ SaveJournal

Grown ==
    /\ status \notin {"none", "draft"} => status' \notin {"none", "draft"}
    /\ hand # <<>> => hand' # <<>>
    /\ revision # NoRevision => revision' = revision
    /\ journal => journal'

LEMMA AnswersStay ==
    ASSUME AnswersFit, Grown, UNCHANGED answer PROVE AnswersFit'
  BY DEF AnswersFit, Grown, NoRevision

LEMMA Interpreted ==
    ASSUME ReadingAssumption, NEW by \in Calls \cup {NoOne},
           NEW source \in {"fixture_local", "zhipu_live"}
    PROVE  LET made == [source |-> source, by |-> by, hand |-> hand]
           IN  /\ made # NoRevision /\ made.source = source /\ made.by = by
               /\ made.hand = hand
  BY DEF NoRevision

LEMMA ReadingStepsKeep ==
    ASSUME ReadingAssumption, RInv, ReadingStep PROVE RInv'
<1>1. /\ UNCHANGED <<question, claim, pc, seen, answer, crashes, call>>
  BY DEF ReadingStep, Start, Draw, Interpret, SaveJournal
<1>2. TypeOK /\ ReadingCoherent
  BY DEF RInv, ReadingCoherent
<1>3. \/ revision' = revision
      \/ /\ revision = NoRevision /\ revision'.source = "fixture_local"
         /\ revision' # NoRevision /\ revision'.by = NoOne
  BY Interpreted DEF ReadingStep, Start, Draw, Interpret, CanInterpret, SaveJournal
<1>4. Grown
  <2>1. CASE Start
    BY <1>2, <2>1 DEF Grown, Start
  <2>2. ASSUME NEW h \in Hands, Draw(h) PROVE Grown
    BY <1>2, <2>2, HandsAreDrawn DEF Grown, Draw, CanDraw
  <2>3. CASE Interpret
    BY <1>2, <2>3 DEF Grown, Interpret, CanInterpret
  <2>4. CASE SaveJournal
    BY <1>2, <2>4 DEF Grown, SaveJournal
  <2> QED
    BY <2>1, <2>2, <2>3, <2>4 DEF ReadingStep
<1>5. TypeOK'
  <2>1. /\ status' \in {"none", "draft", "drawn", "interpreted", "saved"}
        /\ hand' \in Hands \cup {<<>>} /\ journal' \in BOOLEAN
    BY <1>2 DEF TypeOK, ReadingStep, Start, Draw, Interpret, SaveJournal
  <2>2. /\ revision'.source \in {"none", "fixture_local", "zhipu_live"}
        /\ revision'.by \in Calls \cup {NoOne}
    BY <1>2, <1>3 DEF TypeOK
  <2> QED
    BY <1>1, <1>2, <2>1, <2>2 DEF TypeOK
<1>6. ReadingCoherent'
  <2>1. CASE Start
    BY <1>2, <1>5, <2>1 DEF ReadingCoherent, Start, NoRevision
  <2>2. ASSUME NEW h \in Hands, Draw(h) PROVE ReadingCoherent'
    BY <1>2, <1>5, <2>2, HandsAreDrawn DEF ReadingCoherent, Draw, CanDraw, NoRevision
  <2>3. CASE Interpret
    BY <1>2, <1>5, <2>3, Interpreted DEF ReadingCoherent, Interpret, CanInterpret, NoRevision
  <2>4. CASE SaveJournal
    BY <1>2, <1>5, <2>4 DEF ReadingCoherent, SaveJournal, NoRevision
  <2> QED
    BY <2>1, <2>2, <2>3, <2>4 DEF ReadingStep
<1>7. RequestsFit'
  BY <1>1, <1>3, <1>4 DEF RInv, RequestsFit, Grown, HonestCall, NoRevision, NoCallYet
<1>8. PaidResultIsStored'
  <2>1. NoOne \notin Calls /\ NoRevision.by = NoOne /\ NoRevision.source = "none"
    BY DEF ReadingAssumption, NoRevision
  <2> QED
    BY <1>1, <1>3, <2>1 DEF RInv, PaidResultIsStored
<1>9. AnswersFit'
  BY <1>1, <1>4, AnswersStay DEF RInv
<1> QED
  BY <1>6, <1>7, <1>8, <1>9 DEF RInv

-----------------------------------------------------------------------------
(* The steps of a live request that store nothing.                          *)
Other(r) ==
    \/ ReadReading(r) \/ PrepareCall(r) \/ RefuseLive(r)
    \/ Dispatch(r) \/ LeakClaim(r)
    \/ CallProvider(r) \/ (\E valid \in BOOLEAN : ValidateOutput(r, valid))
    \/ Terminalize(r) \/ PersistRefused(r) \/ Crash(r)

Places == {"start", "checking", "claiming", "calling", "storing",
           "stored", "refused", "crashed"}
Claims == [holder : Calls \cup {NoOne}, state : {"free", "in_progress", "completed"}]

(* What such a step may do: only its own request moves; the claim passes    *)
(* only from nobody to it or from it to nobody; and it is refused with an   *)
(* accepted output in hand only when there is an interpretation.            *)
LEMMA OtherSteps ==
    ASSUME ReadingAssumption, BodyAssumption, RInv, NEW r \in Calls, Other(r)
    PROVE  /\ UNCHANGED <<rows, answer>>
           /\ pc' \in [Calls -> Places] /\ claim' \in Claims
           /\ call' \in [Calls -> CallRecord]
           /\ seen' \in [Calls -> {"none", "draft", "drawn", "interpreted", "saved"}]
           /\ \A s \in Calls : s # r => /\ pc'[s] = pc[s] /\ call'[s] = call[s]
                                        /\ seen'[s] = seen[s]
           /\ pc[r] # "stored" /\ pc'[r] # "stored"
           /\ HonestCall(call'[r])
           /\ claim' = claim \/ claim.holder \in {NoOne, r}
           /\ seen'[r] = "drawn" => status \notin {"none", "draft"}
           /\ pc'[r] \in {"checking", "claiming", "calling", "storing"} => seen'[r] = "drawn"
           /\ pc'[r] \in {"start", "checking", "claiming"} => call'[r] = NoCallYet
           /\ pc'[r] = "storing" => call'[r].category = "ok"
           /\ pc'[r] \in {"calling", "storing"} => claim'.holder = r
           /\ pc'[r] = "refused" /\ call'[r].category = "ok" =>
                 pc[r] = "storing" /\ revision # NoRevision
<1>0. /\ TypeOK /\ RequestsFit
      /\ pc \in [Calls -> Places] /\ claim \in Claims /\ call \in [Calls -> CallRecord]
      /\ seen \in [Calls -> {"none", "draft", "drawn", "interpreted", "saved"}]
      /\ status \in {"none", "draft", "drawn", "interpreted", "saved"}
  BY DEF RInv, ReadingCoherent, TypeOK, RequestsFit, Places, Claims
<1>1. /\ HonestCall(call[r])
      /\ seen[r] = "drawn" => status \notin {"none", "draft"}
      /\ pc[r] \in {"checking", "claiming", "calling", "storing"} => seen[r] = "drawn"
      /\ pc[r] \in {"start", "checking", "claiming"} => call[r] = NoCallYet
      /\ pc[r] = "storing" => call[r].category = "ok"
      /\ pc[r] \in {"calling", "storing", "stored"} => claim.holder = r
      /\ NoCallYet.category = "none" /\ NoOne \notin Calls
  BY <1>0 DEF RequestsFit, NoCallYet, ReadingAssumption
<1> USE <1>0, <1>1 DEF Goto, Places
<1>2. CASE ReadReading(r)
  BY <1>2 DEF ReadReading
<1>3. CASE PrepareCall(r)
  BY <1>3 DEF PrepareCall
<1>4. CASE RefuseLive(r)
  BY <1>4 DEF RefuseLive
<1>5. CASE Dispatch(r)
  <2>1. /\ pc' = [pc EXCEPT ![r] = "calling"] /\ pc[r] = "claiming"
        /\ UNCHANGED <<rows, seen, answer>>
        /\ claim.holder = NoOne
        /\ claim' \in Claims /\ claim'.holder = r
    BY <1>5 DEF Dispatch, FreeClaim, Claims
  <2>2. call' = [call EXCEPT ![r].stage = "gate"]
    BY <1>5 DEF Dispatch
  <2>3. call' \in [Calls -> CallRecord] /\ HonestCall(call'[r])
        /\ \A s \in Calls : s # r => call'[s] = call[s]
    BY <2>1, <2>2 DEF CallRecord, HonestCall, NoCallYet
  <2> QED
    BY <2>1, <2>3
<1>6. CASE LeakClaim(r)
  BY <1>6 DEF LeakClaim, FreeClaim, Claims
<1>7. CASE CallProvider(r) \/ \E valid \in BOOLEAN : ValidateOutput(r, valid)
  <2>1. CallMoves(r) /\ pc[r] = "calling" /\ UNCHANGED <<rows, claim, pc, seen, answer>>
    BY <1>7 DEF CallProvider, ValidateOutput, CallMoves
  <2>2. /\ call' \in [Calls -> CallRecord] /\ HonestCall(call'[r])
        /\ \A s \in Calls : s # r => call'[s] = call[s]
    BY <2>1, CallsStayHonest
  <2> QED
    BY <2>1, <2>2
<1>8. CASE Terminalize(r)
  BY <1>8 DEF Terminalize, FreeClaim, Claims
<1>9. CASE PersistRefused(r)
  BY <1>9 DEF PersistRefused, CanPersist
<1>10. CASE Crash(r)
  BY <1>10 DEF Crash
<1> QED
  BY <1>2, <1>3, <1>4, <1>5, <1>6, <1>7, <1>8, <1>9, <1>10 DEF Other

LEMMA OtherStepsKeep ==
    ASSUME ReadingAssumption, BodyAssumption, RInv, NEW r \in Calls, Other(r)
    PROVE  RInv'
<1>1. /\ UNCHANGED <<status, question, hand, revision, journal, answer>>
      /\ pc' \in [Calls -> Places] /\ claim' \in Claims
      /\ call' \in [Calls -> CallRecord]
      /\ seen' \in [Calls -> {"none", "draft", "drawn", "interpreted", "saved"}]
      /\ \A s \in Calls : s # r => /\ pc'[s] = pc[s] /\ call'[s] = call[s]
                                   /\ seen'[s] = seen[s]
      /\ pc[r] # "stored" /\ pc'[r] # "stored"
      /\ HonestCall(call'[r])
      /\ claim' = claim \/ claim.holder \in {NoOne, r}
      /\ seen'[r] = "drawn" => status \notin {"none", "draft"}
      /\ pc'[r] \in {"checking", "claiming", "calling", "storing"} => seen'[r] = "drawn"
      /\ pc'[r] \in {"start", "checking", "claiming"} => call'[r] = NoCallYet
      /\ pc'[r] = "storing" => call'[r].category = "ok"
      /\ pc'[r] \in {"calling", "storing"} => claim'.holder = r
      /\ pc'[r] = "refused" /\ call'[r].category = "ok" =>
            pc[r] = "storing" /\ revision # NoRevision
  BY OtherSteps DEF rows
<1>2. RequestsFit /\ NoOne \notin Calls
  BY DEF RInv, ReadingAssumption
<1>3. ReadingCoherent'
  BY <1>1 DEF RInv, ReadingCoherent, TypeOK, Places, Claims, NoRevision, CallRecord, Categories
<1>4. RequestsFit'
  <2>1. ASSUME NEW s \in Calls
        PROVE  /\ HonestCall(call'[s])
               /\ seen'[s] = "drawn" => status \notin {"none", "draft"}
               /\ pc'[s] \in {"checking", "claiming", "calling", "storing"} => seen'[s] = "drawn"
               /\ pc'[s] \in {"start", "checking", "claiming"} => call'[s] = NoCallYet
               /\ pc'[s] = "storing" => call'[s].category = "ok"
               /\ pc'[s] \in {"calling", "storing", "stored"} => claim'.holder = s
    <3>1. CASE s = r
      BY <1>1, <3>1
    <3>2. CASE s # r
      <4>1. /\ HonestCall(call[s])
            /\ seen[s] = "drawn" => status \notin {"none", "draft"}
            /\ pc[s] \in {"checking", "claiming", "calling", "storing"} => seen[s] = "drawn"
            /\ pc[s] \in {"start", "checking", "claiming"} => call[s] = NoCallYet
            /\ pc[s] = "storing" => call[s].category = "ok"
            /\ pc[s] \in {"calling", "storing", "stored"} => claim.holder = s
        BY <1>2 DEF RequestsFit
      <4>2. claim.holder = s => claim' = claim
        BY <1>1, <1>2, <3>2
      <4> QED
        BY <1>1, <3>2, <4>1, <4>2
    <3> QED
      BY <3>1, <3>2
  <2>2. revision.source = "zhipu_live" =>
           revision.by \in Calls /\ pc'[revision.by] = "stored"
    BY <1>1, <1>2 DEF RequestsFit
  <2>3. revision.source = "none" => revision = NoRevision
    BY <1>2 DEF RequestsFit
  <2> QED
    BY <1>1, <2>1, <2>2, <2>3 DEF RequestsFit, HonestCall, NoRevision, NoCallYet
<1>5. PaidResultIsStored'
  <2> SUFFICES ASSUME NEW s \in Calls, pc'[s] \in {"refused", "stored"},
                      call'[s].category = "ok"
               PROVE  revision.by = s \/ revision.source = "fixture_local"
    BY <1>1 DEF PaidResultIsStored
  <2>1. CASE s # r
    BY <1>1, <2>1 DEF RInv, PaidResultIsStored
  <2>2. CASE s = r
    <3>1. pc[r] = "storing" /\ revision # NoRevision
      BY <1>1, <2>2
    <3>2. claim.holder = r /\ revision.source # "none"
      BY <1>2, <3>1 DEF RequestsFit
    <3>3. revision.source # "zhipu_live"
      BY <1>2, <3>1, <3>2 DEF RequestsFit
    <3>4. revision.source \in {"none", "fixture_local", "zhipu_live"}
      BY DEF RInv, ReadingCoherent, TypeOK
    <3> QED
      BY <3>2, <3>3, <3>4
  <2> QED
    BY <2>1, <2>2
<1>6. AnswersFit'
  BY <1>1, AnswersStay DEF RInv, Grown
<1> QED
  BY <1>3, <1>4, <1>5, <1>6 DEF RInv

LEMMA PersistKeeps ==
    ASSUME ReadingAssumption, RInv, NEW r \in Calls, Persist(r) PROVE RInv'
<1>0. /\ TypeOK /\ RequestsFit /\ ReadingCoherent
      /\ pc \in [Calls -> Places] /\ claim \in Claims /\ NoOne \notin Calls
  BY DEF RInv, ReadingCoherent, TypeOK, Places, Claims, ReadingAssumption
<1>1. /\ pc[r] = "storing" /\ seen[r] = "drawn" /\ revision = NoRevision
      /\ revision' = [source |-> "zhipu_live", by |-> r, hand |-> hand]
      /\ status' = "interpreted" /\ claim' = [claim EXCEPT !.state = "completed"]
      /\ pc' = [pc EXCEPT ![r] = "stored"]
      /\ UNCHANGED <<question, hand, journal, seen, answer, crashes, call>>
  BY DEF Persist, CanPersist, Goto
<1>2. status = "drawn" /\ hand # <<>> /\ ~journal
  BY <1>0, <1>1 DEF RequestsFit, ReadingCoherent, TypeOK
<1>3. revision' # NoRevision /\ revision'.source = "zhipu_live" /\ revision'.by = r
      /\ revision'.hand = hand
  BY <1>1, Interpreted
<1>4. /\ \A s \in Calls : s # r => pc'[s] = pc[s]
      /\ pc'[r] = "stored" /\ pc' \in [Calls -> Places]
      /\ claim' \in Claims /\ claim'.holder = claim.holder
  BY <1>0, <1>1 DEF Places, Claims
<1>5. TypeOK'
  BY <1>0, <1>1, <1>3, <1>4 DEF TypeOK, Places, Claims, CallRecord, Categories
<1>6. ReadingCoherent'
  BY <1>1, <1>2, <1>3, <1>5 DEF ReadingCoherent, NoRevision
<1>7. RequestsFit'
  <2>1. ASSUME NEW s \in Calls
        PROVE  /\ HonestCall(call[s])
               /\ seen[s] = "drawn" => status' \notin {"none", "draft"}
               /\ pc'[s] \in {"checking", "claiming", "calling", "storing"} => seen[s] = "drawn"
               /\ pc'[s] \in {"start", "checking", "claiming"} => call[s] = NoCallYet
               /\ pc'[s] = "storing" => call[s].category = "ok"
               /\ pc'[s] \in {"calling", "storing", "stored"} => claim'.holder = s
    BY <1>0, <1>1, <1>4 DEF RequestsFit
  <2> QED
    BY <1>0, <1>1, <1>3, <1>4, <2>1 DEF RequestsFit, HonestCall, NoCallYet, NoRevision
<1>8. PaidResultIsStored'
  <2>1. NoRevision.by = NoOne /\ NoRevision.source = "none"
    BY DEF NoRevision
  <2>2. \A s \in Calls : s # r =>
           ~(pc'[s] \in {"refused", "stored"} /\ call'[s].category = "ok")
    BY <1>0, <1>1, <1>4, <2>1 DEF RInv, PaidResultIsStored
  <2> QED
    BY <1>3, <2>2 DEF PaidResultIsStored
<1>9. AnswersFit'
  BY <1>1, <1>2, AnswersStay DEF RInv, Grown
<1> QED
  BY <1>6, <1>7, <1>8, <1>9 DEF RInv

-----------------------------------------------------------------------------
(* The answers.                                                             *)
LEMMA ReadNextKeeps ==
    ASSUME ReadingAssumption, RInv, NEW q \in Readers, ReadNext(q) PROVE RInv'
<1> DEFINE a == answer[q]
           A == [stage : Stages,
                 status : {"none", "draft", "drawn", "interpreted", "saved"},
                 cards : BOOLEAN, interpretation : BOOLEAN, journal : BOOLEAN]
<1>0. /\ UNCHANGED <<status, question, hand, revision, journal, claim, pc, seen, crashes, call>>
      /\ answer \in [Readers -> A] /\ a \in A
      /\ ReadingCoherent /\ TypeOK /\ status # "none"
  BY DEF ReadNext, rows, RInv, AnswersFit, ReadingCoherent
<1>1. /\ a.stage = "start" <=> a.status = "none"
      /\ a.status \in {"drawn", "interpreted", "saved"} => hand # <<>>
      /\ a.status \in {"interpreted", "saved"} => revision # NoRevision
      /\ a.status = "saved" => journal
      /\ a.status \in {"drawn", "interpreted", "saved"}
            /\ a.stage \in {"cards", "interpretation", "journal", "done"} => a.cards
      /\ a.status \in {"interpreted", "saved"}
            /\ a.stage \in {"interpretation", "journal", "done"} => a.interpretation
      /\ a.status = "saved" /\ a.stage \in {"journal", "done"} => a.journal
  BY DEF RInv, AnswersFit
<1>2. hand # <<>> => Len(hand) = 3
  BY <1>0, HandsAreDrawn DEF TypeOK
<1>3. \/ a.stage = "start" /\ answer' = [answer EXCEPT ![q] = [a EXCEPT !.status = status, !.stage = "status"]]
      \/ a.stage = "status" /\ answer' = [answer EXCEPT ![q] = [a EXCEPT !.cards = (Len(hand) = 3), !.stage = "cards"]]
      \/ a.stage = "cards" /\ answer' = [answer EXCEPT ![q] = [a EXCEPT !.interpretation = (revision # NoRevision), !.stage = "interpretation"]]
      \/ a.stage = "interpretation" /\ answer' = [answer EXCEPT ![q] = [a EXCEPT !.journal = journal, !.stage = "journal"]]
      \/ a.stage = "journal" /\ answer' = [answer EXCEPT ![q] = [a EXCEPT !.stage = "done"]]
  BY <1>0, ZenonT(40) DEF ReadNext, NextRead, Advance, Stages
<1> DEFINE b == answer'[q]
<1>4. /\ b \in A /\ answer' \in [Readers -> A]
      /\ \A p \in Readers : p # q => answer'[p] = answer[p]
      /\ b.stage # "start" /\ b.status # "none"
      /\ b.status \in {"drawn", "interpreted", "saved"} => hand # <<>>
      /\ b.status \in {"interpreted", "saved"} => revision # NoRevision
      /\ b.status = "saved" => journal
      /\ b.status \in {"drawn", "interpreted", "saved"}
            /\ b.stage \in {"cards", "interpretation", "journal", "done"} => b.cards
      /\ b.status \in {"interpreted", "saved"}
            /\ b.stage \in {"interpretation", "journal", "done"} => b.interpretation
      /\ b.status = "saved" /\ b.stage \in {"journal", "done"} => b.journal
  <2>1. CASE a.stage = "start" /\ answer' = [answer EXCEPT ![q] = [a EXCEPT !.status = status, !.stage = "status"]]
    BY <1>0, <1>1, <2>1 DEF ReadingCoherent, TypeOK, Stages
  <2>2. CASE a.stage = "status" /\ answer' = [answer EXCEPT ![q] = [a EXCEPT !.cards = (Len(hand) = 3), !.stage = "cards"]]
    BY <1>0, <1>1, <1>2, <2>2 DEF Stages
  <2>3. CASE a.stage = "cards" /\ answer' = [answer EXCEPT ![q] = [a EXCEPT !.interpretation = (revision # NoRevision), !.stage = "interpretation"]]
    BY <1>0, <1>1, <2>3 DEF Stages
  <2>4. CASE a.stage = "interpretation" /\ answer' = [answer EXCEPT ![q] = [a EXCEPT !.journal = journal, !.stage = "journal"]]
    BY <1>0, <1>1, <2>4, ZenonT(40) DEF Stages, TypeOK
  <2>5. CASE a.stage = "journal" /\ answer' = [answer EXCEPT ![q] = [a EXCEPT !.stage = "done"]]
    BY <1>0, <1>1, <2>5 DEF Stages
  <2> QED
    BY <1>3, <2>1, <2>2, <2>3, <2>4, <2>5
<1> HIDE DEF a, b, A
<1>5. AnswersFit'
  BY <1>0, <1>4 DEF RInv, AnswersFit, NoRevision, A, b
<1>6. ReadingCoherent' /\ RequestsFit' /\ PaidResultIsStored'
  BY <1>0 DEF RInv, ReadingCoherent, TypeOK, RequestsFit, PaidResultIsStored, HonestCall,
              NoRevision, NoCallYet, CallRecord, Categories
<1> QED
  BY <1>5, <1>6 DEF RInv

-----------------------------------------------------------------------------
LEMMA RInvIsInductive ==
    ASSUME ReadingAssumption, BodyAssumption, RInv, [Next]_vars PROVE RInv'
<1>1. CASE ReadingStep
  BY <1>1, ReadingStepsKeep
<1>2. ASSUME NEW r \in Calls, Live(r) PROVE RInv'
  BY <1>2, OtherStepsKeep, PersistKeeps DEF Live, Other
<1>3. ASSUME NEW q \in Readers, ReadNext(q) PROVE RInv'
  BY <1>3, ReadNextKeeps
<1>4. CASE UNCHANGED vars
  <2>1. /\ ReadingCoherent' /\ RequestsFit' /\ PaidResultIsStored'
    BY <1>4 DEF vars, RInv, ReadingCoherent, TypeOK, RequestsFit, PaidResultIsStored,
                HonestCall, NoRevision, NoCallYet, CallRecord, Categories
  <2>2. AnswersFit'
    BY <1>4, AnswersStay DEF vars, RInv, Grown
  <2> QED
    BY <2>1, <2>2 DEF RInv
<1> QED
  BY <1>1, <1>2, <1>3, <1>4 DEF Next, ReadingStep

LEMMA AlwaysRInv == Spec => []RInv
<1>1. Init => RInv
  BY ReadingAssumption, Initially
<1>2. RInv /\ [Next]_vars => RInv'
  BY ReadingAssumption, BodyAssumption, RInvIsInductive
<1> QED
  BY <1>1, <1>2, PTL DEF Spec

(* The status of a reading tells which of its rows there are, and the       *)
(* interpretation is of the hand that was drawn, although a live request    *)
(* decides on a status it read before its call.                             *)
THEOREM StatusTellsTheRows == Spec => []ReadingCoherent
<1>1. RInv => ReadingCoherent
  BY DEF RInv
<1> QED
  BY <1>1, AlwaysRInv, PTL

(* A result that was paid for is stored, unless the fixture was first or    *)
(* the worker died: the claim keeps every other live request away.          *)
THEOREM PaidResultsAreStored == Spec => []PaidResultIsStored
<1>1. RInv => PaidResultIsStored
  BY DEF RInv
<1> QED
  BY <1>1, AlwaysRInv, PTL

(* An answer put together from four statements shows every row its status   *)
(* promises.                                                                *)
THEOREM AnswersShowTheirRows == Spec => []AnswersAreConsistent
<1>1. RInv => AnswersAreConsistent
  BY DEF RInv, AnswersFit, AnswersAreConsistent, Stages
<1> QED
  BY <1>1, AlwaysRInv, PTL

(* The recorded outcome of every call says no more and no less than what    *)
(* was sent and read, whatever the provider answers.                        *)
THEOREM OutcomesAreHonest == Spec => []OutcomeIsHonest
<1>1. RInv => OutcomeIsHonest
  BY DEF RInv, RequestsFit, HonestCall, OutcomeIsHonest
<1> QED
  BY <1>1, AlwaysRInv, PTL
==============================================================================
