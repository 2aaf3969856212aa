---------------------------- MODULE ArcanaReading ----------------------------
(* ArcanaService on one reading: drawn once, interpreted by the local       *)
(* fixture or by a paid live call, then kept in a journal.  start, draw,    *)
(* interpret and save_journal are transactions that lock the reading; a     *)
(* live interpretation reads without a lock, releases its transaction for   *)
(* the paid call (ProviderCall, under the business claim of                 *)
(* ZhipuInvocation) and locks again to store the result.  Reads are several *)
(* statements and not one snapshot.                                         *)
(*                                                                          *)
(* A live request keeps its ORM object of the reading: the second SELECT    *)
(* ... FOR UPDATE waits for the lock but does not refresh it, so that       *)
(* `reading.status` still is what the request read first.                   *)
EXTENDS ProviderCall, Spread

CONSTANTS
    Hands,          \* the hands an instance may draw
    Questions,      \* [domain, long] of the questions an instance may ask
    Readers,        \* GET requests
    MaxCrashes,     \* bound: workers of live requests that die
    NoOne

ASSUME ReadingAssumption ==
    /\ \A h \in Hands : IsHand(h)
    /\ Questions \subseteq [domain : Domains \cup {"general"}, long : BOOLEAN]
    /\ NoOne \notin Calls /\ Calls \cap Readers = {}
    /\ MaxCrashes \in Nat

VARIABLES
    status,         \* tarot_readings.status
    question,       \* its domain; does it fill the fixture's limits
    hand,           \* tarot_reading_cards, <<>>: none
    revision,       \* tarot_interpretation_revisions, number 1 of the reading
    journal,        \* is there a tarot_journal_entries row
    claim,          \* the zhipu_resource claim of the reading
    pc,             \* of a live request
    seen,           \* the status a live request holds in its session
    answer,         \* what a reader has read so far
    crashes

rows == <<status, question, hand, revision, journal>>
vars == <<status, question, hand, revision, journal, claim, pc, seen, answer,
          crashes, call>>

NoRevision == [source |-> "none", by |-> NoOne, hand |-> <<>>]
FreeClaim == [holder |-> NoOne, state |-> "free"]
Unread == [stage |-> "start", status |-> "none", cards |-> FALSE,
           interpretation |-> FALSE, journal |-> FALSE]

Goto(r, l) == pc' = [pc EXCEPT ![r] = l]

(* The readiness gate of _retrieval_payload on the hands of this instance.  *)
ReadyHands ==
    {p \in Hands \X {q.domain : q \in Questions} : Ready(p[1], p[2])}
IsReady == <<hand, question.domain>> \in ReadyHands

LocalHands == {h \in Hands : CanInterpretLocally(h)}

-----------------------------------------------------------------------------
Init ==
    /\ status = "none" /\ question \in Questions
    /\ hand = <<>> /\ revision = NoRevision /\ journal = FALSE
    /\ claim = FreeClaim
    /\ pc = [r \in Calls |-> "start"]
    /\ seen = [r \in Calls |-> "none"]
    /\ answer = [q \in Readers |-> Unread]
    /\ crashes = 0
    /\ call = [r \in Calls |-> NoCallYet]

Start ==
    /\ status = "none"
    /\ status' = "draft"
    /\ UNCHANGED <<question, hand, revision, journal, claim, pc, seen, answer, crashes, call>>

CanDraw == status = "draft"

Draw(h) ==
    /\ CanDraw
    /\ hand' = h
    /\ status' = "drawn"
    /\ UNCHANGED <<question, revision, journal, claim, pc, seen, answer, crashes, call>>

(* An existing revision is only read again.  A hand that is not ready, or a  *)
(* question that overflows the limits of the document that quotes it (400   *)
(* characters an item), raises and rolls back.                              *)
CanInterpret ==
    /\ status \in {"drawn", "interpreted", "saved"}
    /\ revision = NoRevision
    /\ IsReady /\ hand \in LocalHands /\ ~question.long

Interpret ==
    /\ CanInterpret
    /\ revision' = [source |-> "fixture_local", by |-> NoOne, hand |-> hand]
    /\ status' = "interpreted"
    /\ UNCHANGED <<question, hand, journal, claim, pc, seen, answer, crashes, call>>

SaveJournal ==
    /\ status \in {"interpreted", "saved"}
    /\ journal' = TRUE
    /\ status' = "saved"
    /\ UNCHANGED <<question, hand, revision, claim, pc, seen, answer, crashes, call>>

-----------------------------------------------------------------------------
(* interpret_live.  _owned without a lock.                                  *)
ReadReading(r) ==
    /\ pc[r] = "start" /\ status # "none"
    /\ seen' = [seen EXCEPT ![r] = status]
    /\ Goto(r, IF status = "drawn" THEN "checking" ELSE "refused")
    /\ UNCHANGED <<rows, claim, answer, crashes, call>>

(* The revision and the cards, the readiness gate, the request and its      *)
(* price; then the transaction is given up.                                 *)
PrepareCall(r) ==
    /\ pc[r] = "checking"
    /\ revision = NoRevision /\ IsReady
    /\ Goto(r, "claiming")
    /\ UNCHANGED <<rows, claim, seen, answer, crashes, call>>

(* A revision meanwhile, an oversized prompt or no pricing snapshot; then a  *)
(* refused admission, a claim that is taken, or a rejected dispatch whose   *)
(* release succeeds.                                                        *)
RefuseLive(r) ==
    /\ pc[r] \in {"checking", "claiming"}
    /\ Goto(r, "refused")
    /\ UNCHANGED <<rows, claim, seen, answer, crashes, call>>

(* INSERT under the unique scope key, then the dispatch marker.             *)
(* Faulty variant: the claim does not look for an unfinished one.           *)
DispatchUnclaimed(r) ==
    /\ pc[r] = "claiming"
    /\ claim' = [holder |-> r, state |-> "in_progress"]
    /\ call' = [call EXCEPT ![r].stage = "gate"]
    /\ Goto(r, "calling")
    /\ UNCHANGED <<rows, seen, answer, crashes>>

Dispatch(r) ==
    /\ pc[r] = "claiming"
    /\ claim = FreeClaim
    /\ claim' = [holder |-> r, state |-> "in_progress"]
    /\ call' = [call EXCEPT ![r].stage = "gate"]
    /\ Goto(r, "calling")
    /\ UNCHANGED <<rows, seen, answer, crashes>>

(* A rejected dispatch whose release is refused (recovery was first): the   *)
(* claim stays.                                                             *)
LeakClaim(r) ==
    /\ pc[r] = "claiming" /\ claim = FreeClaim
    /\ claim' = [holder |-> r, state |-> "in_progress"]
    /\ Goto(r, "refused")
    /\ UNCHANGED <<rows, seen, answer, crashes, call>>

CallProvider(r) ==
    /\ pc[r] = "calling"
    /\ CallStep(r)
    /\ UNCHANGED <<rows, claim, pc, seen, answer, crashes>>

(* validate_output: the document must be of this reading's locale, of the   *)
(* hand that was read, and cite only its primary units.                     *)
ValidateOutput(r, valid) ==
    /\ pc[r] = "calling"
    /\ IF valid THEN AcceptOutput(r) ELSE RejectOutput(r)
    /\ UNCHANGED <<rows, claim, pc, seen, answer, crashes>>

(* _terminalize, then the claim: kept for the result that is to be stored   *)
(* and for an unknown outcome, deleted after every definite error.          *)
Terminalize(r) ==
    /\ pc[r] = "calling" /\ call[r].stage = "ended"
    /\ IF call[r].category \in {"ok", "outcome_unknown"}
       THEN UNCHANGED claim
       ELSE claim' = IF claim.holder = r THEN FreeClaim ELSE claim
    /\ Goto(r, IF call[r].category = "ok" THEN "storing" ELSE "refused")
    /\ UNCHANGED <<rows, seen, answer, crashes, call>>

(* The lock, the status in the session, and the INSERT under the unique     *)
(* (reading_id, revision).                                                  *)
(* Faulty variant: only the status held since before the call is tested.    *)
CanPersistBySeenStatus(r) == seen[r] = "drawn"

CanPersist(r) == seen[r] = "drawn" /\ revision = NoRevision

Persist(r) ==
    /\ pc[r] = "storing"
    /\ CanPersist(r)
    /\ revision' = [source |-> "zhipu_live", by |-> r, hand |-> hand]
    /\ status' = "interpreted"
    /\ claim' = [claim EXCEPT !.state = "completed"]
    /\ Goto(r, "stored")
    /\ UNCHANGED <<question, hand, journal, seen, answer, crashes, call>>

(* IntegrityError: the transaction rolls back, the claim stays in progress. *)
(* A lost connection or a cancelled request leaves the same as a crash.     *)
PersistRefused(r) ==
    /\ pc[r] = "storing"
    /\ ~CanPersist(r)
    /\ Goto(r, "refused")
    /\ UNCHANGED <<rows, claim, seen, answer, crashes, call>>

Crash(r) ==
    /\ pc[r] \in {"checking", "claiming", "calling", "storing"}
    /\ crashes < MaxCrashes
    /\ crashes' = crashes + 1
    /\ Goto(r, "crashed")
    /\ UNCHANGED <<rows, claim, seen, answer, call>>

Live(r) ==
    \/ ReadReading(r) \/ PrepareCall(r) \/ RefuseLive(r)
    \/ Dispatch(r) \/ LeakClaim(r)
    \/ CallProvider(r) \/ (\E valid \in BOOLEAN : ValidateOutput(r, valid))
    \/ Terminalize(r) \/ Persist(r) \/ PersistRefused(r) \/ Crash(r)

-----------------------------------------------------------------------------
(* get, one item of history, or share_preview: the reading, then _read: its *)
(* cards, its latest revision, its journal, each a statement of its own.    *)
Advance(q, field, value, next) ==
    answer' = [answer EXCEPT ![q] = [answer[q] EXCEPT ![field] = value, !.stage = next]]

(* Faulty variant: the reading is read last.                                *)
NextReadStatusLast(stage) ==
    CASE stage = "start" -> "cards" [] stage = "cards" -> "interpretation"
      [] stage = "interpretation" -> "journal" [] stage = "journal" -> "status"
      [] OTHER -> "done"

NextRead(stage) ==
    CASE stage = "start" -> "status" [] stage = "status" -> "cards"
      [] stage = "cards" -> "interpretation" [] stage = "interpretation" -> "journal"
      [] OTHER -> "done"

ReadNext(q) ==
    /\ answer[q].stage # "done" /\ status # "none"
    /\ LET column == NextRead(answer[q].stage)
       IN  CASE column = "status" -> Advance(q, "status", status, column)
             [] column = "cards" -> Advance(q, "cards", Len(hand) = 3, column)
             [] column = "interpretation" ->
                    Advance(q, "interpretation", revision # NoRevision, column)
             [] column = "journal" -> Advance(q, "journal", journal, column)
             [] OTHER -> Advance(q, "stage", "done", "done")
    /\ UNCHANGED <<rows, claim, pc, seen, crashes, call>>

Next ==
    \/ Start \/ (\E h \in Hands : Draw(h)) \/ Interpret \/ SaveJournal
    \/ \E r \in Calls : Live(r)
    \/ \E q \in Readers : ReadNext(q)

Spec == Init /\ [][Next]_vars

-----------------------------------------------------------------------------
TypeOK ==
    /\ status \in {"none", "draft", "drawn", "interpreted", "saved"}
    /\ question \in Questions
    /\ hand \in Hands \cup {<<>>}
    /\ revision.source \in {"none", "fixture_local", "zhipu_live"}
    /\ revision.by \in Calls \cup {NoOne}
    /\ journal \in BOOLEAN
    /\ claim \in [holder : Calls \cup {NoOne}, state : {"free", "in_progress", "completed"}]
    /\ pc \in [Calls -> {"start", "checking", "claiming", "calling", "storing",
                         "stored", "refused", "crashed"}]
    /\ call \in [Calls -> CallRecord]

(* What the status says is there: a hand from "drawn" on, one               *)
(* interpretation of that very hand from "interpreted" on, a journal when   *)
(* "saved".  The service keeps this with a stale status in the session of   *)
(* every live request.                                                      *)
ReadingCoherent ==
    /\ TypeOK
    /\ (hand = <<>>) <=> (status \in {"none", "draft"})
    /\ (revision = NoRevision) <=> (status \in {"none", "draft", "drawn"})
    /\ revision # NoRevision => revision.hand = hand
    /\ journal <=> (status = "saved")

(* What the user paid for is stored, unless the fixture's interpretation    *)
(* was there first or the worker died: no second live request runs beside   *)
(* the first and takes its place.                                           *)
PaidResultIsStored ==
    \A r \in Calls :
        pc[r] \in {"refused", "stored"} /\ call[r].category = "ok" =>
            revision.by = r \/ revision.source = "fixture_local"

(* A response never shows a status without the rows it promises, although   *)
(* it is put together from several statements: the status is read first and *)
(* rows are only added.                                                     *)
AnswersAreConsistent ==
    \A q \in Readers : answer[q].stage = "done" =>
        /\ answer[q].status # "draft" => answer[q].cards
        /\ answer[q].status \in {"interpreted", "saved"} => answer[q].interpretation
        /\ answer[q].status = "saved" => answer[q].journal
=============================================================================
