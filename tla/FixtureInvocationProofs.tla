----------------------- MODULE FixtureInvocationProofs -----------------------
(* Theorems about FixtureInvocation and LedgerSchema for every set of       *)
(* requests, keys, cancels and accounts, and all estimates, costs, limits.  *)
EXTENDS LedgerSchema, AmountsProofs

-----------------------------------------------------------------------------
(* The inductive invariant.                                                 *)
Working == {"admitting", "dispatching", "invoked"}
CounterRow == [reserved : Nat, committed : Nat]
ReservationStates == {"none", "settled", "released"} \cup Held

(* A definite failure whose money is back, a later cancel notwithstanding.  *)
GivenUp(k, n) ==
    att[<<k, n>>].status \in {"failed", "cancelled"} /\ reservation[<<k, n>>] = "released"

(* The counters a session holds are numbers, and between its admission and  *)
(* the end of the attempt they contain what it reserved.                    *)
SessionsTyped ==
    /\ memCounter \in [Requests -> {NoCounters} \cup [Accounts -> CounterRow]]
    /\ \A r \in Requests :
          /\ pc[r] = "start" => memCounter[r] = NoCounters
          /\ pc[r] \in {"dispatching", "invoked"} =>
                /\ memCounter[r] \in [Accounts -> CounterRow]
                /\ \A a \in AccountsOf[KeyOf[r]] :
                      memCounter[r][a].reserved >= Estimate[KeyOf[r]]

(* What a cancel has read: an attempt it found exists for good.             *)
Snapshot == [inv : RowType, number : 0..MaxAttempts, att : Statuses,
             reservation : ReservationStates]

SnapshotsTyped ==
    /\ snap \in [Cancels -> Snapshot]
    /\ \A c \in Cancels :
          /\ snap[c].number = 0 => snap[c].reservation = "none"
          /\ \A n \in Attempts :
                n = snap[c].number => att[<<TargetOf[c], n>>].status # "none"
          /\ cpc[c] = "locking" => inv[TargetOf[c]].status # "none"

(* One worker at a time for each key, and none once it has succeeded.       *)
OneWorker ==
    \A r \in Requests : pc[r] \in Working =>
        /\ inv[KeyOf[r]].status \notin {"none", "succeeded"}
        /\ pc[r] = "invoked" => mem[r].status = "running"
        /\ \A s \in Requests : KeyOf[s] = KeyOf[r] /\ pc[s] \in Working => s = r

(* The attempts of a key follow each other.                                 *)
AttemptsFollow ==
    \A k \in Keys : \A m \in Attempts : att[<<k, m>>].status # "none" =>
        inv[k].status # "none" /\ \A n \in Attempts : n < m => GivenUp(k, n)

WorkerAtItsAttempt ==
    \A r \in Requests :
        /\ pc[r] = "start" => number[r] = 1
        /\ pc[r] \in Working =>
              \A n \in Attempts :
                  /\ n < number[r] => GivenUp(KeyOf[r], n)
                  /\ n > number[r] => att[<<KeyOf[r], n>>].status = "none"
                  /\ n = number[r] =>
                        (att[<<KeyOf[r], n>>].status = "none" <=> pc[r] = "admitting")

RowsOfAttempts ==
    \A k \in Keys : \A n \in Attempts :
        /\ att[<<k, n>>].status = "none" <=> reservation[<<k, n>>] = "none"
        /\ cost[<<k, n>>] # 0 => reservation[<<k, n>>] \in {"settled", "released"}
        /\ att[<<k, n>>].status = "succeeded" => inv[k].status = "succeeded"

(* TypeOK but for the counters, which need SessionsTyped.                   *)
RowsTyped ==
    /\ pc \in [Requests -> {"start"} \cup Working \cup Stopped]
    /\ number \in [Requests -> Attempts]
    /\ mem \in [Requests -> RowType]
    /\ inv \in [Keys -> RowType]
    /\ att \in [Rows -> RowType]
    /\ reservation \in [Rows -> ReservationStates]
    /\ cost \in [Rows -> 0..CostBound]
    /\ cpc \in [Cancels -> {"start", "locking", "returned", "raised"}]
    /\ crashes \in 0..MaxCrashes

RInv == /\ TypeOK /\ SessionsTyped /\ SnapshotsTyped /\ OneWorker
        /\ AttemptsFollow /\ WorkerAtItsAttempt /\ RowsOfAttempts

-----------------------------------------------------------------------------
(* The accounting, while no cancel has been asked for and no two            *)
(* invocations that share a counter overlap.                                *)
(* What a session remembers of its counters is what they hold.              *)
NeedsFresh(r) ==
    \/ pc[r] = "admitting"
    \/ pc[r] = "dispatching" /\ reservation[<<KeyOf[r], number[r]>>] = "reserved"
    \/ pc[r] = "invoked" /\ reservation[<<KeyOf[r], number[r]>>] = "dispatch_committed"

Fresh(r) == \A a \in AccountsOf[KeyOf[r]] : Seen(r)[a] = counter[a]

SessionsFresh == \A r \in Requests : NeedsFresh(r) => Fresh(r)

CountersMatch ==
    \A a \in Accounts :
        /\ counter[a].reserved = Total(HoldersOf(a), ReservedOf, LargestEstimate)
        /\ counter[a].committed = Total(SettledOf(a), cost, CostBound)

AInv == Undisturbed => SessionsFresh /\ CountersMatch

-----------------------------------------------------------------------------
(* Types.                                                                   *)
LEMMA RowsTypedInit == Init => RowsTyped
BY FixtureAssumption
   DEF Init, RowsTyped, NoRow, RowType, Statuses, Active, Terminal, ReservationStates, Attempts

(* Rows are written column by column.                                       *)
LEMMA StatusesAre ==
    /\ {"none", "pending", "admitted", "running", "succeeded", "failed", "cancelled",
        "outcome_unknown"} \subseteq Statuses
    /\ {"none", "reserved", "dispatch_committed", "reconciliation_required", "settled",
        "released"} \subseteq ReservationStates
BY DEF Statuses, ReservationStates, Active, Terminal, Held

LEMMA RowTypes ==
    ASSUME NEW row \in RowType, NEW status \in Statuses, NEW b \in BOOLEAN
    PROVE  /\ [row EXCEPT !.status = status] \in RowType
           /\ [row EXCEPT !.cancel = b] \in RowType
           /\ [status |-> status, cancel |-> b] \in RowType
           /\ row.status \in Statuses /\ row.cancel \in BOOLEAN
BY DEF RowType

LEMMA FlushTyped ==
    ASSUME NEW row \in RowType, NEW old \in RowType, NEW new \in RowType
    PROVE  Flush(row, old, new) \in RowType
BY DEF Flush, RowType

LEMMA NewStatusTyped ==
    ASSUME NEW r \in Requests, NEW o \in Outcomes
    PROVE  /\ NewStatus(r, o) \in {"cancelled", "succeeded", "outcome_unknown", "failed"}
           /\ NewReservation(r, o) \in {"settled", "reconciliation_required", "released"}
           /\ o.cost \in 0..CostBound
BY FixtureAssumption DEF NewStatus, NewReservation, Outcomes

LEMMA RowsTypedStep == RowsTyped /\ SnapshotsTyped /\ [Next]_vars => RowsTyped'
<1> SUFFICES ASSUME RowsTyped, SnapshotsTyped, [Next]_vars
             PROVE  RowsTyped'
  OBVIOUS
<1> USE FixtureAssumption, StatusesAre DEF RowsTyped, Goto, moneyVars, cancelVars
<1>0. /\ \A r \in Requests : KeyOf[r] \in Keys /\ <<KeyOf[r], number[r]>> \in Rows
      /\ \A c \in Cancels : TargetOf[c] \in Keys
      /\ \A k \in Keys, n \in Attempts : <<k, n>> \in Rows
  BY DEF Rows
<1>1. ASSUME NEW r \in Requests, CreatePending(r) PROVE RowsTyped'
  <2>1. [status |-> "pending", cancel |-> FALSE] \in RowType
    BY DEF RowType
  <2> QED
    BY <1>0, <1>1, <2>1 DEF CreatePending, Working
<1>2. ASSUME NEW r \in Requests, Replay(r) PROVE RowsTyped'
  BY <1>2 DEF Replay, Stopped
<1>3. ASSUME NEW r \in Requests, AdmitAttempt(r) PROVE RowsTyped'
  <2> DEFINE k == KeyOf[r]
             x == <<k, number[r]>>
             new == [mem[r] EXCEPT !.status = "admitted"]
             row == Flush(inv[k], mem[r], new)
             attempt == [status |-> "admitted", cancel |-> FALSE]
  <2>1. new \in RowType /\ row \in RowType /\ attempt \in RowType /\ k \in Keys /\ x \in Rows
    BY <1>0, FlushTyped, RowTypes
  <2>2. /\ pc' = [pc EXCEPT ![r] = "dispatching"] /\ inv' = [inv EXCEPT ![k] = row]
        /\ mem' = [mem EXCEPT ![r] = new] /\ att' = [att EXCEPT ![x] = attempt]
        /\ reservation' = [reservation EXCEPT ![x] = "reserved"]
        /\ UNCHANGED <<number, cost, cpc, crashes>>
    BY <1>3 DEF AdmitAttempt
  <2> HIDE DEF k, x, new, row, attempt
  <2> QED
    BY <2>1, <2>2 DEF Working
<1>4. ASSUME NEW r \in Requests, RefuseAdmission(r) PROVE RowsTyped'
  BY <1>4 DEF RefuseAdmission, Stopped
<1>5. ASSUME NEW r \in Requests, CommitDispatch(r) PROVE RowsTyped'
  <2> DEFINE k == KeyOf[r]
             x == <<k, number[r]>>
             new == [mem[r] EXCEPT !.status = "running"]
             row == Flush(inv[k], mem[r], new)
             attempt == [att[x] EXCEPT !.status = "running"]
  <2>1. new \in RowType /\ row \in RowType /\ attempt \in RowType /\ k \in Keys /\ x \in Rows
    BY <1>0, FlushTyped, RowTypes
  <2>2. /\ pc' = [pc EXCEPT ![r] = "invoked"] /\ inv' = [inv EXCEPT ![k] = row]
        /\ mem' = [mem EXCEPT ![r] = new] /\ att' = [att EXCEPT ![x] = attempt]
        /\ reservation' = [reservation EXCEPT ![x] = "dispatch_committed"]
        /\ UNCHANGED <<number, cost, cpc, crashes>>
    BY <1>5 DEF CommitDispatch
  <2> HIDE DEF k, x, new, row, attempt
  <2> QED
    BY <2>1, <2>2 DEF Working
<1>6. ASSUME NEW r \in Requests, DispatchRefused(r) PROVE RowsTyped'
  BY <1>6 DEF DispatchRefused, Stopped
<1>7. ASSUME NEW r \in Requests, NEW o \in Outcomes, Terminalize(r, o) PROVE RowsTyped'
  <2> DEFINE k == KeyOf[r]
             x == <<k, number[r]>>
             retry == CanRetry(r, o)
             new == [mem[r] EXCEPT !.status = IF retry THEN "running" ELSE NewStatus(r, o)]
             row == Flush(inv[k], mem[r], new)
             attempt == [att[x] EXCEPT !.status = NewStatus(r, o)]
             next == IF retry THEN number[r] + 1 ELSE number[r]
  <2>1. new \in RowType /\ row \in RowType /\ attempt \in RowType /\ k \in Keys /\ x \in Rows
    BY <1>0, FlushTyped, RowTypes, NewStatusTyped
  <2>2. next \in Attempts
    BY DEF CanRetry, Attempts
  <2>3. /\ pc' = [pc EXCEPT ![r] = IF retry THEN "admitting" ELSE "returned"]
        /\ inv' = [inv EXCEPT ![k] = row] /\ mem' = [mem EXCEPT ![r] = new]
        /\ att' = [att EXCEPT ![x] = attempt]
        /\ reservation' = [reservation EXCEPT ![x] = NewReservation(r, o)]
        /\ cost' = [cost EXCEPT ![x] = o.cost] /\ number' = [number EXCEPT ![r] = next]
        /\ UNCHANGED <<cpc, crashes>>
    BY <1>7 DEF Terminalize
  <2>4. NewReservation(r, o) \in ReservationStates /\ o.cost \in 0..CostBound
    BY NewStatusTyped
  <2> HIDE DEF k, x, retry, new, row, attempt, next
  <2> QED
    BY <2>1, <2>2, <2>3, <2>4 DEF Working, Stopped
<1>8. ASSUME NEW r \in Requests, TerminalizeRefused(r) PROVE RowsTyped'
  BY <1>8 DEF TerminalizeRefused, Stopped
<1>9. ASSUME NEW r \in Requests, Crash(r) PROVE RowsTyped'
  BY <1>9 DEF Crash, Stopped
<1>10. ASSUME NEW c \in Cancels, ReadSnapshot(c) PROVE RowsTyped'
  BY <1>10 DEF ReadSnapshot
<1>11. ASSUME NEW c \in Cancels, CancelTooLate(c) PROVE RowsTyped'
  BY <1>11 DEF CancelTooLate
<1>12. ASSUME NEW c \in Cancels, CancelBeforeDispatch(c) PROVE RowsTyped'
  <2> DEFINE k == TargetOf[c]
             x == <<k, snap[c].number>>
             row == [status |-> "cancelled", cancel |-> TRUE]
  <2>1. row \in RowType /\ k \in Keys
    BY <1>0 DEF RowType
  <2>2. /\ inv' = [inv EXCEPT ![k] = row] /\ cpc' = [cpc EXCEPT ![c] = "returned"]
        /\ att' = [att EXCEPT ![x] = row] \/ att' = att
        /\ reservation' = [reservation EXCEPT ![x] = "released"] \/ reservation' = reservation
        /\ UNCHANGED <<pc, number, mem, cost, crashes>>
    BY <1>12 DEF CancelBeforeDispatch
  <2> HIDE DEF k, x, row
  <2> QED
    BY <2>1, <2>2
<1>13. ASSUME NEW c \in Cancels, CancelFails(c) PROVE RowsTyped'
  BY <1>13 DEF CancelFails
<1>14. ASSUME NEW c \in Cancels, CancelAfterDispatch(c) PROVE RowsTyped'
  <2> DEFINE k == TargetOf[c]
             x == <<k, snap[c].number>>
             row == [inv[k] EXCEPT !.cancel = TRUE]
             attempt == [att[x] EXCEPT !.cancel = TRUE]
  <2>1. row \in RowType /\ k \in Keys /\ (x \in Rows => attempt \in RowType)
    BY <1>0, RowTypes
  <2>2. /\ inv' = [inv EXCEPT ![k] = row] /\ cpc' = [cpc EXCEPT ![c] = "returned"]
        /\ att' = [att EXCEPT ![x] = attempt] \/ att' = att
        /\ UNCHANGED <<pc, number, mem, reservation, cost, crashes>>
    BY <1>14 DEF CancelAfterDispatch
  <2> HIDE DEF k, x, row, attempt
  <2> QED
    BY <2>1, <2>2
<1>15. ASSUME NEW k \in Keys, NEW n \in Attempts, RecoverOrphan(k, n) PROVE RowsTyped'
  <2> DEFINE x == <<k, n>>
             row == [inv[k] EXCEPT !.status = "failed"]
             attempt == [att[x] EXCEPT !.status = "failed"]
  <2>1. row \in RowType /\ attempt \in RowType /\ x \in Rows
    BY <1>0, RowTypes
  <2>2. /\ inv' = [inv EXCEPT ![k] = row] /\ att' = [att EXCEPT ![x] = attempt]
        /\ reservation' = [reservation EXCEPT ![x] = "released"]
        /\ UNCHANGED <<pc, number, mem, cost, cpc, crashes>>
    BY <1>15 DEF RecoverOrphan
  <2> HIDE DEF x, row, attempt
  <2> QED
    BY <2>1, <2>2
<1>16. ASSUME NEW k \in Keys, NEW n \in Attempts, RecoverDoubtful(k, n) PROVE RowsTyped'
  <2> DEFINE x == <<k, n>>
             row == [inv[k] EXCEPT !.status = "outcome_unknown"]
             attempt == [att[x] EXCEPT !.status = "outcome_unknown"]
  <2>1. row \in RowType /\ attempt \in RowType /\ x \in Rows
    BY <1>0, RowTypes
  <2>2. /\ inv' = [inv EXCEPT ![k] = row] \/ inv' = inv
        /\ att' = [att EXCEPT ![x] = attempt] \/ att' = att
        /\ reservation' = [reservation EXCEPT ![x] = "reconciliation_required"]
        /\ UNCHANGED <<pc, number, mem, cost, cpc, crashes>>
    BY <1>16 DEF RecoverDoubtful
  <2> HIDE DEF x, row, attempt
  <2> QED
    BY <2>1, <2>2
<1>17. CASE UNCHANGED vars
  BY <1>17 DEF vars
<1> QED
  BY <1>1, <1>2, <1>3, <1>4, <1>5, <1>6, <1>7, <1>8, <1>9, <1>10, <1>11, <1>12, <1>13, <1>14, <1>15, <1>16, <1>17
     DEF Next, Work, CancelWork, RecoverFails, Quiescent

-----------------------------------------------------------------------------
(* What each step does to the workers and to the statuses, the reservations *)
(* and the costs of the rows, column by column.                             *)
Became(k, status) ==
    \A l \in Keys : inv'[l].status = IF l = k THEN status ELSE inv[l].status

Written(k, n, status, state) ==
    \A l \in Keys : \A m \in Attempts :
        /\ att'[<<l, m>>].status = IF l = k /\ m = n THEN status ELSE att[<<l, m>>].status
        /\ reservation'[<<l, m>>] = IF l = k /\ m = n THEN state ELSE reservation[<<l, m>>]

CostIs(k, n, amount) ==
    \A l \in Keys : \A m \in Attempts :
        cost'[<<l, m>>] = IF l = k /\ m = n THEN amount ELSE cost[<<l, m>>]

KeepInv == \A l \in Keys : inv'[l].status = inv[l].status
KeepAttempts == \A l \in Keys : \A m \in Attempts :
    att'[<<l, m>>].status = att[<<l, m>>].status /\ reservation'[<<l, m>>] = reservation[<<l, m>>]
KeepCosts == \A l \in Keys : \A m \in Attempts : cost'[<<l, m>>] = cost[<<l, m>>]

Moves(r, from, to) ==
    pc[r] = from /\ \A s \in Requests : pc'[s] = IF s = r THEN to ELSE pc[s]
Remembers(r, status) ==
    \A s \in Requests : mem'[s].status = IF s = r THEN status ELSE mem[s].status
KeepWorkers == pc' = pc /\ number' = number /\ mem' = mem

Quiet ==
    /\ \A s \in Requests : pc'[s] = pc[s] \/ pc'[s] \in Stopped
    /\ number' = number /\ mem' = mem
    /\ KeepInv /\ KeepAttempts /\ KeepCosts

Created(r) ==
    /\ Moves(r, "start", "admitting") /\ Remembers(r, "pending") /\ number' = number
    /\ inv[KeyOf[r]].status = "none" /\ Became(KeyOf[r], "pending")
    /\ KeepAttempts /\ KeepCosts

Admitted(r) ==
    /\ Moves(r, "admitting", "dispatching") /\ Remembers(r, "admitted") /\ number' = number
    /\ Became(KeyOf[r], "admitted") /\ Written(KeyOf[r], number[r], "admitted", "reserved")
    /\ KeepCosts

Dispatched(r) ==
    /\ Moves(r, "dispatching", "invoked") /\ Remembers(r, "running") /\ number' = number
    /\ att[<<KeyOf[r], number[r]>>].status = "admitted"
    /\ reservation[<<KeyOf[r], number[r]>>] = "reserved"
    /\ Became(KeyOf[r], "running")
    /\ Written(KeyOf[r], number[r], "running", "dispatch_committed")
    /\ KeepCosts

Retried(r) ==
    /\ Moves(r, "invoked", "admitting") /\ Remembers(r, "running")
    /\ \A s \in Requests : number'[s] = IF s = r THEN number[r] + 1 ELSE number[s]
    /\ att[<<KeyOf[r], number[r]>>].status = "running"
    /\ reservation[<<KeyOf[r], number[r]>>] = "dispatch_committed"
    /\ KeepInv /\ Written(KeyOf[r], number[r], "failed", "released")
    /\ CostIs(KeyOf[r], number[r], 0)

Ended(r, o) ==
    /\ Moves(r, "invoked", "returned") /\ number' = number
    /\ att[<<KeyOf[r], number[r]>>].status = "running"
    /\ reservation[<<KeyOf[r], number[r]>>] = "dispatch_committed"
    /\ Became(KeyOf[r], NewStatus(r, o))
    /\ Written(KeyOf[r], number[r], NewStatus(r, o), NewReservation(r, o))
    /\ CostIs(KeyOf[r], number[r], o.cost)
    /\ \A s \in Requests : s # r => mem'[s].status = mem[s].status

CancelledBy(c) ==
    /\ KeepWorkers /\ KeepCosts
    /\ inv[TargetOf[c]].status # "succeeded" /\ Became(TargetOf[c], "cancelled")
    /\ \A l \in Keys : \A m \in Attempts :
          /\ att'[<<l, m>>].status = IF l = TargetOf[c] /\ m = snap[c].number
                                     THEN "cancelled" ELSE att[<<l, m>>].status
          /\ reservation'[<<l, m>>] =
                IF l = TargetOf[c] /\ m = snap[c].number /\ snap[c].reservation = "reserved"
                THEN "released" ELSE reservation[<<l, m>>]

Recovered(k, n) ==
    /\ KeepWorkers /\ KeepCosts
    /\ inv[k].status = "admitted" /\ reservation[<<k, n>>] = "reserved"
    /\ Became(k, "failed") /\ Written(k, n, "failed", "released")

Doubted(k, n) ==
    /\ KeepWorkers /\ KeepCosts
    /\ reservation[<<k, n>>] = "reserved"
    /\ \/ /\ inv[k].status \in Active /\ Became(k, "outcome_unknown")
          /\ Written(k, n, "outcome_unknown", "reconciliation_required")
       \/ KeepInv /\ Written(k, n, att[<<k, n>>].status, "reconciliation_required")

LEMMA Typed ==
    ASSUME RowsTyped
    PROVE  /\ \A k \in Keys : \A n \in Attempts : <<k, n>> \in Rows
           /\ \A r \in Requests : KeyOf[r] \in Keys /\ number[r] \in Attempts
           /\ \A c \in Cancels : TargetOf[c] \in Keys
           /\ \A k, l \in Keys : \A n, m \in Attempts : <<k, n>> = <<l, m>> <=> k = l /\ n = m
           /\ pc \in [Requests -> {"start"} \cup Working \cup Stopped]
           /\ number \in [Requests -> Attempts] /\ mem \in [Requests -> RowType]
           /\ inv \in [Keys -> RowType] /\ att \in [Rows -> RowType]
           /\ reservation \in [Rows -> ReservationStates] /\ cost \in [Rows -> 0..CostBound]
BY FixtureAssumption DEF RowsTyped, Rows

LEMMA Named ==
    ASSUME RowsTyped
    PROVE  /\ \A r \in Requests : KeyOf[r] \in Keys /\ number[r] \in Attempts
           /\ \A c \in Cancels : TargetOf[c] \in Keys
BY FixtureAssumption DEF RowsTyped

(* One row of each table is written, and nothing of the others.             *)
LEMMA WritesInv ==
    ASSUME RowsTyped, NEW k \in Keys, NEW row, inv' = [inv EXCEPT ![k] = row]
    PROVE  Became(k, row.status)
BY Typed DEF Became

LEMMA WritesAttempt ==
    ASSUME RowsTyped, NEW k \in Keys, NEW n \in Attempts, NEW row, NEW state,
           att' = [att EXCEPT ![<<k, n>>] = row],
           reservation' = [reservation EXCEPT ![<<k, n>>] = state]
    PROVE  Written(k, n, row.status, state)
<1> SUFFICES ASSUME NEW l \in Keys, NEW m \in Attempts
             PROVE  /\ att'[<<l, m>>].status = IF l = k /\ m = n THEN row.status ELSE att[<<l, m>>].status
                    /\ reservation'[<<l, m>>] = IF l = k /\ m = n THEN state ELSE reservation[<<l, m>>]
  BY DEF Written
<1>1. <<l, m>> \in Rows /\ <<k, n>> \in Rows /\ (<<l, m>> = <<k, n>> <=> l = k /\ m = n)
  BY DEF Rows
<1>2. att \in [Rows -> RowType] /\ reservation \in [Rows -> ReservationStates]
  BY DEF RowsTyped
<1>3. CASE l = k /\ m = n
  BY <1>1, <1>2, <1>3
<1>4. CASE ~(l = k /\ m = n)
  BY <1>1, <1>2, <1>4
<1> QED
  BY <1>3, <1>4

LEMMA WritesCost ==
    ASSUME RowsTyped, NEW k \in Keys, NEW n \in Attempts, NEW amount,
           cost' = [cost EXCEPT ![<<k, n>>] = amount]
    PROVE  CostIs(k, n, amount)
BY Typed DEF CostIs

LEMMA WritesWorker ==
    ASSUME RowsTyped, NEW r \in Requests, NEW to, pc' = [pc EXCEPT ![r] = to]
    PROVE  Moves(r, pc[r], to)
BY Typed DEF Moves

LEMMA WritesMem ==
    ASSUME RowsTyped, NEW r \in Requests, NEW row, mem' = [mem EXCEPT ![r] = row]
    PROVE  Remembers(r, row.status)
BY Typed DEF Remembers

(* A transaction that writes a worker's rows flushes what it changed.       *)
LEMMA FlushedStatus ==
    ASSUME NEW row, NEW old, NEW new
    PROVE  Flush(row, old, new).status = IF new.status # old.status THEN new.status ELSE row.status
BY DEF Flush

LEMMA StatusPut ==
    ASSUME NEW row \in RowType, NEW status
    PROVE  [row EXCEPT !.status = status].status = status
BY DEF RowType

LEMMA AdmitEffect ==
    ASSUME RowsTyped, NEW r \in Requests, AdmitAttempt(r)
    PROVE  Admitted(r)
<1> DEFINE k == KeyOf[r]
           n == number[r]
           new == [mem[r] EXCEPT !.status = "admitted"]
           row == Flush(inv[k], mem[r], new)
           attempt == [status |-> "admitted", cancel |-> FALSE]
<1>1. k \in Keys /\ n \in Attempts /\ mem[r] \in RowType
  BY Typed
<1>2. new.status = "admitted" /\ row.status = "admitted" /\ attempt.status = "admitted"
  <2>1. new.status = "admitted" /\ attempt.status = "admitted" /\ mem[r].status # "admitted"
    BY <1>1, StatusPut DEF AdmitAttempt, CanAdmit
  <2> HIDE DEF new
  <2>2. row.status = IF new.status # mem[r].status THEN new.status ELSE inv[k].status
    BY FlushedStatus
  <2> QED
    BY <2>1, <2>2
<1>3. /\ pc[r] = "admitting" /\ pc' = [pc EXCEPT ![r] = "dispatching"]
      /\ inv' = [inv EXCEPT ![k] = row] /\ mem' = [mem EXCEPT ![r] = new]
      /\ att' = [att EXCEPT ![<<k, n>>] = attempt]
      /\ reservation' = [reservation EXCEPT ![<<k, n>>] = "reserved"]
      /\ number' = number /\ cost' = cost
  BY DEF AdmitAttempt, Goto
<1> HIDE DEF k, n, new, row, attempt
<1>4. /\ Became(k, row.status) /\ Written(k, n, attempt.status, "reserved")
      /\ Moves(r, "admitting", "dispatching") /\ Remembers(r, new.status) /\ KeepCosts
  BY <1>1, <1>3, WritesInv, WritesAttempt, WritesWorker, WritesMem DEF KeepCosts
<1> QED
  BY <1>2, <1>3, <1>4 DEF Admitted, k, n

LEMMA DispatchEffect ==
    ASSUME RowsTyped, NEW r \in Requests, CommitDispatch(r)
    PROVE  Dispatched(r)
<1> DEFINE k == KeyOf[r]
           n == number[r]
           new == [mem[r] EXCEPT !.status = "running"]
           row == Flush(inv[k], mem[r], new)
           attempt == [att[<<k, n>>] EXCEPT !.status = "running"]
<1>1. k \in Keys /\ n \in Attempts /\ mem[r] \in RowType /\ att[<<k, n>>] \in RowType
  BY Typed
<1>2. new.status = "running" /\ row.status = "running" /\ attempt.status = "running"
  <2>1. new.status = "running" /\ attempt.status = "running" /\ mem[r].status # "running"
    BY <1>1, StatusPut DEF CommitDispatch, CanDispatch
  <2> HIDE DEF new
  <2>2. row.status = IF new.status # mem[r].status THEN new.status ELSE inv[k].status
    BY FlushedStatus
  <2> QED
    BY <2>1, <2>2
<1>3. /\ pc[r] = "dispatching" /\ pc' = [pc EXCEPT ![r] = "invoked"]
      /\ att[<<k, n>>].status = "admitted" /\ reservation[<<k, n>>] = "reserved"
      /\ inv' = [inv EXCEPT ![k] = row] /\ mem' = [mem EXCEPT ![r] = new]
      /\ att' = [att EXCEPT ![<<k, n>>] = attempt]
      /\ reservation' = [reservation EXCEPT ![<<k, n>>] = "dispatch_committed"]
      /\ number' = number /\ cost' = cost
  BY DEF CommitDispatch, CanDispatch, Goto
<1> HIDE DEF k, n, new, row, attempt
<1>4. /\ Became(k, row.status) /\ Written(k, n, attempt.status, "dispatch_committed")
      /\ Moves(r, "dispatching", "invoked") /\ Remembers(r, new.status) /\ KeepCosts
  BY <1>1, <1>3, WritesInv, WritesAttempt, WritesWorker, WritesMem DEF KeepCosts
<1> QED
  BY <1>2, <1>3, <1>4 DEF Dispatched, k, n

LEMMA TerminalEffect ==
    ASSUME RowsTyped, OneWorker, NEW r \in Requests, NEW o \in Outcomes, Terminalize(r, o)
    PROVE  IF CanRetry(r, o) THEN Retried(r) ELSE Ended(r, o)
<1> DEFINE k == KeyOf[r]
           n == number[r]
           status == NewStatus(r, o)
           state == NewReservation(r, o)
           retry == CanRetry(r, o)
           new == [mem[r] EXCEPT !.status = IF retry THEN "running" ELSE status]
           row == Flush(inv[k], mem[r], new)
           attempt == [att[<<k, n>>] EXCEPT !.status = status]
           to == IF retry THEN "admitting" ELSE "returned"
<1>1. k \in Keys /\ n \in Attempts /\ mem[r] \in RowType /\ att[<<k, n>>] \in RowType
  BY Typed
<1>2. mem[r].status = "running" /\ status \in {"cancelled", "succeeded", "outcome_unknown", "failed"}
  BY NewStatusTyped DEF Terminalize, OneWorker, Working
<1>3. /\ new.status = IF retry THEN "running" ELSE status
      /\ row.status = IF retry THEN inv[k].status ELSE status
      /\ attempt.status = status
  <2>1. new.status = (IF retry THEN "running" ELSE status) /\ attempt.status = status
    BY <1>1, StatusPut
  <2> HIDE DEF new, attempt
  <2>2. row.status = IF new.status # mem[r].status THEN new.status ELSE inv[k].status
    BY FlushedStatus
  <2> QED
    BY <1>2, <2>1, <2>2
<1>4. /\ pc[r] = "invoked" /\ pc' = [pc EXCEPT ![r] = to]
      /\ att[<<k, n>>].status = "running" /\ reservation[<<k, n>>] = "dispatch_committed"
      /\ inv' = [inv EXCEPT ![k] = row] /\ mem' = [mem EXCEPT ![r] = new]
      /\ att' = [att EXCEPT ![<<k, n>>] = attempt]
      /\ reservation' = [reservation EXCEPT ![<<k, n>>] = state]
      /\ number' = [number EXCEPT ![r] = IF retry THEN n + 1 ELSE n]
      /\ cost' = [cost EXCEPT ![<<k, n>>] = o.cost]
  BY DEF Terminalize, Goto
<1>5. retry => status = "failed" /\ state = "released" /\ o.cost = 0
  BY DEF CanRetry, NewStatus, NewReservation, Outcomes
<1> HIDE DEF k, n, new, row, attempt, status, state, retry, to
<1>6. /\ Became(k, row.status) /\ Written(k, n, attempt.status, state)
      /\ Moves(r, "invoked", to) /\ Remembers(r, new.status) /\ CostIs(k, n, o.cost)
  BY <1>1, <1>4, WritesInv, WritesAttempt, WritesWorker, WritesMem, WritesCost
<1>7. CASE retry
  <2>1. KeepInv
    BY <1>3, <1>6, <1>7 DEF KeepInv, Became
  <2>2. \A s \in Requests : number'[s] = IF s = r THEN number[r] + 1 ELSE number[s]
    BY <1>4, <1>7, Typed DEF n
  <2> QED
    BY <1>3, <1>4, <1>5, <1>6, <1>7, <2>1, <2>2 DEF Retried, k, n, retry, to
<1>8. CASE ~retry
  <2>1. number' = number
    BY <1>4, <1>8, Typed DEF n
  <2> QED
    BY <1>3, <1>4, <1>6, <1>8, <2>1 DEF Ended, Remembers, k, n, retry, to, status, state
<1> QED
  BY <1>7, <1>8 DEF retry

LEMMA CancelEffect ==
    ASSUME RowsTyped, SnapshotsTyped, NEW c \in Cancels, CancelBeforeDispatch(c)
    PROVE  CancelledBy(c)
<1> DEFINE k == TargetOf[c]
           n == snap[c].number
           state == snap[c].reservation
           row == [status |-> "cancelled", cancel |-> TRUE]
<1>1. k \in Keys /\ n \in 0..MaxAttempts /\ (n = 0 => state = "none")
  BY Typed DEF SnapshotsTyped, Snapshot
<1>2. /\ inv[k].status # "succeeded" /\ inv' = [inv EXCEPT ![k] = row]
      /\ reservation' = IF state = "reserved" THEN [reservation EXCEPT ![<<k, n>>] = "released"]
                                              ELSE reservation
      /\ att' = IF n # 0 THEN [att EXCEPT ![<<k, n>>] = row] ELSE att
      /\ KeepWorkers /\ cost' = cost
  BY DEF CancelBeforeDispatch, Storable, KeepWorkers
<1>3. row.status = "cancelled"
  OBVIOUS
<1> HIDE DEF k, n, state, row
<1>4. Became(k, "cancelled") /\ KeepCosts
  BY <1>1, <1>2, <1>3, WritesInv DEF KeepCosts
<1>5. ASSUME NEW l \in Keys, NEW m \in Attempts
      PROVE  /\ att'[<<l, m>>].status =
                   IF l = k /\ m = n THEN "cancelled" ELSE att[<<l, m>>].status
             /\ reservation'[<<l, m>>] =
                   IF l = k /\ m = n /\ state = "reserved" THEN "released" ELSE reservation[<<l, m>>]
  <2>1. CASE n = 0
    BY <1>1, <1>2, <2>1, FixtureAssumption DEF Attempts
  <2>2. CASE n # 0
    <3>1. n \in Attempts
      BY <1>1, <2>2, FixtureAssumption DEF Attempts
    <3>2. <<l, m>> \in Rows /\ (<<l, m>> = <<k, n>> <=> l = k /\ m = n)
      BY <1>1, <3>1, Typed
    <3>3. att \in [Rows -> RowType] /\ reservation \in [Rows -> ReservationStates]
      BY Typed
    <3> QED
      BY <1>2, <1>3, <2>2, <3>2, <3>3
  <2> QED
    BY <2>1, <2>2
<1> QED
  BY <1>2, <1>4, <1>5 DEF CancelledBy, k, n, state

LEMMA RecoverEffect ==
    ASSUME RowsTyped, NEW k \in Keys, NEW n \in Attempts
    PROVE  /\ RecoverOrphan(k, n) => Recovered(k, n)
           /\ RecoverDoubtful(k, n) => Doubted(k, n)
<1>1. ASSUME NEW status
      PROVE  /\ [inv[k] EXCEPT !.status = status].status = status
             /\ [att[<<k, n>>] EXCEPT !.status = status].status = status
  BY Typed, StatusPut
<1>2. ASSUME RecoverOrphan(k, n) PROVE Recovered(k, n)
  <2> DEFINE row == [inv[k] EXCEPT !.status = "failed"]
             attempt == [att[<<k, n>>] EXCEPT !.status = "failed"]
  <2>1. row.status = "failed" /\ attempt.status = "failed"
    BY <1>1
  <2>2. /\ inv[k].status = "admitted" /\ reservation[<<k, n>>] = "reserved"
        /\ inv' = [inv EXCEPT ![k] = row] /\ att' = [att EXCEPT ![<<k, n>>] = attempt]
        /\ reservation' = [reservation EXCEPT ![<<k, n>>] = "released"]
        /\ KeepWorkers /\ KeepCosts
    BY <1>2 DEF RecoverOrphan, RecoveryBooks, CanRecover, KeepWorkers, KeepCosts
  <2> HIDE DEF row, attempt
  <2>3. Became(k, row.status) /\ Written(k, n, attempt.status, "released")
    BY <2>2, WritesInv, WritesAttempt
  <2> QED
    BY <2>1, <2>2, <2>3 DEF Recovered
<1>3. ASSUME RecoverDoubtful(k, n) PROVE Doubted(k, n)
  <2>1. /\ reservation[<<k, n>>] = "reserved" /\ KeepWorkers /\ KeepCosts
        /\ reservation' = [reservation EXCEPT ![<<k, n>>] = "reconciliation_required"]
    BY <1>3 DEF RecoverDoubtful, KeepWorkers, KeepCosts
  <2>2. CASE inv[k].status \in Active /\ att[<<k, n>>].status \in Active
    <3> DEFINE row == [inv[k] EXCEPT !.status = "outcome_unknown"]
               attempt == [att[<<k, n>>] EXCEPT !.status = "outcome_unknown"]
    <3>1. row.status = "outcome_unknown" /\ attempt.status = "outcome_unknown"
      BY <1>1
    <3>2. inv' = [inv EXCEPT ![k] = row] /\ att' = [att EXCEPT ![<<k, n>>] = attempt]
      BY <1>3, <2>2 DEF RecoverDoubtful
    <3> HIDE DEF row, attempt
    <3>3. Became(k, row.status) /\ Written(k, n, attempt.status, "reconciliation_required")
      BY <2>1, <3>2, WritesInv, WritesAttempt
    <3> QED
      BY <2>1, <2>2, <3>1, <3>3 DEF Doubted
  <2>3. CASE ~(inv[k].status \in Active /\ att[<<k, n>>].status \in Active)
    <3>1. inv' = inv /\ att' = att
      BY <1>3, <2>3 DEF RecoverDoubtful
    <3>2. att' = [att EXCEPT ![<<k, n>>] = att[<<k, n>>]]
      BY <3>1, Typed
    <3>3. Written(k, n, att[<<k, n>>].status, "reconciliation_required")
      BY <2>1, <3>2, WritesAttempt
    <3> QED
      BY <2>1, <3>1, <3>3 DEF Doubted, KeepInv
  <2> QED
    BY <2>2, <2>3
<1> QED
  BY <1>2, <1>3

LEMMA CreateEffect ==
    ASSUME RowsTyped, NEW r \in Requests, CreatePending(r)
    PROVE  Created(r)
<1> DEFINE k == KeyOf[r]
           row == [status |-> "pending", cancel |-> FALSE]
<1>1. row.status = "pending" /\ k \in Keys
  BY Typed
<1>2. /\ pc[r] = "start" /\ inv[k].status = "none"
      /\ pc' = [pc EXCEPT ![r] = "admitting"] /\ mem' = [mem EXCEPT ![r] = row]
      /\ inv' = [inv EXCEPT ![k] = row] /\ number' = number
      /\ KeepAttempts /\ KeepCosts
  BY DEF CreatePending, Goto, moneyVars, KeepAttempts, KeepCosts
<1> HIDE DEF row, k
<1>3. Moves(r, "start", "admitting") /\ Remembers(r, row.status) /\ Became(k, row.status)
  BY <1>1, <1>2, WritesInv, WritesWorker, WritesMem
<1> QED
  BY <1>1, <1>2, <1>3 DEF Created, k

LEMMA QuietEffect ==
    ASSUME RowsTyped,
           \/ \E r \in Requests : \/ Replay(r) \/ RefuseAdmission(r) \/ DispatchRefused(r)
                                  \/ TerminalizeRefused(r) \/ Crash(r)
           \/ \E c \in Cancels : ReadSnapshot(c) \/ CancelTooLate(c) \/ CancelFails(c)
           \/ UNCHANGED vars
    PROVE  Quiet
<1>1. /\ number' = number /\ mem' = mem /\ inv' = inv /\ att' = att
      /\ reservation' = reservation /\ cost' = cost
      /\ pc' = pc \/ \E r \in Requests, to \in Stopped : pc' = [pc EXCEPT ![r] = to]
  BY DEF Replay, RefuseAdmission, DispatchRefused, TerminalizeRefused, Crash, Goto,
         Stopped, moneyVars, ReadSnapshot, CancelTooLate, CancelFails, vars
<1>2. \A s \in Requests : pc'[s] = pc[s] \/ pc'[s] \in Stopped
  BY <1>1, Typed
<1> QED
  BY <1>1, <1>2 DEF Quiet, KeepInv, KeepAttempts, KeepCosts

LEMMA Effects ==
    RowsTyped /\ SnapshotsTyped /\ OneWorker /\ [Next]_vars =>
        \/ Quiet
        \/ \E r \in Requests : Created(r) \/ Admitted(r) \/ Dispatched(r) \/ Retried(r)
        \/ \E r \in Requests, o \in Outcomes : Ended(r, o)
        \/ \E c \in Cancels : CancelledBy(c)
        \/ \E k \in Keys, n \in Attempts : Recovered(k, n) \/ Doubted(k, n)
<1> DEFINE Goal == \/ Quiet
                   \/ \E r \in Requests : Created(r) \/ Admitted(r) \/ Dispatched(r) \/ Retried(r)
                   \/ \E r \in Requests, o \in Outcomes : Ended(r, o)
                   \/ \E c \in Cancels : CancelledBy(c)
                   \/ \E k \in Keys, n \in Attempts : Recovered(k, n) \/ Doubted(k, n)
<1> SUFFICES ASSUME RowsTyped, SnapshotsTyped, OneWorker, [Next]_vars PROVE Goal
  OBVIOUS
<1>1. ASSUME NEW c \in Cancels, CancelAfterDispatch(c) PROVE Goal
  <2> DEFINE k == TargetOf[c]
             x == <<k, snap[c].number>>
             row == [inv[k] EXCEPT !.cancel = TRUE]
             attempt == [att[x] EXCEPT !.cancel = TRUE]
  <2>1. k \in Keys /\ row.status = inv[k].status
        /\ (x \in Rows => attempt.status = att[x].status)
    BY Typed DEF RowType
  <2>2. /\ inv' = [inv EXCEPT ![k] = row]
        /\ att' = [att EXCEPT ![x] = attempt] \/ att' = att
        /\ pc' = pc /\ number' = number /\ mem' = mem
        /\ reservation' = reservation /\ cost' = cost
    BY <1>1 DEF CancelAfterDispatch, moneyVars
  <2> HIDE DEF k, x, row, attempt
  <2>3. KeepInv
    BY <2>1, <2>2, Typed DEF KeepInv
  <2>4. ASSUME NEW l \in Keys, NEW m \in Attempts
        PROVE  att'[<<l, m>>].status = att[<<l, m>>].status
    BY <2>1, <2>2, Typed
  <2> QED
    BY <2>2, <2>3, <2>4 DEF Quiet, KeepAttempts, KeepCosts
<1>2. ASSUME NEW r \in Requests, Work(r) \/ Crash(r) PROVE Goal
  BY <1>2, CreateEffect, QuietEffect, AdmitEffect, DispatchEffect, TerminalEffect DEF Work
<1>3. ASSUME NEW c \in Cancels, CancelWork(c) PROVE Goal
  BY <1>1, <1>3, QuietEffect, CancelEffect DEF CancelWork
<1>4. ASSUME NEW k \in Keys, NEW n \in Attempts, RecoverOrphan(k, n) \/ RecoverDoubtful(k, n)
      PROVE  Goal
  BY <1>4, RecoverEffect
<1>5. CASE UNCHANGED vars
  BY <1>5, QuietEffect
<1> QED
  BY <1>2, <1>3, <1>4, <1>5 DEF Next, RecoverFails, Quiescent

-----------------------------------------------------------------------------
(* The invariant is inductive, conjunct by conjunct.                        *)
LEMMA OneWorkerStep ==
    RowsTyped /\ SnapshotsTyped /\ OneWorker /\ AttemptsFollow /\ WorkerAtItsAttempt
        /\ RowsOfAttempts /\ [Next]_vars => OneWorker'
<1> SUFFICES ASSUME RowsTyped, SnapshotsTyped, OneWorker, RowsOfAttempts, [Next]_vars
             PROVE  OneWorker'
  OBVIOUS
<1> USE Typed
<1>1. CASE Quiet
  BY <1>1 DEF Quiet, OneWorker, KeepInv, Stopped, Working
<1>2. ASSUME NEW r \in Requests, Created(r) PROVE OneWorker'
  BY <1>2 DEF Created, OneWorker, Working, Moves, Remembers, Became
<1>3. ASSUME NEW r \in Requests, Admitted(r) PROVE OneWorker'
  BY <1>3 DEF Admitted, OneWorker, Working, Moves, Remembers, Became
<1>4. ASSUME NEW r \in Requests, Dispatched(r) PROVE OneWorker'
  BY <1>4 DEF Dispatched, OneWorker, Working, Moves, Remembers, Became
<1>5. ASSUME NEW r \in Requests, Retried(r) PROVE OneWorker'
  BY <1>5 DEF Retried, OneWorker, Working, Moves, Remembers, KeepInv
<1>6. ASSUME NEW r \in Requests, NEW o \in Outcomes, Ended(r, o) PROVE OneWorker'
  <2>1. \A s \in Requests : pc'[s] \in Working =>
           KeyOf[s] # KeyOf[r] /\ pc'[s] = pc[s] /\ mem'[s].status = mem[s].status
    BY <1>6 DEF Ended, OneWorker, Working, Moves
  <2>2. \A s \in Requests : KeyOf[s] # KeyOf[r] => inv'[KeyOf[s]].status = inv[KeyOf[s]].status
    BY <1>6 DEF Ended, Became
  <2> QED
    BY <2>1, <2>2 DEF OneWorker
<1>7. ASSUME NEW c \in Cancels, CancelledBy(c) PROVE OneWorker'
  BY <1>7 DEF CancelledBy, KeepWorkers, OneWorker, Became
<1>8. ASSUME NEW k \in Keys, NEW n \in Attempts, Recovered(k, n) \/ Doubted(k, n) PROVE OneWorker'
  BY <1>8 DEF Recovered, Doubted, KeepWorkers, OneWorker, Became, KeepInv
<1> QED
  BY <1>1, <1>2, <1>3, <1>4, <1>5, <1>6, <1>7, <1>8, Effects

LEMMA AttemptsFollowStep ==
    RowsTyped /\ SnapshotsTyped /\ OneWorker /\ AttemptsFollow /\ WorkerAtItsAttempt
        /\ RowsOfAttempts /\ [Next]_vars => AttemptsFollow'
<1> SUFFICES ASSUME RowsTyped, SnapshotsTyped, OneWorker, AttemptsFollow, WorkerAtItsAttempt,
                    RowsOfAttempts, [Next]_vars
             PROVE  AttemptsFollow'
  OBVIOUS
<1> USE Named
<1>1. CASE Quiet
  BY <1>1 DEF Quiet, AttemptsFollow, GivenUp, KeepInv, KeepAttempts
<1>2. ASSUME NEW r \in Requests, Created(r) PROVE AttemptsFollow'
  BY <1>2 DEF Created, AttemptsFollow, GivenUp, Became, KeepAttempts
<1>3. ASSUME NEW r \in Requests, Admitted(r) PROVE AttemptsFollow'
  BY <1>3 DEF Admitted, AttemptsFollow, WorkerAtItsAttempt, GivenUp, Working, Moves, Became, Written
<1>4. ASSUME NEW r \in Requests, Dispatched(r) PROVE AttemptsFollow'
  BY <1>4 DEF Dispatched, AttemptsFollow, GivenUp, Became, Written
<1>5. ASSUME NEW r \in Requests, Retried(r) PROVE AttemptsFollow'
  BY <1>5 DEF Retried, AttemptsFollow, GivenUp, KeepInv, Written
<1>6. ASSUME NEW r \in Requests, NEW o \in Outcomes, Ended(r, o) PROVE AttemptsFollow'
  <2>1. NewStatus(r, o) # "none"
    BY NewStatusTyped
  <2> QED
    BY <1>6, <2>1 DEF Ended, AttemptsFollow, GivenUp, Became, Written
<1>7. ASSUME NEW c \in Cancels, CancelledBy(c) PROVE AttemptsFollow'
  BY <1>7 DEF SnapshotsTyped, CancelledBy, AttemptsFollow, GivenUp, Became
<1>8. ASSUME NEW k \in Keys, NEW n \in Attempts, Recovered(k, n) PROVE AttemptsFollow'
  BY <1>8 DEF Recovered, AttemptsFollow, GivenUp, Became, Written, RowsOfAttempts
<1>9. ASSUME NEW k \in Keys, NEW n \in Attempts, Doubted(k, n) PROVE AttemptsFollow'
  BY <1>9 DEF Doubted, AttemptsFollow, GivenUp, Became, Written, KeepInv, RowsOfAttempts
<1> QED
  BY <1>1, <1>2, <1>3, <1>4, <1>5, <1>6, <1>7, <1>8, <1>9, Effects

LEMMA WorkerAtItsAttemptStep ==
    RowsTyped /\ SnapshotsTyped /\ OneWorker /\ AttemptsFollow /\ WorkerAtItsAttempt
        /\ RowsOfAttempts /\ [Next]_vars => WorkerAtItsAttempt'
<1> SUFFICES ASSUME RowsTyped, SnapshotsTyped, OneWorker, AttemptsFollow, WorkerAtItsAttempt,
                    RowsOfAttempts, [Next]_vars
             PROVE  WorkerAtItsAttempt'
  OBVIOUS
<1> USE Named
<1>1. CASE Quiet
  BY <1>1 DEF Quiet, WorkerAtItsAttempt, GivenUp, KeepAttempts, Working, Stopped
<1>2. ASSUME NEW r \in Requests, Created(r) PROVE WorkerAtItsAttempt'
  BY <1>2, FixtureAssumption
     DEF Created, WorkerAtItsAttempt, AttemptsFollow, GivenUp, KeepAttempts, Moves, Working, Attempts
<1>3. ASSUME NEW r \in Requests, Admitted(r) PROVE WorkerAtItsAttempt'
  BY <1>3 DEF Admitted, WorkerAtItsAttempt, OneWorker, GivenUp, Working, Moves, Written
<1>4. ASSUME NEW r \in Requests, Dispatched(r) PROVE WorkerAtItsAttempt'
  BY <1>4 DEF Dispatched, WorkerAtItsAttempt, OneWorker, GivenUp, Working, Moves, Written
<1>5. ASSUME NEW r \in Requests, Retried(r) PROVE WorkerAtItsAttempt'
  BY <1>5, FixtureAssumption
     DEF Retried, WorkerAtItsAttempt, OneWorker, GivenUp, Working, Moves, Written, Attempts
<1>6. ASSUME NEW r \in Requests, NEW o \in Outcomes, Ended(r, o) PROVE WorkerAtItsAttempt'
  BY <1>6 DEF Ended, WorkerAtItsAttempt, OneWorker, GivenUp, Working, Moves, Written
<1>7. ASSUME NEW c \in Cancels, CancelledBy(c) PROVE WorkerAtItsAttempt'
  BY <1>7 DEF SnapshotsTyped, CancelledBy, KeepWorkers, WorkerAtItsAttempt, GivenUp
<1>8. ASSUME NEW k \in Keys, NEW n \in Attempts, Recovered(k, n) PROVE WorkerAtItsAttempt'
  BY <1>8 DEF Recovered, KeepWorkers, WorkerAtItsAttempt, GivenUp, Written, RowsOfAttempts
<1>9. ASSUME NEW k \in Keys, NEW n \in Attempts, Doubted(k, n) PROVE WorkerAtItsAttempt'
  BY <1>9 DEF Doubted, KeepWorkers, WorkerAtItsAttempt, GivenUp, Written, RowsOfAttempts
<1> QED
  BY <1>1, <1>2, <1>3, <1>4, <1>5, <1>6, <1>7, <1>8, <1>9, Effects

LEMMA RowsOfAttemptsStep ==
    RowsTyped /\ SnapshotsTyped /\ OneWorker /\ AttemptsFollow /\ WorkerAtItsAttempt
        /\ RowsOfAttempts /\ [Next]_vars => RowsOfAttempts'
<1> SUFFICES ASSUME RowsTyped, SnapshotsTyped, OneWorker, AttemptsFollow, WorkerAtItsAttempt,
                    RowsOfAttempts, [Next]_vars, NEW l \in Keys, NEW m \in Attempts
             PROVE  /\ att'[<<l, m>>].status = "none" <=> reservation'[<<l, m>>] = "none"
                    /\ cost'[<<l, m>>] # 0 => reservation'[<<l, m>>] \in {"settled", "released"}
                    /\ att'[<<l, m>>].status = "succeeded" => inv'[l].status = "succeeded"
  BY DEF RowsOfAttempts
<1> DEFINE Row == /\ att'[<<l, m>>].status = "none" <=> reservation'[<<l, m>>] = "none"
                  /\ cost'[<<l, m>>] # 0 => reservation'[<<l, m>>] \in {"settled", "released"}
                  /\ att'[<<l, m>>].status = "succeeded" => inv'[l].status = "succeeded"
<1> USE Named
<1>1. CASE Quiet
  BY <1>1 DEF Quiet, RowsOfAttempts, KeepInv, KeepAttempts, KeepCosts
<1>2. ASSUME NEW r \in Requests, Created(r) PROVE Row
  BY <1>2 DEF Created, RowsOfAttempts, AttemptsFollow, Became, KeepAttempts, KeepCosts
<1>3. ASSUME NEW r \in Requests, Admitted(r) PROVE Row
  BY <1>3 DEF Admitted, RowsOfAttempts, WorkerAtItsAttempt, OneWorker, Working, Moves, Became, Written, KeepCosts
<1>4. ASSUME NEW r \in Requests, Dispatched(r) PROVE Row
  BY <1>4 DEF Dispatched, RowsOfAttempts, OneWorker, Working, Moves, Became, Written, KeepCosts
<1>5. ASSUME NEW r \in Requests, Retried(r) PROVE Row
  BY <1>5 DEF Retried, RowsOfAttempts, KeepInv, Written, CostIs
<1>6. ASSUME NEW r \in Requests, NEW o \in Outcomes, Ended(r, o) PROVE Row
  <2>1. /\ NewStatus(r, o) # "none" /\ NewReservation(r, o) # "none"
        /\ o.cost # 0 => NewReservation(r, o) = "settled"
    BY NewStatusTyped DEF NewReservation
  <2>2. inv[KeyOf[r]].status # "succeeded"
    BY <1>6 DEF Ended, Moves, OneWorker, Working
  <2> QED
    BY <1>6, <2>1, <2>2 DEF Ended, RowsOfAttempts, Became, Written, CostIs
<1>7. ASSUME NEW c \in Cancels, CancelledBy(c) PROVE Row
  BY <1>7 DEF SnapshotsTyped, CancelledBy, RowsOfAttempts, Became, KeepCosts
<1>8. ASSUME NEW k \in Keys, NEW n \in Attempts, Recovered(k, n) PROVE Row
  BY <1>8 DEF Recovered, RowsOfAttempts, Became, Written, KeepCosts
<1>9. ASSUME NEW k \in Keys, NEW n \in Attempts, Doubted(k, n) PROVE Row
  BY <1>9 DEF Doubted, RowsOfAttempts, Became, Written, KeepInv, KeepCosts, Active
<1> QED
  BY <1>1, <1>2, <1>3, <1>4, <1>5, <1>6, <1>7, <1>8, <1>9, Effects

(* What exists once exists for good.                                        *)
LEMMA RowsStay ==
    RowsTyped /\ SnapshotsTyped /\ OneWorker /\ WorkerAtItsAttempt /\ RowsOfAttempts /\ [Next]_vars =>
        /\ \A l \in Keys : inv[l].status # "none" => inv'[l].status # "none"
        /\ \A l \in Keys : \A m \in Attempts :
              att[<<l, m>>].status # "none" => att'[<<l, m>>].status # "none"
<1> SUFFICES ASSUME RowsTyped, SnapshotsTyped, OneWorker, WorkerAtItsAttempt, RowsOfAttempts,
                    [Next]_vars, NEW l \in Keys
             PROVE  /\ inv[l].status # "none" => inv'[l].status # "none"
                    /\ \A m \in Attempts :
                          att[<<l, m>>].status # "none" => att'[<<l, m>>].status # "none"
  OBVIOUS
<1> DEFINE Stay == /\ inv[l].status # "none" => inv'[l].status # "none"
                   /\ \A m \in Attempts :
                         att[<<l, m>>].status # "none" => att'[<<l, m>>].status # "none"
<1> USE Named
<1>1. CASE Quiet
  BY <1>1 DEF Quiet, KeepInv, KeepAttempts
<1>2. ASSUME NEW r \in Requests, Created(r) PROVE Stay
  BY <1>2 DEF Created, Became, KeepAttempts
<1>3. ASSUME NEW r \in Requests, Admitted(r) PROVE Stay
  BY <1>3 DEF Admitted, Became, Written
<1>4. ASSUME NEW r \in Requests, Dispatched(r) PROVE Stay
  BY <1>4 DEF Dispatched, Became, Written
<1>5. ASSUME NEW r \in Requests, Retried(r) PROVE Stay
  BY <1>5 DEF Retried, KeepInv, Written
<1>6. ASSUME NEW r \in Requests, NEW o \in Outcomes, Ended(r, o) PROVE Stay
  BY <1>6, NewStatusTyped DEF Ended, Became, Written
<1>7. ASSUME NEW c \in Cancels, CancelledBy(c) PROVE Stay
  BY <1>7 DEF CancelledBy, Became
<1>8. ASSUME NEW k \in Keys, NEW n \in Attempts, Recovered(k, n) PROVE Stay
  BY <1>8 DEF Recovered, Became, Written
<1>9. ASSUME NEW k \in Keys, NEW n \in Attempts, Doubted(k, n) PROVE Stay
  BY <1>9 DEF Doubted, Became, Written, KeepInv
<1> QED
  BY <1>1, <1>2, <1>3, <1>4, <1>5, <1>6, <1>7, <1>8, <1>9, Effects

(* A snapshot is written when it is read, and only then.                    *)
LEMMA SnapshotsChange ==
    RowsTyped /\ snap \in [Cancels -> Snapshot] /\ [Next]_vars =>
        \A c \in Cancels : \/ ReadSnapshot(c)
                           \/ snap'[c] = snap[c] /\ (cpc'[c] = "locking" => cpc[c] = "locking")
<1> SUFFICES ASSUME RowsTyped, [Next]_vars, NEW c \in Cancels,
                    snap \in [Cancels -> Snapshot]
             PROVE  \/ ReadSnapshot(c)
                    \/ snap'[c] = snap[c] /\ (cpc'[c] = "locking" => cpc[c] = "locking")
  OBVIOUS
<1> DEFINE Goal == \/ ReadSnapshot(c)
                   \/ snap'[c] = snap[c] /\ (cpc'[c] = "locking" => cpc[c] = "locking")
<1>1. ASSUME snap' = snap /\ cpc' = cpc PROVE Goal
  BY <1>1
<1>2. ASSUME NEW r \in Requests, Work(r) \/ Crash(r) PROVE snap' = snap /\ cpc' = cpc
  BY <1>2 DEF Work, CreatePending, Replay, AdmitAttempt, RefuseAdmission, CommitDispatch,
              DispatchRefused, Terminalize, TerminalizeRefused, Crash, cancelVars
<1>3. ASSUME NEW d \in Cancels, CancelWork(d) PROVE Goal
  <2>1. CASE ReadSnapshot(d)
    <3>1. d = c \/ (snap'[c] = snap[c] /\ cpc'[c] = cpc[c])
      BY <2>1 DEF ReadSnapshot, RowsTyped
    <3> QED
      BY <2>1, <3>1
  <2>2. CASE ~ReadSnapshot(d)
    <3>1. snap' = snap /\ \E to \in {"returned", "raised"} : cpc' = [cpc EXCEPT ![d] = to]
      BY <1>3, <2>2 DEF CancelWork, CancelTooLate, CancelBeforeDispatch, CancelFails,
                        CancelAfterDispatch
    <3> QED
      BY <3>1 DEF RowsTyped
  <2> QED
    BY <2>1, <2>2
<1>4. ASSUME NEW k \in Keys, NEW n \in Attempts, RecoverOrphan(k, n) \/ RecoverDoubtful(k, n)
      PROVE  snap' = snap /\ cpc' = cpc
  BY <1>4 DEF RecoverOrphan, RecoverDoubtful, cancelVars
<1>5. CASE UNCHANGED vars
  BY <1>5 DEF vars
<1> QED
  BY <1>1, <1>2, <1>3, <1>4, <1>5 DEF Next, RecoverFails, Quiescent

LEMMA SnapshotsTypedStep ==
    RowsTyped /\ SnapshotsTyped /\ OneWorker /\ WorkerAtItsAttempt /\ RowsOfAttempts /\ [Next]_vars
        => SnapshotsTyped'
<1> SUFFICES ASSUME RowsTyped, SnapshotsTyped, OneWorker, WorkerAtItsAttempt, RowsOfAttempts,
                    [Next]_vars
             PROVE  SnapshotsTyped'
  OBVIOUS
<1>1. snap \in [Cancels -> Snapshot]
  BY DEF SnapshotsTyped
<1>2. ASSUME NEW c \in Cancels, ReadSnapshot(c)
      PROVE  /\ \E s \in Snapshot : snap' = [snap EXCEPT ![c] = s]
             /\ snap'[c].number = 0 => snap'[c].reservation = "none"
             /\ \A n \in Attempts : n = snap'[c].number => att'[<<TargetOf[c], n>>].status # "none"
             /\ inv'[TargetOf[c]].status # "none"
  <2> DEFINE k == TargetOf[c]
             last == {n \in ActiveAttempts(k) : \A m \in ActiveAttempts(k) : m <= n}
             n == CHOOSE n \in last : TRUE
             s == [inv |-> inv[k], number |-> IF last = {} THEN 0 ELSE n,
                   att |-> IF last = {} THEN "none" ELSE att[<<k, n>>].status,
                   reservation |-> IF last = {} THEN "none" ELSE reservation[<<k, n>>]]
  <2>1. snap' = [snap EXCEPT ![c] = s] /\ inv' = inv /\ att' = att /\ inv[k].status # "none"
    BY <1>2 DEF ReadSnapshot
  <2>2. last # {} => n \in Attempts /\ att[<<k, n>>].status \in Active
    <3>1. last # {} => n \in last
      OBVIOUS
    <3> QED
      BY <3>1 DEF ActiveAttempts
  <2>3. inv[k] \in RowType /\ "none" \in Statuses /\ "none" \in ReservationStates
        /\ (last # {} => /\ att[<<k, n>>].status \in Statuses
                         /\ reservation[<<k, n>>] \in ReservationStates)
    BY <2>2, Typed, StatusesAre DEF RowType
  <2> HIDE DEF last, n
  <2>4. s \in Snapshot /\ (s.number = 0 => s.reservation = "none")
    <3>1. CASE last = {}
      BY <2>3, <3>1, FixtureAssumption DEF Snapshot
    <3>2. CASE last # {}
      BY <2>2, <2>3, <3>2, FixtureAssumption DEF Snapshot, Attempts
    <3> QED
      BY <3>1, <3>2
  <2>5. s.number \in Attempts => att[<<k, s.number>>].status # "none"
    BY <2>2 DEF Active, Attempts
  <2> HIDE DEF s
  <2>6. snap'[c] = s
    BY <1>1, <2>1
  <2> QED
    BY <2>1, <2>4, <2>5, <2>6
<1>3. snap' \in [Cancels -> Snapshot]
  <2>1. \/ \E c \in Cancels : ReadSnapshot(c)
        \/ snap' = snap
    <3>1. ASSUME NEW r \in Requests, Work(r) \/ Crash(r) PROVE snap' = snap
      BY <3>1 DEF Work, CreatePending, Replay, AdmitAttempt, RefuseAdmission, CommitDispatch,
                  DispatchRefused, Terminalize, TerminalizeRefused, Crash, cancelVars
    <3>2. ASSUME NEW c \in Cancels, CancelWork(c) PROVE ReadSnapshot(c) \/ snap' = snap
      BY <3>2 DEF CancelWork, CancelTooLate, CancelBeforeDispatch, CancelFails, CancelAfterDispatch
    <3>3. ASSUME NEW k \in Keys, NEW n \in Attempts, RecoverOrphan(k, n) \/ RecoverDoubtful(k, n)
          PROVE  snap' = snap
      BY <3>3 DEF RecoverOrphan, RecoverDoubtful, cancelVars
    <3> QED
      BY <3>1, <3>2, <3>3 DEF Next, RecoverFails, Quiescent, vars
  <2> QED
    BY <1>1, <1>2, <2>1
<1>4. ASSUME NEW c \in Cancels
      PROVE  /\ snap'[c].number = 0 => snap'[c].reservation = "none"
             /\ \A n \in Attempts : n = snap'[c].number => att'[<<TargetOf[c], n>>].status # "none"
             /\ cpc'[c] = "locking" => inv'[TargetOf[c]].status # "none"
  <2>1. TargetOf[c] \in Keys
    BY Named
  <2>2. CASE ReadSnapshot(c)
    BY <1>2, <2>2
  <2>3. CASE snap'[c] = snap[c] /\ (cpc'[c] = "locking" => cpc[c] = "locking")
    BY <2>1, <2>3, RowsStay DEF SnapshotsTyped
  <2> QED
    BY <1>1, <2>2, <2>3, SnapshotsChange
<1> QED
  BY <1>3, <1>4 DEF SnapshotsTyped

-----------------------------------------------------------------------------
(* The counters stay numbers.                                               *)
CountersTyped == counter \in [Accounts -> CounterRow]

LEMMA SeenTyped ==
    ASSUME CountersTyped, SessionsTyped, NEW r \in Requests
    PROVE  Seen(r) \in [Accounts -> CounterRow]
BY DEF CountersTyped, SessionsTyped, Seen

(* NoCounters is not a counter, unless there are no accounts.               *)
LEMMA SeenHolds ==
    ASSUME CountersTyped, SessionsTyped, NEW r \in Requests, pc[r] \in {"dispatching", "invoked"},
           NEW a \in Accounts, a \in AccountsOf[KeyOf[r]]
    PROVE  Seen(r)[a].reserved >= Estimate[KeyOf[r]]
<1>1. memCounter[r] \in [Accounts -> CounterRow] /\ memCounter[r][a].reserved >= Estimate[KeyOf[r]]
  BY DEF SessionsTyped
<1>2. memCounter[r][a].reserved # -1
  BY <1>1 DEF CounterRow
<1>3. memCounter[r] # NoCounters
  BY <1>2 DEF NoCounters
<1> QED
  BY <1>1, <1>3 DEF Seen

LEMMA ChargedTyped ==
    ASSUME NEW k \in Keys, NEW seen \in [Accounts -> CounterRow], NEW d \in Int, NEW e \in Nat,
           \A a \in Accounts : a \in AccountsOf[k] => seen[a].reserved + d >= 0
    PROVE  /\ Charged(k, seen, d, e) \in [Accounts -> CounterRow]
           /\ \A a \in Accounts : a \in AccountsOf[k] =>
                 Charged(k, seen, d, e)[a].reserved = seen[a].reserved + d
BY DEF Charged, CounterRow

LEMMA FlushCountersTyped ==
    ASSUME CountersTyped, NEW k \in Keys, NEW old \in [Accounts -> CounterRow],
           NEW new \in [Accounts -> CounterRow], FlushCounters(k, old, new)
    PROVE  CountersTyped'
BY DEF CountersTyped, FlushCounters, CounterRow

LEMMA EstimateOf ==
    ASSUME NEW k \in Keys
    PROVE  Estimate[k] \in Nat /\ Estimate[k] > 0 /\ -Estimate[k] \in Int /\ AccountsOf[k] \subseteq Accounts
BY FixtureAssumption

LEMMA CountersTypedStep ==
    RowsTyped /\ CountersTyped /\ SessionsTyped /\ [Next]_vars => CountersTyped' /\ SessionsTyped'
<1> SUFFICES ASSUME RowsTyped, CountersTyped, SessionsTyped, [Next]_vars
             PROVE  CountersTyped' /\ SessionsTyped'
  OBVIOUS
<1> USE Named, Typed
<1>1. ASSUME counter' = counter \/ CountersTyped', memCounter' = memCounter,
             \A s \in Requests : /\ pc'[s] = "start" => pc[s] = "start"
                                 /\ pc'[s] \in {"dispatching", "invoked"} =>
                                       pc[s] \in {"dispatching", "invoked"}
      PROVE  CountersTyped' /\ SessionsTyped'
  BY <1>1 DEF CountersTyped, SessionsTyped
<1>2. ASSUME NEW r \in Requests, NEW to \in {"admitting", "invoked"} \cup Stopped,
             to = "invoked" => pc[r] = "dispatching", pc' = [pc EXCEPT ![r] = to]
      PROVE  \A s \in Requests : /\ pc'[s] = "start" => pc[s] = "start"
                                 /\ pc'[s] \in {"dispatching", "invoked"} =>
                                       pc[s] \in {"dispatching", "invoked"}
  BY <1>2 DEF Stopped
<1>3. ASSUME NEW r \in Requests, CreatePending(r) PROVE CountersTyped' /\ SessionsTyped'
  BY <1>1, <1>2, <1>3 DEF CreatePending, Goto, moneyVars
<1>4. ASSUME NEW r \in Requests, Replay(r) \/ RefuseAdmission(r) \/ DispatchRefused(r)
                                 \/ TerminalizeRefused(r) \/ Crash(r)
      PROVE  CountersTyped' /\ SessionsTyped'
  <2>1. counter' = counter /\ memCounter' = memCounter
        /\ \E to \in Stopped : pc' = [pc EXCEPT ![r] = to]
    BY <1>4 DEF Replay, RefuseAdmission, DispatchRefused, TerminalizeRefused, Crash, Goto,
                Stopped, moneyVars
  <2> QED
    BY <1>1, <1>2, <2>1 DEF Stopped
<1>5. ASSUME NEW r \in Requests, AdmitAttempt(r) PROVE CountersTyped' /\ SessionsTyped'
  <2> DEFINE k == KeyOf[r]
             seen == Seen(r)
             books == Charged(k, seen, Estimate[k], 0)
  <2>1. k \in Keys /\ seen \in [Accounts -> CounterRow]
    BY SeenTyped
  <2>2. /\ FlushCounters(k, seen, books) /\ memCounter' = [memCounter EXCEPT ![r] = books]
        /\ pc' = [pc EXCEPT ![r] = "dispatching"]
    BY <1>5 DEF AdmitAttempt, Goto
  <2> HIDE DEF seen, k
  <2>3. \A a \in Accounts : a \in AccountsOf[k] => seen[a].reserved + Estimate[k] >= Estimate[k]
    BY <2>1, EstimateOf DEF CounterRow
  <2>4. books \in [Accounts -> CounterRow]
        /\ \A a \in Accounts : a \in AccountsOf[k] => books[a].reserved = seen[a].reserved + Estimate[k]
    <3>1. \A a \in Accounts : a \in AccountsOf[k] => seen[a].reserved + Estimate[k] >= 0
      BY <2>1, EstimateOf DEF CounterRow
    <3> QED
      BY <2>1, <3>1, EstimateOf, ChargedTyped
  <2> HIDE DEF books
  <2>5. CountersTyped'
    BY <2>1, <2>2, <2>4, FlushCountersTyped
  <2>6. memCounter' \in [Requests -> {NoCounters} \cup [Accounts -> CounterRow]]
        /\ memCounter'[r] = books
        /\ \A s \in Requests : s # r => memCounter'[s] = memCounter[s]
    BY <2>2, <2>4 DEF SessionsTyped
  <2>7. (\A s \in Requests : s # r => pc'[s] = pc[s]) /\ pc'[r] = "dispatching"
    BY <2>2
  <2>8. \A a \in AccountsOf[k] : books[a].reserved >= Estimate[k]
    BY <2>1, <2>3, <2>4, EstimateOf
  <2> QED
    BY <2>4, <2>5, <2>6, <2>7, <2>8 DEF SessionsTyped, k
<1>6. ASSUME NEW r \in Requests, CommitDispatch(r) PROVE CountersTyped' /\ SessionsTyped'
  <2>1. counter' = counter /\ memCounter' = memCounter /\ pc[r] = "dispatching"
        /\ pc' = [pc EXCEPT ![r] = "invoked"]
    BY <1>6 DEF CommitDispatch, Goto
  <2> QED
    BY <1>1, <1>2, <2>1
<1>7. ASSUME NEW r \in Requests, NEW o \in Outcomes, Terminalize(r, o)
      PROVE  CountersTyped' /\ SessionsTyped'
  <2> DEFINE k == KeyOf[r]
             seen == Seen(r)
             books == Books(r, o)
             to == IF CanRetry(r, o) THEN "admitting" ELSE "returned"
  <2>1. k \in Keys /\ seen \in [Accounts -> CounterRow]
    BY SeenTyped
  <2>2. /\ pc[r] = "invoked" /\ FlushCounters(k, seen, books)
        /\ memCounter' = [memCounter EXCEPT ![r] = books] /\ pc' = [pc EXCEPT ![r] = to]
    BY <1>7 DEF Terminalize, Goto
  <2>3. books \in [Accounts -> CounterRow]
    <3>1. \A a \in Accounts : a \in AccountsOf[k] => seen[a].reserved >= Estimate[k]
      BY <2>2, SeenHolds
    <3> DEFINE all == Charged(k, seen, -Estimate[k], o.cost)
    <3>2. books = seen \/ books = all
      BY DEF Books
    <3> HIDE DEF books, seen, k
    <3>3. \A a \in Accounts : a \in AccountsOf[k] => seen[a].reserved + (-Estimate[k]) >= 0
      BY <2>1, <3>1, EstimateOf DEF CounterRow
    <3>4. o.cost \in Nat
      BY NewStatusTyped, FixtureAssumption
    <3>5. all \in [Accounts -> CounterRow]
      BY <2>1, <3>3, <3>4, EstimateOf, ChargedTyped
    <3> QED
      BY <2>1, <3>2, <3>5
  <2>4. to \in {"admitting", "returned"}
    OBVIOUS
  <2> HIDE DEF books, seen, k, to
  <2>5. CountersTyped'
    BY <2>1, <2>2, <2>3, FlushCountersTyped
  <2>6. memCounter' \in [Requests -> {NoCounters} \cup [Accounts -> CounterRow]]
        /\ \A s \in Requests : s # r => memCounter'[s] = memCounter[s]
    BY <2>2, <2>3 DEF SessionsTyped
  <2>7. /\ \A s \in Requests : s # r => pc'[s] = pc[s]
        /\ pc'[r] \notin {"start", "dispatching", "invoked"}
    BY <2>2, <2>4
  <2> QED
    BY <2>5, <2>6, <2>7 DEF SessionsTyped
<1>8. ASSUME NEW c \in Cancels, CancelBeforeDispatch(c) PROVE CountersTyped' /\ SessionsTyped'
  <2> DEFINE k == TargetOf[c]
             books == CancelBooks(c)
  <2>1. /\ k \in Keys /\ Nonnegative(books) /\ FlushCounters(k, counter, books)
        /\ memCounter' = memCounter /\ pc' = pc
    BY <1>8 DEF CancelBeforeDispatch, Storable
  <2>2. books = counter \/ books = Charged(k, counter, -Estimate[k], 0)
    BY DEF CancelBooks
  <2> HIDE DEF books
  <2>3. books \in [Accounts -> CounterRow]
    BY <2>1, <2>2, EstimateOf DEF CountersTyped, CounterRow, Charged, Nonnegative
  <2> QED
    BY <1>1, <2>1, <2>3, FlushCountersTyped DEF CountersTyped
<1>9. ASSUME NEW c \in Cancels, ReadSnapshot(c) \/ CancelTooLate(c) \/ CancelFails(c)
                                \/ CancelAfterDispatch(c)
      PROVE  CountersTyped' /\ SessionsTyped'
  <2>1. counter' = counter /\ memCounter' = memCounter /\ pc' = pc
    BY <1>9 DEF ReadSnapshot, CancelTooLate, CancelFails, CancelAfterDispatch, moneyVars
  <2> QED
    BY <1>1, <2>1
<1>10. ASSUME NEW k \in Keys, NEW n \in Attempts, RecoverOrphan(k, n)
       PROVE  CountersTyped' /\ SessionsTyped'
  <2> DEFINE books == Charged(k, counter, -Estimate[k], 0)
  <2>1. /\ Nonnegative(books) /\ FlushCounters(k, counter, books)
        /\ memCounter' = memCounter /\ pc' = pc
    BY <1>10 DEF RecoverOrphan, RecoveryBooks
  <2>2. books \in [Accounts -> CounterRow]
    BY <2>1, EstimateOf DEF CountersTyped, CounterRow, Charged, Nonnegative
  <2> HIDE DEF books
  <2> QED
    BY <1>1, <2>1, <2>2, FlushCountersTyped DEF CountersTyped
<1>11. ASSUME NEW k \in Keys, NEW n \in Attempts, RecoverDoubtful(k, n)
       PROVE  CountersTyped' /\ SessionsTyped'
  <2>1. counter' = counter /\ memCounter' = memCounter /\ pc' = pc
    BY <1>11 DEF RecoverDoubtful
  <2> QED
    BY <1>1, <2>1
<1>12. CASE UNCHANGED vars
  <2>1. counter' = counter /\ memCounter' = memCounter /\ pc' = pc
    BY <1>12 DEF vars
  <2> QED
    BY <1>1, <2>1
<1> QED
  BY <1>3, <1>4, <1>5, <1>6, <1>7, <1>8, <1>9, <1>10, <1>11, <1>12
     DEF Next, Work, CancelWork, RecoverFails, Quiescent

-----------------------------------------------------------------------------
LEMMA TypeOKParts == TypeOK <=> RowsTyped /\ CountersTyped
BY DEF TypeOK, RowsTyped, CountersTyped, CounterRow, Working, ReservationStates

LEMMA RInvInit == Init => RInv
<1> SUFFICES ASSUME Init PROVE RInv
  OBVIOUS
<1> USE DEF Init
<1>1. RowsTyped
  BY RowsTypedInit
<1>2. CountersTyped /\ SessionsTyped
  BY DEF CountersTyped, CounterRow, SessionsTyped
<1>3. SnapshotsTyped
  <2>1. NoSnapshot \in Snapshot
    BY FixtureAssumption, StatusesAre DEF NoSnapshot, Snapshot, NoRow, RowType
  <2> QED
    BY <2>1 DEF SnapshotsTyped, NoSnapshot, Attempts
<1>4. OneWorker /\ WorkerAtItsAttempt
  BY DEF OneWorker, WorkerAtItsAttempt, Working
<1>5. AttemptsFollow /\ RowsOfAttempts
  BY <1>1, Typed DEF AttemptsFollow, RowsOfAttempts, NoRow
<1> QED
  BY <1>1, <1>2, <1>3, <1>4, <1>5, TypeOKParts DEF RInv

LEMMA RInvStep == RInv /\ [Next]_vars => RInv'
<1> SUFFICES ASSUME RInv, [Next]_vars PROVE RInv'
  OBVIOUS
<1>1. RowsTyped /\ CountersTyped
  BY TypeOKParts DEF RInv
<1>2. RowsTyped'
  BY <1>1, RowsTypedStep DEF RInv
<1>3. CountersTyped' /\ SessionsTyped'
  BY <1>1, CountersTypedStep DEF RInv
<1>4. TypeOK'
  <2>1. TypeOK' <=> RowsTyped' /\ CountersTyped'
    BY DEF TypeOK, RowsTyped, CountersTyped, CounterRow, Working, ReservationStates
  <2> QED
    BY <1>2, <1>3, <2>1
<1>5. SnapshotsTyped' /\ OneWorker' /\ AttemptsFollow' /\ WorkerAtItsAttempt' /\ RowsOfAttempts'
  BY <1>1, SnapshotsTypedStep, OneWorkerStep, AttemptsFollowStep, WorkerAtItsAttemptStep,
     RowsOfAttemptsStep DEF RInv
<1> QED
  BY <1>3, <1>4, <1>5 DEF RInv

LEMMA RInvAlways == Spec => []RInv
BY RInvInit, RInvStep, PTL DEF Spec

(* Whatever requests, cancels, crashes and recoveries interleave, every     *)
(* column keeps to its values and no counter of the accounts becomes        *)
(* negative.                                                                *)
THEOREM ColumnsAreTyped == Spec => []TypeOK
<1>1. RInv => TypeOK
  BY DEF RInv
<1> QED
  BY <1>1, RInvAlways, PTL

(* The worker's loop tries again only what failed for certain and gave its  *)
(* money back, for any number of attempts and of late cancels.              *)
THEOREM RetriesFollowDefiniteFailures == Spec => []RetryAfterDefiniteFailure
<1>1. ASSUME RInv PROVE RetryAfterDefiniteFailure
  <2> SUFFICES ASSUME NEW k \in Keys, NEW n \in Attempts, n > 1, att[<<k, n>>].status # "none"
               PROVE  GivenUp(k, n - 1)
    BY DEF RetryAfterDefiniteFailure, GivenUp
  <2>1. n - 1 \in Attempts /\ n - 1 < n
    BY FixtureAssumption DEF Attempts
  <2> QED
    BY <1>1, <2>1 DEF RInv, AttemptsFollow
<1> QED
  BY <1>1, RInvAlways, PTL

(* What a step may do to the rows: the triggers of the ledger's tables.     *)
LEMMA RowsChange ==
    ASSUME RInv, [Next]_vars
    PROVE  (\A x \in Rows : ~Reinserted(x)) /\ AppendOnly /\ FinalIsWriteOnce
<1> USE DEF RInv
<1>1. RowsTyped
  BY TypeOKParts
<1> DEFINE Kept(l, m) ==
             /\ att[<<l, m>>].status # "none" /\ att[<<l, m>>].status # "admitted"
                   => att'[<<l, m>>].status # "admitted"
             /\ cost[<<l, m>>] # 0 => cost'[<<l, m>>] = cost[<<l, m>>]
             /\ att[<<l, m>>].status = "succeeded"
                   => att'[<<l, m>>].status = "succeeded" /\ inv'[l].status = "succeeded"
<1>2. ASSUME NEW l \in Keys, NEW m \in Attempts PROVE Kept(l, m)
  <2> USE <1>1, Named
  <2>1. CASE Quiet
    BY <2>1 DEF Quiet, KeepInv, KeepAttempts, KeepCosts, RowsOfAttempts
  <2>2. ASSUME NEW r \in Requests, Created(r) PROVE Kept(l, m)
    BY <2>2 DEF Created, Became, KeepAttempts, KeepCosts, RowsOfAttempts
  <2>3. ASSUME NEW r \in Requests, Admitted(r) PROVE Kept(l, m)
    BY <2>3 DEF Admitted, Moves, Working, Became, Written, KeepCosts, RowsOfAttempts, OneWorker,
                WorkerAtItsAttempt
  <2>4. ASSUME NEW r \in Requests, Dispatched(r) PROVE Kept(l, m)
    BY <2>4 DEF Dispatched, Moves, Working, Became, Written, KeepCosts, RowsOfAttempts, OneWorker
  <2>5. ASSUME NEW r \in Requests, Retried(r) PROVE Kept(l, m)
    BY <2>5 DEF Retried, KeepInv, Written, CostIs, RowsOfAttempts
  <2>6. ASSUME NEW r \in Requests, NEW o \in Outcomes, Ended(r, o) PROVE Kept(l, m)
    <3>1. NewStatus(r, o) # "admitted" /\ inv[KeyOf[r]].status # "succeeded"
      BY <2>6, NewStatusTyped DEF Ended, Moves, Working, OneWorker
    <3> QED
      BY <2>6, <3>1 DEF Ended, Became, Written, CostIs, RowsOfAttempts
  <2>7. ASSUME NEW c \in Cancels, CancelledBy(c) PROVE Kept(l, m)
    BY <2>7 DEF CancelledBy, Became, KeepCosts, RowsOfAttempts
  <2>8. ASSUME NEW k \in Keys, NEW n \in Attempts, Recovered(k, n) PROVE Kept(l, m)
    BY <2>8 DEF Recovered, Became, Written, KeepCosts, RowsOfAttempts
  <2>9. ASSUME NEW k \in Keys, NEW n \in Attempts, Doubted(k, n) PROVE Kept(l, m)
    BY <2>9 DEF Doubted, Became, Written, KeepInv, KeepCosts, RowsOfAttempts, Active
  <2> QED
    BY <2>1, <2>2, <2>3, <2>4, <2>5, <2>6, <2>7, <2>8, <2>9, Effects
<1>3. \A x \in Rows : \E l \in Keys, m \in Attempts : x = <<l, m>>
  BY DEF Rows
<1> QED
  BY <1>2, <1>3 DEF Reinserted, AppendOnly, FinalIsWriteOnce, FinalAttempts

(* What the rows are at any time: the constraints of the tables.            *)
LEMMA RowsStand ==
    ASSUME RInv
    PROVE  InvocationRows /\ AttemptRows /\ ReservationRows /\ CounterRows /\ LedgerRows
<1> USE DEF RInv
<1>1. RowsTyped /\ CountersTyped
  BY TypeOKParts
<1>2. \A n, m \in Attempts : n < m \/ m < n \/ n = m
  BY FixtureAssumption DEF Attempts
<1>3. InvocationRows
  BY <1>2 DEF InvocationRows, FinalAttempts, RowsOfAttempts, AttemptsFollow, GivenUp
<1>4. AttemptRows
  <2>1. ASSUME NEW k \in Keys, NEW n \in ActiveAttempts(k), NEW m \in ActiveAttempts(k)
        PROVE  n = m
    BY <1>2, <2>1 DEF ActiveAttempts, Active, AttemptsFollow, GivenUp
  <2> QED
    BY <2>1 DEF AttemptRows, AttemptsFollow
<1>5. \A x \in Rows : \E l \in Keys, m \in Attempts : x = <<l, m>>
  BY DEF Rows
<1>6. ReservationRows
  BY <1>5 DEF ReservationRows, RowsOfAttempts
<1>7. LedgerRows
  <2> SUFFICES ASSUME NEW x \in Rows, cost[x] > 0
               PROVE  att[x].status # "none"
    BY DEF LedgerRows
  <2>1. PICK k \in Keys, n \in Attempts : x = <<k, n>>
    BY <1>5
  <2>2. cost[<<k, n>>] # 0
    BY <2>1
  <2>3. reservation[<<k, n>>] # "none"
    BY <2>2 DEF RowsOfAttempts
  <2> QED
    BY <2>1, <2>3 DEF RowsOfAttempts
<1>8. CounterRows
  BY <1>1 DEF CounterRows, Nonnegative, CountersTyped, CounterRow
<1> QED
  BY <1>3, <1>4, <1>6, <1>7, <1>8

(* Terminalize looks for a cancel on the attempt as well as on the          *)
(* invocation: a success that comes after it is recorded as cancelled.      *)
THEOREM CancelIsHonoured == Spec => CancelledAttemptNeverSucceeds
<1>1. ASSUME RInv, [Next]_vars
      PROVE  [\A x \in Rows :
                att[x].cancel /\ att[x].status = "running" => att'[x].status # "succeeded"]_att
  <2> USE <1>1 DEF RInv
  <2>1. RowsTyped
    BY TypeOKParts
  <2> SUFFICES ASSUME NEW l \in Keys, NEW m \in Attempts,
                      att[<<l, m>>].cancel, att[<<l, m>>].status = "running"
               PROVE  att'[<<l, m>>].status # "succeeded"
    BY DEF Rows
  <2> USE <2>1, Named
  <2>2. CASE Quiet
    BY <2>2 DEF Quiet, KeepAttempts
  <2>3. ASSUME NEW r \in Requests, Created(r) \/ Admitted(r) \/ Dispatched(r) \/ Retried(r)
        PROVE  att'[<<l, m>>].status # "succeeded"
    BY <2>3 DEF Created, Admitted, Dispatched, Retried, Written, KeepAttempts
  <2>4. ASSUME NEW r \in Requests, NEW o \in Outcomes, Ended(r, o)
        PROVE  att'[<<l, m>>].status # "succeeded"
    <3>1. att[<<KeyOf[r], number[r]>>].cancel => NewStatus(r, o) = "cancelled"
      BY DEF NewStatus, CancelWon
    <3> QED
      BY <2>4, <3>1 DEF Ended, Written
  <2>5. ASSUME NEW c \in Cancels, CancelledBy(c) PROVE att'[<<l, m>>].status # "succeeded"
    BY <2>5 DEF CancelledBy
  <2>6. ASSUME NEW k \in Keys, NEW n \in Attempts, Recovered(k, n) \/ Doubted(k, n)
        PROVE  att'[<<l, m>>].status # "succeeded"
    BY <2>6 DEF Recovered, Doubted, Written
  <2> QED
    BY <2>2, <2>3, <2>4, <2>5, <2>6, Effects
<1> QED
  BY <1>1, RInvAlways, PTL DEF Spec, CancelledAttemptNeverSucceeds

-----------------------------------------------------------------------------
(* The accounting.                                                          *)
LEMMA RowsFinite == IsFiniteSet(Rows)
<1>1. IsFiniteSet(Attempts)
  BY FixtureAssumption, FS_Interval DEF Attempts
<1> QED
  BY <1>1, FixtureAssumption, FS_Product DEF Rows

LEMMA RowSets ==
    ASSUME NEW a
    PROVE  IsFiniteSet(HoldersOf(a)) /\ IsFiniteSet(SettledOf(a))
BY RowsFinite, FS_Subset DEF HoldersOf, SettledOf

LEMMA Largest ==
    ASSUME NEW k \in Keys
    PROVE  LargestEstimate \in Nat /\ Estimate[k] \in 0..LargestEstimate
<1> DEFINE S == {Estimate[l] : l \in Keys}
<1>1. IsFiniteSet(S) /\ S \subseteq Int /\ S # {}
  <2>1. Estimate \in Surjection(Keys, S)
    BY FixtureAssumption DEF Surjection
  <2> QED
    BY <2>1, FixtureAssumption, FS_Surjection
<1>2. \E m \in S : \A i \in S : i <= m
  BY <1>1, LargestExists
<1>3. \E e \in S : \A l \in Keys : Estimate[l] <= e
  BY <1>2
<1>4. LargestEstimate \in S /\ \A l \in Keys : Estimate[l] <= LargestEstimate
  BY <1>3 DEF LargestEstimate
<1> QED
  BY <1>4, FixtureAssumption

(* The rows an account counts when the reservation of one row changes.      *)
LEMMA RowSetsChange ==
    ASSUME NEW k \in Keys, NEW n \in Attempts, NEW status, NEW state,
           Written(k, n, status, state), NEW a
    PROVE  /\ HoldersOf(a)' = IF a \in AccountsOf[k] /\ state \in Held
                              THEN HoldersOf(a) \cup {<<k, n>>} ELSE HoldersOf(a) \ {<<k, n>>}
           /\ SettledOf(a)' = IF a \in AccountsOf[k] /\ state = "settled"
                              THEN SettledOf(a) \cup {<<k, n>>} ELSE SettledOf(a) \ {<<k, n>>}
<1>1. /\ <<k, n>> \in Rows /\ <<k, n>>[1] = k /\ reservation'[<<k, n>>] = state
      /\ \A x \in Rows : x # <<k, n>> => reservation'[x] = reservation[x]
  <2>1. \A x \in Rows : \E l \in Keys, m \in Attempts : x = <<l, m>>
    BY DEF Rows
  <2> QED
    BY <2>1 DEF Written, Rows
<1> DEFINE x == <<k, n>>
<1> HIDE DEF x
<1>2. /\ x \in Rows /\ x[1] = k /\ reservation'[x] = state
      /\ \A y \in Rows : y # x => reservation'[y] = reservation[y]
  BY <1>1 DEF x
<1>3. HoldersOf(a)' = IF a \in AccountsOf[k] /\ state \in Held
                      THEN HoldersOf(a) \cup {x} ELSE HoldersOf(a) \ {x}
  BY <1>2 DEF HoldersOf
<1>4. SettledOf(a)' = IF a \in AccountsOf[k] /\ state = "settled"
                      THEN SettledOf(a) \cup {x} ELSE SettledOf(a) \ {x}
  BY <1>2 DEF SettledOf
<1> QED
  BY <1>3, <1>4 DEF x

LEMMA ReservedOfRow ==
    ASSUME NEW k \in Keys, NEW n \in Attempts
    PROVE  <<k, n>> \in Rows /\ ReservedOf[<<k, n>>] = Estimate[k]
BY DEF ReservedOf, Rows

(* What is reserved after a row's reservation changed.                      *)
LEMMA ReservedSum ==
    ASSUME NEW k \in Keys, NEW n \in Attempts, NEW status, NEW state,
           Written(k, n, status, state), NEW a
    PROVE  Total(HoldersOf(a)', ReservedOf, LargestEstimate)
              = Total(HoldersOf(a), ReservedOf, LargestEstimate)
                  + (IF a \notin AccountsOf[k] THEN 0
                     ELSE IF state \in Held /\ reservation[<<k, n>>] \notin Held THEN Estimate[k]
                     ELSE IF state \notin Held /\ reservation[<<k, n>>] \in Held THEN -Estimate[k]
                     ELSE 0)
<1> DEFINE x == <<k, n>>
           S == HoldersOf(a)
           T == HoldersOf(a)'
           top == LargestEstimate
           old == Total(S, ReservedOf, top)
           new == Total(T, ReservedOf, top)
<1>1. x \in Rows /\ ReservedOf[x] = Estimate[k] /\ top \in Nat /\ ReservedOf[x] \in 0..top
      /\ IsFiniteSet(S)
  BY ReservedOfRow, Largest, RowSets
<1>2. T = IF a \in AccountsOf[k] /\ state \in Held THEN S \cup {x} ELSE S \ {x}
  BY RowSetsChange
<1>3. x \in S <=> a \in AccountsOf[k] /\ reservation[x] \in Held
  BY <1>1 DEF HoldersOf
<1>4. old \in Nat
  BY <1>1, TotalType
<1>5. Estimate[k] \in Nat
  BY <1>1
<1> HIDE DEF S, T, x, top
<1>6. CASE x \notin S /\ a \in AccountsOf[k] /\ state \in Held
  <2>1. T = S \cup {x}
    BY <1>2, <1>6
  <2>2. Total(S \cup {x}, ReservedOf, top) = Total(S, ReservedOf, top) + ReservedOf[x]
    BY <1>1, <1>6, TotalJoined
  <2>3. new = old + Estimate[k]
    BY <1>1, <2>1, <2>2
  <2> QED
    BY <1>3, <1>6, <2>3 DEF x, S, T, top
<1>7. CASE x \in S /\ ~(a \in AccountsOf[k] /\ state \in Held)
  <2>1. T = S \ {x}
    BY <1>2, <1>7
  <2>2. Total(S \ {x}, ReservedOf, top) = Total(S, ReservedOf, top) - ReservedOf[x]
    BY <1>1, <1>7, TotalLeft
  <2>3. new = old - Estimate[k]
    BY <1>1, <2>1, <2>2
  <2>4. new = old + (-Estimate[k])
    BY <1>4, <1>5, <2>3
  <2> QED
    BY <1>3, <1>7, <2>4 DEF x, S, T, top
<1>8. CASE (x \in S) <=> (a \in AccountsOf[k] /\ state \in Held)
  <2>1. T = S
    BY <1>2, <1>8
  <2>2. new = old + 0
    BY <1>4, <2>1
  <2> QED
    BY <1>3, <1>8, <2>2 DEF x, S, T, top
<1> QED
  BY <1>6, <1>7, <1>8

(* What is committed after a row was settled, released or neither.          *)
LEMMA CommittedSum ==
    ASSUME RowsTyped, NEW k \in Keys, NEW n \in Attempts, NEW status, NEW state,
           Written(k, n, status, state), NEW amount \in 0..CostBound, CostIs(k, n, amount),
           reservation[<<k, n>>] # "settled", NEW a
    PROVE  Total(SettledOf(a)', cost', CostBound)
              = Total(SettledOf(a), cost, CostBound)
                  + (IF a \in AccountsOf[k] /\ state = "settled" THEN amount ELSE 0)
<1> DEFINE x == <<k, n>>
           S == SettledOf(a)
           T == SettledOf(a)'
           f == cost
           g == cost'
           old == Total(S, f, CostBound)
           new == Total(T, g, CostBound)
<1>1. x \in Rows /\ x \notin S /\ IsFiniteSet(S) /\ CostBound \in Nat
  BY ReservedOfRow, RowSets, FixtureAssumption DEF SettledOf
<1>2. T = IF a \in AccountsOf[k] /\ state = "settled" THEN S \cup {x} ELSE S \ {x}
  BY RowSetsChange
<1>3. g[x] = amount /\ g[x] \in 0..CostBound /\ \A y \in S : f[y] = g[y]
  <2>1. \A y \in S : \E l \in Keys, m \in Attempts : y = <<l, m>>
    BY DEF SettledOf, Rows
  <2> QED
    BY <1>1, <2>1 DEF CostIs
<1>4. old \in Nat
  BY <1>1, TotalType
<1> HIDE DEF S, T, x, f, g
<1>5. CASE a \in AccountsOf[k] /\ state = "settled"
  <2>1. T = S \cup {x}
    BY <1>2, <1>5
  <2>2. Total(S \cup {x}, g, CostBound) = Total(S, f, CostBound) + g[x]
    <3>1. /\ IsFiniteSet(S) /\ x \notin S /\ CostBound \in Nat
          /\ (\A y \in S : f[y] = g[y]) /\ g[x] \in 0..CostBound
      BY <1>1, <1>3
    <3> QED
      BY <3>1, TotalAdd
  <2>3. new = old + amount
    BY <1>3, <2>1, <2>2
  <2> QED
    BY <1>5, <2>3 DEF S, T, f, g
<1>6. CASE ~(a \in AccountsOf[k] /\ state = "settled")
  <2>1. T = S
    BY <1>1, <1>2, <1>6
  <2>2. Total(S, f, CostBound) = Total(S, g, CostBound)
    BY <1>1, <1>3, TotalSame
  <2>3. new = old + 0
    BY <1>4, <2>1, <2>2
  <2> QED
    BY <1>6, <2>3 DEF S, T, f, g
<1> QED
  BY <1>5, <1>6

(* What a step does to the counters of the accounts of one invocation.      *)
Charges(k, reserved, committed) ==
    \A a \in Accounts :
        IF a \in AccountsOf[k]
        THEN /\ counter'[a].reserved = counter[a].reserved + reserved
             /\ counter'[a].committed = counter[a].committed + committed
        ELSE counter'[a] = counter[a]

LEMMA ChargesStep ==
    ASSUME CountersTyped, NEW k \in Keys, NEW seen \in [Accounts -> CounterRow],
           \A a \in AccountsOf[k] : seen[a] = counter[a],
           NEW d \in Int, NEW e \in Nat, FlushCounters(k, seen, Charged(k, seen, d, e))
    PROVE  /\ Charges(k, d, e)
           /\ \A a \in AccountsOf[k] : counter'[a] = Charged(k, seen, d, e)[a]
<1>1. AccountsOf[k] \subseteq Accounts
  BY EstimateOf
<1>2. ASSUME NEW a \in Accounts, a \notin AccountsOf[k] PROVE counter'[a] = counter[a]
  BY <1>2 DEF FlushCounters
<1>3. ASSUME NEW a \in Accounts, a \in AccountsOf[k]
      PROVE  /\ counter'[a].reserved = counter[a].reserved + d
             /\ counter'[a].committed = counter[a].committed + e
             /\ counter'[a] = Charged(k, seen, d, e)[a]
  <2>1. Charged(k, seen, d, e)[a]
           = [reserved |-> counter[a].reserved + d, committed |-> counter[a].committed + e]
    BY <1>3 DEF Charged
  <2> DEFINE new == Charged(k, seen, d, e)
  <2>2. counter'[a] = [reserved |-> IF new[a].reserved # seen[a].reserved
                                    THEN new[a].reserved ELSE counter[a].reserved,
                       committed |-> IF new[a].committed # seen[a].committed
                                     THEN new[a].committed ELSE counter[a].committed]
    BY <1>3 DEF FlushCounters
  <2> HIDE DEF new
  <2>3. seen[a] = counter[a]
    BY <1>3
  <2>4. counter'[a] = [reserved |-> new[a].reserved, committed |-> new[a].committed]
    BY <2>2, <2>3
  <2> DEFINE row == [reserved |-> counter[a].reserved + d, committed |-> counter[a].committed + e]
  <2>5. new[a] = row /\ row.reserved = counter[a].reserved + d
        /\ row.committed = counter[a].committed + e
    BY <2>1 DEF new
  <2> HIDE DEF row
  <2>6. counter'[a] = [reserved |-> row.reserved, committed |-> row.committed] /\ counter'[a] = row
    BY <2>4, <2>5 DEF row
  <2> QED
    BY <2>5, <2>6 DEF new
<1>4. Charges(k, d, e)
  BY <1>2, <1>3 DEF Charges
<1> QED
  BY <1>1, <1>3, <1>4

(* What the counters hold after one row was written.                        *)
LEMMA MatchStep ==
    ASSUME RowsTyped, CountersMatch, NEW k \in Keys, NEW n \in Attempts,
           NEW status, NEW state, Written(k, n, status, state),
           NEW amount \in 0..CostBound, CostIs(k, n, amount),
           reservation[<<k, n>>] # "settled", NEW d, NEW e, Charges(k, d, e),
           d = (IF state \in Held /\ reservation[<<k, n>>] \notin Held THEN Estimate[k]
                ELSE IF state \notin Held /\ reservation[<<k, n>>] \in Held THEN -Estimate[k]
                ELSE 0),
           e = IF state = "settled" THEN amount ELSE 0
    PROVE  CountersMatch'
<1> SUFFICES ASSUME NEW a \in Accounts
             PROVE  /\ counter'[a].reserved = Total(HoldersOf(a)', ReservedOf, LargestEstimate)
                    /\ counter'[a].committed = Total(SettledOf(a)', cost', CostBound)
  BY DEF CountersMatch
<1> DEFINE held == Total(HoldersOf(a), ReservedOf, LargestEstimate)
           held2 == Total(HoldersOf(a)', ReservedOf, LargestEstimate)
           paid == Total(SettledOf(a), cost, CostBound)
           paid2 == Total(SettledOf(a)', cost', CostBound)
<1>1. /\ held2 = held + (IF a \notin AccountsOf[k] THEN 0
                     ELSE IF state \in Held /\ reservation[<<k, n>>] \notin Held THEN Estimate[k]
                     ELSE IF state \notin Held /\ reservation[<<k, n>>] \in Held THEN -Estimate[k]
                     ELSE 0)
      /\ paid2 = paid + (IF a \in AccountsOf[k] /\ state = "settled" THEN amount ELSE 0)
  BY ReservedSum, CommittedSum
<1>2. counter[a].reserved = held /\ counter[a].committed = paid
  BY DEF CountersMatch
<1>3. held \in Nat /\ paid \in Nat
  BY RowSets, Largest, TotalType, FixtureAssumption
<1> HIDE DEF held, held2, paid, paid2
<1>4. CASE a \in AccountsOf[k]
  <2>1. counter'[a].reserved = held + d /\ counter'[a].committed = paid + e
    BY <1>2, <1>4 DEF Charges
  <2>2. held2 = held + d /\ paid2 = paid + e
    BY <1>1, <1>4
  <2> QED
    BY <2>1, <2>2 DEF held2, paid2
<1>5. CASE a \notin AccountsOf[k]
  <2>1. counter'[a] = counter[a]
    BY <1>5 DEF Charges
  <2>2. held2 = held /\ paid2 = paid
    BY <1>1, <1>3, <1>5
  <2> QED
    BY <1>2, <2>1, <2>2 DEF held2, paid2
<1> QED
  BY <1>4, <1>5

LEMMA MatchKept ==
    ASSUME CountersMatch, KeepAttempts, KeepCosts, counter' = counter
    PROVE  CountersMatch'
<1> SUFFICES ASSUME NEW a \in Accounts
             PROVE  /\ counter'[a].reserved = Total(HoldersOf(a)', ReservedOf, LargestEstimate)
                    /\ counter'[a].committed = Total(SettledOf(a)', cost', CostBound)
  BY DEF CountersMatch
<1>1. \A x \in Rows : reservation'[x] = reservation[x] /\ cost'[x] = cost[x]
  <2>1. \A x \in Rows : \E l \in Keys, m \in Attempts : x = <<l, m>>
    BY DEF Rows
  <2> QED
    BY <2>1 DEF KeepAttempts, KeepCosts
<1>2. HoldersOf(a)' = HoldersOf(a) /\ SettledOf(a)' = SettledOf(a)
  BY <1>1 DEF HoldersOf, SettledOf
<1>3. Total(SettledOf(a), cost', CostBound) = Total(SettledOf(a), cost, CostBound)
  <2> DEFINE f == cost
             g == cost'
  <2>1. \A x \in SettledOf(a) : f[x] = g[x]
    BY <1>1 DEF SettledOf
  <2> HIDE DEF f, g
  <2>2. Total(SettledOf(a), f, CostBound) = Total(SettledOf(a), g, CostBound)
    BY <2>1, TotalSame, FixtureAssumption
  <2> QED
    BY <2>2 DEF f, g
<1> QED
  BY <1>2, <1>3 DEF CountersMatch

(* A session of another invocation sees nothing of the charges.             *)
LEMMA FreshApart ==
    ASSUME RInv, Apart, SessionsFresh, NEW k \in Keys, InFlight(k), NEW d, NEW e, Charges(k, d, e),
           NEW s \in Requests, KeyOf[s] # k, memCounter'[s] = memCounter[s], NeedsFresh(s)
    PROVE  Fresh(s)'
<1>1. RowsTyped /\ KeyOf[s] \in Keys /\ AccountsOf[KeyOf[s]] \subseteq Accounts
  BY TypeOKParts, Named, EstimateOf DEF RInv
<1>2. InFlight(KeyOf[s])
  BY DEF NeedsFresh, InFlight, Working
<1>3. \A a \in AccountsOf[KeyOf[s]] : a \in Accounts /\ a \notin AccountsOf[k]
  BY <1>1, <1>2 DEF Apart
<1>4. \A a \in AccountsOf[KeyOf[s]] : counter'[a] = counter[a]
  BY <1>3 DEF Charges
<1> QED
  BY <1>4 DEF Fresh, SessionsFresh, Seen

LEMMA FreshKept ==
    ASSUME NEW s \in Requests, Fresh(s), memCounter'[s] = memCounter[s], counter' = counter
    PROVE  Fresh(s)'
BY DEF Fresh, Seen

(* A worker is alone with its invocation's reservations.                    *)
LEMMA WorkerAlone ==
    ASSUME RInv, NEW r \in Requests, pc[r] \in Working,
           NEW n \in Attempts, reservation[<<KeyOf[r], n>>] = "reserved"
    PROVE  n = number[r] /\ pc[r] # "admitting"
<1>1. RowsTyped /\ KeyOf[r] \in Keys /\ number[r] \in Attempts
  BY TypeOKParts, Named DEF RInv
<1>2. att[<<KeyOf[r], n>>].status # "none"
  BY <1>1 DEF RInv, RowsOfAttempts
<1>3. n < number[r] \/ n > number[r] \/ n = number[r]
  BY <1>1, FixtureAssumption DEF Attempts
<1> QED
  BY <1>2, <1>3 DEF RInv, WorkerAtItsAttempt, GivenUp

LEMMA KeptCost ==
    ASSUME RowsTyped, KeepCosts, NEW k \in Keys, NEW n \in Attempts
    PROVE  cost[<<k, n>>] \in 0..CostBound /\ CostIs(k, n, cost[<<k, n>>])
<1>1. cost[<<k, n>>] \in 0..CostBound
  BY Typed
<1>2. CostIs(k, n, cost[<<k, n>>])
  BY DEF CostIs, KeepCosts
<1> QED
  BY <1>1, <1>2

LEMMA NothingCharged ==
    ASSUME CountersTyped, counter' = counter, NEW k \in Keys
    PROVE  Charges(k, 0, 0)
BY DEF CountersTyped, CounterRow, Charges

(* Steps that leave every counter alone.                                    *)
LEMMA AccountingKept ==
    ASSUME RInv, SessionsFresh, CountersMatch, counter' = counter, memCounter' = memCounter,
           \/ Quiet
           \/ \E r \in Requests : Created(r) \/ Dispatched(r)
           \/ \E k \in Keys, n \in Attempts : Doubted(k, n)
    PROVE  SessionsFresh' /\ CountersMatch'
<1> DEFINE Goal == SessionsFresh' /\ CountersMatch'
<1>1. RowsTyped /\ CountersTyped
  BY TypeOKParts DEF RInv
<1>2. ASSUME NEW s \in Requests, Fresh(s) PROVE Fresh(s)'
  BY <1>2, FreshKept
<1>3. CASE Quiet
  <2>1. CountersMatch'
    BY <1>3, MatchKept DEF Quiet
  <2>2. ASSUME NEW s \in Requests, NeedsFresh(s)' PROVE NeedsFresh(s)
    BY <1>1, <1>3, <2>2, Named DEF NeedsFresh, Quiet, KeepAttempts, Stopped
  <2> QED
    BY <1>2, <2>1, <2>2 DEF SessionsFresh
<1>4. ASSUME NEW r \in Requests, Created(r) PROVE Goal
  <2>1. CountersMatch'
    BY <1>4, MatchKept DEF Created
  <2>2. ASSUME NEW s \in Requests, s # r, NeedsFresh(s)' PROVE NeedsFresh(s)
    BY <1>1, <1>4, <2>2, Named DEF NeedsFresh, Created, KeepAttempts, Moves
  <2>3. Fresh(r)'
    BY <1>4 DEF Created, Moves, RInv, SessionsTyped, Fresh, Seen
  <2> QED
    BY <1>2, <2>1, <2>2, <2>3 DEF SessionsFresh
<1>5. ASSUME NEW r \in Requests, Dispatched(r) PROVE Goal
  <2> DEFINE k == KeyOf[r]
             n == number[r]
  <2>1. k \in Keys /\ n \in Attempts /\ Charges(k, 0, 0)
    BY <1>1, Named, NothingCharged
  <2>2. cost[<<k, n>>] \in 0..CostBound /\ CostIs(k, n, cost[<<k, n>>])
    BY <1>1, <1>5, <2>1, KeptCost DEF Dispatched
  <2>3. Written(k, n, "running", "dispatch_committed") /\ reservation[<<k, n>>] = "reserved"
    BY <1>5 DEF Dispatched
  <2>4. CountersMatch'
    <3> HIDE DEF k, n
    <3> QED
      BY <1>1, <2>1, <2>2, <2>3, MatchStep DEF Held
  <2>5. ASSUME NEW s \in Requests, s # r, NeedsFresh(s)' PROVE NeedsFresh(s)
    <3>1. pc'[s] = pc[s] /\ pc[s] \in Working /\ number'[s] = number[s] /\ pc[r] \in Working
      BY <1>5, <2>5 DEF NeedsFresh, Dispatched, Moves, Working
    <3>2. KeyOf[s] # k
      BY <2>5, <3>1 DEF RInv, OneWorker
    <3> QED
      BY <1>1, <1>5, <2>5, <3>1, <3>2, Named DEF NeedsFresh, Dispatched, Written
  <2>6. NeedsFresh(r)
    BY <1>5 DEF NeedsFresh, Dispatched, Moves
  <2> QED
    BY <1>2, <2>4, <2>5, <2>6 DEF SessionsFresh
<1>6. ASSUME NEW k \in Keys, NEW n \in Attempts, Doubted(k, n) PROVE Goal
  <2>1. Charges(k, 0, 0)
    BY <1>1, NothingCharged
  <2>2. cost[<<k, n>>] \in 0..CostBound /\ CostIs(k, n, cost[<<k, n>>])
    BY <1>1, <1>6, KeptCost DEF Doubted
  <2>3. /\ reservation[<<k, n>>] = "reserved"
        /\ \E status : Written(k, n, status, "reconciliation_required")
    BY <1>6 DEF Doubted
  <2>4. CountersMatch'
    <3>1. PICK status : Written(k, n, status, "reconciliation_required")
      BY <2>3
    <3> QED
      BY <1>1, <2>1, <2>2, <2>3, <3>1, MatchStep DEF Held
  <2>5. ASSUME NEW s \in Requests, NeedsFresh(s)' PROVE NeedsFresh(s)
    BY <1>1, <1>6, <2>5, Named DEF NeedsFresh, Doubted, KeepWorkers, Written
  <2> QED
    BY <1>2, <2>4, <2>5 DEF SessionsFresh
<1> QED
  BY <1>3, <1>4, <1>5, <1>6

(* The worker's own session keeps up with what it has flushed.              *)
LEMMA FreshWorker ==
    ASSUME CountersTyped, NEW r \in Requests, memCounter \in [Requests -> {NoCounters} \cup [Accounts -> CounterRow]],
           NEW books, memCounter' = [memCounter EXCEPT ![r] = books],
           \A a \in AccountsOf[KeyOf[r]] : counter'[a] = books[a]
    PROVE  Fresh(r)' /\ \A s \in Requests : s # r => memCounter'[s] = memCounter[s]
<1>1. memCounter'[r] = books /\ \A s \in Requests : s # r => memCounter'[s] = memCounter[s]
  OBVIOUS
<1> QED
  BY <1>1 DEF Fresh, Seen

LEMMA AdmitAccounts ==
    ASSUME RInv, Apart, SessionsFresh, CountersMatch, NEW r \in Requests, AdmitAttempt(r)
    PROVE  SessionsFresh' /\ CountersMatch'
<1> DEFINE k == KeyOf[r]
           n == number[r]
           seen == Seen(r)
           books == Charged(k, seen, Estimate[k], 0)
<1>1. /\ RowsTyped /\ CountersTyped /\ SessionsTyped /\ OneWorker
      /\ k \in Keys /\ n \in Attempts /\ seen \in [Accounts -> CounterRow]
      /\ Estimate[k] \in Int
  BY TypeOKParts, Named, SeenTyped, EstimateOf DEF RInv
<1>2. Admitted(r)
  BY <1>1, AdmitEffect
<1>3. /\ pc[r] = "admitting" /\ FlushCounters(k, seen, books)
      /\ memCounter' = [memCounter EXCEPT ![r] = books]
  BY DEF AdmitAttempt
<1>4. \A a \in AccountsOf[k] : seen[a] = counter[a]
  BY <1>3 DEF SessionsFresh, NeedsFresh, Fresh
<1>5. Charges(k, Estimate[k], 0) /\ \A a \in AccountsOf[k] : counter'[a] = books[a]
  <2> HIDE DEF k, seen
  <2> QED
    BY <1>1, <1>3, <1>4, ChargesStep
<1>6. cost[<<k, n>>] \in 0..CostBound /\ CostIs(k, n, cost[<<k, n>>])
  BY <1>1, <1>2, KeptCost DEF Admitted
<1>7. Written(k, n, "admitted", "reserved") /\ reservation[<<k, n>>] = "none"
  BY <1>1, <1>2 DEF Admitted, Moves, RInv, WorkerAtItsAttempt, RowsOfAttempts, Working
<1>8. CountersMatch'
  <2> HIDE DEF k, n
  <2> QED
    BY <1>1, <1>5, <1>6, <1>7, MatchStep DEF Held
<1>9. Fresh(r)' /\ \A s \in Requests : s # r => memCounter'[s] = memCounter[s]
  <2> HIDE DEF books
  <2> QED
    BY <1>1, <1>3, <1>5, FreshWorker DEF SessionsTyped
<1>10. InFlight(k)
  BY <1>3 DEF InFlight, Working
<1>11. ASSUME NEW s \in Requests, s # r, NeedsFresh(s)' PROVE Fresh(s)'
  <2>1. pc'[s] = pc[s] /\ pc[s] \in Working /\ number'[s] = number[s]
    BY <1>2, <1>11 DEF NeedsFresh, Admitted, Moves, Working
  <2>2. KeyOf[s] # k
    BY <1>1, <1>3, <1>11, <2>1 DEF OneWorker, Working
  <2>3. NeedsFresh(s)
    BY <1>1, <1>2, <1>11, <2>1, <2>2, Named DEF NeedsFresh, Admitted, Written
  <2> HIDE DEF k
  <2> QED
    BY <1>1, <1>5, <1>9, <1>10, <1>11, <2>2, <2>3, FreshApart
<1> QED
  BY <1>8, <1>9, <1>11 DEF SessionsFresh

LEMMA TerminalAccounts ==
    ASSUME RInv, Apart, SessionsFresh, CountersMatch, NEW r \in Requests, NEW o \in Outcomes,
           Terminalize(r, o)
    PROVE  SessionsFresh' /\ CountersMatch'
<1> DEFINE k == KeyOf[r]
           n == number[r]
           state == NewReservation(r, o)
           seen == Seen(r)
           books == Books(r, o)
           d == IF state = "reconciliation_required" THEN 0 ELSE -Estimate[k]
           e == IF state = "settled" THEN o.cost ELSE 0
<1>1. /\ RowsTyped /\ CountersTyped /\ SessionsTyped /\ OneWorker
      /\ k \in Keys /\ n \in Attempts /\ seen \in [Accounts -> CounterRow]
      /\ Estimate[k] \in Nat /\ -Estimate[k] \in Int /\ AccountsOf[k] \subseteq Accounts
  BY TypeOKParts, Named, SeenTyped, EstimateOf DEF RInv
<1>2. /\ o.cost \in 0..CostBound /\ o.cost \in Nat
      /\ state \in {"settled", "reconciliation_required", "released"}
      /\ o.cost # 0 => state = "settled"
  BY NewStatusTyped, FixtureAssumption DEF NewReservation
<1>3. /\ pc[r] = "invoked" /\ FlushCounters(k, seen, books)
      /\ memCounter' = [memCounter EXCEPT ![r] = books]
      /\ reservation[<<k, n>>] = "dispatch_committed"
      /\ pc' = [pc EXCEPT ![r] = IF CanRetry(r, o) THEN "admitting" ELSE "returned"]
      /\ \E m : number' = [number EXCEPT ![r] = m]
  BY DEF Terminalize, Goto
<1>4. \A a \in AccountsOf[k] : seen[a] = counter[a]
  BY <1>3 DEF SessionsFresh, NeedsFresh, Fresh
<1>5. Charges(k, d, e) /\ \A a \in AccountsOf[k] : counter'[a] = books[a]
  <2>1. CASE state = "reconciliation_required"
    <3>1. books = seen
      BY <2>1 DEF Books
    <3> HIDE DEF seen, books
    <3>2. counter' = counter
      BY <1>1, <1>3, <3>1 DEF FlushCounters, CountersTyped, CounterRow
    <3> QED
      BY <1>1, <1>4, <2>1, <3>1, <3>2, NothingCharged
  <2>2. CASE state # "reconciliation_required"
    <3>1. books = Charged(k, seen, -Estimate[k], o.cost)
      BY <2>2 DEF Books
    <3>2. e = o.cost /\ d = -Estimate[k]
      BY <1>2, <2>2
    <3> HIDE DEF k, seen, books, d, e, state
    <3>3. FlushCounters(k, seen, Charged(k, seen, -Estimate[k], o.cost))
      BY <1>3, <3>1
    <3> DEFINE minus == -Estimate[k]
    <3>4. minus \in Int
      BY <1>1
    <3> HIDE DEF minus
    <3>5. /\ Charges(k, minus, o.cost)
          /\ \A a \in AccountsOf[k] : counter'[a] = Charged(k, seen, minus, o.cost)[a]
      BY <1>1, <1>2, <1>4, <3>3, <3>4, ChargesStep DEF minus
    <3> QED
      BY <3>1, <3>2, <3>5 DEF minus
  <2> QED
    BY <2>1, <2>2
<1>6. \E status : Written(k, n, status, state)
  <2> DEFINE attempt == [att[<<k, n>>] EXCEPT !.status = NewStatus(r, o)]
  <2>1. /\ att' = [att EXCEPT ![<<k, n>>] = attempt]
        /\ reservation' = [reservation EXCEPT ![<<k, n>>] = state]
    BY DEF Terminalize
  <2> HIDE DEF k, n, state, attempt
  <2> QED
    BY <1>1, <2>1, WritesAttempt
<1>7. CostIs(k, n, o.cost)
  <2>1. cost' = [cost EXCEPT ![<<k, n>>] = o.cost]
    BY DEF Terminalize
  <2> HIDE DEF k, n
  <2> QED
    BY <1>1, <2>1, WritesCost
<1>8. CountersMatch'
  <2>1. PICK status : Written(k, n, status, state)
    BY <1>6
  <2>2. /\ d = (IF state \in Held /\ reservation[<<k, n>>] \notin Held THEN Estimate[k]
                ELSE IF state \notin Held /\ reservation[<<k, n>>] \in Held THEN -Estimate[k]
                ELSE 0)
        /\ reservation[<<k, n>>] # "settled"
    BY <1>2, <1>3 DEF Held
  <2>3. e = IF state = "settled" THEN o.cost ELSE 0
    OBVIOUS
  <2> HIDE DEF k, n, d, e, state
  <2> QED
    BY <1>1, <1>2, <1>5, <1>7, <2>1, <2>2, <2>3, MatchStep
<1>9. Fresh(r)' /\ \A s \in Requests : s # r => memCounter'[s] = memCounter[s]
  <2> HIDE DEF books
  <2> QED
    BY <1>1, <1>3, <1>5, FreshWorker DEF SessionsTyped
<1>10. InFlight(k)
  BY <1>3 DEF InFlight, Working
<1>11. ASSUME NEW s \in Requests, s # r, NeedsFresh(s)' PROVE Fresh(s)'
  <2>1. pc'[s] = pc[s] /\ pc[s] \in Working /\ number'[s] = number[s]
    BY <1>1, <1>3, <1>11, Typed DEF NeedsFresh, Working
  <2>2. KeyOf[s] # k
    BY <1>1, <1>3, <1>11, <2>1 DEF OneWorker, Working
  <2>3. reservation'[<<KeyOf[s], number[s]>>] = reservation[<<KeyOf[s], number[s]>>]
    BY <1>1, <1>6, <2>2, Named DEF Written
  <2>4. NeedsFresh(s)
    BY <1>11, <2>1, <2>3 DEF NeedsFresh
  <2> HIDE DEF k, d, e
  <2> QED
    BY <1>1, <1>5, <1>9, <1>10, <1>11, <2>2, <2>4, FreshApart
<1> QED
  BY <1>8, <1>9, <1>11 DEF SessionsFresh

LEMMA RecoverAccounts ==
    ASSUME RInv, Apart, SessionsFresh, CountersMatch, NEW k \in Keys, NEW n \in Attempts,
           RecoverOrphan(k, n)
    PROVE  SessionsFresh' /\ CountersMatch'
<1> DEFINE minus == -Estimate[k]
<1>1. /\ RowsTyped /\ CountersTyped /\ counter \in [Accounts -> CounterRow] /\ minus \in Int
  BY TypeOKParts, EstimateOf DEF RInv, CountersTyped
<1>2. Recovered(k, n)
  BY <1>1, RecoverEffect
<1>3. FlushCounters(k, counter, Charged(k, counter, minus, 0)) /\ memCounter' = memCounter
  BY DEF RecoverOrphan, RecoveryBooks
<1> HIDE DEF minus
<1>4. Charges(k, minus, 0)
  BY <1>1, <1>3, ChargesStep
<1>5. cost[<<k, n>>] \in 0..CostBound /\ CostIs(k, n, cost[<<k, n>>])
  BY <1>1, <1>2, KeptCost DEF Recovered
<1>6. Written(k, n, "failed", "released") /\ reservation[<<k, n>>] = "reserved"
  BY <1>2 DEF Recovered
<1>7. CountersMatch'
  BY <1>1, <1>4, <1>5, <1>6, MatchStep DEF Held, minus
<1>8. InFlight(k)
  BY <1>6 DEF InFlight
<1>9. ASSUME NEW s \in Requests, NeedsFresh(s)' PROVE Fresh(s)'
  <2>1. pc' = pc /\ number' = number /\ pc[s] \in Working
    BY <1>2, <1>9 DEF NeedsFresh, Recovered, KeepWorkers, Working
  <2>2. NeedsFresh(s)
    BY <1>1, <1>2, <1>9, Named DEF NeedsFresh, Recovered, KeepWorkers, Written
  <2>3. KeyOf[s] # k
    <3> SUFFICES ASSUME KeyOf[s] = k PROVE FALSE
      OBVIOUS
    <3>1. n = number[s] /\ pc[s] # "admitting"
      BY <1>6, <2>1, WorkerAlone
    <3>2. reservation'[<<KeyOf[s], number'[s]>>] = "released"
      BY <1>6, <2>1, <3>1 DEF Written
    <3> QED
      BY <1>9, <2>1, <3>1, <3>2 DEF NeedsFresh
  <2> QED
    BY <1>1, <1>3, <1>4, <1>8, <2>2, <2>3, FreshApart
<1> QED
  BY <1>7, <1>9 DEF SessionsFresh

LEMMA AccountingStep ==
    RInv /\ Apart /\ AInv /\ [Next]_vars => AInv'
<1> SUFFICES ASSUME RInv, Apart, AInv, [Next]_vars, Undisturbed'
             PROVE  SessionsFresh' /\ CountersMatch'
  BY DEF AInv
<1> DEFINE Goal == SessionsFresh' /\ CountersMatch'
<1> USE DEF RInv
<1>1. RowsTyped /\ CountersTyped /\ SnapshotsTyped /\ OneWorker
  BY TypeOKParts
<1>2. ASSUME NEW c \in Cancels, CancelWork(c) PROVE FALSE
  <2>1. \E to \in {"locking", "returned", "raised"} : cpc' = [cpc EXCEPT ![c] = to]
    BY <1>2 DEF CancelWork, ReadSnapshot, CancelTooLate, CancelBeforeDispatch, CancelFails,
                CancelAfterDispatch
  <2> QED
    BY <1>1, <2>1 DEF Undisturbed, RowsTyped
<1>3. ~(\E c \in Cancels : CancelWork(c)) => cpc' = cpc
  <2>1. ASSUME NEW r \in Requests, Work(r) \/ Crash(r) PROVE cpc' = cpc
    BY <2>1 DEF Work, CreatePending, Replay, AdmitAttempt, RefuseAdmission, CommitDispatch,
                DispatchRefused, Terminalize, TerminalizeRefused, Crash, cancelVars
  <2>2. ASSUME NEW k \in Keys, NEW n \in Attempts, RecoverOrphan(k, n) \/ RecoverDoubtful(k, n)
        PROVE  cpc' = cpc
    BY <2>2 DEF RecoverOrphan, RecoverDoubtful, cancelVars
  <2> QED
    BY <2>1, <2>2 DEF Next, RecoverFails, Quiescent, vars
<1>4. SessionsFresh /\ CountersMatch
  BY <1>2, <1>3 DEF AInv, Undisturbed
<1>5. ASSUME counter' = counter, memCounter' = memCounter,
             \/ Quiet
             \/ \E r \in Requests : Created(r) \/ Dispatched(r)
             \/ \E k \in Keys, n \in Attempts : Doubted(k, n)
      PROVE  Goal
  BY <1>4, <1>5, AccountingKept
<1>6. ASSUME NEW r \in Requests, AdmitAttempt(r) PROVE Goal
  BY <1>4, <1>6, AdmitAccounts
<1>7. ASSUME NEW r \in Requests, NEW o \in Outcomes, Terminalize(r, o) PROVE Goal
  BY <1>4, <1>7, TerminalAccounts
<1>8. ASSUME NEW k \in Keys, NEW n \in Attempts, RecoverOrphan(k, n) PROVE Goal
  BY <1>4, <1>8, RecoverAccounts
<1>9. ASSUME NEW k \in Keys, NEW n \in Attempts, RecoverDoubtful(k, n) PROVE Goal
  <2>1. counter' = counter /\ memCounter' = memCounter
    BY <1>9 DEF RecoverDoubtful
  <2> QED
    BY <1>1, <1>5, <1>9, <2>1, RecoverEffect
<1>10. ASSUME NEW r \in Requests, CommitDispatch(r) PROVE Goal
  <2>1. counter' = counter /\ memCounter' = memCounter
    BY <1>10 DEF CommitDispatch
  <2> QED
    BY <1>1, <1>5, <1>10, <2>1, DispatchEffect
<1>11. ASSUME NEW r \in Requests, CreatePending(r) PROVE Goal
  <2>1. counter' = counter /\ memCounter' = memCounter
    BY <1>11 DEF CreatePending, moneyVars
  <2> QED
    BY <1>1, <1>5, <1>11, <2>1, CreateEffect
<1>12. ASSUME NEW r \in Requests, Replay(r) \/ RefuseAdmission(r) \/ DispatchRefused(r)
                                  \/ TerminalizeRefused(r) \/ Crash(r)
       PROVE  Goal
  <2>1. counter' = counter /\ memCounter' = memCounter
    BY <1>12 DEF Replay, RefuseAdmission, DispatchRefused, TerminalizeRefused, Crash, moneyVars
  <2> QED
    BY <1>1, <1>5, <1>12, <2>1, QuietEffect
<1>13. CASE UNCHANGED vars
  <2>1. counter' = counter /\ memCounter' = memCounter
    BY <1>13 DEF vars
  <2> QED
    BY <1>1, <1>5, <1>13, <2>1, QuietEffect
<1> QED
  BY <1>2, <1>6, <1>7, <1>8, <1>9, <1>10, <1>11, <1>12, <1>13 DEF Next, Work, RecoverFails, Quiescent

LEMMA AccountingInit == Init => AInv
<1> SUFFICES ASSUME Init PROVE SessionsFresh /\ CountersMatch
  BY DEF AInv
<1>1. SessionsFresh
  BY DEF Init, SessionsFresh, NeedsFresh
<1>2. ASSUME NEW a \in Accounts PROVE HoldersOf(a) = {} /\ SettledOf(a) = {}
  BY DEF Init, HoldersOf, SettledOf, Held
<1>3. CountersMatch
  BY <1>2, TotalEmpty DEF Init, CountersMatch
<1> QED
  BY <1>1, <1>3

-----------------------------------------------------------------------------
(* The accounting holds until two invocations that share a counter overlap. *)
WInv == ~overlapped => Apart /\ AInv

LEMMA Watched == WatchedNext <=> Next /\ Watch
BY DEF WatchedNext, Next, Work, CancelWork

LEMMA WatchedInvariant == WatchedSpec => [](RInv /\ WInv)
<1>1. WatchedInit => RInv /\ WInv
  <2> SUFFICES ASSUME WatchedInit PROVE Apart
    BY RInvInit, AccountingInit DEF WatchedInit, WInv
  <2>1. \A k \in Keys : ~InFlight(k)
    BY DEF WatchedInit, Init, InFlight, Rows
  <2> QED
    BY <2>1 DEF Apart
<1>2. RInv /\ WInv /\ [WatchedNext]_<<vars, overlapped>> => RInv' /\ WInv'
  <2> SUFFICES ASSUME RInv, WInv, [WatchedNext]_<<vars, overlapped>> PROVE RInv' /\ WInv'
    OBVIOUS
  <2>1. [Next]_vars /\ RInv'
    BY RInvStep, Watched
  <2>2. CASE WatchedNext
    BY <2>1, <2>2, AccountingStep, Watched DEF Watch, WInv
  <2>3. CASE UNCHANGED <<vars, overlapped>>
    <3>1. Apart' <=> Apart
      BY <2>3 DEF vars, Apart, InFlight
    <3> QED
      BY <2>1, <2>3, <3>1, AccountingStep DEF WInv
  <2> QED
    BY <2>2, <2>3
<1> QED
  BY <1>1, <1>2, PTL DEF WatchedSpec

(* The counters of every account equal what the reservations and the cost   *)
(* ledger add up to, through retries, crashes, recoveries and invocations   *)
(* one after another, until two that share a counter are under way at once. *)
(* From then on a worker flushes what its session remembers over what       *)
(* another committed meanwhile.                                             *)
THEOREM AccountingWhileApart == WatchedSpec => []AccountingAlone
<1>1. WInv => AccountingAlone
  BY DEF WInv, AInv, CountersMatch, AccountingAlone, AccountingExact
<1> QED
  BY <1>1, WatchedInvariant, PTL

(* A counter that matches holds the estimate of every reserved attempt.     *)
LEMMA EstimateIsHeld ==
    ASSUME RInv, CountersMatch, NEW k \in Keys, NEW n \in Attempts,
           reservation[<<k, n>>] = "reserved", NEW a \in Accounts, a \in AccountsOf[k]
    PROVE  counter[a].reserved >= Estimate[k]
<1> DEFINE x == <<k, n>>
           T == HoldersOf(a)
<1>1. x \in T /\ IsFiniteSet(T) /\ ReservedOf[x] = Estimate[k]
  BY RowSets, ReservedOfRow DEF HoldersOf, Held
<1>2. LargestEstimate \in Nat /\ ReservedOf[x] \in 0..LargestEstimate
  BY <1>1, Largest
<1>3. IsFiniteSet(T \ {x})
  BY <1>1, FS_RemoveElement
<1> HIDE DEF x, T
<1>4. Total(T \ {x}, ReservedOf, LargestEstimate)
        = Total(T, ReservedOf, LargestEstimate) - ReservedOf[x]
  BY <1>1, <1>2, TotalLeft
<1>5. /\ Total(T \ {x}, ReservedOf, LargestEstimate) \in Nat
      /\ Total(T, ReservedOf, LargestEstimate) \in Nat
  BY <1>1, <1>2, <1>3, TotalType
<1>6. counter[a].reserved = Total(T, ReservedOf, LargestEstimate)
  BY DEF CountersMatch, T
<1> QED
  BY <1>1, <1>2, <1>4, <1>5, <1>6

LEMMA RecoveryAccepted == RInv /\ WInv => RecoveryIsAccepted
<1> SUFFICES ASSUME RInv, WInv, Undisturbed, ~overlapped, NEW k \in Keys, NEW n \in Attempts,
                    reservation[<<k, n>>] = "reserved"
             PROVE  Nonnegative(RecoveryBooks(k))
  BY DEF RecoveryIsAccepted, RecoveryRefused
<1>1. CountersMatch /\ counter \in [Accounts -> CounterRow] /\ Estimate[k] \in Nat
  BY TypeOKParts, EstimateOf DEF WInv, AInv, RInv, CountersTyped
<1>2. ASSUME NEW a \in Accounts
      PROVE  RecoveryBooks(k)[a].reserved >= 0 /\ RecoveryBooks(k)[a].committed >= 0
  <2>1. CASE a \in AccountsOf[k]
    <3>1. counter[a].reserved >= Estimate[k]
      BY <1>1, <1>2, <2>1, EstimateIsHeld
    <3> QED
      BY <1>1, <1>2, <2>1, <3>1 DEF RecoveryBooks, Charged, CounterRow
  <2>2. CASE a \notin AccountsOf[k]
    BY <1>1, <1>2, <2>2 DEF RecoveryBooks, Charged, CounterRow
  <2> QED
    BY <2>1, <2>2
<1> QED
  BY <1>2 DEF Nonnegative

(* recover_expired_admissions subtracts unconditionally: until a cancel or  *)
(* an overlap the counter always holds what it takes, so the CHECK does not *)
(* refuse it and the batch goes on.                                         *)
THEOREM RecoveriesAreAccepted == WatchedSpec => []RecoveryIsAccepted
BY RecoveryAccepted, WatchedInvariant, PTL

(* What a step writes breaks no CHECK, UNIQUE or FOREIGN KEY constraint of  *)
(* the ledger's tables and no trigger on them, whatever interleaves; and    *)
(* the recovery of a dead worker's admission is refused by the CHECK on the *)
(* counters only after a cancel or an overlap.                              *)
THEOREM TablesAccept == WatchedSpec => SchemaAccepts
<1>1. RInv => InvocationRows /\ AttemptRows /\ ReservationRows /\ CounterRows /\ LedgerRows /\ TypeOK
  BY RowsStand DEF RInv
<1>2. RInv /\ WInv => RecoveryIsAccepted
  BY RecoveryAccepted
<1>3. /\ RInv' => /\ InvocationRows' /\ AttemptRows' /\ ReservationRows' /\ CounterRows'
                   /\ LedgerRows' /\ TypeOK'
      /\ RInv' /\ WInv' => RecoveryIsAccepted'
  BY <1>1, <1>2, PTL
<1>4. RInv /\ RInv' /\ WInv' /\ [WatchedNext]_<<vars, overlapped>> =>
        [/\ TypeOK' /\ InvocationRows' /\ AttemptRows'
         /\ ReservationRows' /\ CounterRows' /\ LedgerRows'
         /\ \A x \in Rows : ~Reinserted(x)
         /\ AppendOnly /\ FinalIsWriteOnce
         /\ RecoveryIsAccepted']_<<vars, overlapped>>
  <2> SUFFICES ASSUME RInv, RInv', WInv', [WatchedNext]_<<vars, overlapped>>
               PROVE  /\ \A x \in Rows : ~Reinserted(x)
                      /\ AppendOnly /\ FinalIsWriteOnce
    BY <1>3
  <2>1. [Next]_vars
    BY Watched
  <2> QED
    BY <2>1, RowsChange
<1> QED
  BY <1>4, WatchedInvariant, PTL DEF WatchedSpec, SchemaAccepts

=============================================================================
