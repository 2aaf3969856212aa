------------------------ MODULE ZhipuInvocationProofs ------------------------
(* Theorems about ZhipuInvocation for every set of calls, resources,        *)
(* accounts, estimates, costs and limits.                                   *)
EXTENDS ZhipuInvocation, AmountsProofs

-----------------------------------------------------------------------------
(* The rows.                                                                *)
LEMMA RowsInit == Init => RowsCohere
BY DEF Init, RowsCohere

LEMMA RowsStep ==
    TypeOK /\ RowsCohere /\ [Next]_vars => RowsCohere'
<1> SUFFICES ASSUME TypeOK, RowsCohere, [Next]_vars
             PROVE  RowsCohere'
  OBVIOUS
<1> USE DEF TypeOK, RowsCohere, Goto, ledgerVars, workerVars
<1>1. ASSUME NEW r \in Calls, Admit(r) PROVE RowsCohere'
  BY <1>1 DEF Admit
<1>2. ASSUME NEW r \in Calls, RefuseAdmission(r) PROVE RowsCohere'
  BY <1>2 DEF RefuseAdmission
<1>3. ASSUME NEW r \in Calls, TakeClaim(r) PROVE RowsCohere'
  BY <1>3 DEF TakeClaim
<1>4. ASSUME NEW r \in Calls, ClaimConflict(r) PROVE RowsCohere'
  BY <1>4 DEF ClaimConflict
<1>5. ASSUME NEW r \in Calls, CommitDispatch(r) PROVE RowsCohere'
  BY <1>5 DEF CommitDispatch, CanDispatch
<1>6. ASSUME NEW r \in Calls, DispatchRejected(r) PROVE RowsCohere'
  BY <1>6 DEF DispatchRejected
<1>7. ASSUME NEW r \in Calls, ReleaseAdmitted(r) PROVE RowsCohere'
  BY <1>7 DEF ReleaseAdmitted, CanRelease
<1>8. ASSUME NEW r \in Calls, ReleaseRefused(r) PROVE RowsCohere'
  BY <1>8 DEF ReleaseRefused, CanRelease
<1>9. ASSUME NEW r \in Calls, NEW o \in Outcomes, ProviderAnswers(r, o) PROVE RowsCohere'
  BY <1>9 DEF ProviderAnswers
<1>10. ASSUME NEW r \in Calls, Terminalize(r) PROVE RowsCohere'
  BY <1>10 DEF Terminalize, NewReservation, NewStatus, NextStep
<1>11. ASSUME NEW r \in Calls, ReleaseTerminalClaim(r) PROVE RowsCohere'
  BY <1>11 DEF ReleaseTerminalClaim
<1>12. ASSUME NEW r \in Calls, Persist(r) PROVE RowsCohere'
  BY <1>12 DEF Persist
<1>13. ASSUME NEW r \in Calls, PersistFails(r) PROVE RowsCohere'
  BY <1>13 DEF PersistFails
<1>14. ASSUME NEW r \in Calls, Crash(r) PROVE RowsCohere'
  BY <1>14 DEF Crash
<1>15. ASSUME NEW r \in Calls, RecoverExpired(r) PROVE RowsCohere'
  BY <1>15 DEF RecoverExpired
<1>16. ASSUME NEW r \in Calls, Reconcile(r) PROVE RowsCohere'
  BY <1>16 DEF Reconcile, CanReconcile
<1>17. ASSUME NEW k \in Credentials, RevokeCredential(k) PROVE RowsCohere'
  BY <1>17 DEF RevokeCredential
<1>18. CASE UNCHANGED vars
  BY <1>18 DEF vars
<1> QED
  BY <1>1, <1>2, <1>3, <1>4, <1>5, <1>6, <1>7, <1>8, <1>9, <1>10, <1>11,
     <1>12, <1>13, <1>14, <1>15, <1>16, <1>17, <1>18
     DEF Next, Work, Quiescent

-----------------------------------------------------------------------------
(* The claims.                                                              *)
LEMMA ClaimsInit == Init => ClaimsCohere
BY ZhipuAssumption DEF Init, ClaimsCohere, HoldsClaim, FreeClaim, Unresolved, Stopped

(* A step may change the claim of one resource only for its own call, and   *)
(* never the claim of a call that relies on it.                             *)
LEMMA ClaimsStep ==
    TypeOK /\ RowsCohere /\ ClaimsCohere /\ [Next]_vars => ClaimsCohere'
<1> SUFFICES ASSUME TypeOK, RowsCohere, ClaimsCohere, [Next]_vars
             PROVE  ClaimsCohere'
  OBVIOUS
<1> USE ZhipuAssumption
    DEF TypeOK, RowsCohere, ClaimsCohere, Goto, HoldsClaim, FreeClaim,
        Unresolved, ledgerVars, workerVars
<1>1. ASSUME NEW r \in Calls, Admit(r) PROVE ClaimsCohere'
  BY <1>1 DEF Admit
<1>2. ASSUME NEW r \in Calls, RefuseAdmission(r) PROVE ClaimsCohere'
  BY <1>2 DEF RefuseAdmission
<1>3. ASSUME NEW r \in Calls, TakeClaim(r) PROVE ClaimsCohere'
  BY <1>3 DEF TakeClaim
<1>4. ASSUME NEW r \in Calls, ClaimConflict(r) PROVE ClaimsCohere'
  BY <1>4 DEF ClaimConflict
<1>5. ASSUME NEW r \in Calls, CommitDispatch(r) PROVE ClaimsCohere'
  BY <1>5 DEF CommitDispatch, CanDispatch
<1>6. ASSUME NEW r \in Calls, DispatchRejected(r) PROVE ClaimsCohere'
  BY <1>6 DEF DispatchRejected
<1>7. ASSUME NEW r \in Calls, ReleaseAdmitted(r) PROVE ClaimsCohere'
  <2>1. /\ pc' = [pc EXCEPT ![r] = "raised"]
        /\ status[r] = "admitted" /\ status' = [status EXCEPT ![r] = "failed"]
    BY <1>7 DEF ReleaseAdmitted, CanRelease
  <2>2. CASE pc[r] = "releasing"
    <3>1. claim[ResourceOf[r]] = [holder |-> r, state |-> "in_progress"]
      BY <2>2
    <3>2. claim' = [claim EXCEPT ![ResourceOf[r]] = [holder |-> NoCall, state |-> "free"]]
      BY <1>7, <2>2, <3>1 DEF ReleaseAdmitted, DeleteClaim
    <3> QED
      BY <2>1, <3>1, <3>2
  <2>3. CASE pc[r] = "releasing_unclaimed"
    BY <1>7, <2>1, <2>3 DEF ReleaseAdmitted
  <2> QED
    BY <1>7, <2>2, <2>3 DEF ReleaseAdmitted
<1>8. ASSUME NEW r \in Calls, ReleaseRefused(r) PROVE ClaimsCohere'
  BY <1>8 DEF ReleaseRefused
<1>9. ASSUME NEW r \in Calls, NEW o \in Outcomes, ProviderAnswers(r, o) PROVE ClaimsCohere'
  BY <1>9 DEF ProviderAnswers
<1>10. ASSUME NEW r \in Calls, Terminalize(r) PROVE ClaimsCohere'
  BY <1>10 DEF Terminalize, NewReservation, NewStatus, NextStep
<1>11. ASSUME NEW r \in Calls, ReleaseTerminalClaim(r) PROVE ClaimsCohere'
  BY <1>11 DEF ReleaseTerminalClaim, DeleteClaim
<1>12. ASSUME NEW r \in Calls, Persist(r) PROVE ClaimsCohere'
  BY <1>12 DEF Persist
<1>13. ASSUME NEW r \in Calls, PersistFails(r) PROVE ClaimsCohere'
  BY <1>13 DEF PersistFails
<1>14. ASSUME NEW r \in Calls, Crash(r) PROVE ClaimsCohere'
  BY <1>14 DEF Crash, Stopped
<1>15. ASSUME NEW r \in Calls, RecoverExpired(r) PROVE ClaimsCohere'
  BY <1>15 DEF RecoverExpired
<1>16. ASSUME NEW r \in Calls, Reconcile(r) PROVE ClaimsCohere'
  BY <1>16 DEF Reconcile, CanReconcile
<1>17. ASSUME NEW k \in Credentials, RevokeCredential(k) PROVE ClaimsCohere'
  BY <1>17 DEF RevokeCredential
<1>18. CASE UNCHANGED vars
  BY <1>18 DEF vars
<1> QED
  BY <1>1, <1>2, <1>3, <1>4, <1>5, <1>6, <1>7, <1>8, <1>9, <1>10, <1>11,
     <1>12, <1>13, <1>14, <1>15, <1>16, <1>17, <1>18
     DEF Next, Work, Quiescent

-----------------------------------------------------------------------------
(* The costs.                                                               *)
LEMMA CostsInit == Init => CostsCohere
BY ZhipuAssumption DEF Init, CostsCohere, Held, Billed

LEMMA CostsStep ==
    TypeOK /\ RowsCohere /\ CostsCohere /\ [Next]_vars => CostsCohere'
<1> SUFFICES ASSUME TypeOK, RowsCohere, CostsCohere, [Next]_vars
             PROVE  CostsCohere'
  OBVIOUS
<1> USE ZhipuAssumption
    DEF TypeOK, RowsCohere, CostsCohere, Goto, Held, Billed, ledgerVars, workerVars
<1>1. ASSUME NEW r \in Calls, Admit(r) PROVE CostsCohere'
  BY <1>1 DEF Admit, CanAdmit
<1>2. ASSUME NEW r \in Calls, RefuseAdmission(r) PROVE CostsCohere'
  BY <1>2 DEF RefuseAdmission
<1>3. ASSUME NEW r \in Calls, TakeClaim(r) PROVE CostsCohere'
  BY <1>3 DEF TakeClaim
<1>4. ASSUME NEW r \in Calls, ClaimConflict(r) PROVE CostsCohere'
  BY <1>4 DEF ClaimConflict
<1>5. ASSUME NEW r \in Calls, CommitDispatch(r) PROVE CostsCohere'
  BY <1>5 DEF CommitDispatch, CanDispatch
<1>6. ASSUME NEW r \in Calls, DispatchRejected(r) PROVE CostsCohere'
  BY <1>6 DEF DispatchRejected
<1>7. ASSUME NEW r \in Calls, ReleaseAdmitted(r) PROVE CostsCohere'
  BY <1>7 DEF ReleaseAdmitted, CanRelease
<1>8. ASSUME NEW r \in Calls, ReleaseRefused(r) PROVE CostsCohere'
  BY <1>8 DEF ReleaseRefused
<1>9. ASSUME NEW r \in Calls, NEW o \in Outcomes, ProviderAnswers(r, o) PROVE CostsCohere'
  BY <1>9 DEF ProviderAnswers
<1>10. ASSUME NEW r \in Calls, Terminalize(r) PROVE CostsCohere'
  BY <1>10 DEF Terminalize, NewReservation, NewStatus, NextStep, Outcomes, NoAnswer
<1>11. ASSUME NEW r \in Calls, ReleaseTerminalClaim(r) PROVE CostsCohere'
  BY <1>11 DEF ReleaseTerminalClaim
<1>12. ASSUME NEW r \in Calls, Persist(r) PROVE CostsCohere'
  BY <1>12 DEF Persist
<1>13. ASSUME NEW r \in Calls, PersistFails(r) PROVE CostsCohere'
  BY <1>13 DEF PersistFails
<1>14. ASSUME NEW r \in Calls, Crash(r) PROVE CostsCohere'
  BY <1>14 DEF Crash
<1>15. ASSUME NEW r \in Calls, RecoverExpired(r) PROVE CostsCohere'
  BY <1>15 DEF RecoverExpired
<1>16. ASSUME NEW r \in Calls, Reconcile(r) PROVE CostsCohere'
  BY <1>16 DEF Reconcile, CanReconcile
<1>17. ASSUME NEW k \in Credentials, RevokeCredential(k) PROVE CostsCohere'
  BY <1>17 DEF RevokeCredential
<1>18. CASE UNCHANGED vars
  BY <1>18 DEF vars
<1> QED
  BY <1>1, <1>2, <1>3, <1>4, <1>5, <1>6, <1>7, <1>8, <1>9, <1>10, <1>11,
     <1>12, <1>13, <1>14, <1>15, <1>16, <1>17, <1>18
     DEF Next, Work, Quiescent

-----------------------------------------------------------------------------
(* The money.  A step leaves the counters' explanation alone, moves one     *)
(* call into the holders, or moves it out of them.                          *)
LEMMA RowSetsFinite ==
    ASSUME NEW a
    PROVE  IsFiniteSet(HoldersOf(a)) /\ IsFiniteSet(SettledOf(a))
BY ZhipuAssumption, FS_Subset DEF HoldersOf, SettledOf

LEMMA TotalsNatural ==
    ASSUME NEW a
    PROVE  /\ Total(HoldersOf(a), Estimate, LedgerCap) \in Nat
           /\ Total(SettledOf(a), Billed, CostBound) \in Nat
BY ZhipuAssumption, RowSetsFinite, TotalType

(* Faithful accounting keeps every counter a natural number.                *)
LEMMA CountersNatural ==
    ASSUME AccountingExact, NEW a \in Accounts
    PROVE  counter[a].reserved \in Nat /\ counter[a].committed \in Nat
BY TotalsNatural DEF AccountingExact

LEMMA AccountingInit == Init => AccountingExact
<1> SUFFICES ASSUME Init, NEW a \in Accounts
             PROVE  /\ counter[a].reserved = Total(HoldersOf(a), Estimate, LedgerCap)
                    /\ counter[a].committed = Total(SettledOf(a), Billed, CostBound)
  BY DEF AccountingExact
<1>1. HoldersOf(a) = {r \in Legacy : a \in AccountsOf[r]}
  BY ZhipuAssumption DEF Init, HoldersOf, Held
<1>2. SettledOf(a) = {}
  BY DEF Init, SettledOf
<1>3. counter[a] = [reserved |-> Total({r \in Legacy : a \in AccountsOf[r]}, Estimate, LedgerCap),
                    committed |-> 0]
  BY DEF Init
<1>4. Total({}, Billed, CostBound) = 0
  BY ZhipuAssumption, TotalEmpty
<1> QED
  BY <1>1, <1>2, <1>3, <1>4

LEMMA MoneySame ==
    ASSUME AccountingExact, counter' = counter,
           \A a \in Accounts : HoldersOf(a)' = HoldersOf(a),
           \A a \in Accounts : SettledOf(a)' = SettledOf(a),
           \A q \in Calls : reservation[q] = "settled" => Billed'[q] = Billed[q]
    PROVE  AccountingExact'
<1> SUFFICES ASSUME NEW a \in Accounts
             PROVE  /\ counter'[a].reserved = Total(HoldersOf(a)', Estimate, LedgerCap)
                    /\ counter'[a].committed = Total(SettledOf(a)', Billed', CostBound)
  BY DEF AccountingExact, Total, Coins
<1>1. Total(SettledOf(a), Billed, CostBound) = Total(SettledOf(a), Billed', CostBound)
  <2>1. \A q \in SettledOf(a) : Billed[q] = Billed'[q]
    BY DEF SettledOf
  <2> QED
    BY <2>1, ZhipuAssumption, TotalSame
<1> QED
  BY <1>1 DEF AccountingExact

LEMMA MoneyReserved ==
    ASSUME TypeOK, AccountingExact, NEW r \in Calls, reservation[r] = "none",
           Estimate[r] \in 1..LedgerCap, Reserve(r),
           reservation' = [reservation EXCEPT ![r] = "reserved"], Billed' = Billed
    PROVE  AccountingExact'
<1> SUFFICES ASSUME NEW a \in Accounts
             PROVE  /\ counter'[a].reserved = Total(HoldersOf(a)', Estimate, LedgerCap)
                    /\ counter'[a].committed = Total(SettledOf(a)', Billed', CostBound)
  BY DEF AccountingExact, Total, Coins
<1>1. SettledOf(a)' = SettledOf(a)
  BY DEF SettledOf, TypeOK
<1>2. /\ counter[a].reserved = Total(HoldersOf(a), Estimate, LedgerCap)
      /\ counter[a].committed = Total(SettledOf(a), Billed, CostBound)
  BY DEF AccountingExact
<1>3. CASE a \notin AccountsOf[r]
  <2>1. HoldersOf(a)' = HoldersOf(a)
    BY <1>3 DEF HoldersOf, TypeOK
  <2>2. counter'[a] = counter[a]
    BY <1>3 DEF Reserve
  <2> QED
    BY <1>1, <1>2, <2>1, <2>2
<1>4. CASE a \in AccountsOf[r]
  <2>1. HoldersOf(a)' = HoldersOf(a) \cup {r} /\ r \notin HoldersOf(a)
    BY <1>4 DEF HoldersOf, TypeOK, Held
  <2>2. Estimate[r] \in 0..LedgerCap
    BY ZhipuAssumption
  <2>3. Total(HoldersOf(a) \cup {r}, Estimate, LedgerCap)
           = Total(HoldersOf(a), Estimate, LedgerCap) + Estimate[r]
    BY <2>1, <2>2, ZhipuAssumption, RowSetsFinite, TotalAdd
  <2>4. /\ counter'[a].reserved = counter[a].reserved + Estimate[r]
        /\ counter'[a].committed = counter[a].committed
    BY <1>4 DEF Reserve
  <2> QED
    BY <1>1, <1>2, <2>1, <2>3, <2>4
<1> QED
  BY <1>3, <1>4

LEMMA MoneyGivenBack ==
    ASSUME TypeOK, AccountingExact, NEW r \in Calls, reservation[r] \in Held,
           Estimate[r] \in 1..LedgerCap, NEW charged \in 0..CostBound,
           Unreserve(r, charged), NEW new \in {"released", "settled"},
           reservation' = [reservation EXCEPT ![r] = new],
           \A q \in Calls \ {r} : Billed'[q] = Billed[q],
           new = "released" => charged = 0,
           new = "settled" => Billed'[r] = charged
    PROVE  AccountingExact'
<1> SUFFICES ASSUME NEW a \in Accounts
             PROVE  /\ counter'[a].reserved = Total(HoldersOf(a)', Estimate, LedgerCap)
                    /\ counter'[a].committed = Total(SettledOf(a)', Billed', CostBound)
  BY DEF AccountingExact, Total, Coins
<1>1. /\ counter[a].reserved = Total(HoldersOf(a), Estimate, LedgerCap)
      /\ counter[a].committed = Total(SettledOf(a), Billed, CostBound)
  BY DEF AccountingExact
<1>2. r \notin SettledOf(a)
  BY DEF SettledOf, Held
<1>3. Total(SettledOf(a), Billed', CostBound) = Total(SettledOf(a), Billed, CostBound)
  <2>1. \A q \in SettledOf(a) : Billed'[q] = Billed[q]
    BY <1>2 DEF SettledOf
  <2> QED
    BY <2>1, ZhipuAssumption, TotalSame
<1>4. CASE a \notin AccountsOf[r]
  <2>1. HoldersOf(a)' = HoldersOf(a) /\ SettledOf(a)' = SettledOf(a)
    BY <1>4 DEF HoldersOf, SettledOf, TypeOK
  <2>2. counter'[a] = counter[a]
    BY <1>4 DEF Unreserve
  <2> QED
    BY <1>1, <1>3, <2>1, <2>2
<1>5. CASE a \in AccountsOf[r]
  <2>1. HoldersOf(a)' = HoldersOf(a) \ {r} /\ r \in HoldersOf(a)
    BY <1>5 DEF HoldersOf, TypeOK, Held
  <2>2. Total(HoldersOf(a) \ {r}, Estimate, LedgerCap)
           = Total(HoldersOf(a), Estimate, LedgerCap) - Estimate[r]
    <3>1. Estimate[r] \in 0..LedgerCap
      BY ZhipuAssumption
    <3> QED
      BY <2>1, <3>1, ZhipuAssumption, RowSetsFinite, TotalRemove
  <2>3. /\ counter'[a].reserved = counter[a].reserved - Estimate[r]
        /\ counter'[a].committed = counter[a].committed + charged
    BY <1>5 DEF Unreserve
  <2>4. Total(SettledOf(a)', Billed', CostBound)
           = Total(SettledOf(a), Billed, CostBound) + charged
    <3>1. CASE new = "released"
      <4>1. SettledOf(a)' = SettledOf(a)
        BY <3>1, <1>2 DEF SettledOf, TypeOK
      <4> QED
        BY <3>1, <4>1, <1>3, TotalsNatural
    <3>2. CASE new = "settled"
      <4>1. SettledOf(a)' = SettledOf(a) \cup {r}
        BY <3>2, <1>5 DEF SettledOf, TypeOK
      <4>2. \A q \in SettledOf(a) : Billed[q] = Billed'[q]
        BY <1>2 DEF SettledOf
      <4>3. Total(SettledOf(a) \cup {r}, Billed', CostBound)
               = Total(SettledOf(a), Billed, CostBound) + Billed'[r]
        <5>1. Billed'[r] \in 0..CostBound
          BY <3>2
        <5>2. CostBound \in Nat /\ IsFiniteSet(SettledOf(a))
          BY ZhipuAssumption, RowSetsFinite
        <5> QED
          BY <4>2, <5>1, <5>2, <1>2, TotalAdd
      <4> QED
        BY <3>2, <4>1, <4>3
    <3> QED
      BY <3>1, <3>2
  <2> QED
    BY <1>1, <2>1, <2>2, <2>3, <2>4
<1> QED
  BY <1>4, <1>5

(* What the worker holds as its answer's cost is a cost or 0.               *)
LEMMA AnswerCost ==
    ASSUME TypeOK, NEW r \in Calls
    PROVE  answer[r].cost \in 0..CostBound
<1>1. answer[r] \in Outcomes \cup {NoAnswer}
  BY DEF TypeOK
<1>2. \A x \in Outcomes \cup {NoAnswer} : x.cost \in Costs \cup {0}
  BY DEF Outcomes, NoAnswer
<1>3. answer[r].cost \in Costs \cup {0}
  BY <1>1, <1>2, Zenon
<1>4. CostBound \in Nat /\ \A x \in Costs : x \in 1..CostBound
  BY ZhipuAssumption
<1> DEFINE c == answer[r].cost
<1>5. c \in Costs \cup {0}
  BY <1>3
<1> HIDE DEF c
<1>6. c \in 0..CostBound
  BY <1>4, <1>5
<1> QED
  BY <1>6 DEF c

LEMMA AccountingStep ==
    TypeOK /\ RowsCohere /\ CostsCohere /\ AccountingExact /\ [Next]_vars
        => AccountingExact'
<1> SUFFICES ASSUME TypeOK, RowsCohere, CostsCohere, AccountingExact, [Next]_vars
             PROVE  AccountingExact'
  OBVIOUS
<1>1. ASSUME UNCHANGED <<counter, reservation, cost1, cost2>> PROVE AccountingExact'
  BY <1>1, MoneySame DEF HoldersOf, SettledOf, Billed
<1>2. ASSUME NEW r \in Calls, Admit(r) PROVE AccountingExact'
  <2>1. reservation[r] = "none"
    BY <1>2 DEF Admit, RowsCohere
  <2> QED
    BY <1>2, <2>1, MoneyReserved DEF Admit, CanAdmit, Billed, ledgerVars
<1>3. ASSUME NEW r \in Calls, CommitDispatch(r) PROVE AccountingExact'
  <2>1. \A a \in Accounts : HoldersOf(a)' = HoldersOf(a) /\ SettledOf(a)' = SettledOf(a)
    BY <1>3 DEF CommitDispatch, CanDispatch, HoldersOf, SettledOf, Held, TypeOK
  <2> QED
    BY <1>3, <2>1, MoneySame DEF CommitDispatch, Billed, ledgerVars
<1>4. ASSUME NEW r \in Calls, ReleaseAdmitted(r) PROVE AccountingExact'
  <2>1. /\ reservation[r] \in Held /\ Estimate[r] \in 1..LedgerCap
        /\ 0 \in 0..CostBound
    BY <1>4, ZhipuAssumption DEF ReleaseAdmitted, CanRelease, CostsCohere, Held
  <2>2. Unreserve(r, 0) /\ reservation' = [reservation EXCEPT ![r] = "released"]
    BY <1>4 DEF ReleaseAdmitted
  <2>3. Billed' = Billed
    BY <1>4 DEF ReleaseAdmitted, Billed, ledgerVars
  <2> QED
    BY <2>1, <2>2, <2>3, MoneyGivenBack
<1>5. ASSUME NEW r \in Calls, Terminalize(r) PROVE AccountingExact'
  <2> DEFINE o == answer[r]
             next == NewReservation(r, o)
  <2>1. /\ reservation[r] = "dispatch_committed"
        /\ reservation' = [reservation EXCEPT ![r] = next]
        /\ cost1' = [cost1 EXCEPT ![r] = o.cost]
        /\ cost2' = cost2
        /\ IF next \in {"settled", "released"} THEN Unreserve(r, o.cost)
                                               ELSE counter' = counter
    BY <1>5 DEF Terminalize
  <2>2. /\ reservation[r] \in Held /\ Estimate[r] \in 1..LedgerCap
        /\ cost2[r] = 0
    BY <2>1 DEF CostsCohere, Held
  <2>3. o.cost \in 0..CostBound
    BY AnswerCost
  <2>4. \A q \in Calls \ {r} : Billed'[q] = Billed[q]
    BY <2>1 DEF Billed, TypeOK
  <2>5. /\ next \in {"settled", "released", "reconciliation_required"}
        /\ next = "released" => o.cost = 0
    BY DEF NewReservation
  <2>6. Billed'[r] = o.cost
    BY <2>1, <2>2 DEF Billed, TypeOK
  <2> HIDE DEF o, next
  <2>7. CASE next \in {"settled", "released"}
    BY <2>1, <2>2, <2>3, <2>4, <2>5, <2>6, <2>7, MoneyGivenBack
  <2>8. CASE next = "reconciliation_required"
    <3>1. \A a \in Accounts : HoldersOf(a)' = HoldersOf(a) /\ SettledOf(a)' = SettledOf(a)
      BY <2>1, <2>8 DEF HoldersOf, SettledOf, Held, TypeOK
    <3> QED
      BY <2>1, <2>4, <2>8, <3>1, MoneySame
  <2> QED
    BY <2>5, <2>7, <2>8
<1>6. ASSUME NEW r \in Calls, RecoverExpired(r) PROVE AccountingExact'
  <2>1. /\ reservation[r] \in Held /\ Estimate[r] \in 1..LedgerCap
        /\ 0 \in 0..CostBound
    BY <1>6, ZhipuAssumption DEF RecoverExpired, CostsCohere, Held
  <2>2. Unreserve(r, 0) /\ reservation' = [reservation EXCEPT ![r] = "released"]
    BY <1>6 DEF RecoverExpired
  <2>3. Billed' = Billed
    BY <1>6 DEF RecoverExpired, Billed, ledgerVars
  <2> QED
    BY <2>1, <2>2, <2>3, MoneyGivenBack
<1>7. ASSUME NEW r \in Calls, Reconcile(r) PROVE AccountingExact'
  <2>1. /\ reservation[r] \in Held /\ Estimate[r] \in 1..LedgerCap
        /\ metered[r] \in 0..CostBound /\ metered[r] # 0
    BY <1>7 DEF Reconcile, CanReconcile, CostsCohere, Held, TypeOK
  <2>2. Unreserve(r, metered[r]) /\ reservation' = [reservation EXCEPT ![r] = "settled"]
    BY <1>7 DEF Reconcile
  <2>3. /\ \A q \in Calls \ {r} : Billed'[q] = Billed[q]
        /\ Billed'[r] = metered[r]
    BY <1>7, <2>1 DEF Reconcile, Billed, TypeOK
  <2> QED
    BY <2>1, <2>2, <2>3, MoneyGivenBack
<1> QED
  BY <1>1, <1>2, <1>3, <1>4, <1>5, <1>6, <1>7
     DEF Next, Work, Quiescent, vars, ledgerVars, RefuseAdmission, TakeClaim,
         ClaimConflict, DispatchRejected, ReleaseRefused, ProviderAnswers,
         ReleaseTerminalClaim, Persist, PersistFails, Crash, RevokeCredential

(* The limits: an admission checks what it adds, and a charge is at most    *)
(* what had been reserved for it.                                           *)
LEMMA BudgetInit == Init => BudgetRespected
<1> SUFFICES ASSUME Init, NEW a \in Accounts
             PROVE  counter[a].committed + counter[a].reserved <= Cap(a)
  BY DEF BudgetRespected
<1> DEFINE old == Total({r \in Legacy : a \in AccountsOf[r]}, Estimate, LedgerCap)
<1>1. counter[a].reserved = old /\ counter[a].committed = 0
  BY DEF Init
<1>2. old <= Cap(a)
  BY LegacyAssumption
<1>3. old \in Nat
  <2>1. IsFiniteSet({r \in Legacy : a \in AccountsOf[r]})
    BY ZhipuAssumption, FS_Subset
  <2> QED
    BY <2>1, ZhipuAssumption, TotalType
<1> HIDE DEF old
<1> QED
  BY <1>1, <1>2, <1>3

LEMMA BudgetGivenBack ==
    ASSUME BudgetRespected, AccountingExact, NEW r \in Calls,
           NEW charged \in 0..Estimate[r], Unreserve(r, charged)
    PROVE  BudgetRespected'
<1> SUFFICES ASSUME NEW a \in Accounts
             PROVE  counter'[a].committed + counter'[a].reserved <= Cap(a)
  BY DEF BudgetRespected, Cap
<1>1. counter[a].reserved \in Nat /\ counter[a].committed \in Nat
  BY CountersNatural
<1>2. counter[a].committed + counter[a].reserved <= Cap(a)
  BY DEF BudgetRespected
<1>3. Cap(a) \in Nat /\ Estimate[r] \in Nat
  BY ZhipuAssumption DEF Cap
<1>4. \/ counter'[a] = counter[a]
      \/ /\ counter'[a].reserved = counter[a].reserved - Estimate[r]
         /\ counter'[a].committed = counter[a].committed + charged
  BY DEF Unreserve
<1> QED
  BY <1>1, <1>2, <1>3, <1>4

LEMMA BudgetStep ==
    TypeOK /\ AccountingExact /\ BudgetRespected /\ [Next]_vars => BudgetRespected'
<1> SUFFICES ASSUME TypeOK, AccountingExact, BudgetRespected, [Next]_vars
             PROVE  BudgetRespected'
  OBVIOUS
<1>1. ASSUME UNCHANGED counter PROVE BudgetRespected'
  BY <1>1 DEF BudgetRespected, Cap
<1>2. ASSUME NEW r \in Calls, Admit(r) PROVE BudgetRespected'
  <2> SUFFICES ASSUME NEW a \in Accounts
               PROVE  counter'[a].committed + counter'[a].reserved <= Cap(a)
    BY DEF BudgetRespected, Cap
  <2>1. CASE a \notin AccountsOf[r]
    BY <1>2, <2>1 DEF Admit, Reserve, BudgetRespected
  <2>2. CASE a \in AccountsOf[r]
    <3>1. counter[a].committed + counter[a].reserved + Estimate[r] <= Cap(a)
      BY <1>2, <2>2 DEF Admit, CanAdmit
    <3>2. /\ counter'[a].reserved = counter[a].reserved + Estimate[r]
          /\ counter'[a].committed = counter[a].committed
      BY <1>2, <2>2 DEF Admit, Reserve
    <3>3. /\ counter[a].reserved \in Nat /\ counter[a].committed \in Nat
          /\ Estimate[r] \in Nat
      BY CountersNatural, ZhipuAssumption
    <3> QED
      BY <3>1, <3>2, <3>3
  <2> QED
    BY <2>1, <2>2
<1>3. ASSUME NEW r \in Calls, ReleaseAdmitted(r) PROVE BudgetRespected'
  BY <1>3, BudgetGivenBack, ZhipuAssumption DEF ReleaseAdmitted
<1>4. ASSUME NEW r \in Calls, RecoverExpired(r) PROVE BudgetRespected'
  BY <1>4, BudgetGivenBack, ZhipuAssumption DEF RecoverExpired
<1>5. ASSUME NEW r \in Calls, Terminalize(r) PROVE BudgetRespected'
  <2> DEFINE o == answer[r]
             next == NewReservation(r, o)
  <2>1. IF next \in {"settled", "released"} THEN Unreserve(r, o.cost)
                                            ELSE counter' = counter
    BY <1>5 DEF Terminalize
  <2>2. next \in {"settled", "released"} => o.cost \in 0..Estimate[r]
    <3>1. o.cost \in Nat
      BY AnswerCost
    <3>2. Estimate[r] \in Nat
      BY ZhipuAssumption
    <3> QED
      BY <3>1, <3>2 DEF NewReservation
  <2> HIDE DEF o, next
  <2> QED
    BY <1>1, <2>1, <2>2, BudgetGivenBack
<1>6. ASSUME NEW r \in Calls, Reconcile(r) PROVE BudgetRespected'
  <2>1. metered[r] \in 0..Estimate[r]
    BY <1>6, ZhipuAssumption DEF Reconcile, CanReconcile, TypeOK
  <2> QED
    BY <1>6, <2>1, BudgetGivenBack DEF Reconcile
<1> QED
  BY <1>1, <1>2, <1>3, <1>4, <1>5, <1>6
     DEF Next, Work, Quiescent, vars, CommitDispatch, RefuseAdmission, TakeClaim,
         ClaimConflict, DispatchRejected, ReleaseRefused, ProviderAnswers,
         ReleaseTerminalClaim, Persist, PersistFails, Crash, RevokeCredential

-----------------------------------------------------------------------------
(* The types.                                                               *)
LEMMA TypeInit == Init => TypeOK
<1> SUFFICES ASSUME Init PROVE TypeOK
  OBVIOUS
<1>1. counter \in [Accounts -> [reserved : Nat, committed : Nat]]
  <2>1. ASSUME NEW a \in Accounts
        PROVE  Total({r \in Legacy : a \in AccountsOf[r]}, Estimate, LedgerCap) \in Nat
    <3>1. IsFiniteSet({r \in Legacy : a \in AccountsOf[r]})
      BY ZhipuAssumption, FS_Subset
    <3> QED
      BY <3>1, ZhipuAssumption, TotalType
  <2> QED
    BY <2>1 DEF Init
<1>2. metered \in [Calls -> 0..CostBound]
  <2>1. \A r \in Legacy : LegacyCost[r] \in 0..CostBound
    <3>1. \A x \in Costs : x \in 0..CostBound
      BY ZhipuAssumption
    <3>2. \A r \in Legacy : LegacyCost[r] \in Costs
      BY ZhipuAssumption
    <3> QED
      BY <3>1, <3>2
  <2> QED
    BY <2>1, ZhipuAssumption DEF Init
<1> QED
  BY <1>1, <1>2, ZhipuAssumption
     DEF Init, TypeOK, Locations, Stopped, Statuses, Terminal, Reservations, Held,
         Categories, FreeClaim, NoAnswer

(* A transaction that keeps the books leaves its counters natural numbers.  *)
LEMMA CounterTyped ==
    ASSUME TypeOK, AccountingExact', NEW r \in Calls,
           \/ Reserve(r)
           \/ \E charged \in 0..CostBound : Unreserve(r, charged)
           \/ UNCHANGED counter
    PROVE  counter' \in [Accounts -> [reserved : Nat, committed : Nat]]
<1>1. ASSUME NEW a \in Accounts
      PROVE  counter'[a].reserved \in Nat /\ counter'[a].committed \in Nat
  <2>1. /\ counter'[a].reserved = Total(HoldersOf(a)', Estimate, LedgerCap)
        /\ counter'[a].committed = Total(SettledOf(a)', Billed', CostBound)
    BY DEF AccountingExact, Total, Coins
  <2>2. IsFiniteSet(HoldersOf(a)') /\ IsFiniteSet(SettledOf(a)')
    BY ZhipuAssumption, FS_Subset DEF HoldersOf, SettledOf
  <2>3. /\ Total(HoldersOf(a)', Estimate, LedgerCap) \in Nat
        /\ Total(SettledOf(a)', Billed', CostBound) \in Nat
    BY <2>2, ZhipuAssumption, TotalType
  <2> QED
    BY <2>1, <2>3
<1>2. CASE Reserve(r)
  BY <1>1, <1>2 DEF Reserve, TypeOK
<1>3. CASE \E charged \in 0..CostBound : Unreserve(r, charged)
  BY <1>1, <1>3 DEF Unreserve, TypeOK
<1>4. CASE UNCHANGED counter
  BY <1>4 DEF TypeOK
<1> QED
  BY <1>2, <1>3, <1>4

LEMMA TypeStep ==
    TypeOK /\ AccountingExact' /\ [Next]_vars => TypeOK'
<1> SUFFICES ASSUME TypeOK, AccountingExact', [Next]_vars
             PROVE  TypeOK'
  OBVIOUS
<1> USE ZhipuAssumption DEF TypeOK, Goto, ledgerVars, workerVars, Locations, Stopped
<1>1. ASSUME NEW r \in Calls, Admit(r) PROVE TypeOK'
  <2>1. counter' \in [Accounts -> [reserved : Nat, committed : Nat]]
    BY <1>1, CounterTyped DEF Admit
  <2> QED
    BY <1>1, <2>1 DEF Admit, Statuses, Reservations, Held
<1>2. ASSUME NEW r \in Calls, RefuseAdmission(r) PROVE TypeOK'
  BY <1>2 DEF RefuseAdmission
<1>3. ASSUME NEW r \in Calls, TakeClaim(r) PROVE TypeOK'
  BY <1>3 DEF TakeClaim
<1>4. ASSUME NEW r \in Calls, ClaimConflict(r) PROVE TypeOK'
  BY <1>4 DEF ClaimConflict
<1>5. ASSUME NEW r \in Calls, CommitDispatch(r) PROVE TypeOK'
  BY <1>5 DEF CommitDispatch, Statuses, Reservations, Held
<1>6. ASSUME NEW r \in Calls, DispatchRejected(r) PROVE TypeOK'
  BY <1>6 DEF DispatchRejected
<1>7. ASSUME NEW r \in Calls, ReleaseAdmitted(r) PROVE TypeOK'
  <2>1. counter' \in [Accounts -> [reserved : Nat, committed : Nat]]
    <3>1. 0 \in 0..CostBound /\ Unreserve(r, 0)
      BY <1>7 DEF ReleaseAdmitted
    <3> QED
      BY <3>1, CounterTyped
  <2>2. claim' = claim \/ claim' = [claim EXCEPT ![ResourceOf[r]] = FreeClaim]
    BY <1>7 DEF ReleaseAdmitted, DeleteClaim
  <2>3. claim' \in [Resources -> [holder : Calls \cup {NoCall},
                                  state : {"free", "in_progress", "completed"}]]
    <3>1. FreeClaim \in [holder : Calls \cup {NoCall},
                         state : {"free", "in_progress", "completed"}]
      BY DEF FreeClaim
    <3> QED
      BY <2>2, <3>1
  <2> QED
    BY <1>7, <2>1, <2>3 DEF ReleaseAdmitted, Statuses, Terminal, Categories, Reservations
<1>8. ASSUME NEW r \in Calls, ReleaseRefused(r) PROVE TypeOK'
  BY <1>8 DEF ReleaseRefused
<1>9. ASSUME NEW r \in Calls, NEW o \in Outcomes, ProviderAnswers(r, o) PROVE TypeOK'
  BY <1>9 DEF ProviderAnswers
<1>10. ASSUME NEW r \in Calls, Terminalize(r) PROVE TypeOK'
  <2> DEFINE o == answer[r]
             next == NewReservation(r, o)
  <2>1. o.cost \in 0..CostBound
    BY AnswerCost
  <2>2. counter' \in [Accounts -> [reserved : Nat, committed : Nat]]
    BY <1>10, <2>1, CounterTyped DEF Terminalize
  <2>3. /\ next \in Reservations
        /\ NewStatus(o) \in Statuses
        /\ NextStep(o) \in Locations
        /\ NewValidation(credential[CredentialOf[r]], o)
              \in {"unverified", "valid", "invalid", "revoked"}
    BY DEF NewReservation, NewStatus, NextStep, NewValidation, Reservations, Held,
           Statuses, Terminal
  <2>4. (IF o.kind = "ok" THEN "none" ELSE o.kind) \in Categories
    <3>1. \A x \in Outcomes \cup {NoAnswer} :
             x.kind \in {"none", "ok"} \cup Categories
      BY DEF Outcomes, NoAnswer, Categories
    <3>2. o.kind \in {"none", "ok"} \cup Categories
      BY <3>1, Zenon
    <3> QED
      BY <3>2 DEF Categories
  <2>5. /\ reservation' = [reservation EXCEPT ![r] = next]
        /\ status' = [status EXCEPT ![r] = NewStatus(o)]
        /\ category' = [category EXCEPT ![r] = IF o.kind = "ok" THEN "none" ELSE o.kind]
        /\ metered' = [metered EXCEPT ![r] = o.cost]
        /\ cost1' = [cost1 EXCEPT ![r] = o.cost]
        /\ credential' = [credential EXCEPT ![CredentialOf[r]] =
                             NewValidation(credential[CredentialOf[r]], o)]
        /\ answer' = [answer EXCEPT ![r] = NoAnswer]
        /\ pc' = [pc EXCEPT ![r] = NextStep(o)]
        /\ UNCHANGED <<claim, cost2, crashes>>
    BY <1>10 DEF Terminalize
  <2> HIDE DEF o, next
  <2> QED
    BY <2>1, <2>2, <2>3, <2>4, <2>5
<1>11. ASSUME NEW r \in Calls, ReleaseTerminalClaim(r) PROVE TypeOK'
  BY <1>11 DEF ReleaseTerminalClaim, DeleteClaim, FreeClaim
<1>12. ASSUME NEW r \in Calls, Persist(r) PROVE TypeOK'
  BY <1>12 DEF Persist
<1>13. ASSUME NEW r \in Calls, PersistFails(r) PROVE TypeOK'
  BY <1>13 DEF PersistFails
<1>14. ASSUME NEW r \in Calls, Crash(r) PROVE TypeOK'
  BY <1>14 DEF Crash
<1>15. ASSUME NEW r \in Calls, RecoverExpired(r) PROVE TypeOK'
  <2>1. counter' \in [Accounts -> [reserved : Nat, committed : Nat]]
    <3>1. 0 \in 0..CostBound /\ Unreserve(r, 0)
      BY <1>15 DEF RecoverExpired
    <3> QED
      BY <3>1, CounterTyped
  <2> QED
    BY <1>15, <2>1 DEF RecoverExpired, Statuses, Terminal, Categories, Reservations
<1>16. ASSUME NEW r \in Calls, Reconcile(r) PROVE TypeOK'
  <2>1. counter' \in [Accounts -> [reserved : Nat, committed : Nat]]
    <3>1. metered[r] \in 0..CostBound /\ Unreserve(r, metered[r])
      BY <1>16 DEF Reconcile
    <3> QED
      BY <3>1, CounterTyped
  <2> QED
    BY <1>16, <2>1 DEF Reconcile, CanReconcile, Reservations
<1>17. ASSUME NEW k \in Credentials, RevokeCredential(k) PROVE TypeOK'
  BY <1>17 DEF RevokeCredential
<1>18. CASE UNCHANGED vars
  BY <1>18 DEF vars
<1> QED
  BY <1>1, <1>2, <1>3, <1>4, <1>5, <1>6, <1>7, <1>8, <1>9, <1>10, <1>11,
     <1>12, <1>13, <1>14, <1>15, <1>16, <1>17, <1>18
     DEF Next, Work, Quiescent

-----------------------------------------------------------------------------
(* The inductive invariant holds in every reachable state.                  *)
THEOREM ZhipuInductive == Spec => []IInv
<1>1. Init => IInv
  BY TypeInit, RowsInit, ClaimsInit, CostsInit, AccountingInit, BudgetInit DEF IInv
<1>2. IInv /\ [Next]_vars => IInv'
  <2> SUFFICES ASSUME IInv, [Next]_vars PROVE IInv'
    OBVIOUS
  <2>1. RowsCohere' /\ ClaimsCohere' /\ CostsCohere'
    BY RowsStep, ClaimsStep, CostsStep DEF IInv
  <2>2. AccountingExact'
    BY AccountingStep DEF IInv
  <2>3. TypeOK' /\ BudgetRespected'
    BY <2>2, TypeStep, BudgetStep DEF IInv
  <2> QED
    BY <2>1, <2>2, <2>3 DEF IInv
<1> QED
  BY <1>1, <1>2, PTL DEF Spec

(* Every row, counter and worker location keeps its type; in particular no  *)
(* budget counter of execute(), recovery or reconciliation ever becomes     *)
(* negative.                                                                *)
THEOREM ZhipuTypeCorrect == Spec => []TypeOK
<1>1. IInv => TypeOK
  BY DEF IInv
<1> QED
  BY <1>1, ZhipuInductive, PTL

(* Counters always equal the sum of the reservations held and of the calls  *)
(* settled, for any number of concurrent calls, users and projects.         *)
THEOREM ZhipuAccountingExact == Spec => []AccountingExact
<1>1. IInv => AccountingExact
  BY DEF IInv
<1> QED
  BY <1>1, ZhipuInductive, PTL

(* No account is ever charged and reserved beyond its limit.                *)
THEOREM ZhipuBudgetRespected == Spec => []BudgetRespected
<1>1. IInv => BudgetRespected
  BY DEF IInv
<1> QED
  BY <1>1, ZhipuInductive, PTL

(* No charge appears in both cost rows of a call, and a settled call is     *)
(* charged what was measured.                                               *)
THEOREM ZhipuCostCountedOnce == Spec => []CostCountedOnce
<1>1. IInv => CostCountedOnce
  <2> SUFFICES ASSUME IInv, NEW r \in Calls
               PROVE  /\ cost1[r] = 0 \/ cost2[r] = 0
                      /\ reservation[r] = "settled" => Billed[r] = metered[r] /\ metered[r] # 0
    BY DEF CostCountedOnce
  <2> QED
    BY DEF IInv, CostsCohere
<1> QED
  BY <1>1, ZhipuInductive, PTL

(* At most one running, succeeded or unresolved call per business resource: *)
(* each of them holds the resource's only claim.                            *)
THEOREM ZhipuSpendOnce == Spec => []SpendOnce
<1>1. IInv => SpendOnce
  <2> SUFFICES ASSUME IInv, NEW r \in Calls, NEW q \in Calls,
                      ResourceOf[r] = ResourceOf[q], Unresolved(r), Unresolved(q)
               PROVE  r = q
    BY DEF SpendOnce
  <2>1. claim[ResourceOf[r]].holder = r /\ claim[ResourceOf[q]].holder = q
    BY DEF IInv, ClaimsCohere
  <2> QED
    BY <2>1
<1> QED
  BY <1>1, ZhipuInductive, PTL

(* The provider is reached only under this call's claim and behind the      *)
(* dispatch marker.                                                         *)
THEOREM ZhipuEgressIsClaimed == Spec => []EgressIsClaimed
<1>1. IInv => EgressIsClaimed
  BY DEF IInv, ClaimsCohere, RowsCohere, EgressIsClaimed
<1> QED
  BY <1>1, ZhipuInductive, PTL

-----------------------------------------------------------------------------
(* A reservation behind the dispatch marker is released only by the worker  *)
(* whose transport proved that nothing was sent.                            *)
THEOREM ZhipuNeverReleaseDispatched == Spec => NeverReleaseDispatched
<1>1. ASSUME IInv, [Next]_vars, NEW r \in Calls,
             reservation[r] = "dispatch_committed", reservation'[r] = "released"
      PROVE  pc[r] = "terminalizing" /\ answer[r].kind = "not_dispatched"
  <2>1. ASSUME NEW q \in Calls, Terminalize(q)
        PROVE  pc[r] = "terminalizing" /\ answer[r].kind = "not_dispatched"
    <3>1. /\ pc[q] = "terminalizing"
          /\ reservation' = [reservation EXCEPT ![q] = NewReservation(q, answer[q])]
      BY <2>1 DEF Terminalize
    <3>2. q = r /\ NewReservation(q, answer[q]) = "released"
      BY <1>1, <3>1 DEF IInv, TypeOK
    <3> QED
      BY <3>1, <3>2 DEF NewReservation
  <2>2. ASSUME NEW q \in Calls, ReleaseAdmitted(q) \/ RecoverExpired(q)
        PROVE  FALSE
    <3>1. /\ reservation[q] = "reserved"
          /\ reservation' = [reservation EXCEPT ![q] = "released"]
      BY <2>2 DEF ReleaseAdmitted, CanRelease, RecoverExpired
    <3> QED
      BY <1>1, <3>1 DEF IInv, TypeOK
  <2>3. ASSUME NEW q \in Calls, Admit(q) \/ CommitDispatch(q) \/ Reconcile(q)
        PROVE  FALSE
    BY <1>1, <2>3 DEF IInv, TypeOK, Admit, CommitDispatch, Reconcile
  <2>4. reservation' # reservation
    BY <1>1
  <2> QED
    BY <1>1, <2>1, <2>2, <2>3, <2>4
       DEF Next, Work, Quiescent, vars, RefuseAdmission, TakeClaim,
           ClaimConflict, DispatchRejected, ReleaseRefused, ProviderAnswers,
           ReleaseTerminalClaim, Persist, PersistFails, Crash, RevokeCredential
<1>2. IInv /\ [Next]_vars
        => [\A r \in Calls :
               reservation[r] = "dispatch_committed" /\ reservation'[r] = "released"
                  => pc[r] = "terminalizing" /\ answer[r].kind = "not_dispatched"]_vars
  BY <1>1
<1> QED
  BY <1>2, ZhipuInductive, PTL DEF Spec, NeverReleaseDispatched

(* The evidence of a terminal call is never rewritten.                      *)
THEOREM ZhipuTerminalIsFinal == Spec => TerminalIsFinal
<1>1. ASSUME IInv, [Next]_vars, NEW r \in Calls, status[r] \in Terminal
      PROVE  status'[r] = status[r] /\ category'[r] = category[r]
  <2> USE DEF Terminal, IInv, TypeOK
  <2>1. ASSUME NEW q \in Calls, Admit(q)
        PROVE  status'[r] = status[r] /\ category'[r] = category[r]
    <3>1. status[q] = "none"
      BY <1>1, <2>1 DEF Admit, RowsCohere
    <3> QED
      BY <1>1, <2>1, <3>1 DEF Admit
  <2>2. ASSUME NEW q \in Calls,
               CommitDispatch(q) \/ ReleaseAdmitted(q) \/ Terminalize(q) \/ RecoverExpired(q)
        PROVE  status'[r] = status[r] /\ category'[r] = category[r]
    BY <1>1, <2>2 DEF CommitDispatch, CanDispatch, ReleaseAdmitted, CanRelease,
                      Terminalize, RecoverExpired
  <2>3. ASSUME UNCHANGED <<status, category>>
        PROVE  status'[r] = status[r] /\ category'[r] = category[r]
    BY <2>3
  <2> QED
    BY <1>1, <2>1, <2>2, <2>3
       DEF Next, Work, Quiescent, vars, RefuseAdmission, TakeClaim,
           ClaimConflict, DispatchRejected, ReleaseRefused, ProviderAnswers, Reconcile,
           ReleaseTerminalClaim, Persist, PersistFails, Crash, RevokeCredential
<1>2. IInv /\ [Next]_vars
        => [\A r \in Calls :
               status[r] \in Terminal => status'[r] = status[r]
                                      /\ category'[r] = category[r]]_<<status, category>>
  BY <1>1
<1> QED
  BY <1>2, ZhipuInductive, PTL DEF Spec, TerminalIsFinal

-----------------------------------------------------------------------------
(* Refinement of the abstract gate.                                         *)
LEMMA GateOwnerSet ==
    ASSUME TypeOK, NEW w \in Resources, NEW h, NEW st,
           claim' = [claim EXCEPT ![w] = [holder |-> h, state |-> st]]
    PROVE  GateOwner' = [GateOwner EXCEPT ![w] = h]
BY DEF GateOwner, TypeOK

LEMMA GateStep ==
    ASSUME IInv, [Next]_vars
    PROVE  [Gate!GateNext]_<<GateOwner, GatePhase>>
<1> USE ZhipuAssumption DEF GateOwner, GatePhase, Goto
<1> DEFINE Stutter == GateOwner' = GateOwner /\ GatePhase' = GatePhase
<1>1. ASSUME UNCHANGED <<claim, status>> PROVE Stutter
  BY <1>1
<1>2. ASSUME NEW r \in Calls, Admit(r) PROVE Stutter
  BY <1>2 DEF Admit, IInv, TypeOK, RowsCohere
<1>3. ASSUME NEW r \in Calls, TakeClaim(r) PROVE Gate!Take(r)
  <2>1. status[r] \in {"none", "admitted", "failed"}
    BY <1>3 DEF TakeClaim, IInv, TypeOK, Statuses, Terminal, ClaimsCohere, Unresolved
  <2> QED
    <3>1. GateOwner' = [GateOwner EXCEPT ![ResourceOf[r]] = r]
      BY <1>3, GateOwnerSet DEF TakeClaim, IInv
    <3>2. GateOwner[ResourceOf[r]] = NoCall
      BY <1>3 DEF TakeClaim, FreeClaim
    <3>3. GatePhase' = GatePhase /\ GatePhase[r] \in {"idle", "failed"}
      BY <1>3, <2>1 DEF TakeClaim
    <3> QED
      BY <3>1, <3>2, <3>3 DEF Gate!Take
<1>4. ASSUME NEW r \in Calls, CommitDispatch(r) PROVE Gate!Call(r)
  <2>1. /\ claim[ResourceOf[r]] = [holder |-> r, state |-> "in_progress"]
        /\ claim' = claim /\ status[r] = "admitted"
        /\ status' = [status EXCEPT ![r] = "running"]
    BY <1>4 DEF CommitDispatch, CanDispatch, HoldsClaim
  <2>2. GateOwner[ResourceOf[r]] = r /\ GateOwner' = GateOwner
    BY <2>1
  <2>3. GatePhase[r] = "idle" /\ GatePhase' = [GatePhase EXCEPT ![r] = "calling"]
    BY <2>1 DEF IInv, TypeOK
  <2> QED
    BY <2>2, <2>3 DEF Gate!Call
<1>5. ASSUME NEW r \in Calls, ReleaseAdmitted(r) PROVE Gate!Abandon(r)
  <2>1. status[r] = "admitted" /\ status' = [status EXCEPT ![r] = "failed"]
    BY <1>5 DEF ReleaseAdmitted, CanRelease
  <2>2. \/ claim' = claim
        \/ HoldsClaim(r) /\ claim' = [claim EXCEPT ![ResourceOf[r]] = FreeClaim]
    BY <1>5 DEF ReleaseAdmitted, DeleteClaim
  <2>3. \/ GateOwner' = GateOwner
        \/ /\ GateOwner[ResourceOf[r]] = r
           /\ GateOwner' = [GateOwner EXCEPT ![ResourceOf[r]] = NoCall]
    <3>1. CASE claim' = claim
      BY <3>1
    <3>2. CASE HoldsClaim(r) /\ claim' = [claim EXCEPT ![ResourceOf[r]] = FreeClaim]
      <4>1. GateOwner' = [GateOwner EXCEPT ![ResourceOf[r]] = NoCall]
        BY <3>2, GateOwnerSet DEF FreeClaim, IInv
      <4>2. GateOwner[ResourceOf[r]] = r
        BY <3>2 DEF HoldsClaim
      <4> QED
        BY <4>1, <4>2
    <3> QED
      BY <2>2, <3>1, <3>2
  <2>4. GatePhase[r] = "idle" /\ GatePhase' = [GatePhase EXCEPT ![r] = "failed"]
    BY <2>1 DEF IInv, TypeOK
  <2> QED
    BY <2>3, <2>4 DEF Gate!Abandon
<1>6. ASSUME NEW r \in Calls, Terminalize(r) PROVE Gate!Fail(r) \/ Gate!Keep(r)
  BY <1>6 DEF Terminalize, NewStatus, IInv, TypeOK, Gate!Fail, Gate!Keep
<1>7. ASSUME NEW r \in Calls, ReleaseTerminalClaim(r) PROVE Gate!Free(r)
  <2>1. status[r] = "failed" /\ HoldsClaim(r)
    BY <1>7 DEF ReleaseTerminalClaim, IInv, RowsCohere, ClaimsCohere
  <2>2. claim' = [claim EXCEPT ![ResourceOf[r]] = FreeClaim] /\ status' = status
    BY <1>7, <2>1 DEF ReleaseTerminalClaim, DeleteClaim
  <2> QED
    BY <2>1, <2>2 DEF HoldsClaim, FreeClaim, IInv, TypeOK, Gate!Free
<1>8. ASSUME NEW r \in Calls, Persist(r) PROVE Stutter
  BY <1>8 DEF Persist, HoldsClaim, IInv, TypeOK
<1>9. ASSUME NEW r \in Calls, RecoverExpired(r) PROVE Gate!Abandon(r)
  BY <1>9 DEF RecoverExpired, IInv, TypeOK, Gate!Abandon
<1> HIDE DEF GateOwner, GatePhase
<1>10. \/ UNCHANGED <<claim, status>>
       \/ \E r \in Calls :
             \/ Admit(r) \/ TakeClaim(r) \/ CommitDispatch(r) \/ ReleaseAdmitted(r)
             \/ Terminalize(r) \/ ReleaseTerminalClaim(r) \/ Persist(r) \/ RecoverExpired(r)
  BY DEF Next, Work, Quiescent, vars, RefuseAdmission, ClaimConflict,
         DispatchRejected, ReleaseRefused, ProviderAnswers, PersistFails, Crash,
         Reconcile, RevokeCredential
<1> QED
  BY <1>1, <1>2, <1>3, <1>4, <1>5, <1>6, <1>7, <1>8, <1>9, <1>10, Zenon DEF Gate!GateNext

(* Every behaviour of the service is one of the abstract spending gate:     *)
(* whatever crashes, recovery or revocation do, a resource has one owner,   *)
(* only the owner calls the provider, and a paid or unresolved call keeps   *)
(* the resource.                                                            *)
THEOREM ZhipuImplementsGate == Spec => ImplementsGate
<1>1. Init => Gate!GateInit
  <2> SUFFICES ASSUME Init PROVE Gate!GateInit
    OBVIOUS
  <2>1. GateOwner = [w \in Resources |-> NoCall]
    BY DEF Init, FreeClaim, GateOwner
  <2>2. GatePhase \in [Calls -> {"idle", "failed"}]
    BY DEF Init, GatePhase
  <2> QED
    BY <2>1, <2>2 DEF Gate!GateInit
<1>2. IInv /\ [Next]_vars => [Gate!GateNext]_Gate!gateVars
  BY GateStep DEF Gate!gateVars
<1> QED
  BY <1>1, <1>2, ZhipuInductive, PTL DEF Spec, ImplementsGate, Gate!GateSpec

=============================================================================
