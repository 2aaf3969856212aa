------------------------- MODULE BudgetWindowsProofs -------------------------
(* Theorems about BudgetWindows and Preflight for every set of accounts,    *)
(* calls, limits and window lengths, and any number of windows.             *)
EXTENDS Preflight, AmountsProofs, SequenceTheorems

(* What a reservation says of itself: it names a counter of each account it *)
(* is charged to, it has a charge within its estimate when it is settled,   *)
(* one above it when a paid call overran it, and none otherwise.            *)
NamesCohere ==
    \A c \in Calls :
        /\ \A a \in Accounts :
              IF state[c] # "none" /\ a \in AccountsOf[c]
              THEN at[c][a] \in 1..Len(windows[a]) ELSE at[c][a] = 0
        /\ CASE state[c] = "settled" -> charged[c] \in 1..Estimate[c]
             [] state[c] = "reconciliation_required" -> charged[c] = 0 \/ charged[c] > Estimate[c]
             [] OTHER -> charged[c] = 0

Exact(a, i) ==
    /\ windows[a][i].reserved = Total(On(a, i, Held), Estimate, CostBound)
    /\ windows[a][i].committed = Total(On(a, i, {"settled"}), charged, CostBound)

(* The part of WindowsExact that is about one window.                       *)
Bounded(a, i) ==
    /\ a \notin Live => InUse(windows[a][i]) <= windows[a][i].limit
    /\ a \in Capped => InUse(windows[a][i]) <= LedgerCap

WindowsBacked ==
    \A a \in Accounts : \A i \in 1..Len(windows[a]) : Exact(a, i) /\ Bounded(a, i)

IInv == TypeOK /\ NamesCohere /\ WindowsBacked

-----------------------------------------------------------------------------
(* The rows of a counter.                                                   *)
LEMMA OnFinite ==
    ASSUME NEW a, NEW i, NEW states
    PROVE  IsFiniteSet(On(a, i, states))
BY BudgetAssumption, FS_Subset DEF On

LEMMA OnTotals ==
    ASSUME NEW a, NEW i
    PROVE  /\ Total(On(a, i, Held), Estimate, CostBound) \in Nat
           /\ Total(On(a, i, {"settled"}), charged, CostBound) \in Nat
BY BudgetAssumption, OnFinite, TotalType

LEMMA AssumedOfCalls ==
    ASSUME NEW c \in Calls
    PROVE  /\ Estimate[c] \in 1..LedgerCap /\ Estimate[c] \in 0..CostBound
           /\ LedgerCap \in Nat /\ CostBound \in Nat
           /\ AccountsOf[c] \subseteq Accounts
BY BudgetAssumption

(* A call that is admitted is added to one counter of each account.         *)
LEMMA BookReserved ==
    ASSUME TypeOK, NEW c \in Calls, state[c] = "none",
           state' = [state EXCEPT ![c] = "reserved"],
           NEW f \in [Accounts -> Nat], at' = [at EXCEPT ![c] = f], charged' = charged,
           NEW a \in Accounts, NEW i
    PROVE  /\ Total(On(a, i, Held)', Estimate, CostBound)
                 = Total(On(a, i, Held), Estimate, CostBound)
                      + (IF f[a] = i THEN Estimate[c] ELSE 0)
           /\ Total(On(a, i, {"settled"})', charged', CostBound)
                 = Total(On(a, i, {"settled"}), charged, CostBound)
<1>1. On(a, i, {"settled"})' = On(a, i, {"settled"})
  BY DEF On, TypeOK
<1>2. /\ Total(On(a, i, Held), Estimate, CostBound) \in Nat
      /\ Total(On(a, i, {"settled"})', charged', CostBound)
            = Total(On(a, i, {"settled"}), charged, CostBound)
  BY <1>1, OnTotals
<1>3. CASE f[a] = i
  <2>1. On(a, i, Held)' = On(a, i, Held) \cup {c} /\ c \notin On(a, i, Held)
    BY <1>3 DEF On, TypeOK, Held
  <2>2. Total(On(a, i, Held) \cup {c}, Estimate, CostBound)
           = Total(On(a, i, Held), Estimate, CostBound) + Estimate[c]
    <3>1. /\ Estimate[c] \in 0..CostBound /\ CostBound \in Nat
          /\ IsFiniteSet(On(a, i, Held))
      BY OnFinite, AssumedOfCalls
    <3> QED
      BY <2>1, <3>1, TotalAdd
  <2> QED
    BY <1>2, <1>3, <2>1, <2>2
<1>4. CASE f[a] # i
  <2>1. On(a, i, Held)' = On(a, i, Held)
    BY <1>4 DEF On, TypeOK, Held
  <2> QED
    BY <1>2, <1>4, <2>1
<1> QED
  BY <1>3, <1>4

(* A call that is settled or released is taken off the counter it names.    *)
LEMMA BookEnded ==
    ASSUME TypeOK, NEW c \in Calls, state[c] \in Held,
           state' = [state EXCEPT ![c] = state'[c]], state'[c] \in {"settled", "released"},
           charged' = [charged EXCEPT ![c] = charged'[c]], charged'[c] \in 0..Estimate[c],
           state'[c] = "released" => charged'[c] = 0, at' = at,
           NEW a \in Accounts, NEW i
    PROVE  /\ Total(On(a, i, Held)', Estimate, CostBound)
                 = Total(On(a, i, Held), Estimate, CostBound)
                      - (IF at[c][a] = i THEN Estimate[c] ELSE 0)
           /\ Total(On(a, i, {"settled"})', charged', CostBound)
                 = Total(On(a, i, {"settled"}), charged, CostBound)
                      + (IF at[c][a] = i THEN charged'[c] ELSE 0)
<1> DEFINE H == On(a, i, Held)
           S == On(a, i, {"settled"})
           paid == charged'
           amount == charged'[c]
           new == state'[c]
<1>1. c \notin S /\ \A d \in S : charged[d] = paid[d]
  BY DEF On, TypeOK, Held
<1>2. /\ Total(S, charged, CostBound) \in Nat /\ Total(H, Estimate, CostBound) \in Nat
      /\ Estimate[c] \in Nat /\ amount \in Nat /\ amount \in 0..CostBound
      /\ CostBound \in Nat /\ IsFiniteSet(S) /\ IsFiniteSet(H)
  BY AssumedOfCalls, OnTotals, OnFinite
<1>5. Total(S, charged, CostBound) = Total(S, paid, CostBound)
  <2> HIDE DEF paid, S, H
  <2> QED
    BY <1>1, <1>2, TotalSame
<1>3. CASE at[c][a] # i
  <2>1. H' = H /\ S' = S
    BY <1>3 DEF On, TypeOK, Held
  <2> HIDE DEF H, S, paid
  <2>2. /\ Total(H', Estimate, CostBound) = Total(H, Estimate, CostBound) - 0
        /\ Total(S', paid, CostBound) = Total(S, charged, CostBound) + 0
    BY <1>2, <1>5, <2>1
  <2> QED
    BY <1>3, <2>2 DEF H, S, paid
<1>4. CASE at[c][a] = i
  <2>1. H' = H \ {c} /\ c \in H
    BY <1>4 DEF On, TypeOK, Held
  <2>2. Total(H', Estimate, CostBound) = Total(H, Estimate, CostBound) - Estimate[c]
    <3>1. Estimate[c] \in 0..CostBound
      BY AssumedOfCalls
    <3> HIDE DEF H, S, paid, amount, new
    <3> QED
      BY <1>2, <2>1, <3>1, TotalRemove
  <2>3. Total(S', paid, CostBound) = Total(S, charged, CostBound) + amount
    <3>1. CASE new = "settled"
      <4>1. S' = S \cup {c}
        BY <1>4, <3>1 DEF On, TypeOK, Held
      <4>2. paid[c] = amount /\ paid[c] \in 0..CostBound
        BY <1>2 DEF TypeOK
      <4> HIDE DEF paid, S, H
      <4>3. Total(S \cup {c}, paid, CostBound) = Total(S, charged, CostBound) + paid[c]
        BY <1>1, <1>2, <4>2, TotalAdd, SMTT(30)
      <4> QED
        BY <4>1, <4>2, <4>3
    <3>2. CASE new = "released"
      <4>1. S' = S
        BY <3>2 DEF On, TypeOK, Held
      <4>2. amount = 0
        BY <3>2
      <4> HIDE DEF H, S, paid
      <4> QED
        BY <1>2, <1>5, <4>1, <4>2
    <3> QED
      BY <3>1, <3>2
  <2> HIDE DEF H, S, paid
  <2> QED
    BY <1>4, <2>2, <2>3 DEF H, S, paid
<1> QED
  BY <1>3, <1>4

-----------------------------------------------------------------------------
(* The counter rows.                                                        *)
LEMMA RowType ==
    ASSUME TypeOK, NEW a \in Accounts, NEW i \in 1..Len(windows[a])
    PROVE  /\ windows[a] \in Seq(Window(a)) /\ Len(windows[a]) \in Nat
           /\ windows[a][i] \in Window(a)
           /\ InUse(windows[a][i]) \in Nat
<1>1. windows[a] \in Seq(Window(a))
  BY DEF TypeOK
<1>2. windows[a][i] \in Window(a) /\ Len(windows[a]) \in Nat
  BY <1>1, ElementOfSeq, LenProperties
<1> QED
  BY <1>1, <1>2 DEF Window, InUse

(* The current counter, when there is one, is an open counter of the        *)
(* account.                                                                 *)
LEMMA CurrentIsOpen ==
    ASSUME TypeOK, NEW a \in Accounts
    PROVE  /\ Current(a) \in Nat
           /\ Current(a) # 0 => /\ Current(a) \in 1..Len(windows[a])
                                /\ windows[a][Current(a)].open
<1> DEFINE open == {i \in DOMAIN windows[a] : windows[a][i].open}
           latest == CHOOSE i \in open : \A j \in open : j <= i
<1>1. Len(windows[a]) \in Nat /\ DOMAIN windows[a] = 1..Len(windows[a])
  <2>1. windows[a] \in Seq(Window(a))
    BY DEF TypeOK
  <2> QED
    BY <2>1, LenProperties
<1>2. open \subseteq 1..Len(windows[a])
  BY <1>1
<1>3. CASE open = {}
  BY <1>3 DEF Current
<1>4. CASE open # {}
  <2>1. IsFiniteSet(open) /\ open \subseteq Int
    <3>1. IsFiniteSet(1..Len(windows[a]))
      BY <1>1, FS_Interval
    <3>2. open \in SUBSET (1..Len(windows[a])) /\ open \subseteq Int
      BY <1>1, <1>2
    <3> HIDE DEF open
    <3> QED
      BY <3>1, <3>2, FS_Subset
  <2>2. \E m \in open : \A j \in open : j <= m
    <3> HIDE DEF open
    <3> QED
      BY <1>4, <2>1, LargestExists
  <2>3. latest \in open
    <3> HIDE DEF open
    <3> QED
      BY <2>2
  <2>4. Current(a) = latest
    BY <1>4 DEF Current
  <2>5. latest \in 1..Len(windows[a]) /\ windows[a][latest].open
    BY <1>2, <2>3
  <2> HIDE DEF latest, open
  <2> QED
    BY <1>1, <2>4, <2>5
<1> QED
  BY <1>3, <1>4

(* One counter is written; the others of its account stay.                  *)
LEMMA RowReplaced ==
    ASSUME TypeOK, NEW a \in Accounts, NEW i \in 1..Len(windows[a]), NEW w \in Window(a)
    PROVE  /\ [windows[a] EXCEPT ![i] = w] \in Seq(Window(a))
           /\ Len([windows[a] EXCEPT ![i] = w]) = Len(windows[a])
           /\ \A j \in 1..Len(windows[a]) :
                 [windows[a] EXCEPT ![i] = w][j] = IF j = i THEN w ELSE windows[a][j]
<1>1. windows[a] \in Seq(Window(a))
  BY DEF TypeOK
<1> QED
  BY <1>1, ExceptSeq

(* No budget is set and no call is made at the start.                       *)
LEMMA IInvInit == Init => IInv
<1> SUFFICES ASSUME Init PROVE IInv
  OBVIOUS
<1>1. \A a \in Accounts : windows[a] = <<>> /\ Len(windows[a]) = 0 /\ windows[a] \in Seq(Window(a))
  BY EmptySeq DEF Init
<1>2. TypeOK
  <2>1. CostBound \in Nat /\ MaxWindows \in [Accounts -> Nat]
    BY BudgetAssumption
  <2>2. /\ DOMAIN policy = Accounts /\ DOMAIN windows = Accounts
        /\ \A a \in Accounts : policy[a] \in [limit : Limits[a] \cup {0}, length : Lengths[a] \cup {0}]
    BY DEF Init
  <2>3. \A a \in Accounts : Len(windows[a]) <= MaxWindows[a]
    BY <1>1, <2>1
  <2>4. /\ state \in [Calls -> {"none", "settled", "released"} \cup Held]
        /\ at \in [Calls -> [Accounts -> Nat]]
        /\ charged \in [Calls -> 0..CostBound]
    BY <2>1 DEF Init
  <2> QED
    BY <1>1, <2>2, <2>3, <2>4 DEF TypeOK
<1>3. NamesCohere
  BY DEF NamesCohere, Init
<1>4. WindowsBacked
  BY <1>1 DEF WindowsBacked
<1> QED
  BY <1>2, <1>3, <1>4 DEF IInv

(* Saving a budget relimits the current counter or opens an empty one.      *)
LEMMA SaveBudgetStep ==
    ASSUME IInv, NEW a \in Accounts, NEW limit \in Limits[a], NEW length \in Lengths[a],
           SaveBudget(a, limit, length)
    PROVE  IInv'
<1> USE DEF IInv
<1>1. /\ state' = state /\ at' = at /\ charged' = charged
      /\ policy' = [policy EXCEPT ![a] = [limit |-> limit, length |-> length]]
  BY DEF SaveBudget, callVars
<1>2. /\ windows[a] \in Seq(Window(a)) /\ DOMAIN windows = Accounts
      /\ \A b \in Accounts : windows[b] \in Seq(Window(b)) /\ Len(windows[b]) \in Nat
      /\ \A b \in Accounts : Len(windows[b]) <= MaxWindows[b]
  BY LenProperties DEF TypeOK
<1>3. /\ DOMAIN windows' = Accounts
      /\ \A b \in Accounts \ {a} : windows'[b] = windows[b]
      /\ windows'[a] \in Seq(Window(a)) /\ Len(windows'[a]) <= MaxWindows[a]
      /\ Len(windows'[a]) \in Nat /\ Len(windows[a]) <= Len(windows'[a])
      /\ \A i \in 1..Len(windows[a]) :
            \/ windows'[a][i] = windows[a][i]
            \/ windows'[a][i] = Relimited(windows[a][i], limit)
      /\ \A i \in 1..Len(windows'[a]) :
            i \notin 1..Len(windows[a]) => windows'[a][i] = NewWindow(limit, length)
  <2>1. CASE Current(a) # 0 /\ CurrentWindow(a).length = length
    <3> DEFINE k == Current(a)
               w == Relimited(windows[a][k], limit)
    <3>1. k \in 1..Len(windows[a])
      BY <2>1, CurrentIsOpen
    <3>2. w \in Window(a)
      BY <3>1, RowType DEF Relimited, Window
    <3>3. windows' = [windows EXCEPT ![a] = [windows[a] EXCEPT ![k] = w]]
      BY <2>1 DEF SaveBudget
    <3> HIDE DEF k, w
    <3>4. /\ windows'[a] = [windows[a] EXCEPT ![k] = w] /\ DOMAIN windows' = Accounts
          /\ \A b \in Accounts \ {a} : windows'[b] = windows[b]
      BY <1>2, <3>3
    <3>5. /\ windows'[a] \in Seq(Window(a)) /\ Len(windows'[a]) = Len(windows[a])
          /\ \A j \in 1..Len(windows[a]) :
                windows'[a][j] = IF j = k THEN w ELSE windows[a][j]
      BY <3>1, <3>2, <3>4, RowReplaced
    <3>6. \A i \in 1..Len(windows[a]) :
             windows'[a][i] = windows[a][i] \/ windows'[a][i] = Relimited(windows[a][i], limit)
      BY <3>5 DEF w
    <3> QED
      BY <1>2, <3>4, <3>5, <3>6
  <2>2. CASE ~(Current(a) # 0 /\ CurrentWindow(a).length = length)
    <3> DEFINE w == NewWindow(limit, length)
    <3>1. w \in Window(a)
      BY DEF NewWindow, Window
    <3>2. /\ windows' = [windows EXCEPT ![a] = Append(windows[a], w)]
          /\ Len(windows[a]) < MaxWindows[a] /\ MaxWindows[a] \in Nat
      BY <2>2, BudgetAssumption DEF SaveBudget
    <3> HIDE DEF w
    <3>3. /\ windows'[a] = Append(windows[a], w) /\ DOMAIN windows' = Accounts
          /\ \A b \in Accounts \ {a} : windows'[b] = windows[b]
      BY <1>2, <3>2
    <3>4. /\ windows'[a] \in Seq(Window(a)) /\ Len(windows'[a]) = Len(windows[a]) + 1
          /\ \A i \in 1..Len(windows[a]) : windows'[a][i] = windows[a][i]
          /\ windows'[a][Len(windows[a]) + 1] = w
      BY <1>2, <3>1, <3>3, AppendProperties
    <3>5. \A i \in 1..Len(windows'[a]) : i \notin 1..Len(windows[a]) => windows'[a][i] = w
      BY <1>2, <3>4
    <3> QED
      BY <1>2, <3>2, <3>3, <3>4, <3>5 DEF w
  <2> QED
    BY <2>1, <2>2
<1>4. TypeOK'
  <2>1. DOMAIN policy' = Accounts
    BY <1>1 DEF TypeOK
  <2>2. \A b \in Accounts :
           policy'[b] \in [limit : Limits[b] \cup {0}, length : Lengths[b] \cup {0}]
    BY <1>1 DEF TypeOK
  <2>3. \A b \in Accounts : windows'[b] \in Seq(Window(b)) /\ Len(windows'[b]) <= MaxWindows[b]
    BY <1>2, <1>3
  <2>4. /\ state' \in [Calls -> {"none", "settled", "released"} \cup Held]
        /\ at' \in [Calls -> [Accounts -> Nat]]
        /\ charged' \in [Calls -> 0..CostBound]
    BY <1>1 DEF TypeOK
  <2> QED
    BY <1>3, <2>1, <2>2, <2>3, <2>4 DEF TypeOK, Window
<1>5. NamesCohere'
  <2>1. \A b \in Accounts : 1..Len(windows[b]) \subseteq 1..Len(windows'[b])
    BY <1>2, <1>3
  <2> QED
    BY <1>1, <2>1 DEF NamesCohere
<1>6. WindowsBacked'
  <2> SUFFICES ASSUME NEW b \in Accounts, NEW i \in 1..Len(windows'[b])
               PROVE  Exact(b, i)' /\ Bounded(b, i)'
    BY DEF WindowsBacked
  <2>1. On(b, i, Held)' = On(b, i, Held) /\ On(b, i, {"settled"})' = On(b, i, {"settled"})
    BY <1>1 DEF On
  <2>2. CASE i \in 1..Len(windows[b])
    <3>1. Exact(b, i) /\ Bounded(b, i) /\ windows[b][i] \in Window(b)
      BY <2>2, RowType DEF WindowsBacked
    <3>2. /\ windows'[b][i].reserved = windows[b][i].reserved
          /\ windows'[b][i].committed = windows[b][i].committed
          /\ InUse(windows'[b][i]) = InUse(windows[b][i])
          /\ \/ windows'[b][i].limit = windows[b][i].limit
             \/ InUse(windows[b][i]) <= windows'[b][i].limit
      <4>1. CASE windows'[b][i] = windows[b][i]
        BY <4>1
      <4>2. CASE windows'[b][i] # windows[b][i]
        <5>1. b = a /\ windows'[b][i] = Relimited(windows[b][i], limit)
          BY <1>3, <2>2, <4>2
        <5> QED
          BY <3>1, <4>2, <5>1 DEF Relimited, Window, InUse
      <4> QED
        BY <4>1, <4>2
    <3> QED
      BY <1>1, <2>1, <3>1, <3>2 DEF Exact, Bounded
  <2>3. CASE i \notin 1..Len(windows[b])
    <3>1. b = a /\ windows'[b][i] = NewWindow(limit, length)
      BY <1>3, <2>3
    <3>2. On(b, i, Held) = {} /\ On(b, i, {"settled"}) = {}
      BY <2>3 DEF On, Held, NamesCohere
    <3>3. LedgerCap \in Nat /\ CostBound \in Nat /\ limit \in Nat
      BY BudgetAssumption
    <3>4. Exact(b, i)'
      <4>1. Total({}, Estimate, CostBound) = 0 /\ Total({}, charged, CostBound) = 0
        BY <3>3, TotalEmpty
      <4>2. windows'[b][i].reserved = 0 /\ windows'[b][i].committed = 0
        BY <3>1 DEF NewWindow
      <4> QED
        BY <1>1, <2>1, <3>2, <4>1, <4>2 DEF Exact
    <3>5. Bounded(b, i)'
      BY <3>1, <3>3 DEF Bounded, NewWindow, InUse
    <3> QED
      BY <3>4, <3>5
  <2> QED
    BY <2>2, <2>3
<1> QED
  BY <1>4, <1>5, <1>6

(* A window that ends keeps what is counted in it.                          *)
LEMMA WindowEndsStep ==
    ASSUME IInv, NEW a \in Accounts, NEW k \in DOMAIN windows[a], WindowEnds(a, k)
    PROVE  IInv'
<1> USE DEF IInv
<1> DEFINE w == [windows[a][k] EXCEPT !.open = FALSE]
<1>1. /\ state' = state /\ at' = at /\ charged' = charged /\ policy' = policy
      /\ windows' = [windows EXCEPT ![a] = [windows[a] EXCEPT ![k] = w]]
  BY DEF WindowEnds, callVars
<1>2. /\ DOMAIN windows = Accounts /\ k \in 1..Len(windows[a])
      /\ \A b \in Accounts : windows[b] \in Seq(Window(b)) /\ Len(windows[b]) <= MaxWindows[b]
  BY LenProperties DEF TypeOK
<1>3. w \in Window(a)
  BY <1>2, RowType DEF Window
<1>4. /\ windows'[a] = [windows[a] EXCEPT ![k] = w] /\ DOMAIN windows' = Accounts
      /\ \A b \in Accounts \ {a} : windows'[b] = windows[b]
  BY <1>1, <1>2
<1>5. /\ windows'[a] \in Seq(Window(a)) /\ Len(windows'[a]) = Len(windows[a])
      /\ \A j \in 1..Len(windows[a]) : windows'[a][j] = IF j = k THEN w ELSE windows[a][j]
  <2> HIDE DEF w
  <2> QED
    BY <1>2, <1>3, <1>4, RowReplaced
<1>6. \A b \in Accounts : Len(windows'[b]) = Len(windows[b])
  BY <1>4, <1>5
<1>7. TypeOK'
  BY <1>1, <1>2, <1>4, <1>5, <1>6 DEF TypeOK, Window
<1>8. NamesCohere'
  BY <1>1, <1>6 DEF NamesCohere
<1>9. WindowsBacked'
  <2> SUFFICES ASSUME NEW b \in Accounts, NEW i \in 1..Len(windows[b])
               PROVE  Exact(b, i)' /\ Bounded(b, i)'
    BY <1>6 DEF WindowsBacked
  <2>1. On(b, i, Held)' = On(b, i, Held) /\ On(b, i, {"settled"})' = On(b, i, {"settled"})
    BY <1>1 DEF On
  <2>2. Exact(b, i) /\ Bounded(b, i) /\ windows[b][i] \in Window(b)
    BY RowType DEF WindowsBacked
  <2>3. /\ windows'[b][i].reserved = windows[b][i].reserved
        /\ windows'[b][i].committed = windows[b][i].committed
        /\ windows'[b][i].limit = windows[b][i].limit
    <3>1. CASE b = a /\ i = k
      BY <1>5, <2>2, <3>1 DEF Window
    <3>2. CASE ~(b = a /\ i = k)
      <4>1. windows'[b][i] = windows[b][i]
        BY <1>4, <1>5, <3>2
      <4> QED
        BY <4>1
    <3> QED
      BY <3>1, <3>2
  <2> QED
    BY <1>1, <2>1, <2>2, <2>3 DEF Exact, Bounded, InUse
<1> QED
  BY <1>7, <1>8, <1>9

(* What a step of call c does to the counters of account a: it writes the   *)
(* row at index, or nothing when the call is not charged to the account.    *)
LEMMA RowOfCallReplaced ==
    ASSUME TypeOK, NEW c \in Calls, NEW a \in Accounts, NEW index, NEW row,
           a \in AccountsOf[c] => index \in 1..Len(windows[a]) /\ row \in Window(a),
           windows'[a] = IF a \in AccountsOf[c] THEN [windows[a] EXCEPT ![index] = row]
                         ELSE windows[a]
    PROVE  /\ windows'[a] \in Seq(Window(a)) /\ Len(windows'[a]) = Len(windows[a])
           /\ Len(windows[a]) <= MaxWindows[a] /\ Len(windows[a]) \in Nat
           /\ \A i \in 1..Len(windows[a]) :
                 windows'[a][i] = IF a \in AccountsOf[c] /\ i = index
                                  THEN row ELSE windows[a][i]
<1>1. /\ windows[a] \in Seq(Window(a)) /\ Len(windows[a]) <= MaxWindows[a]
      /\ Len(windows[a]) \in Nat
  BY LenProperties DEF TypeOK
<1>2. CASE a \in AccountsOf[c]
  <2>1. windows'[a] = [windows[a] EXCEPT ![index] = row]
    BY <1>2
  <2>2. index \in 1..Len(windows[a]) /\ row \in Window(a)
    BY <1>2
  <2>3. /\ windows'[a] \in Seq(Window(a)) /\ Len(windows'[a]) = Len(windows[a])
        /\ \A i \in 1..Len(windows[a]) :
              windows'[a][i] = IF i = index THEN row ELSE windows[a][i]
    BY <2>1, <2>2, RowReplaced
  <2> QED
    BY <1>1, <1>2, <2>3
<1>3. CASE a \notin AccountsOf[c]
  BY <1>1, <1>3
<1> QED
  BY <1>2, <1>3

(* An admission reserves on the current counter of each account.            *)
LEMMA AdmitStep ==
    ASSUME IInv, NEW c \in Calls, Admit(c)
    PROVE  IInv'
<1> USE DEF IInv
<1> DEFINE index == [a \in Accounts |-> IF a \in AccountsOf[c] THEN Current(a) ELSE 0]
           row == [a \in Accounts |-> Reserved(c, a)]
<1>1. /\ state[c] = "none" /\ state' = [state EXCEPT ![c] = "reserved"]
      /\ at' = [at EXCEPT ![c] = index] /\ policy' = policy /\ charged' = charged
  BY DEF Admit
<1>2. index \in [Accounts -> Nat]
  BY CurrentIsOpen
<1>3. /\ Estimate[c] \in 1..LedgerCap /\ AccountsOf[c] \subseteq Accounts /\ LedgerCap \in Nat
  BY AssumedOfCalls
<1>4. ASSUME NEW a \in AccountsOf[c]
      PROVE  /\ index[a] = Current(a) /\ index[a] \in 1..Len(windows[a])
             /\ windows[a][Current(a)] \in Window(a)
             /\ a \in Capped => InUse(CurrentWindow(a)) + Estimate[c] <= LedgerCap
             /\ a \notin Live => InUse(CurrentWindow(a)) + Estimate[c] <= AdmittedLimit(c, a)
             /\ AdmittedLimit(c, a) \in Limits[a]
  <2>1. a \in Accounts /\ Current(a) # 0 /\ Current(a) \in 1..Len(windows[a])
    BY <1>3, CurrentIsOpen DEF Admit
  <2>2. windows[a][Current(a)] \in Window(a) /\ InUse(windows[a][Current(a)]) \in Nat
    BY <2>1, RowType
  <2>3. /\ policy[a] \in [limit : Limits[a] \cup {0}, length : Lengths[a] \cup {0}]
        /\ Limits[a] \subseteq Nat \ {0}
    BY <2>1, BudgetAssumption DEF TypeOK
  <2>4. IsLive(c) <=> a \in Live
    BY BudgetAssumption DEF IsLive
  <2>5. CASE IsLive(c)
    <3>1. LiveAdmissible(c, a)
      BY <2>5 DEF Admit
    <3>2. a \in Capped => InUse(CurrentWindow(a)) + Estimate[c] <= LedgerCap
      BY <1>3, <2>2, <2>3, <3>1 DEF LiveAdmissible, CurrentWindow
    <3> QED
      BY <2>1, <2>2, <2>4, <2>5, <3>2 DEF AdmittedLimit, CurrentWindow, Window
  <2>6. CASE ~IsLive(c)
    <3>1. InUse(CurrentWindow(a)) + Estimate[c] <= policy[a].limit
      BY <2>6 DEF Admit, FixtureAdmissible
    <3>2. policy[a].limit \in Limits[a]
      BY <1>3, <2>2, <2>3, <3>1 DEF CurrentWindow
    <3>3. a \notin Capped
      BY <2>4, <2>6, BudgetAssumption
    <3> QED
      BY <2>1, <2>2, <2>6, <3>1, <3>2, <3>3 DEF AdmittedLimit
  <2> QED
    BY <2>5, <2>6
<1>5. ASSUME NEW a \in AccountsOf[c]
      PROVE  /\ row[a] \in Window(a)
             /\ row[a].reserved = windows[a][Current(a)].reserved + Estimate[c]
             /\ row[a].committed = windows[a][Current(a)].committed
             /\ row[a].limit = AdmittedLimit(c, a)
  <2>1. row[a] = Reserved(c, a)
    BY <1>3
  <2>2. CurrentWindow(a) \in Window(a) /\ Estimate[c] \in Nat /\ AdmittedLimit(c, a) \in Limits[a]
    <3>1. CurrentWindow(a) \in Window(a)
      BY <1>4 DEF CurrentWindow
    <3>2. Estimate[c] \in Nat
      BY <1>3
    <3>3. AdmittedLimit(c, a) \in Limits[a]
      BY <1>4
    <3> QED
      BY <3>1, <3>2, <3>3
  <2> HIDE DEF row
  <2>3. row[a] \in Window(a)
    <3> DEFINE w == CurrentWindow(a)
               limit == AdmittedLimit(c, a)
    <3>1. w \in Window(a) /\ limit \in Limits[a]
      BY <2>2
    <3>2. row[a] = [w EXCEPT !.reserved = @ + Estimate[c], !.limit = limit]
      BY <2>1 DEF Reserved
    <3> HIDE DEF w, limit
    <3>3. w.reserved + Estimate[c] \in Nat
      BY <2>2, <3>1 DEF Window
    <3> QED
      BY <3>1, <3>2, <3>3 DEF Window
  <2>4. row[a].reserved = windows[a][Current(a)].reserved + Estimate[c]
    BY <2>1, <2>2 DEF Reserved, Window, CurrentWindow
  <2>5. row[a].committed = windows[a][Current(a)].committed /\ row[a].limit = AdmittedLimit(c, a)
    BY <2>1, <2>2 DEF Reserved, Window, CurrentWindow
  <2> QED
    BY <2>3, <2>4, <2>5
<1>6. /\ DOMAIN windows' = Accounts
      /\ \A a \in Accounts : windows'[a] =
            IF a \in AccountsOf[c] THEN [windows[a] EXCEPT ![index[a]] = row[a]] ELSE windows[a]
  <2>1. \A a \in AccountsOf[c] : index[a] = Current(a) /\ row[a] = Reserved(c, a)
    BY <1>3, <1>4
  <2> HIDE DEF index, row
  <2> QED
    BY <1>3, <2>1 DEF Admit
<1> HIDE DEF index, row
<1>7. /\ DOMAIN windows' = Accounts
      /\ \A a \in Accounts :
            /\ windows'[a] \in Seq(Window(a)) /\ Len(windows'[a]) = Len(windows[a])
            /\ Len(windows[a]) <= MaxWindows[a] /\ Len(windows[a]) \in Nat
            /\ \A i \in 1..Len(windows[a]) :
                  windows'[a][i] = IF a \in AccountsOf[c] /\ i = index[a]
                                   THEN row[a] ELSE windows[a][i]
  <2>1. ASSUME NEW a \in Accounts
        PROVE  /\ a \in AccountsOf[c] => index[a] \in 1..Len(windows[a]) /\ row[a] \in Window(a)
               /\ windows'[a] = IF a \in AccountsOf[c]
                                THEN [windows[a] EXCEPT ![index[a]] = row[a]] ELSE windows[a]
    BY <1>4, <1>5, <1>6
  <2> QED
    BY <1>6, <2>1, RowOfCallReplaced
<1>8. \A a \in Accounts : index[a] = IF a \in AccountsOf[c] THEN Current(a) ELSE 0
  BY DEF index
<1>9. TypeOK'
  BY <1>1, <1>2, <1>7 DEF TypeOK, Held, Window
<1>10. NamesCohere'
  <2>1. \A d \in Calls \ {c} : state'[d] = state[d] /\ at'[d] = at[d]
    BY <1>1 DEF TypeOK
  <2>2. state'[c] = "reserved" /\ at'[c] = index
    BY <1>1 DEF TypeOK
  <2> QED
    BY <1>1, <1>4, <1>7, <1>8, <2>1, <2>2 DEF NamesCohere
<1>11. WindowsBacked'
  <2> SUFFICES ASSUME NEW a \in Accounts, NEW i \in 1..Len(windows[a])
               PROVE  Exact(a, i)' /\ Bounded(a, i)'
    BY <1>7 DEF WindowsBacked
  <2>1. /\ Total(On(a, i, Held)', Estimate, CostBound)
              = Total(On(a, i, Held), Estimate, CostBound)
                   + (IF index[a] = i THEN Estimate[c] ELSE 0)
        /\ Total(On(a, i, {"settled"})', charged', CostBound)
              = Total(On(a, i, {"settled"}), charged, CostBound)
    BY <1>1, <1>2, BookReserved
  <2>2. Exact(a, i) /\ Bounded(a, i) /\ windows[a][i] \in Window(a)
    BY RowType DEF WindowsBacked
  <2>3. CASE a \in AccountsOf[c] /\ i = index[a]
    <3>1. windows'[a][i] = row[a] /\ i = Current(a)
      BY <1>4, <1>7, <2>3
    <3>2. /\ windows'[a][i].reserved = windows[a][i].reserved + Estimate[c]
          /\ windows'[a][i].committed = windows[a][i].committed
          /\ windows'[a][i].limit = AdmittedLimit(c, a)
      BY <1>5, <2>3, <3>1
    <3>3. Exact(a, i)'
      BY <2>1, <2>2, <2>3, <3>2 DEF Exact
    <3>4. InUse(windows'[a][i]) = InUse(windows[a][i]) + Estimate[c]
      BY <1>3, <2>2, <3>2 DEF InUse, Window
    <3>5. Bounded(a, i)'
      BY <1>4, <2>3, <3>1, <3>2, <3>4 DEF Bounded, CurrentWindow
    <3> QED
      BY <3>3, <3>5
  <2>4. CASE ~(a \in AccountsOf[c] /\ i = index[a])
    <3>1. windows'[a][i] = windows[a][i] /\ index[a] # i
      BY <1>7, <1>8, <2>4
    <3>2. Exact(a, i)'
      BY <2>1, <2>2, <3>1, OnTotals DEF Exact
    <3> QED
      BY <2>2, <3>1, <3>2 DEF Bounded
  <2> QED
    BY <2>3, <2>4
<1> QED
  BY <1>9, <1>10, <1>11

(* A call that ends gives its reservation back on the counters it names,    *)
(* and they are charged what it cost.                                       *)
LEMMA GiveBackStep ==
    ASSUME IInv, NEW c \in Calls, state[c] \in Held,
           state' = [state EXCEPT ![c] = state'[c]], state'[c] \in {"settled", "released"},
           charged' = [charged EXCEPT ![c] = charged'[c]], charged'[c] \in 0..Estimate[c],
           state'[c] = "released" <=> charged'[c] = 0, GiveBack(c, charged'[c]),
           policy' = policy, at' = at
    PROVE  IInv'
<1> DEFINE amount == charged'[c]
           new == state'[c]
<1> USE DEF IInv
<1> DEFINE index == at[c]
           row == [a \in Accounts |-> GivenBack(windows[a][index[a]], c, amount)]
<1>1. /\ Estimate[c] \in 1..LedgerCap /\ Estimate[c] \in Nat /\ amount \in Nat
      /\ amount <= Estimate[c] /\ amount \in 0..CostBound
      /\ AccountsOf[c] \subseteq Accounts /\ LedgerCap \in Nat /\ CostBound \in Nat
  BY AssumedOfCalls
<1>2. ASSUME NEW a \in Accounts, NEW i \in 1..Len(windows[a])
      PROVE  /\ Total(On(a, i, Held)', Estimate, CostBound)
                   = Total(On(a, i, Held), Estimate, CostBound)
                        - (IF index[a] = i THEN Estimate[c] ELSE 0)
             /\ Total(On(a, i, {"settled"})', charged', CostBound)
                   = Total(On(a, i, {"settled"}), charged, CostBound)
                        + (IF index[a] = i THEN amount ELSE 0)
             /\ Exact(a, i) /\ Bounded(a, i) /\ windows[a][i] \in Window(a)
  <2>1. Exact(a, i) /\ Bounded(a, i) /\ windows[a][i] \in Window(a)
    BY RowType DEF WindowsBacked
  <2>2. TypeOK /\ (state'[c] = "released" => charged'[c] = 0)
    OBVIOUS
  <2>3. /\ Total(On(a, i, Held)', Estimate, CostBound)
              = Total(On(a, i, Held), Estimate, CostBound)
                   - (IF index[a] = i THEN Estimate[c] ELSE 0)
        /\ Total(On(a, i, {"settled"})', charged', CostBound)
              = Total(On(a, i, {"settled"}), charged, CostBound)
                   + (IF index[a] = i THEN charged'[c] ELSE 0)
    <3> HIDE DEF IInv
    <3> QED
      BY <2>2, BookEnded
  <2> QED
    BY <2>1, <2>2, <2>3
<1>3. ASSUME NEW a \in AccountsOf[c]
      PROVE  /\ a \in Accounts /\ index[a] \in 1..Len(windows[a])
             /\ row[a] = GivenBack(windows[a][index[a]], c, amount)
             /\ windows[a][index[a]] \in Window(a)
  <2>1. a \in Accounts /\ index[a] \in 1..Len(windows[a])
    BY <1>1 DEF NamesCohere, Held
  <2> QED
    BY <2>1, RowType
(* What the call reserved is among what its counter has reserved.           *)
<1>4. ASSUME NEW a \in AccountsOf[c]
      PROVE  windows[a][index[a]].reserved - Estimate[c] \in Nat
  <2> DEFINE i == index[a]
             after == Total(On(a, i, Held)', Estimate, CostBound)
             before == Total(On(a, i, Held), Estimate, CostBound)
  <2>1. after = before - Estimate[c] /\ windows[a][i].reserved = before
    BY <1>2, <1>3 DEF Exact
  <2>2. after \in Nat
    <3>1. On(a, i, Held)' \in SUBSET Calls
      BY DEF On
    <3>2. IsFiniteSet(On(a, i, Held)')
      BY <3>1, BudgetAssumption, FS_Subset
    <3> QED
      BY <1>1, <3>2, TotalType
  <2> HIDE DEF before, after
  <2> QED
    BY <2>1, <2>2
<1>5. ASSUME NEW a \in AccountsOf[c]
      PROVE  /\ row[a] \in Window(a)
             /\ row[a].reserved = windows[a][index[a]].reserved - Estimate[c]
             /\ row[a].committed = windows[a][index[a]].committed + amount
             /\ row[a].limit = windows[a][index[a]].limit
  <2> DEFINE w == windows[a][index[a]]
  <2>1. w \in Window(a) /\ row[a] = GivenBack(w, c, amount) /\ w.reserved - Estimate[c] \in Nat
    BY <1>3, <1>4
  <2> HIDE DEF w, row
  <2>2. w.committed + amount \in Nat
    BY <1>1, <2>1 DEF Window
  <2>3. row[a] \in Window(a)
    BY <2>1, <2>2 DEF GivenBack, Window
  <2>4. /\ row[a].reserved = w.reserved - Estimate[c]
        /\ row[a].committed = w.committed + amount
        /\ row[a].limit = w.limit
    BY <2>1 DEF GivenBack, Window
  <2> QED
    BY <2>3, <2>4 DEF w
<1>6. /\ DOMAIN windows' = Accounts
      /\ \A a \in Accounts : windows'[a] =
            IF a \in AccountsOf[c] THEN [windows[a] EXCEPT ![index[a]] = row[a]] ELSE windows[a]
  <2>1. \A a \in AccountsOf[c] : row[a] = GivenBack(windows[a][index[a]], c, amount)
    BY <1>3
  <2> HIDE DEF row
  <2> QED
    BY <1>1, <2>1 DEF GiveBack, CounterOf
<1> HIDE DEF row, index
<1>7. \A a \in Accounts :
            /\ windows'[a] \in Seq(Window(a)) /\ Len(windows'[a]) = Len(windows[a])
            /\ Len(windows[a]) <= MaxWindows[a] /\ Len(windows[a]) \in Nat
            /\ \A i \in 1..Len(windows[a]) :
                  windows'[a][i] = IF a \in AccountsOf[c] /\ i = index[a]
                                   THEN row[a] ELSE windows[a][i]
  <2>1. ASSUME NEW a \in Accounts
        PROVE  /\ a \in AccountsOf[c] => index[a] \in 1..Len(windows[a]) /\ row[a] \in Window(a)
               /\ windows'[a] = IF a \in AccountsOf[c]
                                THEN [windows[a] EXCEPT ![index[a]] = row[a]] ELSE windows[a]
    BY <1>3, <1>5, <1>6
  <2>2. TypeOK
    OBVIOUS
  <2>3. ASSUME NEW a \in Accounts
        PROVE  /\ windows'[a] \in Seq(Window(a)) /\ Len(windows'[a]) = Len(windows[a])
               /\ Len(windows[a]) <= MaxWindows[a] /\ Len(windows[a]) \in Nat
               /\ \A i \in 1..Len(windows[a]) :
                     windows'[a][i] = IF a \in AccountsOf[c] /\ i = index[a]
                                      THEN row[a] ELSE windows[a][i]
    <3>1. /\ windows[a] \in Seq(Window(a)) /\ Len(windows[a]) <= MaxWindows[a]
          /\ Len(windows[a]) \in Nat
      BY LenProperties DEF TypeOK
    <3>2. CASE a \in AccountsOf[c]
      <4> DEFINE k == index[a]
                 w == row[a]
      <4>1. k \in 1..Len(windows[a]) /\ w \in Window(a) /\ windows'[a] = [windows[a] EXCEPT ![k] = w]
        BY <2>1, <3>2
      <4> HIDE DEF k, w, IInv
      <4>2. /\ windows'[a] \in Seq(Window(a)) /\ Len(windows'[a]) = Len(windows[a])
            /\ \A i \in 1..Len(windows[a]) :
                  windows'[a][i] = IF i = k THEN w ELSE windows[a][i]
        BY <2>2, <4>1, RowReplaced
      <4> QED
        BY <3>1, <3>2, <4>2 DEF k, w
    <3>3. CASE a \notin AccountsOf[c]
      BY <2>1, <3>1, <3>3
    <3> QED
      BY <3>2, <3>3
  <2> QED
    BY <2>3
<1>8. TypeOK'
  <2>1. \A a \in Accounts :
           /\ policy'[a] \in [limit : Limits[a] \cup {0}, length : Lengths[a] \cup {0}]
           /\ windows'[a] \in Seq(Window(a)) /\ Len(windows'[a]) <= MaxWindows[a]
    BY <1>7 DEF TypeOK
  <2>2. state' \in [Calls -> {"none", "settled", "released"} \cup Held]
    BY DEF TypeOK
  <2>3. charged'[c] \in 0..CostBound
    BY <1>1
  <2>4. charged' \in [Calls -> 0..CostBound]
    BY <2>3 DEF TypeOK
  <2> QED
    BY <1>6, <2>1, <2>2, <2>4 DEF TypeOK, Window
<1>9. NamesCohere'
  <2>1. \A d \in Calls \ {c} : state'[d] = state[d] /\ charged'[d] = charged[d]
    BY DEF TypeOK
  <2>2. state'[c] = new /\ charged'[c] = amount
    BY DEF TypeOK
  <2>3. state[c] # "none" /\ (new = "settled" => amount \in 1..Estimate[c])
    BY <1>1 DEF Held
  <2> QED
    BY <1>7, <2>1, <2>2, <2>3 DEF NamesCohere
<1>10. WindowsBacked'
  <2> SUFFICES ASSUME NEW a \in Accounts, NEW i \in 1..Len(windows[a])
               PROVE  Exact(a, i)' /\ Bounded(a, i)'
    BY <1>7 DEF WindowsBacked
  <2>1. CASE a \in AccountsOf[c] /\ i = index[a]
    <3>1. windows'[a][i] = row[a]
      BY <1>7, <2>1
    <3>2. /\ windows'[a][i].reserved = windows[a][i].reserved - Estimate[c]
          /\ windows'[a][i].committed = windows[a][i].committed + amount
          /\ windows'[a][i].limit = windows[a][i].limit
      BY <1>5, <2>1, <3>1
    <3>3. Exact(a, i)'
      BY <1>2, <2>1, <3>2 DEF Exact
    <3>4. /\ InUse(windows'[a][i]) \in Nat /\ InUse(windows[a][i]) \in Nat
          /\ InUse(windows'[a][i]) <= InUse(windows[a][i])
      <4> DEFINE w == windows[a][i]
                 now == windows'[a][i]
      <4>1. /\ w.reserved \in Nat /\ w.committed \in Nat
            /\ w.reserved - Estimate[c] \in Nat
        BY <1>2, <1>4, <2>1 DEF Window
      <4>2. now.reserved = w.reserved - Estimate[c] /\ now.committed = w.committed + amount
        BY <3>2
      <4> HIDE DEF w, now
      <4>3. /\ InUse(now) \in Nat /\ InUse(w) \in Nat /\ InUse(now) <= InUse(w)
        <5> DEFINE r == w.reserved
                   m == w.committed
                   e == Estimate[c]
        <5>1. /\ r \in Nat /\ m \in Nat /\ e \in Nat /\ r - e \in Nat /\ amount \in Nat
              /\ amount <= e
              /\ InUse(now) = (m + amount) + (r - e) /\ InUse(w) = m + r
          BY <1>1, <4>1, <4>2 DEF InUse
        <5> HIDE DEF r, m, e
        <5> QED
          BY <5>1, SMTT(30)
      <4> QED
        BY <4>3 DEF w, now
    <3>5. windows[a][i].limit \in Nat
      BY <1>2, BudgetAssumption DEF Window
    <3>6. Bounded(a, i)'
      BY <1>1, <1>2, <3>2, <3>4, <3>5 DEF Bounded
    <3> QED
      BY <3>3, <3>6
  <2>2. CASE ~(a \in AccountsOf[c] /\ i = index[a])
    <3>1. index[a] # i
      BY <2>2 DEF NamesCohere, index
    <3>2. windows'[a][i] = windows[a][i]
      BY <1>7, <2>2
    <3>3. Exact(a, i)'
      <4>1. /\ Total(On(a, i, Held)', Estimate, CostBound) = Total(On(a, i, Held), Estimate, CostBound)
            /\ Total(On(a, i, {"settled"})', charged', CostBound)
                  = Total(On(a, i, {"settled"}), charged, CostBound)
        <5> DEFINE h == Total(On(a, i, Held), Estimate, CostBound)
                   s == Total(On(a, i, {"settled"}), charged, CostBound)
        <5>1. /\ Total(On(a, i, Held)', Estimate, CostBound) = h - 0
              /\ Total(On(a, i, {"settled"})', charged', CostBound) = s + 0
          BY <1>2, <3>1
        <5>2. h \in Nat /\ s \in Nat
          BY OnTotals
        <5>3. h - 0 = h /\ s + 0 = s
          <6> HIDE DEF h, s
          <6> QED
            BY <5>2
        <5> QED
          BY <5>1, <5>3
      <4> QED
        BY <1>2, <3>2, <4>1 DEF Exact
    <3> QED
      BY <1>2, <3>2, <3>3 DEF Bounded
  <2> QED
    BY <2>1, <2>2
<1> QED
  BY <1>8, <1>9, <1>10

LEMMA SettleStep ==
    ASSUME IInv, NEW c \in Calls, NEW amount \in Costs, Settle(c, amount)
    PROVE  IInv'
<1>1. state[c] \in Held /\ amount \in 0..Estimate[c] /\ amount # 0
  BY AssumedOfCalls, BudgetAssumption DEF Settle, Held
<1>2. /\ state' = [state EXCEPT ![c] = "settled"] /\ state'[c] = "settled"
      /\ charged' = [charged EXCEPT ![c] = amount] /\ charged'[c] = amount
      /\ GiveBack(c, amount) /\ policy' = policy /\ at' = at
  BY DEF Settle, IInv, TypeOK
<1> QED
  BY <1>1, <1>2, GiveBackStep

LEMMA ReleaseStep ==
    ASSUME IInv, NEW c \in Calls, Release(c)
    PROVE  IInv'
<1>1. state[c] \in Held /\ 0 \in 0..Estimate[c]
  BY AssumedOfCalls DEF Release, Held
<1>2. /\ state' = [state EXCEPT ![c] = "released"] /\ state'[c] = "released"
      /\ charged' = [charged EXCEPT ![c] = 0] /\ charged'[c] = 0
      /\ GiveBack(c, 0) /\ policy' = policy /\ at' = at
  BY DEF Release, IInv, NamesCohere, TypeOK
<1> QED
  BY <1>1, <1>2, GiveBackStep

(* An unknown outcome, an overage and a step that changes nothing keep      *)
(* every counter: a reservation to be reconciled is held as it was.         *)
LEMMA StillHeld ==
    ASSUME IInv, NEW c \in Calls, state[c] = "reserved",
           state' = [state EXCEPT ![c] = "reconciliation_required"],
           NEW amount \in 0..CostBound, amount = 0 \/ amount > Estimate[c],
           charged' = [charged EXCEPT ![c] = amount],
           windows' = windows, policy' = policy, at' = at
    PROVE  IInv'
<1>1. TypeOK'
  BY DEF IInv, TypeOK, Held, Window
<1>2. NamesCohere'
  BY DEF IInv, TypeOK, NamesCohere
<1>3. ASSUME NEW a \in Accounts, NEW i \in 1..Len(windows[a])
      PROVE  Exact(a, i)' /\ Bounded(a, i)'
  <2> DEFINE S == On(a, i, {"settled"})
             paid == charged'
  <2>1. On(a, i, Held)' = On(a, i, Held) /\ S' = S
    BY DEF IInv, TypeOK, On, Held
  <2>2. CostBound \in Nat /\ \A d \in S : charged[d] = paid[d]
    BY BudgetAssumption DEF IInv, TypeOK, On
  <2>3. Total(S, charged, CostBound) = Total(S, paid, CostBound)
    <3> HIDE DEF S, paid
    <3> QED
      BY <2>2, TotalSame
  <2>4. Exact(a, i) /\ Bounded(a, i)
    BY DEF IInv, WindowsBacked
  <2> QED
    BY <2>1, <2>3, <2>4 DEF Exact, Bounded, InUse
<1> QED
  BY <1>1, <1>2, <1>3 DEF IInv, WindowsBacked

LEMMA KeptStep ==
    ASSUME IInv, NEW c \in Calls, KeepForReconciliation(c)
    PROVE  IInv'
<1>1. /\ windows' = windows /\ policy' = policy /\ at' = at
      /\ state[c] = "reserved" /\ state' = [state EXCEPT ![c] = "reconciliation_required"]
  BY DEF KeepForReconciliation
<1>2. charged' = [charged EXCEPT ![c] = 0] /\ 0 \in 0..CostBound
  <2>1. charged' = charged /\ charged[c] = 0
    BY <1>1 DEF KeepForReconciliation, IInv, NamesCohere
  <2> QED
    BY <2>1, BudgetAssumption DEF IInv, TypeOK
<1> QED
  BY <1>1, <1>2, StillHeld

LEMMA OverrunStep ==
    ASSUME IInv, NEW c \in Calls, NEW amount \in Costs, Overrun(c, amount)
    PROVE  IInv'
<1>1. amount \in 0..CostBound
  BY BudgetAssumption
<1> QED
  BY <1>1, StillHeld DEF Overrun

LEMMA StutterStep == IInv /\ UNCHANGED vars => IInv'
<1> SUFFICES ASSUME IInv, UNCHANGED vars PROVE IInv'
  OBVIOUS
<1>1. TypeOK' /\ NamesCohere'
  BY DEF IInv, vars, callVars, TypeOK, Window, NamesCohere
<1>2. \A a \in Accounts : \A i \in 1..Len(windows[a]) :
         On(a, i, Held)' = On(a, i, Held) /\ On(a, i, {"settled"})' = On(a, i, {"settled"})
  BY DEF vars, On
<1>3. WindowsBacked'
  BY <1>2 DEF IInv, vars, WindowsBacked, Exact, Bounded, InUse
<1> QED
  BY <1>1, <1>3 DEF IInv

LEMMA IInvStep == IInv /\ [Next]_vars => IInv'
<1> SUFFICES ASSUME IInv, [Next]_vars PROVE IInv'
  OBVIOUS
<1>1. ASSUME NEW a \in Accounts, NEW limit \in Limits[a], NEW length \in Lengths[a],
             SaveBudget(a, limit, length)
      PROVE  IInv'
  BY <1>1, SaveBudgetStep
<1>2. ASSUME NEW a \in Accounts, NEW i \in DOMAIN windows[a], WindowEnds(a, i)
      PROVE  IInv'
  BY <1>2, WindowEndsStep
<1>3. ASSUME NEW c \in Calls, Admit(c) PROVE IInv'
  BY <1>3, AdmitStep
<1>4. ASSUME NEW c \in Calls, Release(c) PROVE IInv'
  BY <1>4, ReleaseStep
<1>5. ASSUME NEW c \in Calls, KeepForReconciliation(c) PROVE IInv'
  BY <1>5, KeptStep
<1>6. ASSUME NEW c \in Calls, NEW amount \in Costs, Settle(c, amount) \/ Overrun(c, amount)
      PROVE  IInv'
  BY <1>6, SettleStep, OverrunStep
<1>7. CASE UNCHANGED vars
  BY <1>7, StutterStep
<1> QED
  BY <1>1, <1>2, <1>3, <1>4, <1>5, <1>6, <1>7 DEF Next

-----------------------------------------------------------------------------
(* One window that never ended holds, of all the account was ever charged,  *)
(* what stays within the reservations.                                      *)
LEMMA OneWindowKeepsCapHolds == IInv => OneWindowKeepsCap
<1> SUFFICES ASSUME IInv, NEW a \in Capped, Len(windows[a]) = 1
             PROVE  Total(CallsOf(a), Covered, CostBound)
                       + Total(Unmeasured(a, 1), Estimate, CostBound) <= LedgerCap
  BY DEF OneWindowKeepsCap
<1> DEFINE S == CallsOf(a)
           T == On(a, 1, {"settled"})
           H == On(a, 1, Held)
           U == Unmeasured(a, 1)
           Over == H \ U
<1>1. a \in Accounts /\ 1 \in 1..Len(windows[a]) /\ LedgerCap \in Nat /\ CostBound \in Nat
  BY BudgetAssumption
<1>2. Exact(a, 1) /\ InUse(windows[a][1]) <= LedgerCap
  BY <1>1 DEF IInv, WindowsBacked, Bounded
<1>3. /\ IsFiniteSet(T) /\ IsFiniteSet(H) /\ IsFiniteSet(U) /\ IsFiniteSet(Over)
      /\ U \subseteq H /\ T \cap Over = {}
  <2>1. U \subseteq H /\ T \cap Over = {}
    BY DEF Unmeasured, On, Held
  <2>2. Over \subseteq H
    OBVIOUS
  <2>3. IsFiniteSet(T) /\ IsFiniteSet(H)
    BY OnFinite
  <2> HIDE DEF T, H, U, Over
  <2> QED
    BY <2>1, <2>2, <2>3, FS_Subset
<1>4. \A c \in Calls : Covered[c] \in Nat /\ Estimate[c] \in Nat
  BY AssumedOfCalls DEF Covered, IInv, TypeOK
<1>5. Total(S, Covered, CostBound) = Total(T \cup Over, Covered, CostBound)
  <2>1. ASSUME NEW c \in Calls, Covered[c] # 0 PROVE c \in S <=> c \in T \cup Over
    <3>1. charged[c] # 0 /\ state[c] \in {"settled", "reconciliation_required"}
      <4>1. charged[c] # 0
        BY <2>1, AssumedOfCalls DEF Covered
      <4> QED
        BY <4>1 DEF IInv, NamesCohere
    <3>2. /\ a \in AccountsOf[c] => at[c][a] \in 1..1
          /\ a \notin AccountsOf[c] => at[c][a] = 0
      BY <1>1, <3>1 DEF IInv, NamesCohere
    <3> QED
      BY <3>1, <3>2 DEF CallsOf, On, Unmeasured, Held
  <2>2. S \subseteq Calls /\ T \cup Over \subseteq Calls
    BY DEF CallsOf, On
  <2> HIDE DEF S, T, Over
  <2> QED
    BY <1>1, <1>4, <2>1, <2>2, TotalOfNonzero
<1>6. Total(T \cup Over, Covered, CostBound)
         = Total(T, Covered, CostBound) + Total(Over, Covered, CostBound)
  <2> HIDE DEF T, Over
  <2> QED
    BY <1>1, <1>3, TotalOfBoth
<1>7. Total(T, Covered, CostBound) = Total(T, charged, CostBound)
  <2>1. \A c \in T : Covered[c] = charged[c]
    <3> SUFFICES ASSUME NEW c \in Calls, state[c] = "settled" PROVE Covered[c] = charged[c]
      BY DEF On
    <3>1. charged[c] \in 1..Estimate[c]
      BY DEF IInv, NamesCohere
    <3> QED
      BY <3>1, AssumedOfCalls DEF Covered
  <2> HIDE DEF T
  <2> QED
    BY <1>1, <2>1, TotalSame
<1>8. Total(Over, Covered, CostBound) = Total(Over, Estimate, CostBound)
  <2>1. \A c \in Over : Covered[c] = Estimate[c]
    <3> SUFFICES ASSUME NEW c \in Calls, state[c] \in Held, charged[c] # 0
                 PROVE  Covered[c] = Estimate[c]
      BY DEF On, Unmeasured
    <3>1. charged[c] > Estimate[c]
      BY DEF IInv, NamesCohere, Held
    <3> QED
      BY <3>1 DEF Covered
  <2> HIDE DEF Over
  <2> QED
    BY <1>1, <2>1, TotalSame
<1>9. Total(H, Estimate, CostBound) = Total(Over, Estimate, CostBound) + Total(U, Estimate, CostBound)
  <2>1. H = Over \cup U /\ Over \cap U = {}
    BY <1>3
  <2> HIDE DEF H, U, Over
  <2> QED
    BY <1>1, <1>3, <2>1, TotalOfBoth
<1>10. /\ Total(T, charged, CostBound) \in Nat /\ Total(Over, Estimate, CostBound) \in Nat
       /\ Total(U, Estimate, CostBound) \in Nat
  <2> HIDE DEF T, U, Over
  <2> QED
    BY <1>1, <1>3, TotalType
<1>11. Total(T, charged, CostBound) + Total(H, Estimate, CostBound) <= LedgerCap
  <2>1. windows[a][1] \in Window(a)
    BY <1>1, RowType DEF IInv
  <2> QED
    BY <1>2, <2>1 DEF Exact, InUse, Window
<1> HIDE DEF S, T, H, U, Over
<1>12. Total(S, Covered, CostBound) + Total(U, Estimate, CostBound) <= LedgerCap
  BY <1>1, <1>5, <1>6, <1>7, <1>8, <1>9, <1>10, <1>11
<1> QED
  BY <1>12 DEF S, U

(* What the counters count and what bounds them, of every window of every   *)
(* account, holds in every state budgets, windows and calls can reach:      *)
(* overlapping paid calls, overages among them, and fixture calls of which  *)
(* those that share an account are under way one at a time.                 *)
THEOREM CountersAreExact == Spec => []WindowsExact
<1>1. IInv => WindowsExact
  <2> SUFFICES ASSUME IInv PROVE WindowsExact
    OBVIOUS
  <2>1. TypeOK /\ OneWindowKeepsCap
    BY OneWindowKeepsCapHolds DEF IInv
  <2>2. \A a \in Accounts : DOMAIN windows[a] = 1..Len(windows[a])
    BY <2>1, LenProperties DEF TypeOK
  <2>3. \A a \in Accounts : \A i \in DOMAIN windows[a] : Exact(a, i) /\ Bounded(a, i)
    BY <2>2 DEF IInv, WindowsBacked
  <2> QED
    BY <2>1, <2>3 DEF WindowsExact, Exact, Bounded
<1> QED
  BY <1>1, IInvInit, IInvStep, PTL DEF Spec

(* A preview that names no blocker of the budget is one the admission       *)
(* takes, or only the governed cap refuses.                                 *)
THEOREM PreviewKeepsItsWord == Spec => []PreviewIsHonest
<1>1. IInv => PreviewIsHonest
  <2> SUFFICES ASSUME IInv, NEW c \in Calls, PreviewAdmissible(c), NEW a \in AccountsOf[c]
               PROVE  Current(a) # 0 /\ (LiveAdmissible(c, a) \/ BeyondLedgerCap(c, a))
    BY DEF PreviewIsHonest
  <2>1. BudgetBlockers(c, a) = {}
    BY DEF PreviewAdmissible
  <2>2. Current(a) # 0
    BY <2>1 DEF BudgetBlockers
  <2>3. ~ExceedsCumulative(c, a)
    BY <2>1, <2>2 DEF BudgetBlockers, Blocker
  <2>4. a \in Accounts /\ Estimate[c] \in Nat /\ LedgerCap \in Nat /\ CostBound \in Nat
    BY AssumedOfCalls
  <2>5. /\ InUse(CurrentWindow(a)) \in Nat
        /\ policy[a].limit \in Nat
    <3>1. Current(a) \in 1..Len(windows[a])
      BY <2>2, <2>4, CurrentIsOpen DEF IInv
    <3>2. InUse(CurrentWindow(a)) \in Nat
      BY <2>4, <3>1, RowType DEF IInv, CurrentWindow
    <3>3. policy[a].limit \in Limits[a] \cup {0} /\ Limits[a] \subseteq Nat
      BY <2>4, BudgetAssumption DEF IInv, TypeOK
    <3> QED
      BY <3>2, <3>3
  <2>6. LedgerSpent(a) \in Nat
    <3>1. {d \in Calls : a \in AccountsOf[d]} \in SUBSET Calls
      OBVIOUS
    <3>2. IsFiniteSet({d \in Calls : a \in AccountsOf[d]})
      BY <3>1, BudgetAssumption, FS_Subset
    <3> QED
      BY <2>4, <3>2, TotalType DEF LedgerSpent, CallsOf
  <2> QED
    BY <2>2, <2>3, <2>4, <2>5, <2>6 DEF ExceedsCumulative, LiveAdmissible, BeyondLedgerCap
<1> QED
  BY <1>1, IInvInit, IInvStep, PTL DEF Spec

=============================================================================
