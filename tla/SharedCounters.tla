---------------------------- MODULE SharedCounters ----------------------------
(* FixtureInvocation with a history variable: have two invocations that     *)
(* charge the same counter been under way at once?  A worker's session      *)
(* remembers the counters it has loaded, so what the code promises of them  *)
(* it keeps only up to then.  WatchedNext is Next /\ Watch, written so that *)
(* each action stays a disjunct of its own.                                 *)
EXTENDS FixtureInvocation

VARIABLE overlapped

(* A worker is between two of its transactions, or an admission waits for   *)
(* its dispatch or its recovery.                                            *)
InFlight(k) ==
    \/ \E r \in Requests : KeyOf[r] = k /\ pc[r] \in {"admitting", "dispatching", "invoked"}
    \/ \E n \in Attempts : reservation[<<k, n>>] = "reserved"

Apart ==
    \A k, l \in Keys :
        InFlight(k) /\ InFlight(l) /\ AccountsOf[k] \cap AccountsOf[l] # {} => k = l

WatchedInit == Init /\ overlapped = FALSE

Watch == overlapped' = (overlapped \/ ~Apart')

WatchedNext ==
    \/ \E r \in Requests :
          \/ CreatePending(r) /\ Watch
          \/ Replay(r) /\ Watch
          \/ AdmitAttempt(r) /\ Watch
          \/ RefuseAdmission(r) /\ Watch
          \/ CommitDispatch(r) /\ Watch
          \/ DispatchRefused(r) /\ Watch
          \/ \E o \in Outcomes : Terminalize(r, o) /\ Watch
          \/ TerminalizeRefused(r) /\ Watch
          \/ Crash(r) /\ Watch
    \/ \E c \in Cancels :
          \/ ReadSnapshot(c) /\ Watch
          \/ CancelTooLate(c) /\ Watch
          \/ CancelBeforeDispatch(c) /\ Watch
          \/ CancelFails(c) /\ Watch
          \/ CancelAfterDispatch(c) /\ Watch
    \/ \E k \in Keys, n \in Attempts :
          \/ RecoverOrphan(k, n) /\ Watch
          \/ RecoverFails(k, n) /\ Watch
          \/ RecoverDoubtful(k, n) /\ Watch
    \/ Quiescent /\ Watch

WatchedSpec == WatchedInit /\ [][WatchedNext]_<<vars, overlapped>>

-----------------------------------------------------------------------------
(* The counters equal what the reservations and the cost ledger add up to,  *)
(* through retries, crashes, recoveries and invocations one after another,  *)
(* until a cancel is asked for or two invocations that charge the same      *)
(* counter overlap: _terminalize_attempt settles on the counters the        *)
(* session loaded at admission.                                             *)
AccountingAlone == ~overlapped => AccountingExact

(* recover_expired_admissions gets the money of a dead worker back: the     *)
(* CHECK on the counters refuses it only after such an overlap or a cancel. *)
RecoveryIsAccepted ==
    Undisturbed /\ ~overlapped =>
        \A k \in Keys, n \in Attempts : ~RecoveryRefused(k, n)
=============================================================================
