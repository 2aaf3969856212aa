---------------------------- MODULE AccountsProofs ----------------------------
(* Logins and sessions, for any number of flows, callbacks and commands.    *)
EXTENDS Accounts, AmountsProofs

-----------------------------------------------------------------------------
(* The inductive invariant of the sessions.  A callback has taken its flow  *)
(* from the moment it consumed it, or if it has opened a session.           *)
Took(q) ==
    \/ login[q].step \in {"exchanging", "answered", "opening", "conflict", "done", "received"}
    \/ session[q].status # "none"

Opened(q) == login[q].step \in {"done", "received"}

FlowsAreTakenOnce ==
    /\ \A q \in Callbacks : Took(q) => flow[FlowOf[q]] = "used"
    /\ \A p, q \in Callbacks : Took(p) /\ Took(q) /\ FlowOf[p] = FlowOf[q] => p = q

SessionsOfLogins ==
    \A q \in Callbacks :
        /\ session[q].status # "none" =>
              session[q].user \in Callbacks /\ login[q].step \in {"done", "received", "ended"}
        /\ Opened(q) => session[q].status # "none"

(* The subject's lock keeps what a login has read of the identity true.     *)
IdentitiesAgree ==
    /\ \A q \in Callbacks :
          /\ login[q].step # "conflict"
          /\ login[q].step \in {"answered", "opening", "done", "received"} =>
                login[q].subject \in Subjects
          /\ login[q].step = "opening" => login[q].user = account[login[q].subject]
          /\ Opened(q) => session[q].user = account[login[q].subject]
    /\ \A p, q \in Callbacks :
          login[p].step = "opening" /\ login[q].step = "opening"
          /\ login[p].subject = login[q].subject => p = q

Exists(token) == token # None => session[token].status # "none"

TokensNameSessions ==
    /\ Exists(cookie.session)
    /\ \A q \in Callbacks : Exists(login[q].prior)
    /\ \A c \in Commands :
          /\ Exists(command[c].token)
          /\ command[c].step \notin {"idle", "done"} => command[c].token # None

SInv ==
    /\ SessionsTypeOK /\ FlowsAreTakenOnce /\ SessionsOfLogins /\ IdentitiesAgree
    /\ TokensNameSessions /\ PriorSessionIsGone

LEMMA SessionsInitially ==
    ASSUME SessionsAssumption, AccountsAssumption, NEW coming \in Scenarios, SessionsInit(coming)
    PROVE  SInv
<1> USE SessionsAssumption DEF SessionsAssumption, SessionsInit, Idle, NoSession
<1>0. First \notin coming
  BY AccountsAssumption DEF AccountsAssumption
<1>1. SessionsTypeOK
  BY DEF SessionsTypeOK
<1>2. \A q \in Callbacks : Took(q) <=> q = First
  BY DEF Took
<1>3. FlowsAreTakenOnce
  BY <1>2 DEF FlowsAreTakenOnce
<1>4. SessionsOfLogins /\ IdentitiesAgree /\ TokensNameSessions /\ PriorSessionIsGone
  BY <1>0 DEF SessionsOfLogins, IdentitiesAgree, TokensNameSessions, PriorSessionIsGone,
              Opened, Exists
<1> QED
  BY <1>1, <1>3, <1>4 DEF SInv

-----------------------------------------------------------------------------
(* What the steps do, seen row by row: most of them touch one row.          *)
OnlyLogin(q) ==
    /\ \A p \in Callbacks \ {q} : login'[p] = login[p]
    /\ UNCHANGED <<flow, cookie, account, session, command>>

(* A request that is given up, before it opened a session.                  *)
LoginEnds(q) ==
    /\ login[q].step \in {"sent", "exchanging", "answered", "opening"}
    /\ login' = [login EXCEPT ![q] = Idle("ended")]
    /\ UNCHANGED <<flow, cookie, account, session, command>>

(* A flow that nobody has consumed is stored, or expires.                   *)
FlowMoves ==
    \E f \in Flows, step \in {"open", "expired"} :
        /\ flow[f] # "used"
        /\ flow' = [flow EXCEPT ![f] = step]
        /\ cookie' \in {cookie, [cookie EXCEPT !.flow = f]}
        /\ UNCHANGED <<login, account, session, command>>

(* A session is over, for good unless it only expired; with it may go the   *)
(* request that logged out, and the cookies.                                *)
SessionEnds ==
    \E q \in Callbacks, status \in {"revoked", "expired"} :
        /\ session[q].status # "none" /\ (status = "expired" => Live(q))
        /\ session' = [session EXCEPT ![q].status = status]
        /\ cookie' \in {cookie, [cookie EXCEPT !.session = None]}
        /\ UNCHANGED <<flow, login, account>>

(* No step of a command gives it another token than the browser's.          *)
CommandMoves ==
    \E c \in Commands :
        \E step \in {"idle", "sent", "csrf", "checked", "principal", "ready", "done"},
           token \in {command[c].token, cookie.session, None} :
            /\ step \notin {"idle", "done"} => token # None
            /\ command' = [command EXCEPT ![c] = [step |-> step, token |-> token]]

CommandOnly == CommandMoves /\ UNCHANGED <<flow, cookie, login, account, session>>

CommandEnds(c) ==
    /\ command' = [command EXCEPT ![c] = [step |-> "done", token |-> None]]
    /\ UNCHANGED <<flow, cookie, login, account, session>>

SessionMove ==
    \/ SessionStep
    \/ \E c \in Commands : SendCommand(c) \/ CommandEnds(c)
    \/ UNCHANGED sessionVars

ProviderAnswers(q, s) ==
    /\ login[q].step = "exchanging"
    /\ login' = [login EXCEPT ![q].step = "answered", ![q].subject = s]
    /\ UNCHANGED <<flow, cookie, account, session, command>>

SessionEffects ==
    \/ FlowMoves \/ CommandOnly
    \/ SessionEnds /\ (CommandMoves \/ UNCHANGED command)
    \/ \E q \in Callbacks :
          \/ LoginEnds(q) \/ SendCallback(q)
          \/ Consume(q) /\ Consumable(q)
          \/ \E s \in Subjects : ProviderAnswers(q, s)
          \/ FindIdentity(q) \/ OpenSession(q) \/ ReceiveSession(q)
    \/ UNCHANGED sessionVars

LEMMA StepOfCommand ==
    ASSUME SessionsTypeOK, NEW c \in Commands, NEW step
    PROVE  [command EXCEPT ![c].step = step]
              = [command EXCEPT ![c] = [step |-> step, token |-> command[c].token]]
<1>1. command \in [Commands ->
          [step : {"idle", "sent", "csrf", "checked", "principal", "ready", "done"},
           token : Callbacks \cup {None}]]
  BY DEF SessionsTypeOK
<1>2. [command[c] EXCEPT !.step = step] = [step |-> step, token |-> command[c].token]
  BY <1>1
<1> QED
  BY <1>1, <1>2

LEMMA SessionStepsHaveEffects ==
    ASSUME SessionsAssumption, SInv, SessionMove
    PROVE  SessionEffects
<1> USE SessionsAssumption DEF SessionsAssumption, SInv
<1>t. SessionsTypeOK
  OBVIOUS
<1>1. ASSUME NEW f \in Flows, StartLogin(f) \/ FlowExpires(f)
      PROVE  FlowMoves
  BY <1>1, <1>t DEF FlowMoves, StartLogin, FlowExpires, SessionsTypeOK
<1>2. ASSUME NEW q \in Callbacks, Consume(q)
      PROVE  LoginEnds(q) \/ Consumable(q)
  BY <1>2 DEF Consume, LoginEnds
<1>3. ASSUME NEW q \in Callbacks, ProviderUnavailable(q) \/ LoginCrash(q)
      PROVE  LoginEnds(q)
  BY <1>3 DEF ProviderUnavailable, LoginCrash, LoginEnds, LoginInProgress
<1>4. ASSUME NEW q \in Callbacks, NEW s \in Subjects, NEW t \in IdTokens, Exchange(q, s, t)
      PROVE  SessionEffects
  <2>1. CASE t.nonce = FlowOf[q] /\ TimeClaimsValid(t)
    <3>1. ProviderAnswers(q, s)
      BY <1>4, <2>1 DEF Exchange, ProviderAnswers
    <3> QED
      BY <3>1 DEF SessionEffects
  <2>2. CASE ~(t.nonce = FlowOf[q] /\ TimeClaimsValid(t))
    <3>1. LoginEnds(q)
      BY <1>4, <2>2 DEF Exchange, LoginEnds
    <3> QED
      BY <3>1 DEF SessionEffects
  <2> QED
    BY <2>1, <2>2
<1>5. ASSUME NEW q \in Callbacks, SessionExpires(q)
      PROVE  SessionEnds /\ UNCHANGED command
  BY <1>5 DEF SessionExpires, SessionEnds, Live
<1>6. ASSUME NEW c \in Commands, SendCommand(c) \/ CommandEnds(c) \/ ReadSession(c)
      PROVE  CommandOnly
  <2>1. command[c].step \notin {"idle", "done"} => command[c].token # None
    BY DEF TokensNameSessions
  <2>2. CASE SendCommand(c) \/ CommandEnds(c)
    BY <2>2 DEF SendCommand, CommandEnds, CommandOnly, CommandMoves
  <2>3. CASE ReadSession(c)
    <3>1. CASE Live(command[c].token)
      <4> DEFINE step == IF command[c].step = "sent" THEN "csrf" ELSE "principal"
      <4>1. command' = [command EXCEPT ![c] = [step |-> step, token |-> command[c].token]]
        BY <2>3, <3>1, StepOfCommand DEF ReadSession
      <4>2. step \in {"csrf", "principal"} /\ command[c].token # None
        BY <2>1, <2>3 DEF ReadSession
      <4> QED
        BY <2>3, <4>1, <4>2 DEF ReadSession, CommandOnly, CommandMoves
    <3>2. CASE ~Live(command[c].token)
      BY <2>3, <3>2 DEF ReadSession, CommandOnly, CommandMoves
    <3> QED
      BY <3>1, <3>2
  <2> QED
    BY <1>6, <2>2, <2>3
<1>7. ASSUME NEW c \in Commands, WriteLastSeen(c)
      PROVE  CommandOnly
  <2> DEFINE step == IF command[c].step = "csrf" THEN "checked" ELSE "ready"
  <2>1. command' = [command EXCEPT ![c] = [step |-> step, token |-> command[c].token]]
    BY <1>7, StepOfCommand DEF WriteLastSeen
  <2>2. session' = session
    BY <1>7, <1>t DEF WriteLastSeen, SessionsTypeOK, RowWithLastSeen
  <2>3. step \in {"checked", "ready"} /\ command[c].token # None
    BY <1>7 DEF WriteLastSeen, TokensNameSessions
  <2> QED
    BY <1>7, <2>1, <2>2, <2>3 DEF WriteLastSeen, CommandOnly, CommandMoves
<1>8. ASSUME NEW c \in Commands, Logout(c)
      PROVE  SessionEnds /\ CommandMoves
  <2>1. CommandMoves
    BY <1>8 DEF Logout, CommandMoves
  <2>2. command[c].token # None
    BY <1>8 DEF Logout, TokensNameSessions
  <2>3. command[c].token \in Callbacks /\ session[command[c].token].status # "none"
    BY <2>2, <1>t DEF SessionsTypeOK, TokensNameSessions, Exists
  <2> QED
    BY <1>8, <2>1, <2>3 DEF Logout, SessionEnds
<1>9. ASSUME NEW f \in Flows, StartLogin(f) \/ FlowExpires(f)
      PROVE  SessionEffects
  BY <1>1, <1>9 DEF SessionEffects
<1>10. ASSUME NEW q \in Callbacks,
              \/ SendCallback(q) \/ Consume(q) \/ ProviderUnavailable(q)
              \/ \E s \in Subjects, t \in IdTokens : Exchange(q, s, t)
              \/ FindIdentity(q) \/ OpenSession(q) \/ ReceiveSession(q)
              \/ LoginCrash(q) \/ SessionExpires(q)
       PROVE  SessionEffects
  BY <1>2, <1>3, <1>4, <1>5, <1>10 DEF SessionEffects
<1>11. ASSUME NEW c \in Commands,
              \/ ReadSession(c) \/ WriteLastSeen(c) \/ Logout(c)
              \/ SendCommand(c) \/ CommandEnds(c)
       PROVE  SessionEffects
  BY <1>6, <1>7, <1>8, <1>11 DEF SessionEffects
<1> QED
  BY <1>9, <1>10, <1>11 DEF SessionMove, SessionStep, SessionEffects

-----------------------------------------------------------------------------
(* Each effect keeps the invariant.  Parts the row-wise facts about an      *)
(* effect suffice for are proved from these facts only.                     *)
LoginRows == [step : {"idle", "sent", "exchanging", "answered", "opening", "done",
                      "received", "conflict", "ended"},
              binding : Flows \cup {None}, prior : Callbacks \cup {None},
              subject : Subjects \cup {None}, user : Callbacks \cup {None}]

LEMMA LoginRowChanges ==
    ASSUME SessionsTypeOK, NEW q \in Callbacks,
           NEW step \in {"exchanging", "answered", "opening", "done", "received"},
           NEW subject \in Subjects, NEW user \in Callbacks \cup {None}
    PROVE  /\ [login EXCEPT ![q].step = step] \in [Callbacks -> LoginRows]
           /\ [login EXCEPT ![q].step = step, ![q].subject = subject] \in [Callbacks -> LoginRows]
           /\ [login EXCEPT ![q].step = step, ![q].user = user] \in [Callbacks -> LoginRows]
<1>1. login \in [Callbacks -> LoginRows]
  BY DEF SessionsTypeOK, LoginRows
<1>2. [login[q] EXCEPT !.step = step] \in LoginRows
  BY <1>1 DEF LoginRows
<1>3. [login[q] EXCEPT !.step = step, !.subject = subject] \in LoginRows
  BY <1>1 DEF LoginRows
<1>4. [login[q] EXCEPT !.step = step, !.user = user] \in LoginRows
  BY <1>1 DEF LoginRows
<1>5. [login EXCEPT ![q].step = step] \in [Callbacks -> LoginRows]
  BY <1>1, <1>2
<1>6. [login EXCEPT ![q].step = step, ![q].subject = subject] \in [Callbacks -> LoginRows]
  BY <1>1, <1>3
<1>7. [login EXCEPT ![q].step = step, ![q].user = user] \in [Callbacks -> LoginRows]
  BY <1>1, <1>4
<1> QED
  BY <1>5, <1>6, <1>7

LEMMA FlowMovesKeep ==
    ASSUME SessionsAssumption, SInv, FlowMoves
    PROVE  SInv'
<1> USE SessionsAssumption DEF SessionsAssumption, SInv
<1>1. PICK f \in Flows, step \in {"open", "expired"} :
          /\ flow[f] # "used"
          /\ flow' = [flow EXCEPT ![f] = step]
          /\ cookie' \in {cookie, [cookie EXCEPT !.flow = f]}
          /\ UNCHANGED <<login, account, session, command>>
  BY DEF FlowMoves
<1>2. SessionsTypeOK' /\ cookie'.session = cookie.session
  BY <1>1 DEF SessionsTypeOK
<1>3. \A g \in Flows : flow[g] = "used" => flow'[g] = "used"
  BY <1>1 DEF SessionsTypeOK
<1>4. FlowsAreTakenOnce'
  BY <1>1, <1>3 DEF FlowsAreTakenOnce, Took
<1>5. SessionsOfLogins' /\ IdentitiesAgree' /\ TokensNameSessions' /\ PriorSessionIsGone'
  BY <1>1, <1>2 DEF SessionsOfLogins, IdentitiesAgree, TokensNameSessions,
                    PriorSessionIsGone, Opened, Exists, Live
<1> QED
  BY <1>2, <1>4, <1>5

LEMMA CommandOnlyKeeps ==
    ASSUME SessionsAssumption, SInv, CommandOnly
    PROVE  SInv'
<1> USE SessionsAssumption DEF SessionsAssumption, SInv
<1>1. CommandMoves /\ UNCHANGED <<flow, cookie, login, account, session>>
  BY DEF CommandOnly
<1>2. SessionsTypeOK'
  BY <1>1 DEF SessionsTypeOK, CommandMoves
<1>3. \A c \in Commands :
          /\ command'[c].token \in {command[c].token, cookie.session, None}
          /\ command'[c].step \notin {"idle", "done"} =>
                command'[c].token # None \/ command'[c] = command[c]
  BY <1>1 DEF SessionsTypeOK, CommandMoves
<1>4. TokensNameSessions'
  BY <1>1, <1>2, <1>3 DEF TokensNameSessions, Exists
<1>5. FlowsAreTakenOnce' /\ SessionsOfLogins' /\ IdentitiesAgree' /\ PriorSessionIsGone'
  BY <1>1 DEF SessionsOfLogins, IdentitiesAgree, FlowsAreTakenOnce, Took,
              PriorSessionIsGone, Opened, Live
<1> QED
  BY <1>2, <1>4, <1>5

LEMMA SessionEndsKeeps ==
    ASSUME SessionsAssumption, SInv, SessionEnds, CommandMoves \/ UNCHANGED command
    PROVE  SInv'
<1> USE SessionsAssumption DEF SessionsAssumption, SInv
<1>1. PICK q \in Callbacks, status \in {"revoked", "expired"} :
          /\ session[q].status # "none"
          /\ session' = [session EXCEPT ![q].status = status]
          /\ cookie' \in {cookie, [cookie EXCEPT !.session = None]}
          /\ UNCHANGED <<flow, login, account>>
  BY DEF SessionEnds
<1>2. SessionsTypeOK' /\ cookie'.session \in {cookie.session, None}
  BY <1>1 DEF SessionsTypeOK, CommandMoves
<1>3. \A c \in Commands :
          /\ command'[c].token \in {command[c].token, cookie.session, None}
          /\ command'[c].step \notin {"idle", "done"} =>
                command'[c].token # None \/ command'[c] = command[c]
  BY DEF SessionsTypeOK, CommandMoves
<1>4. \A p \in Callbacks : /\ session'[p].status = "none" <=> session[p].status = "none"
                           /\ session'[p].user = session[p].user
                           /\ Live(p)' => Live(p)
  BY <1>1 DEF SessionsTypeOK, Live
<1>5. TokensNameSessions'
  <2>1. \A q1 \in Callbacks : login[q1].prior \in Callbacks \cup {None}
    BY DEF SessionsTypeOK
  <2>2. cookie.session \in Callbacks \cup {None}
    BY DEF SessionsTypeOK
  <2>3. \A c \in Commands : command[c].token \in Callbacks \cup {None}
    BY DEF SessionsTypeOK
  <2> QED
    BY <1>1, <1>2, <1>3, <1>4, <2>1, <2>2, <2>3 DEF TokensNameSessions, Exists
<1>6. PriorSessionIsGone'
  <2>1. \A q1 \in Callbacks : login[q1].prior \in Callbacks \cup {None}
    BY DEF SessionsTypeOK
  <2> QED
    BY <1>1, <1>4, <2>1 DEF PriorSessionIsGone
<1>7. FlowsAreTakenOnce' /\ SessionsOfLogins' /\ IdentitiesAgree'
  BY <1>1, <1>4 DEF SessionsOfLogins, IdentitiesAgree, FlowsAreTakenOnce, Took, Opened
<1> QED
  BY <1>2, <1>5, <1>6, <1>7

LEMMA LoginEndsKeeps ==
    ASSUME SessionsAssumption, SInv, NEW q \in Callbacks, LoginEnds(q)
    PROVE  SInv'
<1> USE SessionsAssumption DEF SessionsAssumption, SInv, LoginEnds
<1>1. SessionsTypeOK'
  BY DEF SessionsTypeOK, Idle
<1>2. /\ \A p \in Callbacks : p # q => login'[p] = login[p]
      /\ login'[q].step = "ended" /\ login'[q].prior = None
  BY DEF SessionsTypeOK, Idle
<1>3. session[q].status = "none"
  BY DEF SessionsOfLogins
<1>4. UNCHANGED <<flow, cookie, account, session, command>>
  OBVIOUS
<1> HIDE DEF LoginEnds
<1>5. FlowsAreTakenOnce'
  BY <1>2, <1>3, <1>4 DEF FlowsAreTakenOnce, Took
<1>6. SessionsOfLogins' /\ IdentitiesAgree'
  BY <1>2, <1>3, <1>4 DEF SessionsOfLogins, IdentitiesAgree, Opened
<1>7. TokensNameSessions' /\ PriorSessionIsGone'
  BY <1>2, <1>4 DEF TokensNameSessions, Exists, PriorSessionIsGone, Live
<1> QED
  BY <1>1, <1>5, <1>6, <1>7

LEMMA SendCallbackKeeps ==
    ASSUME SessionsAssumption, SInv, NEW q \in Callbacks, SendCallback(q)
    PROVE  SInv'
<1> USE SessionsAssumption DEF SessionsAssumption, SInv
<1>1. SessionsTypeOK'
  BY DEF SendCallback, SessionsTypeOK, Idle
<1>2. /\ \A p \in Callbacks : p # q => login'[p] = login[p]
      /\ login[q].step = "idle" /\ login'[q].step = "sent"
      /\ login'[q].prior = cookie.session
      /\ UNCHANGED <<flow, cookie, account, session, command>>
  BY DEF SendCallback, SessionsTypeOK, Idle
<1>3. FlowsAreTakenOnce' /\ SessionsOfLogins' /\ IdentitiesAgree'
  BY <1>2 DEF FlowsAreTakenOnce, Took, SessionsOfLogins, IdentitiesAgree, Opened
<1>4. TokensNameSessions' /\ PriorSessionIsGone'
  BY <1>2 DEF TokensNameSessions, Exists, PriorSessionIsGone, Live
<1> QED
  BY <1>1, <1>3, <1>4

LEMMA ConsumeKeeps ==
    ASSUME SessionsAssumption, SInv, NEW q \in Callbacks, Consume(q), Consumable(q)
    PROVE  SInv'
<1> USE SessionsAssumption DEF SessionsAssumption, SInv
<1>1. SessionsTypeOK'
  <2>1. login' \in [Callbacks -> LoginRows]
    <3>1. [login EXCEPT ![q].step = "exchanging"] \in [Callbacks -> LoginRows]
      BY LoginRowChanges
    <3>2. login' = [login EXCEPT ![q].step = "exchanging"]
      BY DEF Consume
    <3> QED
      BY <3>1, <3>2
  <2>2. /\ flow' \in [Flows -> {"none", "open", "expired", "used"}]
        /\ cookie' \in [flow : Flows \cup {None}, session : Callbacks \cup {None}]
        /\ UNCHANGED <<account, session, command>>
    BY DEF Consume, Consumable, SessionsTypeOK
  <2> QED
    BY <2>1, <2>2 DEF SessionsTypeOK, LoginRows
<1>2. /\ \A p \in Callbacks : p # q => login'[p] = login[p]
      /\ login[q].step = "sent" /\ login'[q].step = "exchanging"
      /\ login'[q].prior = login[q].prior
      /\ flow[FlowOf[q]] = "open" /\ flow'[FlowOf[q]] = "used"
      /\ \A f \in Flows : flow[f] = "used" => flow'[f] = "used"
      /\ UNCHANGED <<cookie, account, session, command>>
  BY DEF Consume, Consumable, SessionsTypeOK
<1>3. FlowsAreTakenOnce'
  BY <1>2 DEF FlowsAreTakenOnce, Took
<1>4. SessionsOfLogins' /\ IdentitiesAgree'
  BY <1>2 DEF SessionsOfLogins, IdentitiesAgree, Opened
<1>5. TokensNameSessions' /\ PriorSessionIsGone'
  BY <1>2 DEF TokensNameSessions, Exists, PriorSessionIsGone, Live
<1> QED
  BY <1>1, <1>3, <1>4, <1>5

LEMMA ProviderAnswersKeeps ==
    ASSUME SessionsAssumption, SInv, NEW q \in Callbacks, NEW s \in Subjects, ProviderAnswers(q, s)
    PROVE  SInv'
<1> USE SessionsAssumption DEF SessionsAssumption, SInv
<1>1. SessionsTypeOK'
  <2>1. login' \in [Callbacks -> LoginRows]
    BY LoginRowChanges DEF ProviderAnswers
  <2>2. /\ flow' \in [Flows -> {"none", "open", "expired", "used"}]
        /\ cookie' \in [flow : Flows \cup {None}, session : Callbacks \cup {None}]
        /\ UNCHANGED <<account, session, command>>
    BY DEF ProviderAnswers, SessionsTypeOK
  <2> QED
    BY <2>1, <2>2 DEF SessionsTypeOK, LoginRows
<1>2. /\ \A p \in Callbacks : p # q => login'[p] = login[p]
      /\ login[q].step = "exchanging" /\ login'[q].step = "answered"
      /\ login'[q].prior = login[q].prior /\ login'[q].subject = s
      /\ UNCHANGED <<flow, cookie, account, session, command>>
  BY DEF ProviderAnswers, SessionsTypeOK
<1>3. FlowsAreTakenOnce'
  BY <1>2 DEF FlowsAreTakenOnce, Took
<1>4. SessionsOfLogins' /\ IdentitiesAgree'
  BY <1>2 DEF SessionsOfLogins, IdentitiesAgree, Opened
<1>5. TokensNameSessions' /\ PriorSessionIsGone'
  BY <1>2 DEF TokensNameSessions, Exists, PriorSessionIsGone, Live
<1> QED
  BY <1>1, <1>3, <1>4, <1>5

LEMMA FindIdentityKeeps ==
    ASSUME SessionsAssumption, SInv, NEW q \in Callbacks, FindIdentity(q)
    PROVE  SInv'
<1> USE SessionsAssumption DEF SessionsAssumption, SInv
<1>0. login[q].step = "answered" /\ login[q].subject \in Subjects
  BY DEF FindIdentity, IdentitiesAgree
<1>1. SessionsTypeOK'
  <2>1. login' \in [Callbacks -> LoginRows]
    BY <1>0, LoginRowChanges DEF FindIdentity, SessionsTypeOK
  <2>2. /\ flow' \in [Flows -> {"none", "open", "expired", "used"}]
        /\ cookie' \in [flow : Flows \cup {None}, session : Callbacks \cup {None}]
        /\ UNCHANGED <<account, session, command>>
    BY DEF FindIdentity, SessionsTypeOK
  <2> QED
    BY <2>1, <2>2 DEF SessionsTypeOK, LoginRows
<1>2. /\ \A p \in Callbacks : p # q => login'[p] = login[p]
      /\ login'[q].step = "opening" /\ login'[q].user = account[login[q].subject]
      /\ login'[q].prior = login[q].prior /\ login'[q].subject = login[q].subject
      /\ \A p \in Callbacks : login[p].step = "opening" => login[p].subject # login[q].subject
      /\ UNCHANGED <<flow, cookie, account, session, command>>
  BY DEF FindIdentity, SubjectIsFree, SessionsTypeOK
<1>3. FlowsAreTakenOnce'
  BY <1>0, <1>2 DEF FlowsAreTakenOnce, Took
<1>4. SessionsOfLogins' /\ IdentitiesAgree'
  BY <1>0, <1>2 DEF SessionsOfLogins, IdentitiesAgree, Opened
<1>5. TokensNameSessions' /\ PriorSessionIsGone'
  BY <1>0, <1>2 DEF TokensNameSessions, Exists, PriorSessionIsGone, Live
<1> QED
  BY <1>1, <1>3, <1>4, <1>5

LEMMA ReceiveSessionKeeps ==
    ASSUME SessionsAssumption, SInv, NEW q \in Callbacks, ReceiveSession(q)
    PROVE  SInv'
<1> USE SessionsAssumption DEF SessionsAssumption, SInv
<1>1. SessionsTypeOK'
  <2>1. login' \in [Callbacks -> LoginRows]
    BY LoginRowChanges DEF ReceiveSession
  <2>2. /\ flow' \in [Flows -> {"none", "open", "expired", "used"}]
        /\ cookie' \in [flow : Flows \cup {None}, session : Callbacks \cup {None}]
        /\ UNCHANGED <<account, session, command>>
    BY DEF ReceiveSession, SessionsTypeOK
  <2> QED
    BY <2>1, <2>2 DEF SessionsTypeOK, LoginRows
<1>2. /\ \A p \in Callbacks : p # q => login'[p] = login[p]
      /\ login[q].step = "done" /\ login'[q].step = "received"
      /\ login'[q].prior = login[q].prior /\ login'[q].subject = login[q].subject
      /\ cookie'.session = q
      /\ UNCHANGED <<flow, account, session, command>>
  BY DEF ReceiveSession, SessionsTypeOK
<1>3. FlowsAreTakenOnce'
  BY <1>2 DEF FlowsAreTakenOnce, Took
<1>4. SessionsOfLogins' /\ IdentitiesAgree'
  BY <1>2 DEF SessionsOfLogins, IdentitiesAgree, Opened
<1>5. TokensNameSessions' /\ PriorSessionIsGone'
  BY <1>2 DEF TokensNameSessions, Exists, PriorSessionIsGone, Live, SessionsOfLogins, Opened
<1> QED
  BY <1>1, <1>3, <1>4, <1>5

LEMMA OpenSessionKeeps ==
    ASSUME SessionsAssumption, SInv, NEW q \in Callbacks, OpenSession(q)
    PROVE  SInv'
<1> USE SessionsAssumption DEF SessionsAssumption, SInv
<1> DEFINE s == login[q].subject
           user == IF login[q].user = None THEN q ELSE login[q].user
<1>0. /\ login[q].step = "opening" /\ s \in Subjects /\ login[q].user = account[s]
      /\ session[q].status = "none" /\ user \in Callbacks
      /\ login[q].prior # None => login[q].prior # q
  BY DEF OpenSession, IdentitiesAgree, SessionsOfLogins, SessionsTypeOK,
         TokensNameSessions, Exists
<1>1. /\ account' = [account EXCEPT ![s] = user]
      /\ session' = [p \in Callbacks |->
            IF p = q THEN [status |-> "live", user |-> user]
            ELSE IF p \in Rotated(q, user) THEN [session[p] EXCEPT !.status = "revoked"]
            ELSE session[p]]
      /\ login' = [login EXCEPT ![q].step = "done"]
      /\ UNCHANGED <<flow, cookie, command>>
  BY <1>0 DEF OpenSession
<1>2. SessionsTypeOK'
  <2>1. account' \in [Subjects -> Callbacks \cup {None}]
    BY <1>0, <1>1 DEF SessionsTypeOK
  <2>2. session' \in [Callbacks -> [status : {"none", "live", "revoked", "expired"},
                                    user : Callbacks \cup {None}]]
    BY <1>0, <1>1 DEF SessionsTypeOK
  <2>3. login' \in [Callbacks ->
           [step : {"idle", "sent", "exchanging", "answered", "opening", "done",
                    "received", "conflict", "ended"},
            binding : Flows \cup {None}, prior : Callbacks \cup {None},
            subject : Subjects \cup {None}, user : Callbacks \cup {None}]]
    BY <1>1, SMTT(30) DEF SessionsTypeOK
  <2> QED
    BY <1>1, <2>1, <2>2, <2>3 DEF SessionsTypeOK
<1>3. /\ \A p \in Callbacks : p # q => login'[p] = login[p]
      /\ login'[q].step = "done" /\ login'[q].prior = login[q].prior
      /\ login'[q].subject = s
  BY <1>1 DEF SessionsTypeOK
<1>4. \A x \in Subjects : x # s => account'[x] = account[x]
  BY <1>1 DEF SessionsTypeOK
<1>5. account'[s] = user /\ session'[q].user = user /\ session'[q].status = "live"
  BY <1>0, <1>1 DEF SessionsTypeOK
<1>6. \A p \in Callbacks : session[p].status # "none" =>
          /\ p # q /\ session'[p].status # "none" /\ session'[p].user = session[p].user
          /\ Live(p)' => Live(p)
  BY <1>0, <1>1 DEF SessionsTypeOK, Rotated, Live
<1>7. \A p \in Callbacks : p # q /\ session[p].status = "none" =>
          session'[p].status = "none" \/ p = login[q].prior
  BY <1>1 DEF Rotated
<1>8. \A p \in Callbacks : p # q /\ session[p].status = "none" => session'[p].status = "none"
  BY <1>7 DEF TokensNameSessions, Exists, SessionsTypeOK
<1>9. login[q].prior # None => ~Live(login[q].prior)'
  BY <1>0, <1>1 DEF Rotated, Live, SessionsTypeOK
<1> HIDE DEF user, s
<1>10. FlowsAreTakenOnce'
  BY <1>0, <1>1, <1>3, <1>5, <1>8 DEF FlowsAreTakenOnce, Took
<1>11. SessionsOfLogins'
  BY <1>0, <1>1, <1>3, <1>5, <1>6, <1>8 DEF SessionsOfLogins, Opened
<1>12. IdentitiesAgree'
  <2>1. \A p \in Callbacks \ {q} : Opened(p) => account'[login[p].subject] = account[login[p].subject]
    <3> SUFFICES ASSUME NEW p \in Callbacks \ {q}, Opened(p), login[p].subject = s
                 PROVE  user = account[s]
      BY <1>4, <1>5 DEF IdentitiesAgree, Opened
    <3>1. session[p].user = account[s] /\ session[p].user \in Callbacks
      BY DEF IdentitiesAgree, SessionsOfLogins
    <3> QED
      BY <1>0, <3>1 DEF user
  <2>2. \A p \in Callbacks \ {q} : login[p].step = "opening" => login[p].subject # s
    BY <1>0 DEF IdentitiesAgree, s
  <2>3. \A p \in Callbacks : Opened(p)' => session'[p].user = account'[login'[p].subject]
    <3> TAKE p \in Callbacks
    <3>1. CASE p = q
      BY <1>3, <1>5, <3>1
    <3>2. CASE p # q
      BY <1>3, <1>6, <2>1, <3>2 DEF IdentitiesAgree, SessionsOfLogins, Opened
    <3> QED
      BY <3>1, <3>2
  <2>4. \A p \in Callbacks : login'[p].step = "opening" =>
            p # q /\ login[p].step = "opening" /\ login'[p] = login[p]
    BY <1>3
  <2>5. \A p \in Callbacks : login'[p].step = "opening" =>
            login'[p].user = account'[login'[p].subject]
    BY <1>4, <2>2, <2>4 DEF IdentitiesAgree
  <2>6. \A p \in Callbacks :
            /\ login'[p].step # "conflict"
            /\ login'[p].step \in {"answered", "opening", "done", "received"} =>
                  login'[p].subject \in Subjects
    BY <1>0, <1>3 DEF IdentitiesAgree, s
  <2>7. \A p, r \in Callbacks :
            login'[p].step = "opening" /\ login'[r].step = "opening"
            /\ login'[p].subject = login'[r].subject => p = r
    BY <2>4 DEF IdentitiesAgree
  <2> QED
    BY <2>3, <2>5, <2>6, <2>7 DEF IdentitiesAgree
<1>13. TokensNameSessions'
  <2>1. \A token \in Callbacks \cup {None} : Exists(token) => Exists(token)'
    BY <1>6 DEF Exists
  <2>2. /\ cookie.session \in Callbacks \cup {None}
        /\ \A p \in Callbacks : login[p].prior \in Callbacks \cup {None}
        /\ \A c \in Commands : command[c].token \in Callbacks \cup {None}
    BY DEF SessionsTypeOK
  <2>3. \A p \in Callbacks : login'[p].prior = login[p].prior
    BY <1>3
  <2> QED
    BY <1>1, <2>1, <2>2, <2>3 DEF TokensNameSessions
<1>14. PriorSessionIsGone'
  <2> SUFFICES ASSUME NEW p \in Callbacks, login'[p].step \in {"done", "received"},
                      login'[p].prior # None
               PROVE  session'[login'[p].prior].status # "live"
    BY DEF PriorSessionIsGone, Live
  <2>1. CASE p = q
    BY <1>3, <1>9, <2>1 DEF Live
  <2>2. CASE p # q
    <3>1. login'[p] = login[p] /\ session[login[p].prior].status # "live"
      BY <1>3, <2>2 DEF PriorSessionIsGone, Live
    <3>2. login[p].prior \in Callbacks /\ session[login[p].prior].status # "none"
      BY <3>1 DEF TokensNameSessions, Exists, SessionsTypeOK
    <3> QED
      BY <1>6, <3>1, <3>2 DEF Live
  <2> QED
    BY <2>1, <2>2
<1> QED
  BY <1>2, <1>10, <1>11, <1>12, <1>13, <1>14

LEMMA SessionStepsKeep ==
    ASSUME SessionsAssumption, SInv, SessionMove
    PROVE  SInv'
<1>1. SessionEffects
  BY SessionStepsHaveEffects
<1>2. CASE UNCHANGED sessionVars
  BY <1>2 DEF sessionVars, SInv, SessionsTypeOK, FlowsAreTakenOnce, SessionsOfLogins, Took,
     IdentitiesAgree, TokensNameSessions, PriorSessionIsGone, Opened, Exists, Live
<1> QED
  BY <1>1, <1>2, FlowMovesKeep, CommandOnlyKeeps, SessionEndsKeeps, LoginEndsKeeps,
     SendCallbackKeeps, ConsumeKeeps, ProviderAnswersKeeps, FindIdentityKeeps,
     OpenSessionKeeps, ReceiveSessionKeeps DEF SessionEffects

LEMMA NextMovesSessions ==
    ASSUME [Next]_vars
    PROVE  SessionMove
<1>1. CASE UNCHANGED vars
  BY <1>1 DEF vars, SessionMove, sessionVars
<1>2. CASE SessionStep /\ UNCHANGED <<projectVars, credentialVars>>
  BY <1>2 DEF SessionMove
<1>3. CASE ProjectStep /\ UNCHANGED <<sessionVars, credentialVars>>
  BY <1>3 DEF SessionMove
<1>4. ASSUME NEW c \in Commands, Send(c) \/ Perform(c) \/ EndWithoutEffect(c)
      PROVE  SessionMove
  BY <1>4 DEF Send, Perform, EndWithoutEffect, CommandEnds, SessionMove
<1>5. CASE CallStep /\ UNCHANGED <<sessionVars, projectVars>>
  BY <1>5 DEF SessionMove
<1> QED
  BY <1>1, <1>2, <1>3, <1>4, <1>5 DEF Next

(* Every callback, however often it is delivered and whatever logins run    *)
(* beside it: a flow opens one session at most (consume_login_flow), no     *)
(* login of a person is turned away for another one's sake, and both end    *)
(* with the same user (the subject's advisory lock).                        *)
THEOREM LoginsOpenOneSession == Spec => []LoginsOpenOnce
<1> USE SessionsAssumption, AccountsAssumption
<1>1. Init => SInv
  BY SessionsInitially DEF Init
<1>2. SInv /\ [Next]_vars => SInv'
  BY NextMovesSessions, SessionStepsKeep
<1>3. SInv => LoginsOpenOnce
  BY DEF SInv, LoginsOpenOnce, FlowsAreTakenOnce, Took, IdentitiesAgree, Opened
<1> QED
  BY <1>1, <1>2, <1>3, PTL DEF Spec

(* The session that a browser brought to a login is not live any more once  *)
(* the login has opened another one, whoever it belonged to.                *)
THEOREM RotatedSessionIsGone == Spec => []PriorSessionIsGone
<1> USE SessionsAssumption, AccountsAssumption
<1>1. Init => SInv
  BY SessionsInitially DEF Init
<1>2. SInv /\ [Next]_vars => SInv'
  BY NextMovesSessions, SessionStepsKeep
<1>3. SInv => PriorSessionIsGone
  BY DEF SInv
<1> QED
  BY <1>1, <1>2, <1>3, PTL DEF Spec

-----------------------------------------------------------------------------
(* The inductive invariant of the projects' requests.                       *)
Answers == Errands \cup {"none", "done", "failed", "key_reused", "wait_timeout"}

ErrandRows == [step : {"begun", "claimed", "authorised", "ended"}, locks : 0..3,
               answer : Answers]

ProjectsTyped ==
    /\ member \in [Projects -> SUBSET Users]
    /\ record \in [{Scope(e) : e \in Creations} ->
          [status : {"none", "in_progress", "completed"}, by : Errands \cup {NoOne}]]
    /\ locked \in [Users \cup Projects -> Errands \cup {NoOne}]
    /\ errand \in [Errands -> ErrandRows]

(* A key in progress is in the hands of one creation that is at work.       *)
RecordsOfCreations ==
    /\ \A s \in DOMAIN record : record[s].status # "none" =>
          record[s].by \in Creations /\ Scope(record[s].by) = s
    /\ \A s \in DOMAIN record : record[s].status = "in_progress" =>
          errand[record[s].by].step = "claimed"
    /\ \A e \in Errands : errand[e].step = "claimed" =>
          e \in Creations /\ record[Scope(e)] = [status |-> "in_progress", by |-> e]

AnswersAreRecorded ==
    \A e \in Errands :
        /\ errand[e].step # "ended" => errand[e].answer = "none"
        /\ e \in Creations /\ errand[e].answer \in Errands =>
              /\ record[Scope(e)] = [status |-> "completed", by |-> errand[e].answer]
              /\ Work[errand[e].answer].title = Work[e].title

(* Row locks are held by whoever took them, in order, and is not done.      *)
LocksAreHeld ==
    \A e \in Errands :
        /\ errand[e].locks # 0 =>
              /\ e \notin Creations /\ errand[e].step \in {"begun", "authorised"}
              /\ errand[e].locks <= Len(RowsOf(e))
        /\ \A row \in Users \cup Projects :
              locked[row] = e <=> \E i \in 1..errand[e].locks : RowsOf(e)[i] = row

(* What was found when the request was authorised is still so: the rows it  *)
(* depends on are locked.                                                   *)
AuthorityLasts ==
    \A e \in Errands : errand[e].step = "authorised" =>
        e \notin Creations /\ errand[e].locks = Len(RowsOf(e)) /\ Authorised(e)

OwnersReviewOthers == \A p \in Projects : ProjectOwner[p] \notin member[p]

PInv ==
    /\ ProjectsTyped /\ RecordsOfCreations /\ AnswersAreRecorded
    /\ LocksAreHeld /\ AuthorityLasts /\ OwnersReviewOthers

(* The rows a request locks: one or two users, by id, and then the project. *)
LEMMA RowsInOrder ==
    ASSUME ProjectsAssumption, NEW e \in Errands, e \notin Creations
    PROVE  /\ Len(RowsOf(e)) \in 2..3
           /\ \A i \in 1..(Len(RowsOf(e)) - 1) : RowsOf(e)[i] \in Users
           /\ RowsOf(e)[Len(RowsOf(e))] = Work[e].project
           /\ Work[e].project \in Projects
           /\ Len(RowsOf(e)) = 3 => Rank[RowsOf(e)[1]] < Rank[RowsOf(e)[2]]
<1> USE ProjectsAssumption DEF ProjectsAssumption
<1>1. /\ Work[e].op \in {"assign", "remove", "review"}
      /\ Work[e].user \in Users /\ Work[e].project \in Projects
  BY DEF Creations
<1>2. CASE Work[e].op = "review"
  BY <1>1, <1>2 DEF RowsOf, AccessRows
<1>3. CASE Work[e].op # "review"
  <2> DEFINE u == Work[e].user
             v == Work[e].other
  <2>1. v \in Users /\ v # u
    BY <1>1, <1>3 DEF Assignable
  <2>2. Rank[u] \in Nat /\ Rank[v] \in Nat /\ Rank[u] # Rank[v]
    BY <1>1, <2>1
  <2>3. \E a, b \in Users : Rank[a] < Rank[b] /\ UsersInOrder(e) = <<a, b>>
    BY <1>1, <2>1, <2>2 DEF UsersInOrder
  <2>4. PICK a, b \in Users : Rank[a] < Rank[b] /\ UsersInOrder(e) = <<a, b>>
    BY <2>3
  <2>5. RowsOf(e) = Append(<<a, b>>, Work[e].project)
    BY <1>3, <2>4 DEF RowsOf
  <2> QED
    BY <1>1, <2>4, <2>5
<1> QED
  BY <1>2, <1>3

LEMMA ProjectsInitially ==
    ASSUME ProjectsAssumption, NEW coming, ProjectsInit(coming)
    PROVE  PInv
<1> USE ProjectsAssumption DEF ProjectsAssumption, ProjectsInit, Ended, NoRecord
<1>1. \A e \in Errands : /\ errand[e].step \in {"begun", "ended"} /\ errand[e].locks = 0
                         /\ errand[e].answer = "none"
  OBVIOUS
<1>2. errand \in [Errands -> ErrandRows]
  BY DEF ErrandRows, Answers
<1>3. ProjectsTyped
  BY <1>2 DEF ProjectsTyped
<1>4. \A row \in Users \cup Projects : locked[row] \notin Errands
  OBVIOUS
<1>5. \A s \in DOMAIN record : record[s].status = "none"
  OBVIOUS
<1>6. LocksAreHeld /\ AuthorityLasts /\ RecordsOfCreations
  BY <1>1, <1>4, <1>5 DEF LocksAreHeld, AuthorityLasts, RecordsOfCreations
<1>7. AnswersAreRecorded /\ OwnersReviewOthers
  BY <1>1 DEF AnswersAreRecorded, OwnersReviewOthers
<1> QED
  BY <1>3, <1>6, <1>7 DEF PInv

-----------------------------------------------------------------------------
(* One request moves; the others and their locks stay as they are.          *)
Moves(e, step, locks, answer) ==
    /\ errand'[e] = [step |-> step, locks |-> locks, answer |-> answer]
    /\ \A f \in Errands : f # e => errand'[f] = errand[f]

LEMMA ErrandMoves ==
    ASSUME ProjectsTyped, NEW e \in Errands,
           NEW step \in {"begun", "claimed", "authorised", "ended"},
           NEW locks \in 0..3, NEW answer \in Answers,
           errand' = [errand EXCEPT ![e] = [step |-> step, locks |-> locks, answer |-> answer]]
    PROVE  Moves(e, step, locks, answer) /\ errand' \in [Errands -> ErrandRows]
  BY DEF ProjectsTyped, ErrandRows, Moves

LEMMA StepOfErrand ==
    ASSUME ProjectsTyped, NEW e \in Errands, NEW step,
           errand' = [errand EXCEPT ![e].step = step]
    PROVE  errand' = [errand EXCEPT ![e] = [step |-> step, locks |-> errand[e].locks,
                                           answer |-> errand[e].answer]]
<1>1. errand[e] \in ErrandRows /\ errand \in [Errands -> ErrandRows]
  BY DEF ProjectsTyped
<1>2. [errand[e] EXCEPT !.step = step] = [step |-> step, locks |-> errand[e].locks,
                                          answer |-> errand[e].answer]
  BY <1>1 DEF ErrandRows
<1> QED
  BY <1>1, <1>2

LEMMA ScopesAreRecorded ==
    ASSUME ProjectsTyped, NEW e \in Creations
    PROVE  Scope(e) \in DOMAIN record /\ e \in Errands
  BY DEF ProjectsTyped, Creations

LEMMA AnswerNames ==
    /\ 0 \in 0..3
    /\ {"none", "done", "failed", "key_reused", "wait_timeout"} \subseteq Answers
    /\ Errands \subseteq Answers
  BY DEF Answers

LEMMA NoAnswerIsAnErrand ==
    ASSUME ProjectsAssumption
    PROVE  \A answer \in {"none", "done", "failed", "key_reused", "wait_timeout"} :
               answer \notin Errands
  BY DEF ProjectsAssumption

LEMMA AuthorityNeedsMembers ==
    ASSUME UNCHANGED member, NEW e
    PROVE  Authorised(e)' <=> Authorised(e)
  BY DEF Authorised, HasAccess

(* A step that touches neither locks nor members, of a request without.     *)
LEMMA LocksUntouched ==
    ASSUME LocksAreHeld, AuthorityLasts, OwnersReviewOthers, UNCHANGED <<member, locked>>,
           NEW e \in Errands, NEW step \in {"claimed", "ended"}, NEW answer,
           errand[e].locks = 0, Moves(e, step, 0, answer), step = "claimed" => e \in Creations
    PROVE  LocksAreHeld' /\ AuthorityLasts' /\ OwnersReviewOthers'
<1>1. \A f \in Errands : errand'[f].locks = errand[f].locks
  BY DEF Moves
<1>2. /\ \A f \in Errands : f # e => errand'[f].step = errand[f].step
      /\ errand'[e].step = step
  BY DEF Moves
<1>3. LocksAreHeld'
  BY <1>1, <1>2 DEF LocksAreHeld
<1>4. AuthorityLasts'
  BY <1>1, <1>2, AuthorityNeedsMembers DEF AuthorityLasts
<1>5. OwnersReviewOthers'
  BY DEF OwnersReviewOthers
<1> QED
  BY <1>3, <1>4, <1>5

(* A step that touches no key, of a request that is no creation at work.    *)
LEMMA RecordsUntouched ==
    ASSUME ProjectsAssumption, ProjectsTyped, RecordsOfCreations, AnswersAreRecorded,
           UNCHANGED record,
           NEW e \in Errands, NEW step \in {"begun", "authorised", "ended"}, NEW locks, NEW answer,
           errand[e].step # "claimed", Moves(e, step, locks, answer),
           answer \notin Errands, step # "ended" => answer = "none"
    PROVE  RecordsOfCreations' /\ AnswersAreRecorded'
<1>1. \A f \in Errands : errand'[f].step = "claimed" <=> errand[f].step = "claimed"
  BY DEF Moves
<1>2. \A s \in DOMAIN record : record[s].status # "none" => record[s].by \in Errands
  BY DEF RecordsOfCreations, Creations
<1>3. RecordsOfCreations'
  BY <1>1, <1>2 DEF RecordsOfCreations
<1>4. AnswersAreRecorded'
  BY SMTT(30) DEF AnswersAreRecorded, Moves
<1> QED
  BY <1>3, <1>4

LEMMA ClaimKeeps ==
    ASSUME ProjectsAssumption, PInv, NEW e \in Errands, Claim(e)
    PROVE  PInv'
<1> USE DEF PInv
<1>1. /\ errand[e].step = "begun" /\ e \in Creations /\ record[Scope(e)].status = "none"
      /\ record' = [record EXCEPT ![Scope(e)] = [status |-> "in_progress", by |-> e]]
      /\ errand' = [errand EXCEPT ![e].step = "claimed"]
      /\ UNCHANGED <<member, locked>>
  BY DEF Claim, Claimable
<1>2. errand[e].locks = 0 /\ errand[e].answer = "none"
  BY <1>1 DEF LocksAreHeld, AnswersAreRecorded
<1>3. errand' = [errand EXCEPT ![e] = [step |-> "claimed", locks |-> 0, answer |-> "none"]]
  BY <1>1, <1>2, StepOfErrand, ZenonT(40)
<1>4. Moves(e, "claimed", 0, "none") /\ errand' \in [Errands -> ErrandRows]
  BY <1>3, ErrandMoves, AnswerNames
<1>5. /\ Scope(e) \in DOMAIN record /\ DOMAIN record' = DOMAIN record
      /\ record'[Scope(e)] = [status |-> "in_progress", by |-> e]
      /\ \A s \in DOMAIN record : s # Scope(e) => record'[s] = record[s]
  BY <1>1, ScopesAreRecorded
<1>6. ProjectsTyped'
  BY <1>1, <1>4 DEF ProjectsTyped
<1>7. RecordsOfCreations'
  BY <1>1, <1>4, <1>5, ScopesAreRecorded DEF RecordsOfCreations, Moves
<1>8. AnswersAreRecorded'
  BY <1>1, <1>2, <1>4, <1>5, ScopesAreRecorded DEF AnswersAreRecorded, Moves
<1>9. LocksAreHeld' /\ AuthorityLasts' /\ OwnersReviewOthers'
  BY <1>1, <1>2, <1>4, LocksUntouched
<1> QED
  BY <1>6, <1>7, <1>8, <1>9

LEMMA CommitProjectKeeps ==
    ASSUME ProjectsAssumption, PInv, NEW e \in Errands, CommitProject(e)
    PROVE  PInv'
<1> USE DEF PInv
<1>1. /\ errand[e].step = "claimed"
      /\ record' = [record EXCEPT ![Scope(e)] = [status |-> "completed", by |-> e]]
      /\ errand' = [errand EXCEPT ![e] = [step |-> "ended", locks |-> 0, answer |-> e]]
      /\ UNCHANGED <<member, locked>>
  BY DEF CommitProject, Ended
<1>2. /\ errand[e].locks = 0 /\ e \in Creations
      /\ record[Scope(e)] = [status |-> "in_progress", by |-> e]
  BY <1>1 DEF LocksAreHeld, RecordsOfCreations
<1>4. Moves(e, "ended", 0, e) /\ errand' \in [Errands -> ErrandRows]
  BY <1>1, ErrandMoves, AnswerNames
<1>5. /\ Scope(e) \in DOMAIN record /\ DOMAIN record' = DOMAIN record
      /\ record'[Scope(e)] = [status |-> "completed", by |-> e]
      /\ \A s \in DOMAIN record : s # Scope(e) => record'[s] = record[s]
  BY <1>1, <1>2, ScopesAreRecorded
<1>6. ProjectsTyped'
  BY <1>1, <1>4 DEF ProjectsTyped
<1>7. RecordsOfCreations'
  BY <1>1, <1>2, <1>4, <1>5, ScopesAreRecorded DEF RecordsOfCreations, Moves
<1>8. AnswersAreRecorded'
  <2>1. ASSUME NEW f \in Creations, f # e, errand[f].answer \in Errands
        PROVE  record'[Scope(f)] = record[Scope(f)]
    <3>1. f \in Errands /\ Scope(f) \in DOMAIN record
      BY ScopesAreRecorded
    <3>2. record[Scope(f)].status = "completed" /\ record[Scope(e)].status = "in_progress"
      <4>1. record[Scope(f)] = [status |-> "completed", by |-> errand[f].answer]
        BY <2>1, <3>1 DEF AnswersAreRecorded
      <4> QED
        BY <1>2, <4>1
    <3> QED
      BY <1>5, <3>1, <3>2
  <2>2. \A f \in Errands : f # e => errand'[f] = errand[f]
    BY <1>4 DEF Moves
  <2>3. errand'[e].step = "ended" /\ errand'[e].answer = e
    BY <1>4 DEF Moves
  <2> QED
    BY <1>5, <2>1, <2>2, <2>3 DEF AnswersAreRecorded
<1>9. LocksAreHeld' /\ AuthorityLasts' /\ OwnersReviewOthers'
  BY <1>1, <1>2, <1>4, LocksUntouched
<1> QED
  BY <1>6, <1>7, <1>8, <1>9

LEMMA AnsweredKeeps ==
    ASSUME ProjectsAssumption, PInv, NEW e \in Errands, Replay(e) \/ WaitTimesOut(e)
    PROVE  PInv' /\ errand'[e].answer # "done"
<1> USE DEF PInv
<1> DEFINE by == record[Scope(e)].by
<1>0. /\ errand[e].step = "begun" /\ e \in Creations
      /\ record[Scope(e)].status \in {"completed", "in_progress"}
      /\ UNCHANGED <<member, record, locked>>
  BY DEF Replay, WaitTimesOut
<1>1. /\ errand[e].locks = 0 /\ by \in Errands
      /\ \A x \in Errands : x \notin {"none", "done", "failed", "key_reused", "wait_timeout"}
  BY <1>0, ScopesAreRecorded
     DEF LocksAreHeld, RecordsOfCreations, Creations, ProjectsAssumption
<1>2. PICK answer \in Answers :
          /\ errand' = [errand EXCEPT ![e] = [step |-> "ended", locks |-> 0, answer |-> answer]]
          /\ answer \in Errands =>
                answer = by /\ record[Scope(e)].status = "completed" /\ SameCommand(e)
          /\ answer # "done"
  <2>1. CASE WaitTimesOut(e)
    BY <1>1, <2>1 DEF WaitTimesOut, Ended, Answers
  <2>2. CASE Replay(e) /\ SameCommand(e)
    BY <1>1, <2>2 DEF Replay, Ended, Answers
  <2>3. CASE Replay(e) /\ ~SameCommand(e)
    BY <1>1, <2>3 DEF Replay, Ended, Answers
  <2> QED
    BY <2>1, <2>2, <2>3
<1>3. Moves(e, "ended", 0, answer) /\ errand' \in [Errands -> ErrandRows]
  BY <1>2, ErrandMoves, AnswerNames
<1>4. ProjectsTyped'
  BY <1>0, <1>3 DEF ProjectsTyped
<1>5. RecordsOfCreations'
  <2>1. \A f \in Errands : errand'[f].step = "claimed" <=> errand[f].step = "claimed"
    BY <1>0, <1>3 DEF Moves
  <2>2. \A s \in DOMAIN record : record[s].status # "none" => record[s].by \in Errands
    BY DEF RecordsOfCreations, Creations
  <2> QED
    BY <1>0, <2>1, <2>2 DEF RecordsOfCreations
<1>6. AnswersAreRecorded'
  <2>1. record[Scope(e)].status = "completed" => record[Scope(e)] = [status |-> "completed", by |-> by]
    BY <1>0, ScopesAreRecorded DEF ProjectsTyped
  <2> QED
    BY <1>0, <1>2, <1>3, <2>1, ZenonT(40) DEF AnswersAreRecorded, Moves, SameCommand
<1>7. LocksAreHeld' /\ AuthorityLasts' /\ OwnersReviewOthers'
  BY <1>0, <1>1, <1>3, LocksUntouched
<1> QED
  BY <1>2, <1>3, <1>4, <1>5, <1>6, <1>7 DEF Moves

LEMMA LockRowKeeps ==
    ASSUME ProjectsAssumption, PInv, NEW e \in Errands, LockRow(e)
    PROVE  PInv' /\ errand'[e].answer # "done"
<1> USE DEF PInv
<1> DEFINE n == errand[e].locks + 1
           row == NextRow(e)
<1>1. /\ errand[e].step = "begun" /\ e \notin Creations
      /\ errand[e].locks < Len(RowsOf(e)) /\ locked[row] = NoOne
      /\ locked' = [locked EXCEPT ![row] = e]
      /\ errand' = [errand EXCEPT ![e].locks = @ + 1]
      /\ UNCHANGED <<member, record>>
  BY DEF LockRow, AtLocks
<1>2. /\ errand[e].answer = "none" /\ errand[e].locks \in Nat
      /\ errand[e] \in ErrandRows /\ NoOne \notin Errands
  <2>1. errand[e] \in ErrandRows
    BY DEF ProjectsTyped
  <2>2. errand[e].locks \in Nat
    BY <2>1 DEF ErrandRows
  <2> QED
    BY <1>1, <2>1, <2>2 DEF AnswersAreRecorded, ProjectsAssumption
<1>3. n \in 1..Len(RowsOf(e)) /\ n \in 0..3 /\ row = RowsOf(e)[n] /\ row \in Users \cup Projects
  <2>1. n \in 1..Len(RowsOf(e)) /\ n \in 0..3
    <3>1. Len(RowsOf(e)) \in 2..3
      BY <1>1, RowsInOrder
    <3>2. errand[e].locks \in Nat /\ errand[e].locks < Len(RowsOf(e))
      BY <1>1, <1>2
    <3>3. \A len \in 2..3, k \in Nat : k < len => k + 1 \in 1..len /\ k + 1 \in 0..3
      OBVIOUS
    <3> QED
      BY <3>1, <3>2, <3>3
  <2>2. CASE n = Len(RowsOf(e))
    BY <1>1, <2>1, <2>2, RowsInOrder DEF NextRow
  <2>3. CASE n # Len(RowsOf(e))
    <3>1. n \in 1..(Len(RowsOf(e)) - 1)
      BY <1>1, <2>1, <2>3, RowsInOrder
    <3> QED
      BY <1>1, <2>1, <3>1, RowsInOrder DEF NextRow
  <2> QED
    BY <2>2, <2>3
<1>4. errand' = [errand EXCEPT ![e] = [step |-> "begun", locks |-> n, answer |-> "none"]]
  <2>1. [errand[e] EXCEPT !.locks = @ + 1] = [step |-> "begun", locks |-> n, answer |-> "none"]
    BY <1>1, <1>2 DEF ErrandRows
  <2> QED
    BY <1>1, <2>1 DEF ProjectsTyped
<1>5. Moves(e, "begun", n, "none") /\ errand' \in [Errands -> ErrandRows]
  BY <1>3, <1>4, ErrandMoves DEF Answers
<1>6. locked'[row] = e /\ \A r \in Users \cup Projects : r # row => locked'[r] = locked[r]
  BY <1>1, <1>3 DEF ProjectsTyped
<1>7. ProjectsTyped'
  BY <1>1, <1>5 DEF ProjectsTyped
<1>8. RecordsOfCreations' /\ AnswersAreRecorded' /\ OwnersReviewOthers'
  BY <1>1, <1>5, RecordsUntouched, NoAnswerIsAnErrand DEF OwnersReviewOthers
<1>9. AuthorityLasts'
  BY <1>1, <1>5, AuthorityNeedsMembers DEF AuthorityLasts, Moves
<1>10. LocksAreHeld'
  <2> SUFFICES ASSUME NEW f \in Errands
               PROVE  /\ errand'[f].locks # 0 =>
                            /\ f \notin Creations /\ errand'[f].step \in {"begun", "authorised"}
                            /\ errand'[f].locks <= Len(RowsOf(f))
                      /\ \A r \in Users \cup Projects :
                            locked'[r] = f <=> \E i \in 1..errand'[f].locks : RowsOf(f)[i] = r
    BY DEF LocksAreHeld, RowsOf, UsersInOrder, AccessRows
  <2>1. CASE f # e
    BY <1>1, <1>2, <1>5, <1>6, <2>1 DEF LocksAreHeld, Moves
  <2>2. CASE f = e
    <3>1. errand'[e].locks = n /\ errand'[e].step = "begun"
      BY <1>5 DEF Moves
    <3>2. ASSUME NEW r \in Users \cup Projects
          PROVE  locked'[r] = e <=> \E i \in 1..n : RowsOf(e)[i] = r
      <4>1. locked[r] = e <=> \E i \in 1..(n - 1) : RowsOf(e)[i] = r
        BY <1>2 DEF LocksAreHeld
      <4> HIDE DEF n, row
      <4>2. (\E i \in 1..n : RowsOf(e)[i] = r)
               <=> (\E i \in 1..(n - 1) : RowsOf(e)[i] = r) \/ RowsOf(e)[n] = r
        BY <1>3
      <4> QED
        BY <1>3, <1>6, <4>1, <4>2
    <3> QED
      BY <1>1, <1>3, <2>2, <3>1, <3>2
  <2> QED
    BY <2>1, <2>2
<1> QED
  BY <1>5, <1>7, <1>8, <1>9, <1>10 DEF Moves

LEMMA AuthoriseKeeps ==
    ASSUME ProjectsAssumption, PInv, NEW e \in Errands, Authorise(e)
    PROVE  PInv' /\ errand'[e].answer # "done"
<1> USE DEF PInv
<1>1. /\ errand[e].step = "begun" /\ e \notin Creations
      /\ errand[e].locks = Len(RowsOf(e)) /\ Authorised(e)
      /\ errand' = [errand EXCEPT ![e].step = "authorised"]
      /\ UNCHANGED <<member, record, locked>>
  BY DEF Authorise, AtLocks
<1>2. errand[e].answer = "none" /\ errand[e].locks \in 0..3
  BY <1>1 DEF AnswersAreRecorded, ProjectsTyped, ErrandRows
<1>3. errand' = [errand EXCEPT ![e] = [step |-> "authorised", locks |-> errand[e].locks,
                                      answer |-> "none"]]
  BY <1>1, <1>2, StepOfErrand
<1>4. Moves(e, "authorised", errand[e].locks, "none") /\ errand' \in [Errands -> ErrandRows]
  BY <1>2, <1>3, ErrandMoves DEF Answers
<1>5. ProjectsTyped'
  BY <1>1, <1>4 DEF ProjectsTyped
<1>6. RecordsOfCreations' /\ AnswersAreRecorded' /\ OwnersReviewOthers'
  BY <1>1, <1>4, RecordsUntouched, NoAnswerIsAnErrand DEF OwnersReviewOthers
<1>7. AuthorityLasts'
  BY <1>1, <1>4, AuthorityNeedsMembers DEF AuthorityLasts, Moves
<1>8. LocksAreHeld'
  <2>1. \A f \in Errands : errand'[f].locks = errand[f].locks
    BY <1>4 DEF Moves
  <2>2. /\ \A f \in Errands : f # e => errand'[f].step = errand[f].step
        /\ errand'[e].step = "authorised"
    BY <1>4 DEF Moves
  <2> QED
    BY <1>1, <2>1, <2>2 DEF LocksAreHeld
<1> QED
  BY <1>4, <1>5, <1>6, <1>7, <1>8 DEF Moves

(* Both ways for a request with locks to end give them back.                *)
LEMMA ReleaseKeepsLocks ==
    ASSUME ProjectsAssumption, ProjectsTyped, LocksAreHeld, NEW e \in Errands,
           locked' = Released(e), NEW answer, Moves(e, "ended", 0, answer)
    PROVE  LocksAreHeld' /\ locked' \in [Users \cup Projects -> Errands \cup {NoOne}]
<1>1. /\ locked \in [Users \cup Projects -> Errands \cup {NoOne}] /\ NoOne \notin Errands
      /\ locked' = [row \in Users \cup Projects |-> IF locked[row] = e THEN NoOne ELSE locked[row]]
  BY DEF ProjectsTyped, Released, ProjectsAssumption
<1>2. locked' \in [Users \cup Projects -> Errands \cup {NoOne}]
  BY <1>1
<1>3. \A row \in Users \cup Projects, f \in Errands :
          locked'[row] = f <=> locked[row] = f /\ f # e
  BY <1>1
<1>4. \A f \in Errands : f # e => errand'[f] = errand[f]
  BY DEF Moves
<1>5. errand'[e].locks = 0
  BY DEF Moves
<1>6. LocksAreHeld'
  BY <1>3, <1>4, <1>5 DEF LocksAreHeld
<1> QED
  BY <1>2, <1>6

LEMMA CommitKeeps ==
    ASSUME ProjectsAssumption, PInv, NEW e \in Errands, Commit(e)
    PROVE  PInv'
<1> USE DEF PInv
<1> DEFINE p == Work[e].project
<1>1. /\ errand[e].step = "authorised" /\ locked' = Released(e)
      /\ errand' = [errand EXCEPT ![e] = [step |-> "ended", locks |-> 0, answer |-> "done"]]
      /\ UNCHANGED record
  BY DEF Commit, Ended
<1>2. /\ e \notin Creations /\ errand[e].locks = Len(RowsOf(e)) /\ Authorised(e)
      /\ Work[e].op \in {"assign", "remove", "review"} /\ p \in Projects
      /\ Work[e].user \in Users
  BY <1>1, RowsInOrder DEF AuthorityLasts, ProjectsAssumption, Creations
<1>3. Moves(e, "ended", 0, "done") /\ errand' \in [Errands -> ErrandRows]
  BY <1>1, ErrandMoves, AnswerNames
<1>4. RecordsOfCreations' /\ AnswersAreRecorded'
  BY <1>1, <1>3, RecordsUntouched, NoAnswerIsAnErrand
<1>5. LocksAreHeld' /\ locked' \in [Users \cup Projects -> Errands \cup {NoOne}]
  BY <1>1, <1>3, ReleaseKeepsLocks
<1>6. /\ member' \in [Projects -> SUBSET Users]
      /\ \A r \in Projects : r # p => member'[r] = member[r]
      /\ member' # member => Work[e].op \in {"assign", "remove"}
      /\ ProjectOwner[p] \notin member'[p]
  <2>0. member \in [Projects -> SUBSET Users] /\ ProjectOwner[p] \notin member[p]
    BY <1>2 DEF ProjectsTyped, OwnersReviewOthers
  <2>1. CASE Work[e].op = "assign"
    <3>1. member' = [member EXCEPT ![p] = @ \cup {Work[e].other}]
      BY <2>1 DEF Commit
    <3>2. Work[e].other \in Users /\ Work[e].other # ProjectOwner[p]
      BY <1>2, <2>1 DEF ProjectsAssumption, Assignable, Authorised
    <3> QED
      BY <1>2, <2>0, <2>1, <3>1, <3>2
  <2>2. CASE Work[e].op = "remove"
    <3>1. member' = [member EXCEPT ![p] = @ \ {Work[e].other}]
      BY <2>2 DEF Commit
    <3> QED
      BY <1>2, <2>0, <2>2, <3>1
  <2>3. CASE Work[e].op = "review"
    <3>1. member' = member
      BY <2>3 DEF Commit
    <3> QED
      BY <2>0, <3>1
  <2> QED
    BY <1>2, <2>1, <2>2, <2>3
<1>7. ProjectsTyped'
  BY <1>1, <1>3, <1>5, <1>6 DEF ProjectsTyped
<1>8. OwnersReviewOthers'
  BY <1>6 DEF OwnersReviewOthers
<1>9. AuthorityLasts'
  <2> SUFFICES ASSUME NEW f \in Errands, errand'[f].step = "authorised"
               PROVE  f \notin Creations /\ errand'[f].locks = Len(RowsOf(f)) /\ Authorised(f)'
    BY DEF AuthorityLasts, RowsOf, UsersInOrder, AccessRows
  <2>1. f # e /\ errand'[f] = errand[f]
    BY <1>3 DEF Moves
  <2>2. /\ errand[f].step = "authorised" /\ f \notin Creations
        /\ errand[f].locks = Len(RowsOf(f)) /\ Authorised(f)
    BY <2>1 DEF AuthorityLasts
  <2>3. Work[f].project # p
    <3> SUFFICES ASSUME Work[f].project = p PROVE FALSE
      OBVIOUS
    <3>0. \A len \in 2..3 : len \in 1..len
      OBVIOUS
    <3>1. locked[p] = e
      <4>0. Len(RowsOf(e)) \in 2..3 /\ RowsOf(e)[Len(RowsOf(e))] = p
        BY <1>2, RowsInOrder
      <4>1. Len(RowsOf(e)) \in 1..Len(RowsOf(e))
        BY <4>0, <3>0
      <4> QED
        BY <1>2, <1>2, <4>0, <4>1 DEF LocksAreHeld
    <3>2. locked[p] = f
      <4>0. Len(RowsOf(f)) \in 2..3 /\ RowsOf(f)[Len(RowsOf(f))] = p
        BY <2>2, RowsInOrder
      <4>1. Len(RowsOf(f)) \in 1..Len(RowsOf(f))
        BY <4>0, <3>0
      <4> QED
        BY <1>2, <2>2, <4>0, <4>1 DEF LocksAreHeld
    <3> QED
      BY <2>1, <3>1, <3>2
  <2>4. Work[f].project \in Projects
    BY <2>2, RowsInOrder
  <2>5. Authorised(f)'
    BY <1>6, <2>2, <2>3, <2>4 DEF Authorised, HasAccess
  <2> QED
    BY <2>1, <2>2, <2>5
<1> QED
  BY <1>4, <1>5, <1>7, <1>8, <1>9

LEMMA RollBackKeeps ==
    ASSUME ProjectsAssumption, PInv, NEW e \in Errands, RollBack(e)
    PROVE  PInv' /\ errand'[e].answer # "done"
<1> USE DEF PInv
<1>1. /\ errand[e].step # "ended" /\ locked' = Released(e)
      /\ errand' = [errand EXCEPT ![e] = [step |-> "ended", locks |-> 0, answer |-> "failed"]]
      /\ UNCHANGED member
      /\ errand[e].step # "claimed" => record' = record
      /\ errand[e].step = "claimed" =>
            record' = [record EXCEPT ![Scope(e)] = [status |-> "none", by |-> NoOne]]
  BY DEF RollBack, Ended, NoRecord
<1>2. Moves(e, "ended", 0, "failed") /\ errand' \in [Errands -> ErrandRows]
  BY <1>1, ErrandMoves, AnswerNames
<1>3. LocksAreHeld' /\ locked' \in [Users \cup Projects -> Errands \cup {NoOne}]
  BY <1>1, <1>2, ReleaseKeepsLocks
<1>4. OwnersReviewOthers'
  BY <1>1 DEF OwnersReviewOthers
<1>5. AuthorityLasts'
  BY <1>1, <1>2, AuthorityNeedsMembers DEF AuthorityLasts, Moves
<1>6. ProjectsTyped'
  BY <1>1, <1>2, <1>3 DEF ProjectsTyped
<1>7. CASE errand[e].step # "claimed"
  <2>1. RecordsOfCreations' /\ AnswersAreRecorded'
    BY <1>1, <1>2, <1>7, RecordsUntouched, NoAnswerIsAnErrand
  <2> QED
    BY <1>2, <1>3, <1>4, <1>5, <1>6, <2>1 DEF Moves
<1>8. CASE errand[e].step = "claimed"
  <2>1. e \in Creations /\ record[Scope(e)] = [status |-> "in_progress", by |-> e]
    BY <1>8 DEF RecordsOfCreations
  <2>2. /\ Scope(e) \in DOMAIN record /\ DOMAIN record' = DOMAIN record
        /\ record'[Scope(e)].status = "none"
        /\ \A s \in DOMAIN record : s # Scope(e) => record'[s] = record[s]
    BY <1>1, <1>8, <2>1, ScopesAreRecorded
  <2>3. \A f \in Errands : f # e => errand'[f] = errand[f]
    BY <1>2 DEF Moves
  <2>4. errand'[e].step = "ended" /\ errand'[e].answer \notin Errands
    BY <1>2, NoAnswerIsAnErrand DEF Moves
  <2>5. \A f \in Creations : Scope(f) \in DOMAIN record
    BY ScopesAreRecorded
  <2>6. \A s \in DOMAIN record : record[s].status # "none" => record[s].by \in Errands
    BY DEF RecordsOfCreations, Creations
  <2>7. RecordsOfCreations'
    BY <2>1, <2>2, <2>3, <2>4, <2>5, <2>6 DEF RecordsOfCreations
  <2>8. AnswersAreRecorded'
    BY <2>1, <2>2, <2>3, <2>4, <2>5 DEF AnswersAreRecorded
  <2> QED
    BY <1>2, <1>3, <1>4, <1>5, <1>6, <2>7, <2>8 DEF Moves
<1> QED
  BY <1>7, <1>8

LEMMA ProjectStepsKeep ==
    ASSUME ProjectsAssumption, PInv, [ProjectStep]_projectVars
    PROVE  PInv'
<1>1. CASE UNCHANGED projectVars
  BY <1>1 DEF projectVars, PInv, ProjectsTyped, RecordsOfCreations, AnswersAreRecorded,
     LocksAreHeld, AuthorityLasts, OwnersReviewOthers, Authorised, HasAccess
<1> QED
  BY <1>1, ClaimKeeps, AnsweredKeeps, CommitProjectKeeps, LockRowKeeps, AuthoriseKeeps,
     CommitKeeps, RollBackKeeps DEF ProjectStep

LEMMA NextMovesProjects ==
    ASSUME [Next]_vars
    PROVE  [ProjectStep]_projectVars
<1>1. CASE UNCHANGED vars
  BY <1>1 DEF vars, projectVars
<1>2. CASE Next
  BY <1>2 DEF Next, Send, Perform, EndWithoutEffect
<1> QED
  BY <1>1, <1>2

(* What the pages list for a user follows who may open the projects.        *)
LEMMA ListedProjects ==
    ASSUME ProjectsAssumption, PInv, NEW user \in Users, NEW p \in Projects
    PROVE  p \in DOMAIN Listed(user) <=> HasAccess(user, p)
<1>1. \A s \in DOMAIN record : record[s].status = "completed" => record[s].by \in Errands
  BY DEF PInv, RecordsOfCreations, Creations
<1>2. p \notin Errands
  BY DEF ProjectsAssumption
<1>3. p \notin Created(user)
  BY <1>1, <1>2 DEF Created
<1> QED
  BY <1>3 DEF Listed, OwnedBy, HasAccess

(* However often the creation of a project is repeated under one key,       *)
(* whoever waits, times out or is rolled back: one project, one answer, and *)
(* everyone is listed exactly what they may open.                           *)
THEOREM CreationIsIdempotent == Spec => []OneProjectPerKey
<1> USE ProjectsAssumption
<1>1. Init => PInv
  BY ProjectsInitially DEF Init
<1>2. PInv /\ [Next]_vars => PInv'
  BY NextMovesProjects, ProjectStepsKeep
<1>3. ASSUME PInv PROVE OneProjectPerKey
  <2>1. ProjectsTypeOK
    BY <1>3 DEF PInv, ProjectsTyped, ErrandRows, ProjectsTypeOK
  <2>2. ASSUME NEW e \in Creations, errand[e].answer \in Errands
        PROVE  /\ record[Scope(e)] = [status |-> "completed", by |-> errand[e].answer]
               /\ Work[errand[e].answer].title = Work[e].title
               /\ Listed(Work[e].user)[errand[e].answer] = "owner"
    <3>1. /\ record[Scope(e)] = [status |-> "completed", by |-> errand[e].answer]
          /\ Work[errand[e].answer].title = Work[e].title
      BY <1>3, <2>2 DEF PInv, AnswersAreRecorded, Creations
    <3>2. Scope(e) \in DOMAIN record /\ Scope(e)[1] = Work[e].user
      BY <1>3, ScopesAreRecorded DEF PInv, Scope
    <3>3. errand[e].answer \in Created(Work[e].user)
      BY <3>1, <3>2 DEF Created
    <3> QED
      BY <3>1, <3>3 DEF Listed, OwnedBy
  <2>3. \A user \in Users, p \in Projects :
            /\ p \in DOMAIN Listed(user) <=> HasAccess(user, p)
            /\ ProjectOwner[p] = user => user \notin member[p]
    BY <1>3, ListedProjects DEF PInv, OwnersReviewOthers
  <2> QED
    BY <2>1, <2>2, <2>3 DEF OneProjectPerKey
<1> QED
  BY <1>1, <1>2, <1>3, PTL DEF Spec

(* Whoever removes a reviewer while that reviewer decides: what commits was *)
(* decided by somebody who has access when it commits.                      *)
THEOREM DecisionsAreMembers == Spec => OnlyMembersDecide
<1> USE ProjectsAssumption
<1>1. Init => PInv
  BY ProjectsInitially DEF Init
<1>2. PInv /\ [Next]_vars => PInv'
  BY NextMovesProjects, ProjectStepsKeep
<1>3. ASSUME PInv, [Next]_vars
      PROVE  [\A e \in Errands :
                 Work[e].op = "review" /\ errand[e].step # "ended" /\ errand'[e].answer = "done" =>
                     HasAccess(Work[e].user, Work[e].project)]_projectVars
  <2> SUFFICES ASSUME NEW e \in Errands, Work[e].op = "review", errand[e].step # "ended",
                      errand'[e].answer = "done", ~UNCHANGED projectVars
               PROVE  HasAccess(Work[e].user, Work[e].project)
    OBVIOUS
  <2>1. errand[e].answer = "none"
    BY <1>3 DEF PInv, AnswersAreRecorded
  <2>2. PICK f \in Errands :
            \/ Claim(f) \/ Replay(f) \/ WaitTimesOut(f) \/ CommitProject(f)
            \/ LockRow(f) \/ Authorise(f) \/ Commit(f) \/ RollBack(f)
    BY <1>3, NextMovesProjects DEF ProjectStep
  <2>3. errand \in [Errands -> ErrandRows]
    BY <1>3 DEF PInv, ProjectsTyped
  <2>4. f # e => errand'[e] = errand[e]
    BY <2>2, <2>3 DEF Claim, Replay, WaitTimesOut, CommitProject, LockRow, Authorise, Commit, RollBack
  <2>5. f = e
    BY <2>1, <2>4
  <2>6. e \notin Creations
    BY DEF Creations
  <2>7. Commit(e)
    BY <1>3, <2>2, <2>5, <2>6, AnsweredKeeps, LockRowKeeps, AuthoriseKeeps, RollBackKeeps
       DEF Claim, CommitProject, PInv, RecordsOfCreations
  <2>8. Authorised(e)
    BY <1>3, <2>7 DEF Commit, PInv, AuthorityLasts
  <2> QED
    BY <2>8 DEF Authorised
<1> QED
  BY <1>1, <1>2, <1>3, PTL DEF Spec, OnlyMembersDecide

-----------------------------------------------------------------------------
(* A creation waits for one that is at work and waits for nobody.           *)
LEMMA CreationsWaitForWorkers ==
    ASSUME ProjectsAssumption, PInv, NEW e \in Creations, NEW f \in Errands, WaitsFor(e, f)
    PROVE  errand[f].step = "claimed"
<1>1. record[Scope(e)] = [status |-> "in_progress", by |-> f]
  BY DEF WaitsFor, AtLocks
<1>2. Scope(e) \in DOMAIN record
  BY ScopesAreRecorded DEF PInv
<1> QED
  BY <1>1, <1>2 DEF PInv, RecordsOfCreations

(* Whoever waits for a row that is not the last one, of a request that      *)
(* waits for a row too, waits for a user's row that comes before that row.  *)
LEMMA WaitersClimb ==
    ASSUME ProjectsAssumption, PInv, NEW e \in Errands, NEW f \in Errands,
           e \notin Creations, f \notin Creations, WaitsFor(e, f),
           errand[f].locks < Len(RowsOf(f))
    PROVE  /\ NextRow(e) \in Users
           /\ NextRow(f) \in Users => Rank[NextRow(e)] < Rank[NextRow(f)]
<1> DEFINE n == errand[e].locks + 1
           k == errand[f].locks
<1>0. k \in Nat /\ errand[e].locks \in Nat
  <2>1. errand[e] \in ErrandRows /\ errand[f] \in ErrandRows
    BY DEF PInv, ProjectsTyped
  <2> QED
    BY <2>1 DEF ErrandRows
<1>1. errand[e].locks < Len(RowsOf(e)) /\ locked[RowsOf(e)[n]] = f
  BY DEF WaitsFor, NextRow
<1>2. /\ Len(RowsOf(e)) \in 2..3 /\ Len(RowsOf(f)) \in 2..3
      /\ Work[e].project \in Projects /\ Users \cap Projects = {}
      /\ RowsOf(e)[Len(RowsOf(e))] = Work[e].project
      /\ \A i \in 1..(Len(RowsOf(e)) - 1) : RowsOf(e)[i] \in Users
      /\ \A i \in 1..(Len(RowsOf(f)) - 1) : RowsOf(f)[i] \in Users
      /\ Len(RowsOf(f)) = 3 => Rank[RowsOf(f)[1]] < Rank[RowsOf(f)[2]]
  BY RowsInOrder DEF ProjectsAssumption
<1>3. RowsOf(f)[Len(RowsOf(f))] \notin Users
  BY RowsInOrder DEF ProjectsAssumption
<1> DEFINE le == Len(RowsOf(e))
           lf == Len(RowsOf(f))
<1>4. /\ le \in 2..3 /\ lf \in 2..3 /\ n \in 1..le /\ k \in 0..(lf - 1)
  <2>1. \A a \in 2..3, b \in 2..3, i \in Nat, j \in Nat : i < a /\ j < b =>
            i + 1 \in 1..a /\ j \in 0..(b - 1)
    OBVIOUS
  <2> QED
    BY <1>0, <1>1, <1>2, <2>1
<1>5. n = le \/ n \in 1..(le - 1)
  <2>1. \A a \in 2..3 : \A i \in 1..a : i = a \/ i \in 1..(a - 1)
    OBVIOUS
  <2> QED
    BY <1>4, <2>1
<1>6. RowsOf(e)[n] \in Users \cup Projects
  BY <1>2, <1>5
<1>7. PICK i \in 1..k : RowsOf(f)[i] = RowsOf(e)[n]
  BY <1>1, <1>6 DEF PInv, LocksAreHeld
<1>8. i \in 1..(lf - 1)
  <2>1. \A b \in 2..3 : \A j \in 0..(b - 1) : \A x \in 1..j : x \in 1..(b - 1)
    OBVIOUS
  <2> QED
    BY <1>4, <2>1
<1>9. RowsOf(e)[n] \in Users
  BY <1>2, <1>7, <1>8
<1>10. ASSUME NextRow(f) \in Users
       PROVE  Rank[NextRow(e)] < Rank[NextRow(f)]
  <2>1. k + 1 # lf
    BY <1>3, <1>10 DEF NextRow
  <2>2. lf = 3 /\ i = 1 /\ k + 1 = 2
    <3>1. \A b \in 2..3 : \A j \in 0..(b - 1) : \A x \in 1..j :
              j + 1 # b => b = 3 /\ x = 1 /\ j + 1 = 2
      OBVIOUS
    <3> QED
      BY <1>4, <2>1, <3>1
  <2> QED
    BY <1>2, <1>7, <2>2 DEF NextRow
<1> QED
  BY <1>9, <1>10 DEF NextRow

(* No ring of requests that wait for each other's keys and rows, whatever   *)
(* they ask, of whomever, and however many there are (the lock order of     *)
(* lock_active_users and then of the project).                              *)
THEOREM LocksAreOrdered == Spec => []NoCircularWait
<1> USE ProjectsAssumption
<1>1. Init => PInv
  BY ProjectsInitially DEF Init
<1>2. PInv /\ [Next]_vars => PInv'
  BY NextMovesProjects, ProjectStepsKeep
<1>3. ASSUME PInv PROVE NoCircularWait
  <2> SUFFICES ASSUME NEW S \in SUBSET {w[1] : w \in Waits}, S # {},
                      \A e \in S : \E f \in S : <<e, f>> \in Waits
               PROVE  FALSE
    BY DEF NoCircularWait
  <2>1. S \subseteq Errands
    BY DEF Waits, InProgress
  <2>2. \A e \in S : \E f \in S : WaitsFor(e, f)
    <3> TAKE e \in S
    <3>1. PICK f \in S : <<e, f>> \in Waits
      OBVIOUS
    <3> QED
      BY <3>1 DEF Waits
  <2>3. \A e \in S : errand[e].step = "begun"
    BY <2>2 DEF WaitsFor, AtLocks
  <2>4. \A e \in S : e \notin Creations
    <3> SUFFICES ASSUME NEW e \in S, e \in Creations PROVE FALSE
      OBVIOUS
    <3>1. PICK f \in S : WaitsFor(e, f)
      BY <2>2
    <3>2. errand[f].step = "claimed"
      BY <1>3, <2>1, <3>1, CreationsWaitForWorkers
    <3> QED
      BY <2>3, <3>2
  <2>5. \A e \in S : errand[e].locks < Len(RowsOf(e))
    BY <2>2, <2>4 DEF WaitsFor
  <2>6. \A e \in S : \E f \in S : NextRow(e) \in Users /\
            (NextRow(f) \in Users => Rank[NextRow(e)] < Rank[NextRow(f)])
    BY <1>3, <2>1, <2>2, <2>4, <2>5, WaitersClimb
  <2> DEFINE height == [e \in S |-> Rank[NextRow(e)]]
             Heights == {height[e] : e \in S}
  <2>7. \A e \in S : height[e] \in Nat
    BY <2>6 DEF ProjectsAssumption
  <2>8. IsFiniteSet(Heights)
    <3>1. IsFiniteSet(S)
      BY <2>1, FS_Subset DEF ProjectsAssumption
    <3>2. height \in Surjection(S, Heights)
      BY DEF Surjection
    <3> QED
      BY <3>1, <3>2, FS_Surjection
  <2>9. PICK top \in Heights : \A h \in Heights : h <= top
    <3>1. Heights \subseteq Int /\ Heights # {}
      BY <2>7
    <3> QED
      BY <2>8, <3>1, LargestExists
  <2>10. PICK e \in S : height[e] = top
    OBVIOUS
  <2>11. PICK f \in S : height[e] < height[f]
    BY <2>6
  <2>12. height[f] <= height[e] /\ height[e] \in Nat /\ height[f] \in Nat
    BY <2>7, <2>9, <2>10
  <2> QED
    BY <2>11, <2>12
<1> QED
  BY <1>1, <1>2, <1>3, PTL DEF Spec

-----------------------------------------------------------------------------
(* The inductive invariant of the credentials and of what selects them.     *)
Saved(k) == credential[k].status # "none"

(* A row is written by the command of its own key, which is completed.      *)
KeysAreUsedOnce == \A k \in Keys : Saved(k) => k \in completed

RevisionsAreBounded == \A k \in Creds : Active(k) => credential[k].revision <= MaxRevision

CallsHoldCredentials ==
    \A i \in Calls : call[i].step \in {"admitted", "sent"} => call[i].credential \in Creds

(* A preference or a policy that names a credential is a saved one; those   *)
(* of a policy belong to the project's owner.                               *)
SelectionsAreSaved ==
    /\ \A user \in Users :
          preferred[user].credential # Nobody => preferred[user].revision # 0
    /\ \A p \in Projects : \A c \in policy[p].credentials :
          policy[p].revision # 0 /\ Owned(c, ProjectOwner[p])

CInv ==
    /\ CredentialsTypeOK /\ KeysAreUsedOnce /\ RevisionsAreBounded
    /\ GrantsAreBacked /\ OneLivingSuccessor
    /\ CallsHoldCredentials /\ SelectionsAreSaved

LEMMA CredentialsInitially ==
    ASSUME CredentialsAssumption, CredentialsInit
    PROVE  CInv
<1> USE CredentialsAssumption DEF CredentialsAssumption, CredentialsInit, NewCredential,
        NoCredential, Creds
<1>1. \A k \in Creds : /\ credential[k].replaces = Nobody
                       /\ Saved(k) => k = Seed
                       /\ credential[k].revision \in 0..1
  BY DEF Saved
<1>2. MaxRevision \in Nat /\ 1 <= MaxRevision
  OBVIOUS
<1>3. \A r \in 0..1 : r \in 0..(MaxRevision + 1) /\ r <= MaxRevision
  BY <1>2
<1>4. credential \in [Creds ->
          [status : {"none", "active", "revoked", "replaced"}, owner : Users \cup {Nobody},
           replaces : Creds \cup {Nobody}, judged : {"unjudged", "valid", "invalid"},
           revision : 0..(MaxRevision + 1)]]
  BY <1>3
<1>5. CredentialsTypeOK
  BY <1>4 DEF CredentialsTypeOK
<1>6. KeysAreUsedOnce /\ RevisionsAreBounded
  BY <1>1, <1>3 DEF KeysAreUsedOnce, RevisionsAreBounded
<1>7. GrantsAreBacked /\ OneLivingSuccessor
  BY <1>1 DEF GrantsAreBacked, OneLivingSuccessor
<1>8. CallsHoldCredentials /\ SelectionsAreSaved
  BY DEF CallsHoldCredentials, SelectionsAreSaved
<1> QED
  BY <1>5, <1>6, <1>7, <1>8 DEF CInv

-----------------------------------------------------------------------------
(* What a step may do to the rows of credentials, one by one.               *)
CredentialRows ==
    [status : {"none", "active", "revoked", "replaced"}, owner : Users \cup {Nobody},
     replaces : Creds \cup {Nobody}, judged : {"unjudged", "valid", "invalid"},
     revision : 0..(MaxRevision + 1)]

(* The row k is the same but for the verdict and the revision.              *)
Remains(k) ==
    /\ credential'[k].status = credential[k].status
    /\ credential'[k].owner = credential[k].owner
    /\ credential'[k].replaces = credential[k].replaces
    /\ Active(k) => credential'[k].revision <= MaxRevision

Added(k, old) ==
    /\ k \in Keys /\ ~Saved(k) /\ k \in completed'
    /\ credential'[k].status = "active" /\ credential'[k].replaces = old
    /\ credential'[k].revision = 1

Retired(c, status) ==
    /\ Active(c) /\ status \in {"revoked", "replaced"}
    /\ credential'[c].status = status
    /\ credential'[c].owner = credential[c].owner
    /\ credential'[c].replaces = credential[c].replaces
    /\ \A p \in Projects : grant'[c][p] = 0

RowsChange ==
    \/ \A k \in Creds : Remains(k)
    \/ \E k \in Creds : Added(k, Nobody) /\ \A x \in Creds \ {k} : Remains(x)
    \/ \E c \in Creds : Retired(c, "revoked") /\ \A x \in Creds \ {c} : Remains(x)
    \/ \E k, c \in Creds : /\ k # c /\ Added(k, c) /\ Retired(c, "replaced")
                          /\ \A x \in Creds \ {k, c} : Remains(x)

(* Grants appear only for a credential that is active after the step.       *)
GrantsChange ==
    \A k \in Creds, p \in Projects :
        grant'[k][p] # 0 => grant[k][p] # 0 \/ (Active(k) /\ Remains(k))

SelectionsChange ==
    /\ \A user \in Users :
          \/ preferred'[user] = preferred[user]
          \/ preferred'[user].revision # 0
    /\ \A p \in Projects :
          \/ policy'[p] = policy[p]
          \/ /\ policy'[p].revision # 0
             /\ \A c \in policy'[p].credentials :
                   c \in Creds /\ Owned(c, ProjectOwner[p])

CallsChange ==
    \A i \in Calls :
        call'[i].step \in {"admitted", "sent"} => 
            call'[i].credential \in Creds \/ (call'[i].credential = call[i].credential
                                             /\ call[i].step \in {"admitted", "sent"})

CredentialEffects ==
    /\ CredentialsTypeOK' /\ completed \subseteq completed'
    /\ RowsChange /\ GrantsChange /\ SelectionsChange /\ CallsChange

(* A row once written stays, with its owner and what it replaced; what was  *)
(* revoked or replaced stays so.                                            *)
Endures(k) ==
    Saved(k) =>
        /\ credential'[k].status # "none"
        /\ credential'[k].owner = credential[k].owner
        /\ credential'[k].replaces = credential[k].replaces
        /\ ~Active(k) => credential'[k].status = credential[k].status

LEMMA RowsEndure ==
    ASSUME RowsChange, NEW k \in Creds
    PROVE  Endures(k)
  BY DEF RowsChange, Endures, Remains, Added, Retired, Saved, Active

LEMMA CredentialEffectsKeep ==
    ASSUME CredentialsAssumption, CInv, CredentialEffects
    PROVE  CInv'
<1> USE DEF CInv
<1>1. \A k \in Creds : Endures(k)
  BY RowsEndure DEF CredentialEffects
<1>2. RowsChange /\ GrantsChange /\ SelectionsChange /\ CallsChange
  BY DEF CredentialEffects
<1>3. /\ Nobody \notin Creds /\ Keys \subseteq Creds
      /\ \A k \in Creds : credential[k].replaces \in Creds \cup {Nobody}
  BY DEF CredentialsAssumption, CredentialsTypeOK, Creds
<1>4. \A k \in Creds : \/ Remains(k)
                       \/ \E old \in Creds \cup {Nobody} : Added(k, old)
                       \/ \E status \in {"revoked", "replaced"} : Retired(k, status)
  BY <1>2 DEF RowsChange
<1>5. KeysAreUsedOnce'
  <2> SUFFICES ASSUME NEW k \in Keys, Saved(k)'
               PROVE  k \in completed'
    BY DEF KeysAreUsedOnce
  <2>1. CASE Saved(k)
    BY <2>1 DEF CredentialEffects, KeysAreUsedOnce
  <2>2. CASE ~Saved(k)
    BY <1>3, <1>4, <2>2 DEF Remains, Added, Retired, Saved, Active
  <2> QED
    BY <2>1, <2>2
<1>6. RevisionsAreBounded'
  <2> SUFFICES ASSUME NEW k \in Creds, Active(k)'
               PROVE  credential'[k].revision <= MaxRevision
    BY DEF RevisionsAreBounded
  <2>1. 1 <= MaxRevision
    BY DEF CredentialsAssumption
  <2> QED
    BY <1>4, <2>1 DEF Remains, Added, Retired, Active
<1>7. GrantsAreBacked'
  <2> SUFFICES ASSUME NEW k \in Creds, NEW q \in Projects, grant'[k][q] # 0
               PROVE  credential'[k].status = "active"
    BY DEF GrantsAreBacked, Active
  <2>1. CASE Active(k) /\ Remains(k)
    BY <2>1 DEF Active, Remains
  <2>2. CASE grant[k][q] # 0
    <3>1. Active(k)
      BY <2>2 DEF GrantsAreBacked
    <3>2. Remains(k)
      BY <1>4, <3>1 DEF Added, Retired, Saved, Active
    <3> QED
      BY <2>1, <3>1, <3>2
  <2> QED
    BY <1>2, <2>1, <2>2 DEF GrantsChange
<1>8. OneLivingSuccessor'
  <2> DEFINE target(k) == credential[k].replaces
  <2>1. \A k \in Creds : target(k) # Nobody =>
            /\ credential[target(k)].status = "replaced"
            /\ credential'[target(k)].status = "replaced"
    <3> TAKE k \in Creds
    <3> HAVE target(k) # Nobody
    <3>1. credential[target(k)].status = "replaced" /\ target(k) \in Creds
      BY <1>3 DEF OneLivingSuccessor
    <3> QED
      BY <1>1, <3>1 DEF Endures, Saved, Active
  <2>2. \A k, x \in Creds : target(k) # Nobody /\ target(x) = target(k) => x = k
    BY DEF OneLivingSuccessor
  <2>3. CASE \A k \in Creds : credential'[k].replaces \in {target(k), Nobody}
    BY <2>1, <2>2, <2>3 DEF OneLivingSuccessor
  <2>4. ASSUME NEW k \in Creds, NEW c \in Creds, k # c, Added(k, c), Retired(c, "replaced"),
               \A x \in Creds \ {k, c} : Remains(x)
        PROVE  OneLivingSuccessor'
    <3>1. credential'[k].replaces = c /\ credential'[c].status = "replaced"
      BY <2>4 DEF Added, Retired
    <3>2. \A x \in Creds : x # k => credential'[x].replaces = target(x) /\ target(x) # c
      BY <2>1, <2>4 DEF Remains, Retired, Active
    <3> HIDE DEF target
    <3> QED
      BY <1>3, <2>1, <2>2, <3>1, <3>2 DEF OneLivingSuccessor
  <2> HIDE DEF target
  <2>5. CASE \A k \in Creds : Remains(k)
    BY <2>3, <2>5 DEF Remains, target
  <2>6. CASE \E k \in Creds : Added(k, Nobody) /\ \A x \in Creds \ {k} : Remains(x)
    BY <2>3, <2>6 DEF Remains, Added, target
  <2>7. CASE \E c \in Creds : Retired(c, "revoked") /\ \A x \in Creds \ {c} : Remains(x)
    BY <2>3, <2>7 DEF Remains, Retired, target
  <2> QED
    BY <1>2, <2>4, <2>5, <2>6, <2>7 DEF RowsChange
<1>9. CallsHoldCredentials'
  BY <1>2 DEF CallsChange, CallsHoldCredentials
<1>10. SelectionsAreSaved'
  <2>1. \A c \in Creds : \A user : Owned(c, user) => Owned(c, user)'
    BY <1>1 DEF Endures, Owned, Saved
  <2>2. \A q \in Projects : policy[q].credentials \subseteq Creds
    BY DEF CredentialsTypeOK
  <2>3. \A user \in Users :
            preferred'[user].credential # Nobody => preferred'[user].revision # 0
    BY <1>2 DEF SelectionsChange, SelectionsAreSaved
  <2>4. \A q \in Projects : \A c \in policy'[q].credentials :
            policy'[q].revision # 0 /\ Owned(c, ProjectOwner[q])'
    BY <1>2, <2>1, <2>2 DEF SelectionsChange, SelectionsAreSaved
  <2> QED
    BY <2>3, <2>4 DEF SelectionsAreSaved
<1>11. CredentialsTypeOK'
  BY DEF CredentialEffects
<1> QED
  BY <1>5, <1>6, <1>7, <1>8, <1>9, <1>10, <1>11

-----------------------------------------------------------------------------
(* The steps have these effects.                                            *)
LEMMA SameRows ==
    ASSUME CInv, UNCHANGED credential
    PROVE  /\ RowsChange /\ \A k \in Creds : Remains(k)
           /\ credential' \in [Creds -> CredentialRows]
  BY DEF CInv, RowsChange, Remains, RevisionsAreBounded, CredentialsTypeOK, CredentialRows

LEMMA SameGrants ==
    ASSUME UNCHANGED grant
    PROVE  GrantsChange
  BY DEF GrantsChange

LEMMA SameSelections ==
    ASSUME UNCHANGED <<preferred, policy>>
    PROVE  SelectionsChange
  BY DEF SelectionsChange

LEMMA SameCalls ==
    ASSUME UNCHANGED call
    PROVE  CallsChange
  BY DEF CallsChange

LEMMA RowsTyped ==
    ASSUME CInv, CredentialsAssumption
    PROVE  /\ credential \in [Creds -> CredentialRows]
           /\ Keys \subseteq Creds /\ MaxRevision \in Nat /\ 1 <= MaxRevision
           /\ grant \in [Creds -> [Projects -> Nat]]
           /\ \A k \in Keys : Asks[k].credential \in Creds /\ Asks[k].project \in Projects
  BY DEF CInv, CredentialsTypeOK, CredentialRows, CredentialsAssumption, Creds

LEMMA CreateHasEffects ==
    ASSUME CredentialsAssumption, CInv, NEW k \in Keys, NEW user \in Users,
           NotCompleted(k), Complete(k), Create(k, user), UNCHANGED expected
    PROVE  CredentialEffects
<1>1. /\ credential' = [credential EXCEPT ![k] = NewCredential(user, Nobody)]
      /\ UNCHANGED <<grant, preferred, policy, call, expected>>
      /\ completed' = completed \cup {k} /\ k \notin completed
  BY DEF Create, NotCompleted, Complete
<1>2. NewCredential(user, Nobody) \in CredentialRows
  BY RowsTyped DEF NewCredential, CredentialRows
<1>3. credential' \in [Creds -> CredentialRows]
  BY <1>1, <1>2, RowsTyped
<1>4. CredentialsTypeOK'
  BY <1>1, <1>3 DEF CInv, CredentialsTypeOK, CredentialRows
<1>5. Added(k, Nobody)
  BY <1>1, RowsTyped DEF Added, CInv, KeysAreUsedOnce, NewCredential
<1>6. \A x \in Creds \ {k} : Remains(x)
  BY <1>1, RowsTyped DEF Remains, CInv, RevisionsAreBounded
<1>7. RowsChange
  BY <1>5, <1>6, RowsTyped DEF RowsChange
<1> QED
  BY <1>1, <1>4, <1>7, SameGrants, SameSelections, SameCalls DEF CredentialEffects

LEMMA ValidateHasEffects ==
    ASSUME CredentialsAssumption, CInv, NEW k \in Keys, NEW user \in Users,
           Complete(k), ValidateSaved(k, user), UNCHANGED expected
    PROVE  CredentialEffects
<1> DEFINE c == Asks[k].credential
           row == [credential[c] EXCEPT !.judged = "unjudged", !.revision = @ + 1]
<1>1. /\ c \in Creds /\ credential[c].revision < MaxRevision
      /\ credential' = [credential EXCEPT ![c] = row]
      /\ UNCHANGED <<grant, preferred, policy, call, expected>>
      /\ completed' = completed \cup {k}
  BY RowsTyped DEF ValidateSaved, Complete
<1>2. /\ row \in CredentialRows /\ row.status = credential[c].status
      /\ row.owner = credential[c].owner /\ row.replaces = credential[c].replaces
      /\ row.revision <= MaxRevision
  <2>1. credential[c] \in CredentialRows
    BY <1>1, RowsTyped
  <2>2. /\ credential[c].revision + 1 \in 0..(MaxRevision + 1)
        /\ credential[c].revision + 1 <= MaxRevision
    BY <1>1, <2>1, RowsTyped DEF CredentialRows
  <2> QED
    BY <2>1, <2>2 DEF CredentialRows
<1> HIDE DEF row
<1>3. credential' \in [Creds -> CredentialRows] /\ credential'[c] = row
  BY <1>1, <1>2, RowsTyped
<1>4. CredentialsTypeOK'
  BY <1>1, <1>3 DEF CInv, CredentialsTypeOK, CredentialRows
<1>5. \A x \in Creds : x # c => credential'[x] = credential[x]
  BY <1>1, RowsTyped
<1>6. \A x \in Creds : Remains(x)
  BY <1>2, <1>3, <1>5 DEF Remains, CInv, RevisionsAreBounded
<1> QED
  BY <1>1, <1>4, <1>6, SameGrants, SameSelections, SameCalls DEF CredentialEffects, RowsChange

(* _erase, for a revocation or a replacement.                               *)
LEMMA ErasedRow ==
    ASSUME CredentialsAssumption, CInv, NEW c \in Creds, Active(c),
           NEW status \in {"revoked", "replaced"}
    PROVE  /\ Erased(c, status) \in CredentialRows
           /\ Erased(c, status).status = status
           /\ Erased(c, status).owner = credential[c].owner
           /\ Erased(c, status).replaces = credential[c].replaces
<1>1. credential[c] \in CredentialRows /\ credential[c].revision <= MaxRevision
  BY RowsTyped DEF CInv, RevisionsAreBounded
<1>2. credential[c].revision + 1 \in 0..(MaxRevision + 1)
  BY <1>1, RowsTyped DEF CredentialRows
<1> QED
  BY <1>1, <1>2 DEF Erased, CredentialRows

LEMMA RevokeHasEffects ==
    ASSUME CredentialsAssumption, CInv, NEW k \in Keys, NEW user \in Users,
           Complete(k), Revoke(k, user), UNCHANGED expected
    PROVE  CredentialEffects
<1> DEFINE c == Asks[k].credential
           row == Erased(c, "revoked")
<1>1. /\ c \in Creds /\ Active(c)
      /\ credential' = [credential EXCEPT ![c] = row]
      /\ grant' = [grant EXCEPT ![c] = [p \in Projects |-> 0]]
      /\ UNCHANGED <<preferred, policy, call, expected>>
      /\ completed' = completed \cup {k}
  BY RowsTyped DEF Revoke, Complete, GrantsRevoked
<1>2. /\ row \in CredentialRows /\ row.status = "revoked"
      /\ row.owner = credential[c].owner /\ row.replaces = credential[c].replaces
  BY <1>1, ErasedRow
<1> HIDE DEF row
<1>3. credential' \in [Creds -> CredentialRows] /\ credential'[c] = row
  BY <1>1, <1>2, RowsTyped
<1>4. grant' \in [Creds -> [Projects -> Nat]] /\ \A p \in Projects : grant'[c][p] = 0
  BY <1>1, RowsTyped
<1>5. CredentialsTypeOK'
  BY <1>1, <1>3, <1>4 DEF CInv, CredentialsTypeOK, CredentialRows
<1>6. \A x \in Creds \ {c} : Remains(x)
  BY <1>1, RowsTyped DEF Remains, CInv, RevisionsAreBounded
<1>7. Retired(c, "revoked")
  BY <1>1, <1>2, <1>3, <1>4 DEF Retired
<1>8. GrantsChange
  BY <1>1, <1>4, RowsTyped DEF GrantsChange
<1> QED
  BY <1>1, <1>5, <1>6, <1>7, <1>8, SameSelections, SameCalls DEF CredentialEffects, RowsChange

LEMMA ReplaceHasEffects ==
    ASSUME CredentialsAssumption, CInv, NEW k \in Keys, NEW user \in Users,
           NotCompleted(k), Complete(k), Replace(k, user), UNCHANGED expected
    PROVE  CredentialEffects
<1> DEFINE c == Asks[k].credential
           row == Erased(c, "replaced")
           new == NewCredential(user, c)
<1>1. /\ c \in Creds /\ Active(c)
      /\ credential' = [credential EXCEPT ![k] = new, ![c] = row]
      /\ grant' = [grant EXCEPT ![c] = [p \in Projects |-> 0]]
      /\ UNCHANGED <<preferred, policy, call, expected>>
      /\ completed' = completed \cup {k} /\ k \notin completed
  BY RowsTyped DEF Replace, Complete, GrantsRevoked, NotCompleted, SuccessorAllowed
<1>2. ~Saved(k) /\ k # c /\ k \in Creds
  BY <1>1, RowsTyped DEF CInv, KeysAreUsedOnce, Saved, Active
<1>3. /\ row \in CredentialRows /\ row.status = "replaced"
      /\ row.owner = credential[c].owner /\ row.replaces = credential[c].replaces
  BY <1>1, ErasedRow
<1>4. /\ new \in CredentialRows /\ new.status = "active" /\ new.replaces = c
      /\ new.revision = 1
  BY <1>1, RowsTyped DEF NewCredential, CredentialRows
<1> HIDE DEF row, new
<1>5. /\ credential' \in [Creds -> CredentialRows]
      /\ credential'[c] = row /\ credential'[k] = new
      /\ \A x \in Creds \ {k, c} : credential'[x] = credential[x]
  BY <1>1, <1>2, <1>3, <1>4, RowsTyped
<1>6. grant' \in [Creds -> [Projects -> Nat]] /\ \A p \in Projects : grant'[c][p] = 0
  BY <1>1, RowsTyped
<1>7. CredentialsTypeOK'
  BY <1>1, <1>5, <1>6 DEF CInv, CredentialsTypeOK, CredentialRows
<1>8. \A x \in Creds \ {k, c} : Remains(x)
  BY <1>5 DEF Remains, CInv, RevisionsAreBounded
<1>9. Added(k, c) /\ Retired(c, "replaced")
  BY <1>1, <1>2, <1>3, <1>4, <1>5, <1>6 DEF Retired, Added
<1>10. GrantsChange
  BY <1>1, <1>6, RowsTyped DEF GrantsChange
<1> QED
  BY <1>1, <1>2, <1>7, <1>8, <1>9, <1>10, SameSelections, SameCalls
     DEF CredentialEffects, RowsChange

LEMMA GrantHasEffects ==
    ASSUME CredentialsAssumption, CInv, NEW k \in Keys, NEW user \in Users,
           Complete(k), CreateGrant(k, user) \/ RevokeGrant(k, user), UNCHANGED expected
    PROVE  CredentialEffects
<1> DEFINE c == Asks[k].credential
           p == Asks[k].project
<1>1. PICK n \in Nat :
          /\ grant' = [grant EXCEPT ![c][p] = n]
          /\ n # 0 => Active(c)
  <2>1. CASE CreateGrant(k, user)
    <3>1. grant[c][p] \in Nat
      BY RowsTyped
    <3> QED
      BY <2>1, <3>1 DEF CreateGrant
  <2>2. CASE RevokeGrant(k, user)
    BY <2>2 DEF RevokeGrant
  <2> QED
    BY <2>1, <2>2
<1>2. /\ c \in Creds /\ p \in Projects
      /\ UNCHANGED <<credential, preferred, policy, call, expected>>
      /\ completed' = completed \cup {k}
  BY RowsTyped DEF CreateGrant, RevokeGrant, Complete
<1>3. grant' \in [Creds -> [Projects -> Nat]]
  BY <1>1, <1>2, RowsTyped
<1>4. \A x \in Creds, q \in Projects : grant'[x][q] = grant[x][q] \/ (x = c /\ grant'[x][q] = n)
  BY <1>1, <1>2, RowsTyped
<1>5. GrantsChange
  BY <1>1, <1>2, <1>4, SameRows DEF GrantsChange
<1>6. CredentialsTypeOK'
  BY <1>2, <1>3 DEF CInv, CredentialsTypeOK
<1> QED
  BY <1>2, <1>5, <1>6, SameRows, SameSelections, SameCalls DEF CredentialEffects

PreferenceRows == [revision : Nat, credential : Creds \cup {Nobody},
                   model : Models \cup {Nobody}, warned : BOOLEAN]

LEMMA SelectionHasEffects ==
    ASSUME CredentialsAssumption, CInv, NEW k \in Keys, NEW user \in Users,
           Complete(k), SavePreference(k, user) \/ SavePolicy(k, user), UNCHANGED expected
    PROVE  CredentialEffects
<1> DEFINE c == Asks[k].credential
           p == Asks[k].project
<1>1. /\ c \in Creds /\ p \in Projects
      /\ UNCHANGED <<credential, grant, call, expected>>
      /\ completed' = completed \cup {k}
      /\ Asks[k].model \in Models /\ Asks[k].warns \in BOOLEAN
  BY RowsTyped DEF SavePreference, SavePolicy, Complete, CredentialsAssumption
<1>2. /\ preferred \in [Users -> PreferenceRows]
      /\ policy \in [Projects -> [revision : Nat, credentials : SUBSET Creds]]
  BY DEF CInv, CredentialsTypeOK, PreferenceRows
<1>3. CASE SavePreference(k, user)
  <2> DEFINE row == [revision |-> preferred[user].revision + 1, credential |-> c,
                     model |-> Asks[k].model, warned |-> Asks[k].warns]
  <2>1. preferred' = [preferred EXCEPT ![user] = row] /\ policy' = policy
    BY <1>3 DEF SavePreference
  <2>2. row \in PreferenceRows /\ row.revision # 0
    BY <1>1, <1>2 DEF PreferenceRows
  <2> HIDE DEF row
  <2>3. preferred' \in [Users -> PreferenceRows]
    BY <1>2, <2>1, <2>2
  <2>4. SelectionsChange
    BY <1>2, <2>1, <2>2 DEF SelectionsChange
  <2>5. CredentialsTypeOK'
    BY <1>1, <2>1, <2>3 DEF CInv, CredentialsTypeOK, PreferenceRows
  <2> QED
    BY <1>1, <2>4, <2>5, SameRows, SameGrants, SameCalls DEF CredentialEffects
<1>4. CASE SavePolicy(k, user)
  <2> DEFINE row == [revision |-> policy[p].revision + 1, credentials |-> {c}]
  <2>1. policy' = [policy EXCEPT ![p] = row] /\ preferred' = preferred
    BY <1>4 DEF SavePolicy
  <2>2. /\ row \in [revision : Nat, credentials : SUBSET Creds] /\ row.revision # 0
        /\ row.credentials = {c}
    BY <1>1, <1>2
  <2>3. Owned(c, ProjectOwner[p])
    BY <1>4 DEF SavePolicy
  <2> HIDE DEF row
  <2>4. policy' \in [Projects -> [revision : Nat, credentials : SUBSET Creds]]
    BY <1>2, <2>1, <2>2
  <2>5. SelectionsChange
    BY <1>1, <1>2, <2>1, <2>2, <2>3 DEF SelectionsChange
  <2>6. CredentialsTypeOK'
    BY <1>1, <2>1, <2>4 DEF CInv, CredentialsTypeOK
  <2> QED
    BY <1>1, <2>5, <2>6, SameRows, SameGrants, SameCalls DEF CredentialEffects
<1> QED
  BY <1>3, <1>4

LEMMA ExecuteHasEffects ==
    ASSUME CredentialsAssumption, CInv, NEW k \in Keys, NEW user \in Users, Execute(k, user)
    PROVE  CredentialEffects
  BY CreateHasEffects, ValidateHasEffects, RevokeHasEffects, ReplaceHasEffects,
     GrantHasEffects, SelectionHasEffects DEF Execute, Effect

LEMMA PrepareHasEffects ==
    ASSUME CredentialsAssumption, CInv, NEW k \in Keys, NEW user \in Users, Prepare(k, user)
    PROVE  CredentialEffects
<1>1. UNCHANGED <<credential, grant, preferred, policy, completed, call>>
  BY DEF Prepare
<1>2. Shown(Asks[k], user) \in Int
  <2> DEFINE c == Asks[k].credential
             p == Asks[k].project
  <2>1. /\ credential[c].revision \in Int /\ grant[c][p] \in Int
        /\ policy[p].revision \in Int /\ preferred[user].revision \in Int
    BY RowsTyped DEF CInv, CredentialsTypeOK, CredentialRows
  <2> HIDE DEF c, p
  <2> QED
    BY <2>1 DEF Shown, c, p
<1>3. expected' \in [Keys -> Int]
  BY <1>2 DEF Prepare, CInv, CredentialsTypeOK
<1>4. CredentialsTypeOK'
  BY <1>1, <1>3 DEF CInv, CredentialsTypeOK
<1> QED
  BY <1>1, <1>4, SameRows, SameGrants, SameSelections, SameCalls DEF CredentialEffects

LEMMA CallHasEffects ==
    ASSUME CredentialsAssumption, CInv, CallStep
    PROVE  CredentialEffects
<1> DEFINE Rows == [step : {"idle", "admitted", "sent", "ended"}, credential : Creds \cup {Nobody}]
<1>0. call \in [Calls -> Rows]
  BY DEF CInv, CredentialsTypeOK
<1>1. ASSUME NEW i \in Calls, NEW u \in Users, NEW c \in Creds, NEW p \in Projects,
             AdmitCall(i, u, c, p)
      PROVE  CredentialEffects
  <2>1. /\ call' = [call EXCEPT ![i] = [step |-> "admitted", credential |-> c]]
        /\ UNCHANGED <<credential, grant, preferred, policy, expected, completed>>
    BY <1>1 DEF AdmitCall
  <2>2. call' \in [Calls -> Rows] /\ CallsChange
    BY <1>0, <2>1 DEF CallsChange
  <2>3. CredentialsTypeOK'
    BY <2>1, <2>2 DEF CInv, CredentialsTypeOK
  <2> QED
    BY <2>1, <2>2, <2>3, SameRows, SameGrants, SameSelections DEF CredentialEffects
<1>2. ASSUME NEW i \in Calls, NEW step \in {"sent", "ended"},
             call[i].step \in {"admitted", "sent"}, call' = [call EXCEPT ![i].step = step]
      PROVE  call' \in [Calls -> Rows] /\ CallsChange
  <2>1. [call[i] EXCEPT !.step = step] = [step |-> step, credential |-> call[i].credential]
    BY <1>0
  <2>2. call' = [call EXCEPT ![i] = [step |-> step, credential |-> call[i].credential]]
    BY <1>0, <1>2, <2>1
  <2> QED
    BY <1>0, <1>2, <2>2 DEF CallsChange
<1>3. ASSUME NEW i \in Calls, DispatchCall(i)
      PROVE  CredentialEffects
  <2> DEFINE step == IF Active(call[i].credential) THEN "sent" ELSE "ended"
  <2>1. /\ call[i].step = "admitted" /\ call' = [call EXCEPT ![i].step = step]
        /\ UNCHANGED <<credential, grant, preferred, policy, expected, completed>>
    BY <1>3 DEF DispatchCall
  <2>2. step \in {"sent", "ended"}
    OBVIOUS
  <2> HIDE DEF step
  <2>3. call' \in [Calls -> Rows] /\ CallsChange
    BY <1>2, <2>1, <2>2
  <2>4. CredentialsTypeOK'
    BY <2>1, <2>3 DEF CInv, CredentialsTypeOK
  <2> QED
    BY <2>1, <2>3, <2>4, SameRows, SameGrants, SameSelections DEF CredentialEffects
<1>4. ASSUME NEW i \in Calls, NEW verdict \in {"valid", "invalid", "none"}, EndCall(i, verdict)
      PROVE  CredentialEffects
  <2> DEFINE c == call[i].credential
             row == Judged(c, verdict)
  <2>1. /\ call[i].step = "sent" /\ credential[c].revision < MaxRevision
        /\ call' = [call EXCEPT ![i].step = "ended"]
        /\ UNCHANGED <<grant, preferred, policy, expected, completed>>
        /\ verdict = "none" => credential' = credential
        /\ verdict # "none" => credential' = [credential EXCEPT ![c] = row]
    BY <1>4 DEF EndCall
  <2>2. c \in Creds
    BY <2>1 DEF CInv, CallsHoldCredentials
  <2>3. call' \in [Calls -> Rows] /\ CallsChange
    BY <1>2, <2>1
  <2>4. CASE verdict = "none"
    <3>1. CredentialsTypeOK'
      BY <2>1, <2>3, <2>4 DEF CInv, CredentialsTypeOK
    <3> QED
      BY <2>1, <2>3, <2>4, <3>1, SameRows, SameGrants, SameSelections DEF CredentialEffects
  <2>5. CASE verdict # "none"
    <3>1. /\ row \in CredentialRows /\ row.status = credential[c].status
          /\ row.owner = credential[c].owner /\ row.replaces = credential[c].replaces
          /\ row.revision <= MaxRevision
      <4>1. credential[c] \in CredentialRows
        BY <2>2, RowsTyped
      <4>2. /\ credential[c].revision + 1 \in 0..(MaxRevision + 1)
            /\ credential[c].revision + 1 <= MaxRevision
        BY <2>1, <4>1, RowsTyped DEF CredentialRows
      <4>3. verdict \in {"valid", "invalid"}
        BY <2>5
      <4> QED
        BY <4>1, <4>2, <4>3 DEF CredentialRows, Judged
    <3> HIDE DEF row, c
    <3>2. /\ credential' \in [Creds -> CredentialRows] /\ credential'[c] = row
          /\ \A x \in Creds : x # c => credential'[x] = credential[x]
      BY <2>1, <2>2, <2>5, <3>1, RowsTyped
    <3>3. CredentialsTypeOK'
      BY <2>1, <2>3, <3>2 DEF CInv, CredentialsTypeOK, CredentialRows
    <3>4. \A x \in Creds : Remains(x)
      BY <3>1, <3>2 DEF Remains, CInv, RevisionsAreBounded
    <3> QED
      BY <2>1, <2>3, <3>3, <3>4, SameGrants, SameSelections DEF CredentialEffects, RowsChange
  <2> QED
    BY <2>4, <2>5
<1> QED
  BY <1>1, <1>3, <1>4 DEF CallStep

(* A request that has passed its session checks acts for the user of a      *)
(* session that once existed.                                               *)
LEMMA ActsForUser ==
    ASSUME SessionsAssumption, AccountsAssumption, SInv,
           NEW token \in Callbacks, session[token].status # "none"
    PROVE  session[token].user \in Users
  BY DEF SInv, SessionsOfLogins, AccountsAssumption

LEMMA NextHasCredentialEffects ==
    ASSUME SessionsAssumption, AccountsAssumption, CredentialsAssumption, SInv, CInv, [Next]_vars
    PROVE  CredentialEffects \/ UNCHANGED credentialVars
<1>1. CASE UNCHANGED vars
  BY <1>1 DEF vars, credentialVars
<1>2. CASE CallStep
  BY <1>2, CallHasEffects
<1>3. ASSUME NEW c \in Commands, Send(c)
      PROVE  CredentialEffects \/ UNCHANGED credentialVars
  <2>1. CASE c \in Logouts
    BY <1>3, <2>1 DEF Send
  <2>2. CASE c \notin Logouts
    <3>1. KeyOf[c] \in Keys
      BY <2>2 DEF AccountsAssumption
    <3>2. cookie.session \in Callbacks /\ session[cookie.session].status # "none"
      BY <1>3 DEF Send, SendCommand, SInv, SessionsTypeOK, TokensNameSessions, Exists
    <3>3. session[cookie.session].user \in Users
      BY <3>2, ActsForUser
    <3> QED
      BY <1>3, <2>2, <3>1, <3>3, PrepareHasEffects DEF Send
  <2> QED
    BY <2>1, <2>2
<1>4. ASSUME NEW c \in Commands, Perform(c)
      PROVE  CredentialEffects
  <2>1. KeyOf[c] \in Keys /\ command[c].step = "ready"
    BY <1>4 DEF Perform, AccountsAssumption
  <2>2. command[c].token \in Callbacks /\ session[command[c].token].status # "none"
    BY <2>1 DEF SInv, SessionsTypeOK, TokensNameSessions, Exists
  <2>3. UserOf(c) \in Users
    BY <2>2, ActsForUser DEF UserOf
  <2> QED
    BY <1>4, <2>1, <2>3, ExecuteHasEffects DEF Perform
<1>5. ASSUME NEW c \in Commands, EndWithoutEffect(c)
      PROVE  UNCHANGED credentialVars
  BY <1>5 DEF EndWithoutEffect
<1> QED
  BY <1>1, <1>2, <1>3, <1>4, <1>5 DEF Next

LEMMA UnchangedCredentials ==
    ASSUME CInv, UNCHANGED credentialVars
    PROVE  CInv' /\ RowsChange
<1>1. UNCHANGED <<credential, grant, preferred, policy, expected, completed, call>>
  BY DEF credentialVars
<1>2. RowsChange
  BY <1>1, SameRows
<1> QED
  BY <1>1, <1>2 DEF CInv, CredentialsTypeOK, KeysAreUsedOnce, RevisionsAreBounded, GrantsAreBacked,
     OneLivingSuccessor, CallsHoldCredentials, SelectionsAreSaved, Saved, Active, Owned

(* Sessions and credentials together: who a command acts for depends on the *)
(* session it was sent with.                                                *)
AInv == SInv /\ CInv

LEMMA AccountsInitially ==
    ASSUME SessionsAssumption, AccountsAssumption, CredentialsAssumption, Init
    PROVE  AInv
  BY SessionsInitially, CredentialsInitially DEF Init, AInv

LEMMA AccountsStep ==
    ASSUME SessionsAssumption, AccountsAssumption, CredentialsAssumption, AInv, [Next]_vars
    PROVE  AInv' /\ RowsChange
<1>1. SInv'
  BY NextMovesSessions, SessionStepsKeep DEF AInv
<1>2. CInv' /\ RowsChange
  BY NextHasCredentialEffects, CredentialEffectsKeep, UnchangedCredentials
     DEF AInv, CredentialEffects
<1> QED
  BY <1>1, <1>2 DEF AInv

(* Whatever the order of the commands on credentials, of their repetitions  *)
(* and of the verdicts of calls: no grant outlives its credential, and the  *)
(* replacements form a chain of which at most the last one is active.       *)
THEOREM CredentialLivesAreSound == Spec => []CredentialsAreSound
<1> USE SessionsAssumption, AccountsAssumption, CredentialsAssumption
<1>1. Init => AInv
  BY AccountsInitially
<1>2. AInv /\ [Next]_vars => AInv'
  BY AccountsStep
<1>3. AInv => CredentialsAreSound
  BY DEF AInv, CInv, CredentialsAreSound
<1> QED
  BY <1>1, <1>2, <1>3, PTL DEF Spec

LEMMA RevokedSessionsStay ==
    ASSUME SessionsAssumption, SInv, SessionMove, NEW q \in Callbacks,
           session[q].status = "revoked"
    PROVE  session'[q].status = "revoked"
<1>1. session \in [Callbacks -> [status : {"none", "live", "revoked", "expired"},
                                user : Callbacks \cup {None}]]
  BY DEF SInv, SessionsTypeOK
<1>2. CASE SessionEnds
  BY <1>1, <1>2 DEF SessionEnds, Live
<1>3. ASSUME NEW p \in Callbacks, OpenSession(p)
      PROVE  session'[q].status = "revoked"
  <2>1. p # q
    BY <1>3 DEF OpenSession, SInv, SessionsOfLogins
  <2> QED
    BY <1>1, <1>3, <2>1 DEF OpenSession
<1> QED
  BY <1>2, <1>3, SessionStepsHaveEffects
     DEF SessionEffects, FlowMoves, CommandOnly, LoginEnds, SendCallback, Consume,
         ProviderAnswers, FindIdentity, ReceiveSession, sessionVars

(* A revoked session stays revoked under every request that still writes    *)
(* its row, and a revoked or replaced credential under every retry and      *)
(* every verdict.                                                           *)
THEOREM RevocationsLast == Spec => Irreversible
<1> USE SessionsAssumption, AccountsAssumption, CredentialsAssumption
<1>1. Init => AInv
  BY AccountsInitially
<1>2. AInv /\ [Next]_vars => AInv'
  BY AccountsStep
<1>3. ASSUME AInv, [Next]_vars
      PROVE  /\ \A q \in Callbacks : session[q].status = "revoked" => session'[q].status = "revoked"
             /\ \A k \in Creds :
                   credential[k].status \in {"revoked", "replaced"} =>
                       /\ credential'[k].status = credential[k].status
                       /\ credential'[k].replaces = credential[k].replaces
  <2>1. \A q \in Callbacks : session[q].status = "revoked" => session'[q].status = "revoked"
    BY <1>3, NextMovesSessions, RevokedSessionsStay DEF AInv
  <2>2. \A k \in Creds : Endures(k)
    BY <1>3, AccountsStep, RowsEndure
  <2> QED
    BY <2>1, <2>2 DEF Endures, Saved, Active
<1>4. AInv /\ [Next]_vars =>
          [/\ \A q \in Callbacks : session[q].status = "revoked" => session'[q].status = "revoked"
           /\ \A k \in Creds :
                 credential[k].status \in {"revoked", "replaced"} =>
                     /\ credential'[k].status = credential[k].status
                     /\ credential'[k].replaces = credential[k].replaces]_vars
  BY <1>3
<1> QED
  BY <1>1, <1>2, <1>4, PTL DEF Spec, Irreversible

(* A paint plan's call is admitted exactly if its preview has no blocker    *)
(* and the preference selects the key, the model and a warning, for every   *)
(* selection of everyone who may see the project; and a policy that is      *)
(* shown as ready leaves its owner no blocker but what an enabled           *)
(* preference and a fresh verdict mend.                                     *)
THEOREM PreviewsPromiseCalls == Spec => []ReadyMeansCallable
<1> USE SessionsAssumption, AccountsAssumption, CredentialsAssumption
<1>1. Init => AInv
  BY AccountsInitially
<1>2. AInv /\ [Next]_vars => AInv'
  BY AccountsStep
<1>3. ASSUME AInv PROVE ReadyMeansCallable
  <2> SUFFICES ASSUME NEW user \in Users, NEW p \in Projects, HasAccess(user, p)
               PROVE  /\ \A c \in {saved \in Creds : credential[saved].status # "none"} :
                            MayCall(user, c, p) <=> /\ PreviewBlockers(user, c, p) = {}
                                                    /\ PreferenceSelects(user, c)
                      /\ \A c \in Creds :
                            /\ MayCall(user, c, p) => FixtureAdmits(user, c, p)
                            /\ FixtureAdmits(user, c, p) => Preauthorized(user, c, p)
                      /\ user = ProjectOwner[p] /\ PolicyStatus(p) = "live_authorization_required" =>
                            \E c \in policy[p].credentials :
                                PreviewBlockers(user, c, p) \subseteq
                                    {"credential_live_validation_required",
                                     "user_preference_not_enabled"}
    BY DEF ReadyMeansCallable
  <2>1. /\ SelectionsAreSaved /\ Nobody \notin Creds
        /\ \A c \in Creds : credential[c].judged \in {"unjudged", "valid", "invalid"}
        /\ policy[p].credentials \subseteq Creds
    BY <1>3 DEF AInv, CInv, CredentialsAssumption, CredentialsTypeOK
  <2>2. ASSUME NEW c \in Creds
        PROVE  PreviewBlockers(user, c, p) = {} <=>
                   /\ user = ProjectOwner[p]
                   /\ Owned(c, user) /\ Active(c) /\ credential[c].judged # "invalid"
                   /\ grant[c][p] # 0 /\ preferred[user].revision # 0
                   /\ policy[p].revision # 0 /\ c \in policy[p].credentials
    <3>1. CredentialBlockers(user, c) = {} <=>
              Owned(c, user) /\ Active(c) /\ credential[c].judged # "invalid"
      BY <2>1 DEF CredentialBlockers, Blocker, ValidationRequired
    <3>2. PolicyBlockers(c, p) = {} <=> policy[p].revision # 0 /\ c \in policy[p].credentials
      BY DEF PolicyBlockers, Blocker
    <3>3. Blocker("credential_grant_missing", grant[c][p] = 0) = {} <=> grant[c][p] # 0
      BY DEF Blocker
    <3>4. Blocker("user_preference_not_enabled", PreferenceShown(user).revision = 0) = {}
              <=> preferred[user].revision # 0
      BY DEF Blocker, PreferenceShown
    <3>5. OwnerBlockers(user, p) = {} <=> user = ProjectOwner[p]
      BY DEF OwnerBlockers, Blocker
    <3>6. PreviewBlockers(user, c, p) = {} <=>
              /\ OwnerBlockers(user, p) = {}
              /\ CredentialBlockers(user, c) = {} /\ PolicyBlockers(c, p) = {}
              /\ Blocker("credential_grant_missing", grant[c][p] = 0) = {}
              /\ Blocker("user_preference_not_enabled", PreferenceShown(user).revision = 0) = {}
      BY DEF PreviewBlockers, SelectionBlockers
    <3> QED
      BY <3>1, <3>2, <3>3, <3>4, <3>5, <3>6
  <2>3. ASSUME NEW c \in Creds
        PROVE  /\ MayCall(user, c, p) <=> /\ PreviewBlockers(user, c, p) = {}
                                          /\ PreferenceSelects(user, c)
               /\ MayCall(user, c, p) => FixtureAdmits(user, c, p)
               /\ FixtureAdmits(user, c, p) => Preauthorized(user, c, p)
    <3>1. preferred[user].credential = c => preferred[user].revision # 0
      BY <2>1 DEF SelectionsAreSaved
    <3>2. c \in policy[p].credentials => policy[p].revision # 0
      BY <2>1 DEF SelectionsAreSaved
    <3>3. PreferenceSelects(user, c) <=>
              /\ preferred[user].credential = c
              /\ preferred[user].model = PlanModel /\ preferred[user].warned
      BY DEF PreferenceSelects, PreferenceShown
    <3> QED
      BY <2>2, <3>1, <3>2, <3>3 DEF MayCall, FixtureAdmits, Preauthorized
  <2>4. ASSUME user = ProjectOwner[p], PolicyStatus(p) = "live_authorization_required"
        PROVE  \E c \in policy[p].credentials :
                   PreviewBlockers(user, c, p) \subseteq
                       {"credential_live_validation_required", "user_preference_not_enabled"}
    <3>1. policy[p].revision # 0 /\ \E c \in policy[p].credentials : Active(c) /\ grant[c][p] # 0
      BY <2>4 DEF PolicyStatus
    <3>2. PICK c \in policy[p].credentials : Active(c) /\ grant[c][p] # 0
      BY <3>1
    <3>3. Owned(c, user)
      BY <2>1, <2>4 DEF SelectionsAreSaved
    <3>4. CredentialBlockers(user, c) \subseteq {"credential_live_validation_required"}
      BY <3>2, <3>3 DEF CredentialBlockers, Blocker
    <3>5. /\ PolicyBlockers(c, p) = {}
          /\ Blocker("credential_grant_missing", grant[c][p] = 0) = {}
      BY <3>1, <3>2 DEF PolicyBlockers, Blocker
    <3>6. Blocker("user_preference_not_enabled", PreferenceShown(user).revision = 0)
              \subseteq {"user_preference_not_enabled"}
      BY DEF Blocker
    <3>7. OwnerBlockers(user, p) = {}
      BY <2>4 DEF OwnerBlockers, Blocker
    <3> QED
      BY <3>4, <3>5, <3>6, <3>7 DEF PreviewBlockers, SelectionBlockers
  <2> QED
    BY <2>3, <2>4
<1> QED
  BY <1>1, <1>2, <1>3, PTL DEF Spec
=============================================================================
