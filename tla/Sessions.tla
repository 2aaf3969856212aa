------------------------------- MODULE Sessions -------------------------------
(* OIDC logins and the server-side sessions they open, with the requests of *)
(* one browser that are in progress at the same time: callbacks (repeated   *)
(* by a reload), authenticated commands, logouts.                           *)
(*                                                                          *)
(* Each action is one transaction of AuthenticationService, or one step of  *)
(* a transaction where another request may run beside it.  A session and a  *)
(* user account are named by the callback that created them.  The identity  *)
(* provider, and whether an account is deactivated (nothing in the program  *)
(* does it), are outside.                                                   *)
EXTENDS Integers, FiniteSets

CONSTANTS
    Flows,
    Callbacks, FlowOf,  \* requests of /auth/callback, and the state they carry
    First,              \* the callback that opened the browser's session
    Subjects,           \* people at the identity provider; Known has a user
    Known,
    IdTokens,           \* what the provider may answer: see TimeClaimsValid
    Skew, MaxAge,       \* settings.oidc_clock_skew_seconds, .._max_age_seconds
    Commands, Logouts,  \* authenticated requests; Logouts: of /auth/logout
    MaxInFlight,        \* bound: requests the server works on at a time
    None

ASSUME SessionsAssumption ==
    /\ First \in Callbacks /\ Known \in Subjects
    /\ FlowOf \in [Callbacks -> Flows]
    /\ Logouts \subseteq Commands /\ IsFiniteSet(Commands)
    /\ None \notin Flows \cup Callbacks \cup Subjects
    /\ \A t \in IdTokens : {t.iat, t.exp, t.nbf} \subseteq Int \cup {None}
    /\ MaxInFlight \in Nat \ {0}

VARIABLES
    flow,      \* oidc_login_flows: none, open, expired, used
    cookie,    \* what the browser keeps: its flow binding, its session
    login,     \* the callbacks in progress
    account,   \* external_identities: the user of each subject
    session,   \* auth_sessions
    command    \* the authenticated requests in progress

sessionVars == <<flow, cookie, login, account, session, command>>

-----------------------------------------------------------------------------
Idle(step) == [step |-> step, binding |-> None, prior |-> None,
               subject |-> None, user |-> None]

NoSession == [status |-> "none", user |-> None]

Live(q) == session[q].status = "live"

LoginInProgress == {q \in Callbacks :
    login[q].step \in {"sent", "exchanging", "answered", "opening"}}

CommandInProgress == {c \in Commands :
    command[c].step \in {"sent", "csrf", "checked", "principal", "ready"}}

Capacity == Cardinality(LoginInProgress) + Cardinality(CommandInProgress) < MaxInFlight

(* Only the requests that are coming may come; the others are past, and     *)
(* the flow of the first login is used up.                                  *)
SessionsInit(coming) ==
    /\ flow = [f \in Flows |->
                  IF f # FlowOf[First] /\ \E q \in coming \cap Callbacks : FlowOf[q] = f
                  THEN "none" ELSE "used"]
    /\ cookie = [flow |-> None, session |-> First]
    /\ login = [q \in Callbacks |->
                   Idle(IF q \in coming THEN "idle" ELSE "ended")]
    /\ account = [s \in Subjects |-> IF s = Known THEN First ELSE None]
    /\ session = [q \in Callbacks |->
                     IF q = First THEN [status |-> "live", user |-> First] ELSE NoSession]
    /\ command = [c \in Commands |->
                     [step |-> IF c \in coming THEN "idle" ELSE "done", token |-> None]]

-----------------------------------------------------------------------------
(* start_login and the flow cookie of its redirect; without the provider's  *)
(* discovery document no flow is stored.                                    *)
StartLogin(f) ==
    /\ flow[f] = "none"
    /\ flow' = [flow EXCEPT ![f] = "open"]
    /\ cookie' = [cookie EXCEPT !.flow = f]
    /\ UNCHANGED <<login, account, session, command>>

(* The provider sends the browser back; the browser adds its cookies.       *)
SendCallback(q) ==
    /\ login[q].step = "idle" /\ Capacity
    /\ flow[FlowOf[q]] # "none"
    /\ cookie.flow # None
    /\ login' = [login EXCEPT ![q] =
                    [Idle("sent") EXCEPT !.binding = cookie.flow, !.prior = cookie.session]]
    /\ UNCHANGED <<flow, cookie, account, session, command>>

(* consume_login_flow: one row locked, matched and marked in a transaction  *)
(* of its own.  Faulty variant: consumed_at is not part of the match.       *)
UnconsumedOrUsed(q) ==
    flow[FlowOf[q]] \in {"open", "used"} /\ login[q].binding = FlowOf[q]

Consumable(q) == flow[FlowOf[q]] = "open" /\ login[q].binding = FlowOf[q]

Consume(q) ==
    /\ login[q].step = "sent"
    /\ IF Consumable(q)
       THEN /\ flow' = [flow EXCEPT ![FlowOf[q]] = "used"]
            /\ login' = [login EXCEPT ![q].step = "exchanging"]
       ELSE /\ login' = [login EXCEPT ![q] = Idle("ended")]
            /\ UNCHANGED flow
    /\ UNCHANGED <<cookie, account, session, command>>

(* OidcClient._validate_time_claims, with the clock at 0.                   *)
TimeClaimsValid(t) ==
    /\ t.iat # None /\ t.iat <= Skew /\ -t.iat <= MaxAge
    /\ t.exp # None /\ t.exp > -Skew
    /\ t.nbf # None => t.nbf <= Skew

(* exchange_and_validate, outside any transaction: the provider is away, or *)
(* answers with a token that is or is not accepted.                         *)
Exchange(q, s, t) ==
    /\ login[q].step = "exchanging"
    /\ login' = IF t.nonce = FlowOf[q] /\ TimeClaimsValid(t)
                THEN [login EXCEPT ![q].step = "answered", ![q].subject = s]
                ELSE [login EXCEPT ![q] = Idle("ended")]
    /\ UNCHANGED <<flow, cookie, account, session, command>>

ProviderUnavailable(q) ==
    /\ login[q].step = "exchanging"
    /\ login' = [login EXCEPT ![q] = Idle("ended")]
    /\ UNCHANGED <<flow, cookie, account, session, command>>

(* The beginning of find_or_create_identity: pg_advisory_xact_lock on the   *)
(* subject, then the look-up.  Faulty variant: no lock.                     *)
NoSubjectLock(s) == TRUE

SubjectIsFree(s) ==
    \A p \in Callbacks : login[p].step = "opening" => login[p].subject # s

FindIdentity(q) ==
    /\ login[q].step = "answered"
    /\ SubjectIsFree(login[q].subject)
    /\ login' = [login EXCEPT ![q].step = "opening",
                              ![q].user = account[login[q].subject]]
    /\ UNCHANGED <<flow, cookie, account, session, command>>

(* The rest of the same transaction: the insert of a new identity, which    *)
(* uq_external_identities_issuer_subject may refuse, the rotation of the    *)
(* session the browser sent, the new session.                               *)
(* Faulty variant: only a session of the same user is rotated.              *)
RotatedForSameUser(q, user) ==
    {p \in Callbacks : p = login[q].prior /\ session[p].user = user}

Rotated(q, user) == {p \in Callbacks : p = login[q].prior}

OpenSession(q) ==
    LET s == login[q].subject
        user == IF login[q].user = None THEN q ELSE login[q].user
    IN  /\ login[q].step = "opening"
        /\ IF login[q].user = None /\ account[s] # None
           THEN /\ login' = [login EXCEPT ![q].step = "conflict"]
                /\ UNCHANGED <<account, session>>
           ELSE /\ account' = [account EXCEPT ![s] = user]
                /\ session' = [p \in Callbacks |->
                      IF p = q THEN [status |-> "live", user |-> user]
                      ELSE IF p \in Rotated(q, user) THEN [session[p] EXCEPT !.status = "revoked"]
                      ELSE session[p]]
                /\ login' = [login EXCEPT ![q].step = "done"]
        /\ UNCHANGED <<flow, cookie, command>>

(* The redirect that sets both cookies reaches the browser; it may be lost. *)
ReceiveSession(q) ==
    /\ login[q].step = "done"
    /\ login' = [login EXCEPT ![q].step = "received"]
    /\ cookie' = [flow |-> None, session |-> q]
    /\ UNCHANGED <<flow, account, session, command>>

(* A worker dies: its open transaction is rolled back.                      *)
LoginCrash(q) ==
    /\ q \in LoginInProgress
    /\ login' = [login EXCEPT ![q] = Idle("ended")]
    /\ UNCHANGED <<flow, cookie, account, session, command>>

FlowExpires(f) ==
    /\ flow[f] = "open"
    /\ flow' = [flow EXCEPT ![f] = "expired"]
    /\ UNCHANGED <<cookie, login, account, session, command>>

SessionExpires(q) ==
    /\ Live(q)
    /\ session' = [session EXCEPT ![q].status = "expired"]
    /\ UNCHANGED <<flow, cookie, login, account, command>>

-----------------------------------------------------------------------------
SendCommand(c) ==
    /\ command[c].step = "idle" /\ Capacity
    /\ cookie.session # None
    /\ command' = [command EXCEPT ![c] = [step |-> "sent", token |-> cookie.session]]
    /\ UNCHANGED <<flow, cookie, login, account, session>>

(* resolve_session: get_session_user reads a row that is live; then         *)
(* last_seen_at is written back.  enforce_csrf does both for every unsafe   *)
(* request (the browser holds one pair of cookies, set together, so header, *)
(* cookie and session agree); get_current_principal does both again, except *)
(* for the logout, which asks for no principal.                             *)
ReadSession(c) ==
    /\ \/ command[c].step = "sent"
       \/ command[c].step = "checked" /\ c \notin Logouts
    /\ command' =
          IF Live(command[c].token)
          THEN [command EXCEPT ![c].step = IF @ = "sent" THEN "csrf" ELSE "principal"]
          ELSE [command EXCEPT ![c] = [step |-> "done", token |-> None]]
    /\ UNCHANGED <<flow, cookie, login, account, session>>

(* The ORM writes the changed column only: nothing else of the row changes. *)
(* Faulty variant: it writes the row as it was read, live.                  *)
RowWithLastSeenAsRead(q) == [session[q] EXCEPT !.status = "live"]

RowWithLastSeen(q) == session[q]

WriteLastSeen(c) ==
    /\ command[c].step \in {"csrf", "principal"}
    /\ session' = [session EXCEPT ![command[c].token] = RowWithLastSeen(command[c].token)]
    /\ command' = [command EXCEPT ![c].step = IF @ = "csrf" THEN "checked" ELSE "ready"]
    /\ UNCHANGED <<flow, cookie, login, account>>

(* logout: an UPDATE of the row that is not revoked yet.  Its answer, which *)
(* clears the cookies, may be lost.                                         *)
Logout(c) ==
    /\ c \in Logouts /\ command[c].step = "checked"
    /\ session' = [session EXCEPT ![command[c].token].status = "revoked"]
    /\ command' = [command EXCEPT ![c] = [step |-> "done", token |-> None]]
    /\ cookie' \in {cookie, [cookie EXCEPT !.session = None]}
    /\ UNCHANGED <<flow, login, account>>

-----------------------------------------------------------------------------
SessionsTypeOK ==
    /\ flow \in [Flows -> {"none", "open", "expired", "used"}]
    /\ cookie \in [flow : Flows \cup {None}, session : Callbacks \cup {None}]
    /\ login \in [Callbacks ->
          [step : {"idle", "sent", "exchanging", "answered", "opening", "done",
                   "received", "conflict", "ended"},
           binding : Flows \cup {None}, prior : Callbacks \cup {None},
           subject : Subjects \cup {None}, user : Callbacks \cup {None}]]
    /\ account \in [Subjects -> Callbacks \cup {None}]
    /\ session \in [Callbacks -> [status : {"none", "live", "revoked", "expired"},
                                  user : Callbacks \cup {None}]]
    /\ command \in [Commands ->
          [step : {"idle", "sent", "csrf", "checked", "principal", "ready", "done"},
           token : Callbacks \cup {None}]]

(* A state opens at most one session, however often and however             *)
(* concurrently its callback is delivered (contract: "atomically consumes   *)
(* an unexpired, unused state; replay is rejected"), and a callback the     *)
(* provider vouched for is never turned away because another one of the     *)
(* same person was at work: the two agree on one user.                      *)
LoginsOpenOnce ==
    /\ SessionsTypeOK
    /\ \A p, q \in Callbacks :
        /\ session[p].status # "none" /\ session[q].status # "none"
        /\ FlowOf[p] = FlowOf[q]
        => p = q
    /\ \A q \in Callbacks :
        /\ login[q].step # "conflict"
        /\ login[q].step \in {"done", "received"} =>
              session[q].user = account[login[q].subject]

(* The session the browser brought to a login never serves again once the   *)
(* login has opened a new one, whoever it belonged to and whatever requests *)
(* were using it meanwhile.                                                 *)
PriorSessionIsGone ==
    \A q \in Callbacks :
        login[q].step \in {"done", "received"} /\ login[q].prior # None =>
            ~Live(login[q].prior)
=============================================================================
