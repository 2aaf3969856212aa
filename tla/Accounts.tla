------------------------------- MODULE Accounts -------------------------------
(* What an authenticated request may still do while sessions are rotated,   *)
(* revoked and expire under it: the commands of Credentials reach it only   *)
(* through the session checks of Sessions, in the order of the dependencies *)
(* of api_router (enforce_csrf) and of the route (get_current_principal).   *)
EXTENDS Sessions, Selection

CONSTANTS
    KeyOf,      \* the Idempotency-Key of each command that is no logout
    Scenarios   \* bound: the requests that are coming, the others are past

ASSUME AccountsAssumption ==
    /\ KeyOf \in [Commands \ Logouts -> Keys]
    /\ Callbacks \subseteq Users /\ SeedOwner = First
    /\ Scenarios \subseteq SUBSET (Callbacks \cup Commands \cup Errands)
    /\ \A coming \in Scenarios : First \notin coming  \* the first login is over

vars == <<flow, cookie, login, account, session, command, member, record, locked, errand,
          credential, grant, preferred, policy, expected, completed, call>>

Init == \E coming \in Scenarios :
            SessionsInit(coming) /\ ProjectsInit(coming) /\ CredentialsInit

-----------------------------------------------------------------------------
UserOf(c) == session[command[c].token].user

Send(c) ==
    /\ SendCommand(c)
    /\ UNCHANGED projectVars
    /\ IF c \in Logouts THEN UNCHANGED credentialVars
       ELSE Prepare(KeyOf[c], session[cookie.session].user)

(* The service method, after both checks of the session: its transaction    *)
(* asks for the user and not for the session any more.                      *)
Perform(c) ==
    /\ c \notin Logouts /\ command[c].step = "ready"
    /\ Execute(KeyOf[c], UserOf(c))
    /\ command' = [command EXCEPT ![c] = [step |-> "done", token |-> None]]
    /\ UNCHANGED <<flow, cookie, login, account, session, projectVars>>

(* A replayed answer, a refusal, or a worker that dies before the commit.   *)
EndWithoutEffect(c) ==
    /\ c \notin Logouts /\ command[c].step = "ready"
    /\ command' = [command EXCEPT ![c] = [step |-> "done", token |-> None]]
    /\ UNCHANGED <<flow, cookie, login, account, session, credentialVars, projectVars>>

SessionStep ==
    \/ \E f \in Flows : StartLogin(f) \/ FlowExpires(f)
    \/ \E q \in Callbacks :
          \/ SendCallback(q) \/ Consume(q) \/ ProviderUnavailable(q)
          \/ \E s \in Subjects, t \in IdTokens : Exchange(q, s, t)
          \/ FindIdentity(q) \/ OpenSession(q) \/ ReceiveSession(q)
          \/ LoginCrash(q) \/ SessionExpires(q)
    \/ \E c \in Commands : ReadSession(c) \/ WriteLastSeen(c) \/ Logout(c)

Next ==
    \/ SessionStep /\ UNCHANGED <<projectVars, credentialVars>>
    \/ ProjectStep /\ UNCHANGED <<sessionVars, credentialVars>>
    \/ \E c \in Commands : Send(c) \/ Perform(c) \/ EndWithoutEffect(c)
    \/ CallStep /\ UNCHANGED <<sessionVars, projectVars>>

Spec == Init /\ [][Next]_vars

-----------------------------------------------------------------------------
(* What was revoked or replaced stays so: a session under the requests that *)
(* are still writing last_seen_at, a credential under retries of the        *)
(* command that made it and under the verdict of a call that had decrypted  *)
(* it ("Revoke and replace are irreversible").                              *)
Irreversible ==
    [][/\ \A q \in Callbacks : session[q].status = "revoked" => session'[q].status = "revoked"
       /\ \A k \in Creds :
             credential[k].status \in {"revoked", "replaced"} =>
                 /\ credential'[k].status = credential[k].status
                 /\ credential'[k].replaces = credential[k].replaces]_vars
=============================================================================
