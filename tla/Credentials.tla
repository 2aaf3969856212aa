------------------------------ MODULE Credentials ------------------------------
(* Saved provider credentials, the project grants that lend them, the       *)
(* preference and the project policies that select them, and the commands   *)
(* of AIFoundationService on all of these.                                  *)
(*                                                                          *)
(* Every command is one transaction that first takes the lock of its        *)
(* idempotency key, then its user's, its project's and its credential's row *)
(* lock: the commands of one user take effect one after the other, so each  *)
(* is one action.  Asks[k] is the payload sent under key k; a retry repeats *)
(* it.  A credential is named by the key that created it; its envelope is   *)
(* there exactly while it is active (_erase).  A command that is refused    *)
(* rolls back.  Budgets are BudgetWindows', the life of a paid call         *)
(* ZhipuInvocation's; here a call only holds on to its credential.          *)
EXTENDS Projects

CONSTANTS
    Keys, Asks,   \* idempotency keys, and the command sent under each
    Seed,         \* a credential saved before; its owner is SeedOwner
    SeedOwner,
    Calls,
    Models, PlanModel,  \* model definitions; the one paint plans are made with
    MaxRevision,  \* bound: revision of a credential
    Nobody

Creds == Keys \cup {Seed}

ASSUME CredentialsAssumption ==
    /\ Seed \notin Keys /\ Nobody \notin Users \cup Creds \cup Models
    /\ SeedOwner \in Users
    /\ \A k \in Keys :
          /\ Asks[k].op \in {"create", "validate", "revoke", "replace", "grant",
                             "ungrant", "prefer", "policy"}
          /\ Asks[k].credential \in Creds /\ Asks[k].project \in Projects
          /\ Asks[k].model \in Models /\ Asks[k].warns \in BOOLEAN
    /\ MaxRevision \in Nat \ {0}

VARIABLES
    credential,  \* credential_records
    grant,       \* revision of the active credential_project_grants row, 0: none
    preferred,   \* user_provider_preferences: default credential and model, warning
    policy,      \* project_model_policies: revision and allowed credentials
    expected,    \* the revision in each key's payload, -1: not sent yet
    completed,   \* ai_command_idempotency_records
    call         \* live calls: the credential each one holds on to

credentialVars == <<credential, grant, preferred, policy, expected, completed, call>>

-----------------------------------------------------------------------------
NoCredential == [status |-> "none", owner |-> Nobody, replaces |-> Nobody,
                 judged |-> "unjudged", revision |-> 0]

NewCredential(user, old) == [status |-> "active", owner |-> user, replaces |-> old,
                             judged |-> "unjudged", revision |-> 1]

Active(k) == credential[k].status = "active"

Owned(k, user) == credential[k].status # "none" /\ credential[k].owner = user

CredentialsInit ==
    /\ credential = [k \in Creds |-> IF k = Seed THEN NewCredential(SeedOwner, Nobody)
                                     ELSE NoCredential]
    /\ grant = [k \in Creds |-> [p \in Projects |-> 0]]
    /\ preferred = [u \in Users |-> [revision |-> 0, credential |-> Nobody,
                                    model |-> Nobody, warned |-> FALSE]]
    /\ policy = [p \in Projects |-> [revision |-> 0, credentials |-> {}]]
    /\ expected = [k \in Keys |-> -1]
    /\ completed = {}
    /\ call = [i \in Calls |-> [step |-> "idle", credential |-> Nobody]]

-----------------------------------------------------------------------------
(* The client builds the payload once, from the revision it was shown, and  *)
(* keeps it for its retries.                                                *)
Shown(ask, user) ==
    CASE ask.op \in {"revoke", "replace", "grant"} -> credential[ask.credential].revision
      [] ask.op = "ungrant" -> grant[ask.credential][ask.project]
      [] ask.op = "policy" -> policy[ask.project].revision
      [] ask.op = "prefer" -> preferred[user].revision
      [] OTHER -> 0

Prepare(k, user) ==
    /\ expected' = IF expected[k] # -1 THEN expected
                   ELSE [expected EXCEPT ![k] = Shown(Asks[k], user)]
    /\ UNCHANGED <<credential, grant, preferred, policy, completed, call>>

(* _command_replay finds the key: the stored answer, and nothing else.      *)
NotCompleted(k) == k \notin completed

Complete(k) == completed' = completed \cup {k}

-----------------------------------------------------------------------------
(* create_credential.                                                       *)
Create(k, user) ==
    /\ credential' = [credential EXCEPT ![k] = NewCredential(user, Nobody)]
    /\ UNCHANGED <<grant, preferred, policy, call>>

(* validate_saved of a live credential: no call is made, the verdict of the *)
(* calls that were is forgotten.                                            *)
ValidateSaved(k, user) ==
    LET c == Asks[k].credential
    IN  /\ Owned(c, user) /\ Active(c)
        /\ credential[c].revision < MaxRevision
        /\ credential' = [credential EXCEPT ![c].judged = "unjudged", ![c].revision = @ + 1]
        /\ UNCHANGED <<grant, preferred, policy, call>>

(* lock_credential_grants and the loop over them; _erase.                   *)
(* Faulty variant: grants stay, as nobody can use them without the key.     *)
GrantsKept(c) == grant

GrantsRevoked(c) == [grant EXCEPT ![c] = [p \in Projects |-> 0]]

Erased(c, status) == [credential[c] EXCEPT !.status = status, !.revision = @ + 1]

Revoke(k, user) ==
    LET c == Asks[k].credential
    IN  /\ Owned(c, user) /\ Active(c)
        /\ credential[c].revision = expected[k]
        /\ credential' = [credential EXCEPT ![c] = Erased(c, "revoked")]
        /\ grant' = GrantsRevoked(c)
        /\ UNCHANGED <<preferred, policy, call>>

SuccessorAllowed(k, user) ==
    LET c == Asks[k].credential
    IN  Owned(c, user) /\ Active(c) /\ credential[c].revision = expected[k]

Replace(k, user) ==
    LET c == Asks[k].credential
    IN  /\ SuccessorAllowed(k, user)
        /\ credential' = [credential EXCEPT ![k] = NewCredential(user, c),
                                            ![c] = Erased(c, "replaced")]
        /\ grant' = GrantsRevoked(c)
        /\ UNCHANGED <<preferred, policy, call>>

(* create_grant: an active grant is reused.                                 *)
CreateGrant(k, user) ==
    LET c == Asks[k].credential
        p == Asks[k].project
    IN  /\ HasAccess(user, p)
        /\ Owned(c, user) /\ Active(c)
        /\ credential[c].revision = expected[k]
        /\ grant' = [grant EXCEPT ![c][p] = IF @ = 0 THEN 1 ELSE @]
        /\ UNCHANGED <<credential, preferred, policy, call>>

RevokeGrant(k, user) ==
    LET c == Asks[k].credential
        p == Asks[k].project
    IN  /\ HasAccess(user, p)
        /\ Owned(c, user)
        /\ grant[c][p] # 0 /\ grant[c][p] = expected[k]
        /\ grant' = [grant EXCEPT ![c][p] = 0]
        /\ UNCHANGED <<credential, preferred, policy, call>>

(* update_user_preference, the references.  An enabled preference names all *)
(* three and all of one provider: the default provider is that of the       *)
(* credential.  Any model of that provider will do.  The amount to warn at  *)
(* is optional, and without it there is no cost_warning_currency.           *)
SavePreference(k, user) ==
    LET c == Asks[k].credential
    IN  /\ Owned(c, user) /\ Active(c)
        /\ preferred[user].revision = expected[k]
        /\ preferred' = [preferred EXCEPT ![user] =
                            [revision |-> @.revision + 1, credential |-> c,
                             model |-> Asks[k].model, warned |-> Asks[k].warns]]
        /\ UNCHANGED <<credential, grant, policy, call>>

(* update_project_policy, the references and the allowlists.                *)
SavePolicy(k, user) ==
    LET c == Asks[k].credential
        p == Asks[k].project
    IN  /\ user = ProjectOwner[p]
        /\ Owned(c, user) /\ Active(c) /\ grant[c][p] # 0
        /\ policy[p].revision = expected[k]
        /\ policy' = [policy EXCEPT ![p] = [revision |-> @.revision + 1, credentials |-> {c}]]
        /\ UNCHANGED <<credential, grant, preferred, call>>

Effect(k, user) ==
    \/ Asks[k].op = "create" /\ Create(k, user)
    \/ Asks[k].op = "validate" /\ ValidateSaved(k, user)
    \/ Asks[k].op = "revoke" /\ Revoke(k, user)
    \/ Asks[k].op = "replace" /\ Replace(k, user)
    \/ Asks[k].op = "grant" /\ CreateGrant(k, user)
    \/ Asks[k].op = "ungrant" /\ RevokeGrant(k, user)
    \/ Asks[k].op = "prefer" /\ SavePreference(k, user)
    \/ Asks[k].op = "policy" /\ SavePolicy(k, user)

(* lock_active_user, and resolve_project_access for an update: one action   *)
(* can stand for a command only while no request of Projects has a row.     *)
RowsFree(rows) == \A row \in rows : locked[row] = NoOne

RowsTaken(k, user) ==
    IF Asks[k].op \in {"grant", "ungrant", "policy"} THEN {user, Asks[k].project} ELSE {user}

(* One command: it takes effect once, and a repetition is only answered.    *)
Execute(k, user) ==
    /\ expected[k] # -1 /\ NotCompleted(k)
    /\ RowsFree(RowsTaken(k, user))
    /\ Effect(k, user)
    /\ Complete(k)
    /\ UNCHANGED expected

-----------------------------------------------------------------------------
(* GovernedZhipuInvocationService._admit: what it asks of the credential,   *)
(* the preference and the project when a paint plan is paid for.            *)
MayCall(user, c, p) ==
    /\ Owned(c, user) /\ Active(c) /\ credential[c].judged # "invalid"
    /\ preferred[user].credential = c
    /\ preferred[user].model = PlanModel /\ preferred[user].warned
    /\ user = ProjectOwner[p]
    /\ grant[c][p] # 0 /\ c \in policy[p].credentials

AdmitCall(i, user, c, p) ==
    /\ call[i].step = "idle"
    /\ RowsFree({user, p})
    /\ MayCall(user, c, p)
    /\ call' = [call EXCEPT ![i] = [step |-> "admitted", credential |-> c]]
    /\ UNCHANGED <<credential, grant, preferred, policy, expected, completed>>

(* commit_dispatch reads the row again and decrypts it: an erased one makes *)
(* the call end here.                                                       *)
DispatchCall(i) ==
    /\ call[i].step = "admitted"
    /\ call' = [call EXCEPT ![i].step = IF Active(call[i].credential) THEN "sent" ELSE "ended"]
    /\ UNCHANGED <<credential, grant, preferred, policy, expected, completed>>

(* _terminalize: the provider's verdict is written on the row, active or    *)
(* erased since.                                                            *)
Judged(c, verdict) == [credential[c] EXCEPT !.judged = verdict, !.revision = @ + 1]

EndCall(i, verdict) ==
    LET c == call[i].credential
    IN  /\ call[i].step = "sent"
        /\ credential[c].revision < MaxRevision
        /\ call' = [call EXCEPT ![i].step = "ended"]
        /\ credential' = IF verdict = "none" THEN credential
                         ELSE [credential EXCEPT ![c] = Judged(c, verdict)]
        /\ UNCHANGED <<grant, preferred, policy, expected, completed>>

CallStep ==
    \E i \in Calls :
        \/ \E u \in Users, c \in Creds, p \in Projects : AdmitCall(i, u, c, p)
        \/ DispatchCall(i)
        \/ \E verdict \in {"valid", "invalid", "none"} : EndCall(i, verdict)

-----------------------------------------------------------------------------
CredentialsTypeOK ==
    /\ credential \in [Creds ->
          [status : {"none", "active", "revoked", "replaced"}, owner : Users \cup {Nobody},
           replaces : Creds \cup {Nobody}, judged : {"unjudged", "valid", "invalid"},
           revision : 0..(MaxRevision + 1)]]
    /\ grant \in [Creds -> [Projects -> Nat]]
    /\ preferred \in [Users -> [revision : Nat, credential : Creds \cup {Nobody},
                               model : Models \cup {Nobody}, warned : BOOLEAN]]
    /\ policy \in [Projects -> [revision : Nat, credentials : SUBSET Creds]]
    /\ expected \in [Keys -> Int]
    /\ completed \subseteq Keys
    /\ call \in [Calls -> [step : {"idle", "admitted", "sent", "ended"},
                           credential : Creds \cup {Nobody}]]

(* A project is lent only a key that still exists: whatever the order of    *)
(* grants, revocations, replacements and their retries, "revoke active      *)
(* grants" and "never transfers old grants" (phase 3A, section 4).          *)
GrantsAreBacked ==
    \A k \in Creds, p \in Projects :
        grant[k][p] # 0 => Active(k)

(* Replacements form a chain with one living end: no credential has two     *)
(* successors, and only the last one can be active.                         *)
OneLivingSuccessor ==
    \A k \in Creds :
        credential[k].replaces # Nobody =>
            /\ credential[credential[k].replaces].status = "replaced"
            /\ \A other \in Creds :
                  credential[other].replaces = credential[k].replaces => other = k

(* A credential's life, seen whole: typed, lent only while it lives, and    *)
(* succeeded once, under retries, concurrent pages and the verdicts of      *)
(* calls that had decrypted it.                                             *)
CredentialsAreSound == CredentialsTypeOK /\ GrantsAreBacked /\ OneLivingSuccessor
=============================================================================
