------------------------------- MODULE Projects -------------------------------
(* Paint projects and their reviewers, statement by statement: a creation   *)
(* claims its idempotency key by a unique index, where another one waits    *)
(* for it, times out or finds its record; an assignment, a removal and what *)
(* a reviewer decides take row locks, first of the users, then of the       *)
(* project.  A request that fails or dies at any statement is rolled back;  *)
(* whoever sent it may send another one like it.                            *)
(*                                                                          *)
(* A project is named by the request that created it.  The lock of the      *)
(* membership row lies under that of the project and is left out; so are    *)
(* deactivated users, whom nothing in the program makes.                    *)
EXTENDS Integers, FiniteSets, Sequences

CONSTANTS
    Users, Projects,   \* Projects: those that exist from the start
    ProjectOwner,
    Readers,           \* the reviewers assigned from the start
    Rank,              \* the order of the users' ids
    Errands, Work,     \* requests of this module, and what each asks
    NoOne

(* list_assignable_users: whom the page offers an owner.                    *)
Assignable(user) == Users \ {user}

ASSUME ProjectsAssumption ==
    /\ ProjectOwner \in [Projects -> Users]
    /\ Readers \in [Projects -> SUBSET Users]
    /\ Rank \in [Users -> Nat]
    /\ \A u, v \in Users : Rank[u] = Rank[v] => u = v
    /\ IsFiniteSet(Errands) /\ NoOne \notin Errands \cup Users
    /\ Users \cap Projects = {} /\ Errands \cap Projects = {}
    /\ Errands \cap {"none", "done", "failed", "key_reused", "wait_timeout"} = {}
    /\ \A p \in Projects : ProjectOwner[p] \notin Readers[p]
    /\ \A e \in Errands :
          /\ Work[e].op \in {"create", "assign", "remove", "review"}
          /\ Work[e].user \in Users
          /\ Work[e].op \in {"assign", "remove"} => Work[e].other \in Assignable(Work[e].user)
          /\ Work[e].op # "create" => Work[e].project \in Projects

VARIABLES
    member,    \* project_memberships
    record,    \* command_idempotency_records of creations, by key and user
    locked,    \* who holds each row of user_accounts and paint_projects
    errand     \* the step of each request, the locks it has, its answer

projectVars == <<member, record, locked, errand>>

-----------------------------------------------------------------------------
Creations == {e \in Errands : Work[e].op = "create"}
Scope(e) == <<Work[e].user, Work[e].key>>

NoRecord == [status |-> "none", by |-> NoOne]

Ended(answer) == [step |-> "ended", locks |-> 0, answer |-> answer]

ProjectsInit(coming) ==
    /\ member = Readers
    /\ record = [s \in {Scope(e) : e \in Creations} |-> NoRecord]
    /\ locked = [row \in Users \cup Projects |-> NoOne]
    /\ errand = [e \in Errands |->
                    IF e \in coming THEN [Ended("none") EXCEPT !.step = "begun"]
                    ELSE Ended("none")]

(* resolve_project_access.                                                  *)
HasAccess(user, p) == user = ProjectOwner[p] \/ user \in member[p]

(* list_accessible_projects: the user's own, created ones included, and     *)
(* those the user reviews; list_projects adds the role.                     *)
Created(user) == {record[s].by : s \in {s \in DOMAIN record :
                      s[1] = user /\ record[s].status = "completed"}}

OwnedBy(user) == {p \in Projects : ProjectOwner[p] = user} \cup Created(user)

Listed(user) == [p \in OwnedBy(user) \cup {p \in Projects : user \in member[p]} |->
                    IF p \in OwnedBy(user) THEN "owner" ELSE "reviewer"]

-----------------------------------------------------------------------------
(* claim_create_command: a key nobody holds is claimed; a committed one is  *)
(* answered from its record, if it was the same command.                    *)
(* Faulty variant: the record is looked up before it is inserted.           *)
ClaimableByLookup(e) == record[Scope(e)].status # "completed"

Claimable(e) == record[Scope(e)].status = "none"

Claim(e) ==
    /\ errand[e].step = "begun" /\ e \in Creations
    /\ Claimable(e)
    /\ record' = [record EXCEPT ![Scope(e)] = [status |-> "in_progress", by |-> e]]
    /\ errand' = [errand EXCEPT ![e].step = "claimed"]
    /\ UNCHANGED <<member, locked>>

SameCommand(e) == Work[record[Scope(e)].by].title = Work[e].title

Replay(e) ==
    /\ errand[e].step = "begun" /\ e \in Creations
    /\ record[Scope(e)].status = "completed"
    /\ errand' = [errand EXCEPT ![e] =
                     Ended(IF SameCommand(e) THEN record[Scope(e)].by ELSE "key_reused")]
    /\ UNCHANGED <<member, record, locked>>

(* lock_timeout or statement_timeout while another request holds the key.   *)
WaitTimesOut(e) ==
    /\ errand[e].step = "begun" /\ e \in Creations
    /\ record[Scope(e)].status = "in_progress"
    /\ errand' = [errand EXCEPT ![e] = Ended("wait_timeout")]
    /\ UNCHANGED <<member, record, locked>>

(* The project, its first event and the record's answer, in one commit.     *)
CommitProject(e) ==
    /\ errand[e].step = "claimed"
    /\ record' = [record EXCEPT ![Scope(e)] = [status |-> "completed", by |-> e]]
    /\ errand' = [errand EXCEPT ![e] = Ended(e)]
    /\ UNCHANGED <<member, locked>>

-----------------------------------------------------------------------------
(* lock_active_users locks in the order of the ids.                         *)
(* Faulty variant: in the order of the arguments.                           *)
UsersAsGiven(e) == <<Work[e].user, Work[e].other>>

UsersInOrder(e) ==
    IF Rank[Work[e].user] < Rank[Work[e].other]
    THEN <<Work[e].user, Work[e].other>> ELSE <<Work[e].other, Work[e].user>>

(* Faulty variant: access is resolved without for_update.                   *)
AccessRowsUnlocked(e) == <<>>

AccessRows(e) == <<Work[e].user, Work[e].project>>

RowsOf(e) ==
    IF Work[e].op = "review" THEN AccessRows(e)
    ELSE Append(UsersInOrder(e), Work[e].project)

NextRow(e) == RowsOf(e)[errand[e].locks + 1]

AtLocks(e) == errand[e].step = "begun" /\ e \notin Creations

LockRow(e) ==
    /\ AtLocks(e) /\ errand[e].locks < Len(RowsOf(e))
    /\ locked[NextRow(e)] = NoOne
    /\ locked' = [locked EXCEPT ![NextRow(e)] = e]
    /\ errand' = [errand EXCEPT ![e].locks = @ + 1]
    /\ UNCHANGED <<member, record>>

(* _require_owner, or the access of a reviewer.                             *)
Authorised(e) ==
    IF Work[e].op = "review" THEN HasAccess(Work[e].user, Work[e].project)
    ELSE Work[e].user = ProjectOwner[Work[e].project]

Authorise(e) ==
    /\ AtLocks(e) /\ errand[e].locks = Len(RowsOf(e))
    /\ Authorised(e)
    /\ errand' = [errand EXCEPT ![e].step = "authorised"]
    /\ UNCHANGED <<member, record, locked>>

Released(e) == [row \in DOMAIN locked |-> IF locked[row] = e THEN NoOne ELSE locked[row]]

(* add_membership_idempotently, remove_membership_idempotently, or what the *)
(* reviewer's command writes; the commit gives the locks back.              *)
Commit(e) ==
    LET p == Work[e].project
    IN  /\ errand[e].step = "authorised"
        /\ member' = CASE Work[e].op = "assign" -> [member EXCEPT ![p] = @ \cup {Work[e].other}]
                       [] Work[e].op = "remove" -> [member EXCEPT ![p] = @ \ {Work[e].other}]
                       [] OTHER -> member
        /\ locked' = Released(e)
        /\ errand' = [errand EXCEPT ![e] = Ended("done")]
        /\ UNCHANGED record

(* Not authorised, or the connection is lost: the transaction is undone.    *)
RollBack(e) ==
    /\ errand[e].step # "ended"
    /\ record' = IF errand[e].step = "claimed"
                 THEN [record EXCEPT ![Scope(e)] = NoRecord] ELSE record
    /\ locked' = Released(e)
    /\ errand' = [errand EXCEPT ![e] = Ended("failed")]
    /\ UNCHANGED member

ProjectStep ==
    \E e \in Errands :
        \/ Claim(e) \/ Replay(e) \/ WaitTimesOut(e) \/ CommitProject(e)
        \/ LockRow(e) \/ Authorise(e) \/ Commit(e) \/ RollBack(e)

-----------------------------------------------------------------------------
ProjectsTypeOK ==
    /\ member \in [Projects -> SUBSET Users]
    /\ DOMAIN record = {Scope(e) : e \in Creations}
    /\ \A s \in DOMAIN record :
          record[s] \in [status : {"none", "in_progress", "completed"},
                         by : Errands \cup {NoOne}]
    /\ locked \in [Users \cup Projects -> Errands \cup {NoOne}]
    /\ \A e \in Errands :
          /\ errand[e].step \in {"begun", "claimed", "authorised", "ended"}
          /\ errand[e].locks \in 0..3

(* Whatever is repeated, overtaken, timed out or rolled back: requests with *)
(* one key that are answered with a project are answered with the same one, *)
(* the one the record keeps, and only if they asked for the same; it is     *)
(* then listed as their own.  Other projects are listed for who may open    *)
(* them, and nobody reviews a project of their own.                         *)
OneProjectPerKey ==
    /\ ProjectsTypeOK
    /\ \A e \in Creations : errand[e].answer \in Errands =>
          /\ record[Scope(e)] = [status |-> "completed", by |-> errand[e].answer]
          /\ Work[errand[e].answer].title = Work[e].title
          /\ Listed(Work[e].user)[errand[e].answer] = "owner"
    /\ \A user \in Users, p \in Projects :
          /\ p \in DOMAIN Listed(user) <=> HasAccess(user, p)
          /\ ProjectOwner[p] = user => user \notin member[p]

InProgress == {e \in Errands : errand[e].step # "ended"}

WaitsFor(e, f) ==
    \/ /\ AtLocks(e) /\ errand[e].locks < Len(RowsOf(e))
       /\ locked[NextRow(e)] = f /\ e # f
    \/ /\ errand[e].step = "begun" /\ e \in Creations
       /\ record[Scope(e)] = [status |-> "in_progress", by |-> f]

Waits == {w \in InProgress \X InProgress : WaitsFor(w[1], w[2])}

(* No ring of requests that wait for each other: two owners who assign each *)
(* other, removals and reviews beside them ("no transaction may hold a      *)
(* later resource and then acquire an earlier resource or acquire           *)
(* same-class rows in a different UUID order", phase 3A).                   *)
NoCircularWait ==
    \A S \in SUBSET {w[1] : w \in Waits} :
        S # {} => \E e \in S : \A f \in S : <<e, f>> \notin Waits

(* A removal that has committed is final for what the removed reviewer has  *)
(* in flight: whoever decides is a member at the commit, not only when it   *)
(* was asked ("immediate session enforcement").                             *)
OnlyMembersDecide ==
    [][\A e \in Errands :
          Work[e].op = "review" /\ errand[e].step # "ended" /\ errand'[e].answer = "done" =>
              HasAccess(Work[e].user, Work[e].project)]_projectVars
=============================================================================
