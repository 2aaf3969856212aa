------------------------------- MODULE Selection -------------------------------
(* What the pages say of a saved selection - the status of a project's      *)
(* policy, the blockers of a paint plan's preview - from the same rows the  *)
(* admission of a paid call reads.  All three are read-only and formulated  *)
(* apart.  The provider, model and capability definitions are seeded and    *)
(* never changed by the program: a selection names valid ones, for a paint  *)
(* plan PlanModel's.  A saved preference or policy is an enabled one here,  *)
(* and a policy allows its models; budgets are Preflight's, the state of    *)
(* the project and of the plan's sources PlanPreview's.                     *)
EXTENDS Credentials

Blocker(name, condition) == IF condition THEN {name} ELSE {}

(* _user_preference_read, _project_policy_read: revision 0 where there is   *)
(* no row.  A policy is shown as ready for what is left of its default      *)
(* credential: the policy itself outlives the key and the grant.            *)
PreferenceShown(user) == preferred[user]

PolicyStatus(p) ==
    IF policy[p].revision = 0 THEN "not_configured"
    ELSE IF \E c \in policy[p].credentials : Active(c) /\ grant[c][p] # 0
         THEN "live_authorization_required" ELSE "blocked"

-----------------------------------------------------------------------------
(* An unjudged key may be tried: no call was made that could tell.          *)
(* Faulty variant: only a key without any verdict is stopped.               *)
ValidationRequiredUnlessKnown(c) == credential[c].status = "none"

ValidationRequired(c) == credential[c].judged \notin {"unjudged", "valid"}

CredentialBlockers(user, c) ==
    IF Owned(c, user) /\ Active(c)
    THEN Blocker("credential_live_validation_required", ValidationRequired(c))
    ELSE {"credential_not_owned_or_inactive"}

PolicyBlockers(c, p) ==
    IF policy[p].revision = 0 THEN {"project_policy_not_configured"}
    ELSE Blocker("credential_not_allowlisted", c \notin policy[p].credentials)

SelectionBlockers(user, c, p) ==
    CredentialBlockers(user, c)
    \cup Blocker("credential_grant_missing", grant[c][p] = 0)
    \cup Blocker("user_preference_not_enabled", PreferenceShown(user).revision = 0)
    \cup PolicyBlockers(c, p)

(* PaintPlanService.preview puts its own before these.                      *)
OwnerBlockers(user, p) == Blocker("owner_required", user # ProjectOwner[p])

PreviewBlockers(user, c, p) == OwnerBlockers(user, p) \cup SelectionBlockers(user, c, p)

-----------------------------------------------------------------------------
(* A fixture invocation's references are looked at before its row is        *)
(* written (_preauthorize_invocation_references) and once more by each      *)
(* admission (_resolve_admission, also the fixture's preview), which asks   *)
(* in addition for an enabled preference, whichever key is its default, and *)
(* for the project's allowlist.                                             *)
Preauthorized(user, c, p) ==
    HasAccess(user, p) /\ Owned(c, user) /\ Active(c) /\ grant[c][p] # 0

FixtureAdmits(user, c, p) ==
    /\ HasAccess(user, p)
    /\ Owned(c, user) /\ Active(c)
    /\ grant[c][p] # 0
    /\ preferred[user].revision # 0
    /\ policy[p].revision # 0 /\ c \in policy[p].credentials

-----------------------------------------------------------------------------
(* What the admission of a paint plan's call asks of the preference and the *)
(* preview does not look at, although its docstring "makes every other      *)
(* prerequisite explicit": that the default credential (and with it the     *)
(* default provider) and the default model are the selected ones, and that  *)
(* a cost warning was saved with its currency.                              *)
PreferenceSelects(user, c) ==
    LET shown == PreferenceShown(user)
    IN  shown.credential = c /\ shown.model = PlanModel /\ shown.warned

(* The preview and the admission agree on every selection of everyone who   *)
(* may see the project, reviewers who come and go included, through every   *)
(* history of grants, revocations, replacements and verdicts, but for what  *)
(* PreferenceSelects names: a call is admitted exactly if the preview has   *)
(* no blocker and the preference, which the user is shown, selects the key, *)
(* the model and a warning.  A policy shown as ready leaves its owner no    *)
(* blocker but to enable the preference or to have the key judged anew.  A  *)
(* live call is admitted on no less than a fixture invocation, and nothing  *)
(* that a fixture's preview found admissible is refused before it is        *)
(* written down.                                                            *)
ReadyMeansCallable ==
    \A user \in Users, p \in Projects : HasAccess(user, p) =>
        /\ \A c \in {saved \in Creds : credential[saved].status # "none"} :
              MayCall(user, c, p) <=> /\ PreviewBlockers(user, c, p) = {}
                                      /\ PreferenceSelects(user, c)
        /\ \A c \in Creds :
              /\ MayCall(user, c, p) => FixtureAdmits(user, c, p)
              /\ FixtureAdmits(user, c, p) => Preauthorized(user, c, p)
        /\ user = ProjectOwner[p] /\ PolicyStatus(p) = "live_authorization_required" =>
              \E c \in policy[p].credentials :
                  PreviewBlockers(user, c, p) \subseteq
                      {"credential_live_validation_required", "user_preference_not_enabled"}
=============================================================================
