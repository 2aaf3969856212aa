------------------------------ MODULE MCAccounts ------------------------------
(* A browser that is signed in as the owner of one saved key logs in again, *)
(* twice (another tab, another person), one of the callbacks being          *)
(* delivered twice, while its commands and logout are on their way.         *)
EXTENDS Accounts, TLC

CONSTANTS q0, q1, q2, q3, f0, f1, f2, known, new, seed, project,
          logout, c1, c2, c3, c4, c5, c6, c7, c8, c9, c10,
          create, replace, again, revoke, lend, takeback, permit, prefer, judge,
          c11, share, other, mate, assign, invite, remove, dismiss, review,
          make, repeat, reuse, c12, c13, c14, terse, cards, spare, plans, readings

MCFlowOf == q0 :> f0 @@ q1 :> f1 @@ q2 :> f1 @@ q3 :> f2
MCCallbacks == {q0, q1, q2, q3}

MCTokens == {[iat |-> i, exp |-> e, nbf |-> n, nonce |-> f] :
                i \in {-2, 0, None}, e \in {0, 1}, n \in {None, 2}, f \in {f1, f2}}

(* The key is replaced, with a retry, and once more from another page;      *)
(* it is lent, to the project of somebody else too, taken back, revoked; a  *)
(* policy and the preference select it.  A preference may be saved without  *)
(* a cost warning (terse), with the model of the readings (cards), or with  *)
(* another key than the one that is lent (spare).                           *)
MCAsk(op, k) == [op |-> op, credential |-> k, project |-> project,
                 model |-> plans, warns |-> TRUE]

MCAsks ==
    create :> MCAsk("create", seed)
    @@ replace :> MCAsk("replace", seed) @@ again :> MCAsk("replace", seed)
    @@ revoke :> MCAsk("revoke", seed) @@ lend :> MCAsk("grant", seed)
    @@ takeback :> MCAsk("ungrant", seed) @@ permit :> MCAsk("policy", seed)
    @@ prefer :> MCAsk("prefer", seed) @@ judge :> MCAsk("validate", seed)
    @@ share :> [MCAsk("grant", seed) EXCEPT !.project = other]
    @@ terse :> [MCAsk("prefer", seed) EXCEPT !.warns = FALSE]
    @@ cards :> [MCAsk("prefer", seed) EXCEPT !.model = readings]
    @@ spare :> MCAsk("prefer", create)

MCKeyOf ==
    c10 :> create @@ c1 :> replace @@ c2 :> replace @@ c3 :> again @@ c4 :> revoke @@ c5 :> lend
    @@ c6 :> takeback @@ c7 :> permit @@ c8 :> prefer @@ c9 :> judge
    @@ c11 :> share @@ c12 :> terse @@ c13 :> cards @@ c14 :> spare

(* Two owners who make each other reviewers, a dismissal and a review that  *)
(* is under way; one key under which a project is created thrice, once with *)
(* another title.                                                           *)
MCWork ==
    invite :> [op |-> "assign", user |-> q0, other |-> mate, project |-> project]
    @@ assign :> [op |-> "assign", user |-> mate, other |-> q0, project |-> other]
    @@ dismiss :> [op |-> "remove", user |-> q0, other |-> mate, project |-> project]
    @@ remove :> [op |-> "remove", user |-> mate, other |-> q0, project |-> other]
    @@ review :> [op |-> "review", user |-> mate, project |-> project]
    @@ make :> [op |-> "create", user |-> q0, key |-> 1, title |-> 1]
    @@ repeat :> [op |-> "create", user |-> q0, key |-> 1, title |-> 1]
    @@ reuse :> [op |-> "create", user |-> q0, key |-> 1, title |-> 2]

(* Logins over a logout and one command; commands over one session; the     *)
(* requests on projects; a key that is lent while its owner comes and goes  *)
(* as a reviewer; preferences of four kinds over a project that is ready.  *)
MCScenarios == {{q1, q2, q3, logout}, {q1, q3, logout, c1},
                {c1, c2, c3, c4}, {c1, c4, c5, c6}, {c1, c5, c7, c8, c9},
                {c8, c9, c10}, {c1, c4, c9, c10},
                {invite, assign, dismiss, review}, {make, repeat, reuse},
                {assign, remove, c4, c11}, {c5, c7, c8, c12, c13},
                {c5, c7, c10, c14}}

MCUsers == MCCallbacks \cup {mate}
MCRank == [u \in MCUsers |-> CASE u = mate -> 0 [] u = q0 -> 1 [] u = q1 -> 2
                               [] u = q2 -> 3 [] OTHER -> 4]
MCOwner == project :> q0 @@ other :> mate
MCReaders == project :> {mate} @@ other :> {}
=============================================================================
