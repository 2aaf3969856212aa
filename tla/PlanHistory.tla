----------------------------- MODULE PlanHistory -----------------------------
(* The guards PostgreSQL itself puts on paint plans and their review events *)
(* (triggers, constraints and indexes of migration 3b01), and the two programs    *)
(* that write through them: the service, and the restore, which replays the *)
(* whole history of a project into an empty database.                       *)
(*                                                                          *)
(* A transaction is a sequence of statements.  Row triggers judge each      *)
(* statement; deferred constraint triggers judge, at COMMIT or when they    *)
(* are set IMMEDIATE, what earlier statements left pending.  What the       *)
(* triggers ask of review, region and prompt rows, which never change,      *)
(* holds at a replay because it held at the first insert.                   *)
EXTENDS PaintGovernance, FiniteSets, SequencesExt

Columns == {"lifecycle", "parent", "kind", "lineage", "revision", "key", "source"}

(* plans[v] as it lies in two tables.                                       *)
PlanRow(v) == [c \in Columns |-> plans[v][c]]

Insert(v, row) == [op |-> "insert", plan |-> v, row |-> row]
Update(v, lifecycle) == [op |-> "update", plan |-> v, lifecycle |-> lifecycle]
Record(v, action) == [op |-> "record", plan |-> v, action |-> action]
Instruct(v) == [op |-> "instruct", plan |-> v]
Check == [op |-> "check"]
Commit == [op |-> "commit"]

(* Tables with the rows of the first n versions: a function of versions to  *)
(* rows, the review events of each, and the plans that have an instruction  *)
(* for every paint region; what deferred triggers still have to judge.      *)
Tables(n) == [rows |-> [v \in 1..n |-> PlanRow(v)],
              events |-> [v \in 1..n |-> plans[v].reviews],
              instructed |-> 1..n, uncounted |-> {},
              pending |-> {}, accepted |-> TRUE]

-----------------------------------------------------------------------------
(* phase3b_verify_paint_plan_insert, and what every row is checked for.     *)
CameFromItsInvocation(row) ==
    /\ invocation[row.key].status = "succeeded"
    /\ ProvenanceOf(invocation[row.key].sent) = row.source

FollowsItsParent(db, v, row) ==
    IF row.kind = "generated" THEN v = 1 /\ DOMAIN db.rows = {}
    ELSE /\ row.parent \in DOMAIN db.rows /\ v = row.parent + 1
         /\ db.rows[row.parent].lifecycle = "superseded"
         /\ row.kind = "edited" =>
               /\ row.lineage = db.rows[row.parent].lineage
               /\ row.revision = db.rows[row.parent].revision + 1

(* The check constraint on lineages and the foreign keys of the row.        *)
RowConstraints(db, v, row) ==
    /\ row.kind = "edited" <=> row.lineage # v
    /\ row.kind = "edited" <=> row.revision >= 2
    /\ row.kind = "generated" <=> row.parent = 0
    /\ {row.parent, row.lineage} \subseteq DOMAIN db.rows \cup {v, 0}

(* One current plan, one plan of each generation, one of each lineage       *)
(* revision, one of each version.                                           *)
UniqueIndexes(db, v, row) ==
    /\ v \notin DOMAIN db.rows
    /\ \A w \in DOMAIN db.rows :
          /\ db.rows[w].lifecycle = "superseded"
          /\ "edited" \in {row.kind, db.rows[w].kind} \/ db.rows[w].key # row.key
          /\ <<db.rows[w].lineage, db.rows[w].revision>> # <<row.lineage, row.revision>>

MayInsert(db, v, row) ==
    /\ CameFromItsInvocation(row) /\ FollowsItsParent(db, v, row)
    /\ RowConstraints(db, v, row) /\ UniqueIndexes(db, v, row)

(* phase3b_guard_paint_plan_mutation                                        *)
MayUpdatePlan(from, to) ==
    \/ from \in {"generated", "edited"} /\ to \in {"under_review", "superseded"}
    \/ from = "under_review" /\ to \in {"decided", "superseded"}
    \/ from = "decided" /\ to = "superseded"

(* One event of each action on a plan.                                      *)
EventIndexes(events, action) == ~Contains(events, action)

(* phase3b_verify_review_event_insert                                       *)
MayRecord(events, action) ==
    IF action = "submit" THEN events = <<>>
    ELSE Contains(events, "submit") /\ ~Contains(events, "decide")

(* phase3b_verify_review_lifecycle                                          *)
ActionOf == [under_review |-> "submit", decided |-> "decide"]

Agrees(db, v, lifecycle) ==
    IF lifecycle = "superseded" THEN \E w \in DOMAIN db.rows : db.rows[w].parent = v
    ELSE lifecycle \in DOMAIN ActionOf =>
            /\ db.rows[v].lifecycle = lifecycle
            /\ Contains(db.events[v], ActionOf[lifecycle])

Consistent(db) == \A e \in db.pending : Agrees(db, e.plan, e.lifecycle)

(* phase3b_verify_instruction_count                                         *)
Covered(db) == db.uncounted \subseteq db.instructed

(* phase3b_guard_paint_plan_invocation_payload: what an invocation was asked *)
(* with stays as it was inserted (Row forgets it for a failed one).         *)
MayUpdateInvocation(from, to) ==
    from.status # "none" => to = Row(to.status, from.sent)

-----------------------------------------------------------------------------
(* f, and x for v.                                                          *)
Plus(f, v, x) == [w \in DOMAIN f \cup {v} |-> IF w = v THEN x ELSE f[w]]

Refuse(db) == [db EXCEPT !.accepted = FALSE]

Execute(db, s) ==
    IF ~db.accepted THEN db
    ELSE CASE s.op = "insert" ->
                IF ~MayInsert(db, s.plan, s.row) THEN Refuse(db)
                ELSE [db EXCEPT !.rows = Plus(@, s.plan, s.row),
                                !.events = Plus(@, s.plan, <<>>),
                                !.uncounted = @ \cup {s.plan}]
           [] s.op = "update" ->
                IF ~MayUpdatePlan(db.rows[s.plan].lifecycle, s.lifecycle) THEN Refuse(db)
                ELSE [db EXCEPT !.rows[s.plan].lifecycle = s.lifecycle,
                                !.pending = @ \cup {[plan |-> s.plan,
                                                     lifecycle |-> s.lifecycle]}]
           [] s.op = "record" ->
                IF ~ /\ MayRecord(db.events[s.plan], s.action)
                      /\ EventIndexes(db.events[s.plan], s.action) THEN Refuse(db)
                ELSE [db EXCEPT !.events[s.plan] = Append(@, s.action),
                                !.pending = @ \cup {[plan |-> s.plan,
                                                     lifecycle |-> LifecycleOf(s.action)]}]
           [] s.op = "instruct" ->
                IF s.plan \notin DOMAIN db.rows THEN Refuse(db)
                ELSE [db EXCEPT !.instructed = @ \cup {s.plan},
                                !.uncounted = @ \cup {s.plan}]
           [] s.op = "check" ->
                IF ~Consistent(db) THEN Refuse(db) ELSE [db EXCEPT !.pending = {}]
           [] s.op = "commit" ->
                IF ~Consistent(db) \/ ~Covered(db) THEN Refuse(db)
                ELSE [db EXCEPT !.pending = {}, !.uncounted = {}]

Transact(db, script) == FoldLeft(Execute, db, Append(script, Commit))

-----------------------------------------------------------------------------
(* What the service sends: the parent is superseded and flushed before its  *)
(* successor is added; a review event goes with its lifecycle.              *)
ServiceScript ==
    LET last == Len(plans) IN
    IF Len(plans') > last
    THEN (IF last = 0 THEN <<>> ELSE <<Update(last, "superseded")>>)
            \o <<Insert(last + 1, [c \in Columns |-> plans'[last + 1][c]]),
                 Instruct(last + 1)>>
    ELSE <<Update(last, plans'[last].lifecycle),
           Record(last, plans'[last].reviews[Len(plans'[last].reviews)])>>

(* _restore_paint_plan_history.  Faulty variant: the constraints are left   *)
(* deferred until the end of the transaction.                               *)
ReplayDeferred(v, action) == <<Record(v, action), Update(v, LifecycleOf(action))>>

Replay(v, action) == <<Record(v, action), Update(v, LifecycleOf(action)), Check>>

RestorePlan(v) ==
    LET initial == IF plans[v].kind = "edited" THEN "edited" ELSE "generated"
        reviews == [i \in DOMAIN plans[v].reviews |-> Replay(v, plans[v].reviews[i])]
    IN  <<Insert(v, [PlanRow(v) EXCEPT !.lifecycle = initial])>>
           \o FlattenSeq(reviews)
           \o (IF plans[v].lifecycle = "superseded" THEN <<Update(v, "superseded")>>
               ELSE <<>>)

(* The instructions are a table of their own, restored after every plan.    *)
RestoreScript ==
    FlattenSeq([v \in DOMAIN plans |-> RestorePlan(v)])
        \o [v \in DOMAIN plans |-> Instruct(v)]

-----------------------------------------------------------------------------
(* Whatever history the service has written - revisions superseded before,  *)
(* under or after review, by an edit or by another generation - a restore   *)
(* replays it through the triggers into the same rows and events.           *)
HistoryIsRestorable ==
    Transact(Tables(0), RestoreScript) = Tables(Len(plans))

(* No command the service accepts is refused by the database: each of its   *)
(* transactions passes the row triggers, the index on the current plan and  *)
(* the deferred constraints, and leaves what the service believes; and no   *)
(* retry under a used key rewrites what its invocation was asked with.      *)
GuardsAcceptCommands ==
    [][/\ plans' # plans =>
              Transact(Tables(Len(plans)), ServiceScript) = Tables(Len(plans))'
       /\ \A k \in Keys : MayUpdateInvocation(invocation[k], invocation'[k])]_vars
=============================================================================
