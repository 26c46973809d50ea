----------------------------- MODULE Migrations -----------------------------
(***************************************************************************)
(* The schema of the database: the revisions under alembic/versions, the   *)
(* upgrade that every start of the server runs before create_all, the      *)
(* downgrades an operator runs while it is down, and crashes in between.   *)
(*                                                                         *)
(* One step is one statement.  A revision's statements are listed for the  *)
(* schema it finds.  Of a table only the parts (columns, constraints and   *)
(* indexes, named without the table) are kept that a later revision needs. *)
(* PostgreSQL runs an upgrade in one transaction.  On SQLite Alembic has   *)
(* one per revision, and sqlite3 opens it at the first statement that      *)
(* changes rows: what comes before is committed statement by statement.    *)
(***************************************************************************)
EXTENDS Integers, SequencesExt

CONSTANTS
    LegacyRows,     \* the sets of kinds of rows that legacy tables may have
    MaxCrashes      \* bound on the crashes

RowKinds == {"empty",       \* a version with neither content nor task
             "duplicates",  \* two versions with the same fields
             "blank",       \* a prompt with a blank name or project
             "padded"}      \* a prompt whose project has spaces around it

ASSUME MigrationsAssumption == MaxCrashes \in Nat /\ LegacyRows \subseteq SUBSET RowKinds

VARIABLES
    dialect,    \* of DATABASE_URL
    found,      \* history: the first revision found its tables there
    disk,       \* the database as committed
    work,       \* the database as the running migration sees it
    inTx,       \* work has statements that a crash undoes
    server,     \* what runs
    rev,        \* the revision in progress, "" outside of one
    todo,       \* its statements still to run
    torn,       \* history: the <<direction, revision>> that were cut short on
                \* SQLite and have not been completed since
    failed,     \* the <<direction, revision>> whose failure ended the last run
    crashes

migVars == <<dialect, found, disk, work, inTx, server, rev, todo, torn, failed,
             crashes>>

-----------------------------------------------------------------------------
(* Statements.  bad: the kinds of rows that make one fail.                 *)

Stmt(op, t, drops, adds, bad) ==
    [op |-> op, table |-> t, drops |-> drops, adds |-> adds, bad |-> bad]

CreateTable(t, parts) == Stmt("create", t, {}, parts, {})
DropTable(t) == Stmt("drop", t, {}, {}, {})
Alter(t, drops, adds) == Stmt("alter", t, drops, adds, {})
Check(t, bad) == Stmt("check", t, {}, {}, bad)
\* DML that reads the given parts of t, and the rows it puts right.
Data(t, parts) == Stmt("data", t, parts, {}, {})
Backfill(t, parts, kinds) == Stmt("data", t, parts, kinds, {})

\* batch_alter_table that cannot ALTER in place: on SQLite a new table under a
\* temporary name, which takes over the rows and the name.
Batch(t, drops, adds, bad) ==
    <<Stmt("tmp", t, {}, {}, {}), Stmt("rebuild", t, drops, adds, bad)>>

Create(t, parts, indexes) ==
    <<CreateTable(t, parts)>>
    \o [i \in DOMAIN indexes |-> Alter(t, {}, {indexes[i]})]

Undo(t, indexes) ==
    [i \in DOMAIN indexes |-> Alter(t, {indexes[i]}, {})] \o <<DropTable(t)>>

When(condition, stmts) == IF condition THEN stmts ELSE << >>

Has(d, t) == t \in DOMAIN d.tables
PartsOf(d, t) == IF Has(d, t) THEN d.tables[t] ELSE {}
HasPart(d, t, p) == p \in PartsOf(d, t)

AddMissing(d, t, p) == When(~HasPart(d, t, p), <<Alter(t, {}, {p})>>)

-----------------------------------------------------------------------------
(* The revisions: Up and Down of each, on the database d it finds.         *)

Up0001(d) ==
       (IF Has(d, "prompts")
        THEN AddMissing(d, "prompts", "ix_name") \o AddMissing(d, "prompts", "ix_project")
        ELSE Create("prompts", {"project", "uq_name_project"},
                    <<"ix_id", "ix_name", "ix_project">>))
    \o (IF Has(d, "tags") THEN AddMissing(d, "tags", "ix_name")
        ELSE Create("tags", {}, <<"ix_id", "ix_name">>))
    \o (IF Has(d, "prompt_versions")
        THEN AddMissing(d, "prompt_versions", "uq_version")
        ELSE Create("prompt_versions", {"content", "uq_version"}, <<"ix_id">>))
    \o When(~Has(d, "prompt_tags"), Create("prompt_tags", {}, << >>))

Down0001(d) ==
       When(Has(d, "prompt_tags"), Undo("prompt_tags", << >>))
    \o When(Has(d, "prompt_versions"), Undo("prompt_versions", <<"ix_id">>))
    \o When(Has(d, "tags"), Undo("tags", <<"ix_name", "ix_id">>))
    \o When(Has(d, "prompts"),
            Undo("prompts", <<"ix_project", "ix_name", "ix_id">>))

Components == {"role", "task", "context", "constraints", "output_format", "examples"}

Up0002(d) ==
       AddMissing(d, "prompt_versions", "role")
    \o AddMissing(d, "prompt_versions", "task")
    \o AddMissing(d, "prompt_versions", "context")
    \o AddMissing(d, "prompt_versions", "constraints")
    \o AddMissing(d, "prompt_versions", "output_format")
    \o AddMissing(d, "prompt_versions", "examples")
    \o <<Data("prompt_versions", {"content", "task"})>>
    \o Batch("prompt_versions", {"content"}, {}, {"empty"})

Down0002(d) ==
       AddMissing(d, "prompt_versions", "content")
    \o <<Data("prompt_versions", {"content", "task"})>>
    \o Batch("prompt_versions",
             {p \in Components : HasPart(d, "prompt_versions", p)}, {}, {})

Up0003(d) ==
    When(~HasPart(d, "prompt_versions", "uq_content_fields"),
         <<Check("prompt_versions", {"duplicates"}),
           Alter("prompt_versions", {}, {"uq_content_fields"})>>)

Down0003(d) ==
    When(HasPart(d, "prompt_versions", "uq_content_fields"),
         <<Alter("prompt_versions", {"uq_content_fields"}, {})>>)

BackfillInvalidPromptRows(d) ==
    When("blank" \in d.rows, <<Backfill("prompts", {"project"}, {"blank"})>>)

Up0004(d) ==
    BackfillInvalidPromptRows(d)
    \o Batch("prompts", {}, {"ck_name", "ck_project"}, {"blank"})

Down0004(d) == Batch("prompts", {"ck_project", "ck_name"}, {}, {})

Up0005(d) ==
       Create("users", {"role", "ck_role"}, <<"ix_id", "ix_username">>)
    \o Create("configs", {"model_id", "rounds", "gp_profile"}, <<"ix_id">>)
    \o Create("project_access", {"project", "ck_project", "uq_user_project"},
              <<"ix_id", "ix_project">>)

Down0005(d) ==
       Undo("project_access", <<"ix_project", "ix_id">>)
    \o Undo("configs", <<"ix_id">>)
    \o Undo("users", <<"ix_username", "ix_id">>)

\* The project_id of a row is looked up by the project's name as it stands in
\* the row, the names in projects are trimmed.
Up0006(d) ==
       Create("projects", {}, <<"ix_id", "ix_name">>)
    \o <<Data("prompts", {"project"}), Data("project_access", {"project"}),
         Alter("prompts", {}, {"project_id"}),
         Alter("project_access", {}, {"project_id"})>>
    \o Batch("prompts", {"uq_name_project", "ck_project", "ix_project", "project"},
             {"fk_project", "uq_name_project_id", "ix_project_id"}, {"padded"})
    \o Batch("project_access",
             {"uq_user_project", "ck_project", "ix_project", "project"},
             {"fk_project", "uq_user_project_id", "ix_project_id"}, {})

Down0006(d) ==
       <<Alter("project_access", {}, {"project"}), Alter("prompts", {}, {"project"}),
         Data("prompts", {"project_id"}), Data("project_access", {"project_id"})>>
    \o Batch("prompts",
             {"ix_project_id", "uq_name_project_id", "fk_project", "project_id"},
             {"ck_project", "uq_name_project", "ix_project"}, {})
    \o Batch("project_access",
             {"ix_project_id", "uq_user_project_id", "fk_project", "project_id"},
             {"ck_project", "uq_user_project", "ix_project"}, {})
    \o Undo("projects", <<"ix_name", "ix_id">>)

Up0007(d) ==
       Create("roles", {}, <<"ix_id", "ix_name">>)
    \o <<Data("roles", {}), Alter("users", {}, {"role_id"}), Data("users", {"role"})>>
    \o Batch("users", {"ck_role", "role"}, {"fk_role", "ix_role_id"}, {})

Down0007(d) ==
       <<Alter("users", {}, {"role"}), Data("users", {"role_id"})>>
    \o Batch("users", {"ix_role_id", "fk_role", "role_id"}, {"ck_role"}, {})
    \o Undo("roles", <<"ix_name", "ix_id">>)

PromptAudit == {"created_at", "updated_at", "created_by_id", "updated_by_id",
                "ix_created_by_id", "ix_updated_by_id"}
VersionAudit == {"created_at", "created_by_id", "ix_created_by_id"}

Up0008(d) ==
       Batch("prompts", {}, PromptAudit \cup {"fk_created_by", "fk_updated_by"}, {})
    \o Batch("prompt_versions", {}, VersionAudit \cup {"fk_created_by"}, {})
    \o <<Data("prompts", {"created_at"}), Data("prompt_versions", {"created_at"})>>
    \o Batch("prompts", {}, {}, {}) \o Batch("prompt_versions", {}, {}, {})

\* The foreign keys are dropped by name.
Down0008(d) ==
       Batch("prompt_versions", VersionAudit \cup {"fk_created_by"}, {}, {})
    \o Batch("prompts", PromptAudit \cup {"fk_created_by", "fk_updated_by"}, {}, {})

Up0009(d) == <<Data("roles", {})>>
Down0009(d) == <<Data("roles", {})>>

Up0010(d) == <<Data("prompts", {"created_by_id", "updated_by_id"}),
               Data("prompt_versions", {"created_by_id"})>>
Down0010(d) == Up0010(d)

Legacy == {"model_id", "rounds", "gp_profile"}

Up0011(d) ==
    LET present == {c \in Legacy : HasPart(d, "configs", c)}
    IN  When(present # {}, Batch("configs", present, {}, {}))

Down0011(d) ==
       AddMissing(d, "configs", "model_id") \o AddMissing(d, "configs", "rounds")
    \o AddMissing(d, "configs", "gp_profile")

Up0012(d) == <<Alter("users", {}, {"password_changed_at"})>>
Down0012(d) == <<Alter("users", {"password_changed_at"}, {})>>

Up0013(d) == Create("cache_requests", {}, <<"ix_id", "ix_cache_key">>)
Down0013(d) == Undo("cache_requests", <<"ix_cache_key", "ix_id">>)

UpGlobalConfig(d) == Create("global_config", {}, << >>)
DownGlobalConfig(d) == Undo("global_config", << >>)

Up0014(d) ==
       Create("conversation_threads", {}, <<"ix_id", "ix_project_id", "ix_title">>)
    \o Create("conversation_messages", {}, <<"ix_id", "ix_thread_id", "ix_role">>)
    \o Create("conversation_imports", {},
              <<"ix_id", "ix_thread_id", "ix_import_format", "ix_status">>)

Down0014(d) ==
       Undo("conversation_imports",
            <<"ix_status", "ix_import_format", "ix_thread_id", "ix_id">>)
    \o Undo("conversation_messages", <<"ix_role", "ix_thread_id", "ix_id">>)
    \o Undo("conversation_threads", <<"ix_title", "ix_project_id", "ix_id">>)

DropIfPresent(d, t) == When(Has(d, t), <<DropTable(t)>>)

Up0015Unguarded(d) ==
    [i \in 1..5 |-> DropTable(
        <<"prompt_tags", "prompt_versions", "prompts", "tags", "configs">>[i])]

Up0015(d) ==
    DropIfPresent(d, "prompt_tags") \o DropIfPresent(d, "prompt_versions")
    \o DropIfPresent(d, "prompts") \o DropIfPresent(d, "tags")
    \o DropIfPresent(d, "configs")

\* Empty tables, whose foreign keys have no names.
Down0015(d) ==
       When(~Has(d, "tags"), Create("tags", {}, <<"ix_id", "ix_name">>))
    \o When(~Has(d, "prompts"),
            Create("prompts",
                   {"created_at", "updated_at", "created_by_id", "updated_by_id",
                    "project_id", "uq_name_project_id", "ck_name", "unnamed_fk"},
                   <<"ix_id", "ix_name", "ix_project_id", "ix_created_by_id",
                     "ix_updated_by_id">>))
    \o When(~Has(d, "prompt_versions"),
            Create("prompt_versions",
                   {"created_at", "created_by_id", "uq_version",
                    "uq_content_fields", "unnamed_fk"} \cup Components,
                   <<"ix_id", "ix_created_by_id">>))
    \o When(~Has(d, "prompt_tags"), Create("prompt_tags", {}, << >>))
    \o When(~Has(d, "configs"), Create("configs", {}, <<"ix_id">>))

Up0016(d) ==
       When(~Has(d, "prompt_chains"),
            Create("prompt_chains", {},
                   <<"ix_id", "ix_project_id", "ix_name", "ix_created_by_id",
                     "ix_updated_by_id">>))
    \o When(~Has(d, "prompt_chain_versions"),
            Create("prompt_chain_versions", {},
                   <<"ix_id", "ix_chain_id", "ix_created_by_id">>))

Down0016(d) == DropIfPresent(d, "prompt_chain_versions")
               \o DropIfPresent(d, "prompt_chains")

Revisions == {"0001", "0002", "0003", "0004", "0005", "0006", "0007", "0008", "0009",
              "0010", "0011", "0012", "0013", "config", "merge", "0014", "0015", "0016"}

\* down_revision.  "config" is 20260521_0008, the second root; "merge" is
\* 6543f3d58168.
Parents == [r \in Revisions |->
    CASE r \in {"0001", "config"} -> {}
      [] r = "0002" -> {"0001"} [] r = "0003" -> {"0002"} [] r = "0004" -> {"0003"}
      [] r = "0005" -> {"0004"} [] r = "0006" -> {"0005"} [] r = "0007" -> {"0006"}
      [] r = "0008" -> {"0007"} [] r = "0009" -> {"0008"} [] r = "0010" -> {"0009"}
      [] r = "0011" -> {"0010"} [] r = "0012" -> {"0011"} [] r = "0013" -> {"0012"}
      [] r = "merge" -> {"config", "0013"}
      [] r = "0014" -> {"merge"} [] r = "0015" -> {"0014"} [] r = "0016" -> {"0015"}]

Up(r, d) ==
    CASE r = "0001" -> Up0001(d) [] r = "0002" -> Up0002(d)
      [] r = "0003" -> Up0003(d) [] r = "0004" -> Up0004(d)
      [] r = "0005" -> Up0005(d) [] r = "0006" -> Up0006(d)
      [] r = "0007" -> Up0007(d) [] r = "0008" -> Up0008(d)
      [] r = "0009" -> Up0009(d) [] r = "0010" -> Up0010(d)
      [] r = "0011" -> Up0011(d) [] r = "0012" -> Up0012(d)
      [] r = "0013" -> Up0013(d) [] r = "config" -> UpGlobalConfig(d)
      [] r = "merge" -> << >>    [] r = "0014" -> Up0014(d)
      [] r = "0015" -> Up0015(d) [] r = "0016" -> Up0016(d)

Down(r, d) ==
    CASE r = "0001" -> Down0001(d) [] r = "0002" -> Down0002(d)
      [] r = "0003" -> Down0003(d) [] r = "0004" -> Down0004(d)
      [] r = "0005" -> Down0005(d) [] r = "0006" -> Down0006(d)
      [] r = "0007" -> Down0007(d) [] r = "0008" -> Down0008(d)
      [] r = "0009" -> Down0009(d) [] r = "0010" -> Down0010(d)
      [] r = "0011" -> Down0011(d) [] r = "0012" -> Down0012(d)
      [] r = "0013" -> Down0013(d) [] r = "config" -> DownGlobalConfig(d)
      [] r = "merge" -> << >>      [] r = "0014" -> Down0014(d)
      [] r = "0015" -> Down0015(d) [] r = "0016" -> Down0016(d)

-----------------------------------------------------------------------------
(* Running statements.                                                     *)

\* Tables and columns of models/models.py, as far as revisions altered them.
ModelSchema ==
    [t \in {"projects", "roles", "users", "project_access", "cache_requests",
            "global_config", "conversation_threads", "conversation_messages",
            "conversation_imports", "prompt_chains", "prompt_chain_versions"} |->
        CASE t = "users" -> {"role_id", "password_changed_at"}
          [] t = "project_access" -> {"project_id", "uq_user_project_id"}
          [] OTHER -> {}]

LegacyTables ==
    [t \in {"prompts", "tags", "prompt_versions", "prompt_tags"} |->
        CASE t = "prompts" -> {"project", "uq_name_project"}
          [] t = "prompt_versions" -> {"content"}
          [] OTHER -> {}]

\* The tables, and those of the others that are not among them.
AddTables(tables, others) ==
    [t \in DOMAIN tables \cup DOMAIN others |->
        IF t \in DOMAIN tables THEN tables[t] ELSE others[t]]

OnSqlite == dialect = "sqlite"

Fails(d, s) ==
    \/ s.bad \cap d.rows # {}
    \/ s.op = "create" /\ Has(d, s.table)
    \/ s.op # "create" /\ ~Has(d, s.table)
    \/ s.op \in {"alter", "rebuild", "data"} /\ ~(s.drops \subseteq PartsOf(d, s.table))
    \/ s.op \in {"alter", "rebuild"} /\ s.adds \cap PartsOf(d, s.table) # {}
    \/ s.op = "tmp" /\ s.table \in d.tmps

\* The rows that go with a table.
RowsOf(t) == CASE t = "prompts" -> {"blank", "padded"}
               [] t = "prompt_versions" -> {"empty", "duplicates"}
               [] OTHER -> {}

Effect(d, s) ==
    CASE s.op = "create" -> [d EXCEPT !.tables = AddTables(@, [t \in {s.table} |-> s.adds])]
      [] s.op = "drop" ->
            [d EXCEPT !.tables = [t \in DOMAIN @ \ {s.table} |-> @[t]],
                      !.rows = @ \ RowsOf(s.table)]
      [] s.op = "alter" -> [d EXCEPT !.tables[s.table] = (@ \ s.drops) \cup s.adds]
      [] s.op = "rebuild" ->
            [d EXCEPT !.tables[s.table] = (@ \ s.drops) \cup s.adds,
                      !.tmps = @ \ {s.table}]
      [] s.op = "tmp" -> [d EXCEPT !.tmps = IF OnSqlite THEN @ \cup {s.table} ELSE @]
      [] s.op = "data" -> [d EXCEPT !.rows = @ \ s.adds]
      [] s.op = "check" -> d

Writes(s) == s.op \in {"data", "rebuild"}

Directions == {"up", "down"}
Direction == IF server = "downgrading" THEN "down" ELSE "up"

MigrationsInit ==
    /\ dialect \in {"sqlite", "postgres"}
    /\ \E tables \in {<< >>, LegacyTables}, rows \in LegacyRows \cup {{}} :
        /\ rows # {} => tables # << >>
        /\ disk = [tables |-> tables, tmps |-> {}, applied |-> {}, rows |-> rows]
    /\ work = disk
    /\ found = FALSE /\ inTx = FALSE /\ server = "down" /\ rev = "" /\ todo = << >>
    /\ torn = {} /\ failed = << >> /\ crashes = 0

\* command.upgrade(alembic_config, "head"); on PostgreSQL its transaction.
StartServer ==
    /\ server = "down"
    /\ server' = "upgrading" /\ inTx' = ~OnSqlite /\ failed' = << >>
    /\ UNCHANGED <<dialect, found, disk, work, rev, todo, torn, crashes>>

\* Any revision whose parents have been applied.
BeginRevision(r) ==
    /\ server = "upgrading" /\ rev = ""
    /\ r \notin work.applied /\ Parents[r] \subseteq work.applied
    /\ rev' = r /\ todo' = Up(r, work)
    /\ found' = (IF r = "0001" THEN Has(work, "prompts") ELSE found)
    /\ UNCHANGED <<dialect, disk, work, inTx, server, torn, failed, crashes>>

\* alembic downgrade, of one head, by the operator.
StartDowngrade(r) ==
    /\ server = "down" /\ r \in disk.applied
    /\ \A q \in disk.applied : r \notin Parents[q]
    /\ server' = "downgrading" /\ rev' = r /\ todo' = Down(r, disk)
    /\ inTx' = ~OnSqlite /\ failed' = << >>
    /\ UNCHANGED <<dialect, found, disk, work, torn, crashes>>

RunStatement ==
    /\ todo # << >> /\ ~Fails(work, Head(todo))
    /\ work' = Effect(work, Head(todo))
    /\ inTx' = (inTx \/ Writes(Head(todo)))
    /\ disk' = IF inTx' THEN disk ELSE work'
    /\ todo' = Tail(todo)
    /\ UNCHANGED <<dialect, found, server, rev, torn, failed, crashes>>

\* The row in alembic_version, and on SQLite the commit.
EndRevision ==
    /\ server = "upgrading" /\ rev # "" /\ todo = << >>
    /\ work' = [work EXCEPT !.applied = @ \cup {rev}]
    /\ disk' = IF OnSqlite THEN work' ELSE disk
    /\ inTx' = ~OnSqlite
    /\ rev' = "" /\ torn' = torn \ {<<"up", rev>>}
    /\ UNCHANGED <<dialect, found, server, todo, failed, crashes>>

EndDowngrade ==
    /\ server = "downgrading" /\ todo = << >>
    /\ work' = [work EXCEPT !.applied = @ \ {rev}]
    /\ disk' = work'
    /\ inTx' = FALSE /\ rev' = "" /\ server' = "down"
    /\ torn' = torn \ {<<"down", rev>>}
    /\ UNCHANGED <<dialect, found, todo, failed, crashes>>

EndUpgrade ==
    /\ server = "upgrading" /\ rev = "" /\ work.applied = Revisions
    /\ disk' = work /\ inTx' = FALSE /\ server' = "creating"
    /\ UNCHANGED <<dialect, found, work, rev, todo, torn, failed, crashes>>

CreateNothing == server = "creating" /\ work' = work

\* Base.metadata.create_all: the tables of the models that do not exist.
CreateAll == server = "creating" /\ work' = [work EXCEPT !.tables = AddTables(@, ModelSchema)]

Serve ==
    /\ CreateAll
    /\ disk' = work' /\ server' = "serving"
    /\ UNCHANGED <<dialect, found, inTx, rev, todo, torn, failed, crashes>>

StopServer ==
    /\ server = "serving"
    /\ server' = "down"
    /\ UNCHANGED <<dialect, found, disk, work, inTx, rev, todo, torn, failed, crashes>>

\* The process ends; what was not committed is gone.
ProcessEnds ==
    /\ server' = "down" /\ work' = disk
    /\ inTx' = FALSE /\ rev' = "" /\ todo' = << >>
    /\ torn' = IF OnSqlite /\ rev # "" THEN torn \cup {<<Direction, rev>>} ELSE torn
    /\ UNCHANGED <<dialect, found, disk>>

StatementFails ==
    /\ todo # << >> /\ Fails(work, Head(todo))
    /\ ProcessEnds /\ failed' = <<Direction, rev>>
    /\ UNCHANGED crashes

Crash ==
    /\ server # "down" /\ crashes < MaxCrashes
    /\ ProcessEnds /\ crashes' = crashes + 1
    /\ UNCHANGED failed

\* The operator puts the rows right that the failed upgrade complained of.
RepairRows ==
    /\ server = "down" /\ failed # << >> /\ disk.rows # {}
    /\ disk' = [disk EXCEPT !.rows = {}] /\ work' = disk'
    /\ failed' = << >>
    /\ UNCHANGED <<dialect, found, inTx, server, rev, todo, torn, crashes>>

MigrationsNext ==
    \/ StartServer \/ RunStatement \/ EndRevision \/ EndDowngrade \/ EndUpgrade
    \/ Serve \/ StopServer \/ StatementFails \/ Crash \/ RepairRows
    \/ \E r \in Revisions : BeginRevision(r) \/ StartDowngrade(r)

MigrationsSpec == MigrationsInit /\ [][MigrationsNext]_migVars

-----------------------------------------------------------------------------
(* Properties.                                                             *)

Database == [tmps : SUBSET {"prompts", "prompt_versions", "users", "configs",
                            "project_access"},
             applied : SUBSET Revisions, rows : SUBSET RowKinds]

MigrationsTypeOK ==
    /\ \A d \in {disk, work} :
        [tmps |-> d.tmps, applied |-> d.applied, rows |-> d.rows] \in Database
    /\ server \in {"down", "upgrading", "creating", "serving", "downgrading"}
    /\ rev \in Revisions \cup {""}
    /\ torn \subseteq Directions \X Revisions
    /\ server = "down" => work = disk /\ todo = << >>

\* Downgrades that take a column off a table that stays.
DropsColumns == {<<"down", "0012">>}

\* A server that takes requests finds every table of the models with what the
\* models use of it, whatever crashes, failures and downgrades came before.
\* The exception: on SQLite a downgrade that had dropped a column was cut short
\* before its row in alembic_version, and no upgrade brings the column back.
ServingMeansCurrentSchema ==
    server = "serving" /\ torn \cap DropsColumns = {} =>
        \A t \in DOMAIN ModelSchema :
            Has(disk, t) /\ ModelSchema[t] \subseteq disk.tables[t]

\* Revisions that can be run again after a crash on SQLite, because they look
\* before they create or drop, or change nothing but rows.
RestartSafe ==
    {"up"} \X {"0001", "0002", "0003", "0009", "0010", "merge", "0015", "0016"}
    \cup {"down"} \X {"0002", "0003", "0009", "0010", "0011", "merge", "0015", "0016"}

BadRows == [r \in {"0002", "0003", "0006"} |->
    CASE r = "0002" -> "empty" [] r = "0003" -> "duplicates" [] r = "0006" -> "padded"]

\* When an upgrade or a downgrade fails, rows that the revision does not accept
\* are there, or on SQLite an earlier run was cut short in another revision, or
\* in this one if it cannot be run again, or the operator goes back over 20260517_0008 after
\* 20260603_0015 has restored its tables with unnamed foreign keys, or over the
\* first revision when that had found tables, whose indexes it did not complete.
FailuresHaveACause ==
    [][StatementFails =>
        \/ Direction = "up" /\ rev \in DOMAIN BadRows /\ BadRows[rev] \in disk.rows
        \/ \E t \in torn : t # <<Direction, rev>> \/ t \notin RestartSafe
        \/ Direction = "down" /\ rev = "0008"
           /\ HasPart(work, "prompt_versions", "unnamed_fk")
        \/ Direction = "down" /\ rev = "0001" /\ found]_migVars
=============================================================================
