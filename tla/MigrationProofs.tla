-------------------------- MODULE MigrationProofs --------------------------
(***************************************************************************)
(* Theorems of Migrations, for both databases, any rows in legacy tables   *)
(* and any number of crashes.                                              *)
(*                                                                         *)
(* What the statements of a revision may do to the tables that the models  *)
(* still use is stated once (Allowed), with a lemma per revision and       *)
(* direction; the invariant says what of the applied revisions must be     *)
(* there (SuppliedInv), and what a run under way has still to bring.       *)
(***************************************************************************)
EXTENDS Migrations, SequenceTheorems, TLAPS

-----------------------------------------------------------------------------
(* Types.                                                                  *)

TableNames == {"prompts", "tags", "prompt_versions", "prompt_tags", "users", "configs",
               "project_access", "projects", "roles", "cache_requests", "global_config",
               "conversation_threads", "conversation_messages", "conversation_imports",
               "prompt_chains", "prompt_chain_versions"}
Parts == {"project", "uq_name_project", "ix_id", "ix_name", "ix_project", "content",
          "uq_version", "role", "task", "context", "constraints", "output_format",
          "examples", "uq_content_fields", "ck_name", "ck_project", "ck_role",
          "ix_username", "model_id", "rounds", "gp_profile", "uq_user_project",
          "project_id", "fk_project", "uq_name_project_id", "ix_project_id",
          "uq_user_project_id", "role_id", "fk_role", "ix_role_id", "created_at",
          "updated_at", "created_by_id", "updated_by_id", "ix_created_by_id",
          "ix_updated_by_id", "fk_created_by", "fk_updated_by", "password_changed_at",
          "ix_cache_key", "ix_title", "ix_thread_id", "ix_role", "ix_import_format",
          "ix_status", "unnamed_fk", "ix_chain_id"}
TmpTables == {"prompts", "prompt_versions", "users", "configs", "project_access"}
Ops == {"create", "drop", "alter", "check", "data", "tmp", "rebuild"}
Statement == {s \in [op : Ops, table : TableNames, drops : SUBSET Parts,
                     adds : SUBSET (Parts \cup RowKinds), bad : SUBSET RowKinds] :
                 s.op = "tmp" => s.table \in TmpTables}

LEMMA ConcatOfSeq ==
    ASSUME NEW S, NEW a \in Seq(S), NEW b \in Seq(S)
    PROVE  a \o b \in Seq(S)
BY ConcatProperties

LEMMA EmptyOfSeq == ASSUME NEW S PROVE << >> \in Seq(S)
OBVIOUS

LEMMA OneOfSeq == ASSUME NEW S, NEW x \in S PROVE <<x>> \in Seq(S)
OBVIOUS

LEMMA TwoOfSeq == ASSUME NEW S, NEW x \in S, NEW y \in S PROVE <<x, y>> \in Seq(S)
OBVIOUS

LEMMA WhenOfSeq ==
    ASSUME NEW S, NEW c, NEW s \in Seq(S)
    PROVE  When(c, s) \in Seq(S)
BY DEF When

LEMMA CreateOfSeq ==
    ASSUME NEW S, NEW t, NEW parts, NEW I, NEW indexes \in Seq(I),
           CreateTable(t, parts) \in S,
           \A x \in I : Alter(t, {}, {x}) \in S
    PROVE  Create(t, parts, indexes) \in Seq(S)
<1>1. [i \in DOMAIN indexes |-> Alter(t, {}, {indexes[i]})] \in Seq(S)
    <2>1. \A i \in 1..Len(indexes) : indexes[i] \in I
        OBVIOUS
    <2>2. \A i \in 1..Len(indexes) : Alter(t, {}, {indexes[i]}) \in S
        BY <2>1
    <2>3. DOMAIN indexes = 1..Len(indexes) /\ Len(indexes) \in Nat
        OBVIOUS
    <2> HIDE DEF Alter
    <2> QED
        BY <2>2, <2>3, IsASeq
<1> QED
    BY <1>1, ConcatOfSeq, OneOfSeq DEF Create

LEMMA UndoOfSeq ==
    ASSUME NEW S, NEW t, NEW I, NEW indexes \in Seq(I),
           DropTable(t) \in S,
           \A x \in I : Alter(t, {x}, {}) \in S
    PROVE  Undo(t, indexes) \in Seq(S)
<1>1. [i \in DOMAIN indexes |-> Alter(t, {indexes[i]}, {})] \in Seq(S)
    <2>1. \A i \in 1..Len(indexes) : indexes[i] \in I
        OBVIOUS
    <2>2. \A i \in 1..Len(indexes) : Alter(t, {indexes[i]}, {}) \in S
        BY <2>1
    <2>3. DOMAIN indexes = 1..Len(indexes) /\ Len(indexes) \in Nat
        OBVIOUS
    <2> HIDE DEF Alter
    <2> QED
        BY <2>2, <2>3, IsASeq
<1> QED
    BY <1>1, ConcatOfSeq, OneOfSeq DEF Undo

-----------------------------------------------------------------------------
(* What a revision's statements may do to the tables of the models that    *)
(* later revisions altered.                                                *)

Provides(r, t) ==
    IF r = "0006" /\ t = "project_access" THEN {"project_id", "uq_user_project_id"}
    ELSE IF r = "0007" /\ t = "users" THEN {"role_id"}
    ELSE IF r = "0012" /\ t = "users" THEN {"password_changed_at"}
    ELSE {}

\* Only 20260517_0005 creates these tables, and only the downgrade of the
\* revision that adds a part takes it away, in a statement that moves rows
\* unless it is 20260518_0012.
MayCreate(dir, r, t) == t \in {"users", "project_access"} => dir = "up" /\ r = "0005"
MayDrop(dir, r, op, t, drops) ==
    \A q \in Revisions : drops \cap Provides(q, t) # {} =>
        dir = "down" /\ r = q /\ (r = "0012" \/ op = "rebuild")

Allowed(dir, r) ==
    {s \in Statement :
        /\ s.op = "create" => MayCreate(dir, r, s.table)
        /\ s.op \in {"alter", "rebuild"} => MayDrop(dir, r, s.op, s.table, s.drops)}

LEMMA StmtAllowed ==
    ASSUME NEW dir, NEW r, NEW op \in Ops, NEW t \in TableNames,
           NEW drops \in SUBSET Parts, NEW adds \in SUBSET (Parts \cup RowKinds),
           NEW bad \in SUBSET RowKinds,
           op = "tmp" => t \in TmpTables,
           op = "create" => MayCreate(dir, r, t),
           op \in {"alter", "rebuild"} => MayDrop(dir, r, op, t, drops)
    PROVE  Stmt(op, t, drops, adds, bad) \in Allowed(dir, r)
BY DEF Allowed, Statement, Stmt

LEMMA AlterAllowed ==
    ASSUME NEW dir, NEW r, NEW t \in TableNames,
           NEW drops \in SUBSET Parts, NEW adds \in SUBSET (Parts \cup RowKinds),
           MayDrop(dir, r, "alter", t, drops)
    PROVE  Alter(t, drops, adds) \in Allowed(dir, r)
BY StmtAllowed DEF Alter, Ops

LEMMA DataAllowed ==
    ASSUME NEW dir, NEW r, NEW t \in TableNames, NEW parts \in SUBSET Parts
    PROVE  Data(t, parts) \in Allowed(dir, r)
BY StmtAllowed DEF Data, Ops

LEMMA BackfillAllowed ==
    ASSUME NEW dir, NEW r, NEW t \in TableNames, NEW parts \in SUBSET Parts,
           NEW kinds \in SUBSET RowKinds
    PROVE  Backfill(t, parts, kinds) \in Allowed(dir, r)
BY StmtAllowed DEF Backfill, Ops

LEMMA CheckAllowed ==
    ASSUME NEW dir, NEW r, NEW t \in TableNames, NEW kinds \in SUBSET RowKinds
    PROVE  Check(t, kinds) \in Allowed(dir, r)
BY StmtAllowed DEF Check, Ops

LEMMA DropTableAllowed ==
    ASSUME NEW dir, NEW r, NEW t \in TableNames
    PROVE  DropTable(t) \in Allowed(dir, r)
BY StmtAllowed DEF DropTable, Ops

LEMMA NothingDropped ==
    ASSUME NEW dir, NEW r, NEW op, NEW t
    PROVE  MayDrop(dir, r, op, t, {})
BY DEF MayDrop

LEMMA AddPartAllowed ==
    ASSUME NEW dir, NEW r, NEW t \in TableNames, NEW p \in Parts
    PROVE  Alter(t, {}, {p}) \in Allowed(dir, r)
BY AlterAllowed, NothingDropped

LEMMA DropIfPresentAllowed ==
    ASSUME NEW dir, NEW r, NEW d, NEW t \in TableNames
    PROVE  DropIfPresent(d, t) \in Seq(Allowed(dir, r))
<1>1. DropTable(t) \in Allowed(dir, r)
    BY DropTableAllowed
<1> QED
    BY <1>1, WhenOfSeq, OneOfSeq DEF DropIfPresent

LEMMA AddMissingAllowed ==
    ASSUME NEW dir, NEW r, NEW d, NEW t \in TableNames, NEW p \in Parts
    PROVE  AddMissing(d, t, p) \in Seq(Allowed(dir, r))
<1>1. Alter(t, {}, {p}) \in Allowed(dir, r)
    BY AlterAllowed, NothingDropped
<1> QED
    BY <1>1, WhenOfSeq, OneOfSeq DEF AddMissing

LEMMA BatchAllowed ==
    ASSUME NEW dir, NEW r, NEW t \in TmpTables,
           NEW drops \in SUBSET Parts, NEW adds \in SUBSET (Parts \cup RowKinds),
           NEW bad \in SUBSET RowKinds,
           MayDrop(dir, r, "rebuild", t, drops)
    PROVE  Batch(t, drops, adds, bad) \in Seq(Allowed(dir, r))
<1>1. t \in TableNames
    BY DEF TmpTables, TableNames
<1>2. Stmt("tmp", t, {}, {}, {}) \in Allowed(dir, r)
    BY <1>1, StmtAllowed DEF Ops
<1>3. Stmt("rebuild", t, drops, adds, bad) \in Allowed(dir, r)
    BY <1>1, StmtAllowed DEF Ops
<1> QED
    BY <1>2, <1>3, TwoOfSeq DEF Batch

LEMMA CreateAllowed ==
    ASSUME NEW dir, NEW r, NEW t \in TableNames, NEW parts \in SUBSET Parts,
           NEW indexes \in Seq(Parts), MayCreate(dir, r, t)
    PROVE  Create(t, parts, indexes) \in Seq(Allowed(dir, r))
<1>1. CreateTable(t, parts) \in Allowed(dir, r)
    BY StmtAllowed DEF CreateTable, Ops
<1>2. \A x \in Parts : Alter(t, {}, {x}) \in Allowed(dir, r)
    BY AlterAllowed, NothingDropped
<1> QED
    BY <1>1, <1>2, CreateOfSeq

\* Parts that any revision may drop on its own.
Indexes == Parts \ {"project_id", "uq_user_project_id", "role_id", "password_changed_at"}

LEMMA UndoAllowed ==
    ASSUME NEW dir, NEW r, NEW t \in TableNames, NEW indexes \in Seq(Indexes)
    PROVE  Undo(t, indexes) \in Seq(Allowed(dir, r))
<1>1. DropTable(t) \in Allowed(dir, r)
    BY DropTableAllowed
<1>2. \A x \in Indexes : MayDrop(dir, r, "alter", t, {x})
    BY DEF MayDrop, Provides, Indexes
<1>3. \A x \in Indexes : Alter(t, {x}, {}) \in Allowed(dir, r)
    BY <1>2, AlterAllowed DEF Indexes
<1> QED
    BY <1>1, <1>3, UndoOfSeq

LEMMA AllowedUp0001 ==
    ASSUME NEW d
    PROVE  Up0001(d) \in Seq(Allowed("up", "0001"))
<1>1. Create("prompts", {"project", "uq_name_project"}, <<"ix_id", "ix_name",
             "ix_project">>) \in Seq(Allowed("up", "0001"))
    <2>1. <<"ix_id", "ix_name", "ix_project">> \in Seq(Parts)
        BY DEF Parts
    <2>2. {"project", "uq_name_project"} \in SUBSET Parts
        BY DEF Parts
    <2> QED
        BY <2>1, <2>2, CreateAllowed DEF MayCreate, TableNames
<1>2. Create("tags", {}, <<"ix_id", "ix_name">>) \in Seq(Allowed("up", "0001"))
    <2>1. <<"ix_id", "ix_name">> \in Seq(Parts)
        BY DEF Parts
    <2>2. {} \in SUBSET Parts
        BY DEF Parts
    <2> QED
        BY <2>1, <2>2, CreateAllowed DEF MayCreate, TableNames
<1>3. Create("prompt_versions", {"content", "uq_version"}, <<"ix_id">>)
      \in Seq(Allowed("up", "0001"))
    <2>1. <<"ix_id">> \in Seq(Parts)
        BY DEF Parts
    <2>2. {"content", "uq_version"} \in SUBSET Parts
        BY DEF Parts
    <2> QED
        BY <2>1, <2>2, CreateAllowed DEF MayCreate, TableNames
<1>4. Create("prompt_tags", {}, << >>) \in Seq(Allowed("up", "0001"))
    <2>1. << >> \in Seq(Parts)
        BY DEF Parts
    <2>2. {} \in SUBSET Parts
        BY DEF Parts
    <2> QED
        BY <2>1, <2>2, CreateAllowed DEF MayCreate, TableNames
<1>5. AddMissing(d, "prompts", "ix_name") \in Seq(Allowed("up", "0001"))
    BY AddMissingAllowed DEF TableNames, Parts
<1>6. AddMissing(d, "prompts", "ix_project") \in Seq(Allowed("up", "0001"))
    BY AddMissingAllowed DEF TableNames, Parts
<1>7. AddMissing(d, "tags", "ix_name") \in Seq(Allowed("up", "0001"))
    BY AddMissingAllowed DEF TableNames, Parts
<1>8. AddMissing(d, "prompt_versions", "uq_version") \in Seq(Allowed("up", "0001"))
    BY AddMissingAllowed DEF TableNames, Parts
<1> QED
    BY <1>1, <1>2, <1>3, <1>4, <1>5, <1>6, <1>7, <1>8, ConcatOfSeq, WhenOfSeq,
        EmptyOfSeq DEF Up0001

LEMMA AllowedUp0002 ==
    ASSUME NEW d
    PROVE  Up0002(d) \in Seq(Allowed("up", "0002"))
<1>1. Batch("prompt_versions", {"content"}, {}, {"empty"}) \in Seq(Allowed("up", "0002"))
    BY BatchAllowed DEF TmpTables, MayDrop, Provides, Parts, RowKinds, Components
<1>2. AddMissing(d, "prompt_versions", "role") \in Seq(Allowed("up", "0002"))
    BY AddMissingAllowed DEF TableNames, Parts, Components
<1>3. AddMissing(d, "prompt_versions", "task") \in Seq(Allowed("up", "0002"))
    BY AddMissingAllowed DEF TableNames, Parts, Components
<1>4. AddMissing(d, "prompt_versions", "context") \in Seq(Allowed("up", "0002"))
    BY AddMissingAllowed DEF TableNames, Parts, Components
<1>5. AddMissing(d, "prompt_versions", "constraints") \in Seq(Allowed("up", "0002"))
    BY AddMissingAllowed DEF TableNames, Parts, Components
<1>6. AddMissing(d, "prompt_versions", "output_format") \in Seq(Allowed("up", "0002"))
    BY AddMissingAllowed DEF TableNames, Parts, Components
<1>7. AddMissing(d, "prompt_versions", "examples") \in Seq(Allowed("up", "0002"))
    BY AddMissingAllowed DEF TableNames, Parts, Components
<1>8. <<Data("prompt_versions", {"content", "task"})>> \in Seq(Allowed("up", "0002"))
    <2>1. Data("prompt_versions", {"content", "task"}) \in Allowed("up", "0002")
        <3>1. "prompt_versions" \in TableNames /\ {"content", "task"} \in SUBSET Parts
            BY DEF TableNames, Parts
        <3> QED
            BY <3>1, DataAllowed
    <2> QED
        BY <2>1
<1> QED
    BY <1>1, <1>2, <1>3, <1>4, <1>5, <1>6, <1>7, <1>8, ConcatOfSeq, WhenOfSeq,
        EmptyOfSeq DEF Up0002

LEMMA AllowedUp0003 ==
    ASSUME NEW d
    PROVE  Up0003(d) \in Seq(Allowed("up", "0003"))
<1>1. <<Check("prompt_versions", {"duplicates"}), Alter("prompt_versions", {},
        {"uq_content_fields"})>> \in Seq(Allowed("up", "0003"))
    <2>1. Check("prompt_versions", {"duplicates"}) \in Allowed("up", "0003")
        BY CheckAllowed DEF TableNames, RowKinds
    <2>2. Alter("prompt_versions", {}, {"uq_content_fields"}) \in Allowed("up", "0003")
        BY AddPartAllowed DEF TableNames, Parts
    <2> QED
        BY <2>1, <2>2
<1> QED
    BY <1>1, ConcatOfSeq, WhenOfSeq, EmptyOfSeq DEF Up0003

LEMMA AllowedUp0004 ==
    ASSUME NEW d
    PROVE  Up0004(d) \in Seq(Allowed("up", "0004"))
<1>1. Batch("prompts", {}, {"ck_name", "ck_project"}, {"blank"})
      \in Seq(Allowed("up", "0004"))
    BY BatchAllowed DEF TmpTables, MayDrop, Provides, Parts, RowKinds
<1>2. BackfillInvalidPromptRows(d) \in Seq(Allowed("up", "0004"))
    <2>1. {"project"} \in SUBSET Parts /\ {"blank"} \in SUBSET RowKinds
        BY DEF Parts, RowKinds
    <2>2. Backfill("prompts", {"project"}, {"blank"}) \in Allowed("up", "0004")
        BY <2>1, BackfillAllowed DEF TableNames
    <2> QED
        BY <2>2, WhenOfSeq, OneOfSeq DEF BackfillInvalidPromptRows
<1> QED
    BY <1>1, <1>2, ConcatOfSeq, WhenOfSeq, EmptyOfSeq DEF Up0004

LEMMA AllowedUp0005 ==
    ASSUME NEW d
    PROVE  Up0005(d) \in Seq(Allowed("up", "0005"))
<1>1. Create("users", {"role", "ck_role"}, <<"ix_id", "ix_username">>)
      \in Seq(Allowed("up", "0005"))
    <2>1. <<"ix_id", "ix_username">> \in Seq(Parts)
        BY DEF Parts
    <2>2. {"role", "ck_role"} \in SUBSET Parts
        BY DEF Parts
    <2> QED
        BY <2>1, <2>2, CreateAllowed DEF MayCreate, TableNames
<1>2. Create("configs", {"model_id", "rounds", "gp_profile"}, <<"ix_id">>)
      \in Seq(Allowed("up", "0005"))
    <2>1. <<"ix_id">> \in Seq(Parts)
        BY DEF Parts
    <2>2. {"model_id", "rounds", "gp_profile"} \in SUBSET Parts
        BY DEF Parts
    <2> QED
        BY <2>1, <2>2, CreateAllowed DEF MayCreate, TableNames
<1>3. Create("project_access", {"project", "ck_project", "uq_user_project"},
             <<"ix_id", "ix_project">>) \in Seq(Allowed("up", "0005"))
    <2>1. <<"ix_id", "ix_project">> \in Seq(Parts)
        BY DEF Parts
    <2>2. {"project", "ck_project", "uq_user_project"} \in SUBSET Parts
        BY DEF Parts
    <2> QED
        BY <2>1, <2>2, CreateAllowed DEF MayCreate, TableNames
<1> QED
    BY <1>1, <1>2, <1>3, ConcatOfSeq, WhenOfSeq, EmptyOfSeq DEF Up0005

LEMMA PartsOf0006 ==
    ASSUME NEW S, S = Allowed("up", "0006")
    PROVE  /\ Create("projects", {}, <<"ix_id", "ix_name">>) \in Seq(S)
           /\ <<Data("prompts", {"project"}), Data("project_access", {"project"}),
                Alter("prompts", {}, {"project_id"}),
                Alter("project_access", {}, {"project_id"})>> \in Seq(S)
           /\ Batch("prompts", {"uq_name_project", "ck_project", "ix_project", "project"},
                    {"fk_project", "uq_name_project_id", "ix_project_id"}, {"padded"})
              \in Seq(S)
           /\ Batch("project_access",
                    {"uq_user_project", "ck_project", "ix_project", "project"},
                    {"fk_project", "uq_user_project_id", "ix_project_id"}, {}) \in Seq(S)
<1>1. Create("projects", {}, <<"ix_id", "ix_name">>) \in Seq(Allowed("up", "0006"))
    <2>1. <<"ix_id", "ix_name">> \in Seq(Parts)
        BY DEF Parts
    <2>2. {} \in SUBSET Parts
        BY DEF Parts
    <2> QED
        BY <2>1, <2>2, CreateAllowed DEF MayCreate, TableNames
<1>2. Batch("prompts", {"uq_name_project", "ck_project", "ix_project", "project"},
            {"fk_project", "uq_name_project_id", "ix_project_id"}, {"padded"})
      \in Seq(Allowed("up", "0006"))
    BY BatchAllowed DEF TmpTables, MayDrop, Provides, Parts, RowKinds
<1>3. Batch("project_access", {"uq_user_project", "ck_project", "ix_project",
            "project"}, {"fk_project", "uq_user_project_id", "ix_project_id"}, {})
      \in Seq(Allowed("up", "0006"))
    BY BatchAllowed DEF TmpTables, MayDrop, Provides, Parts, RowKinds
<1>4. <<Data("prompts", {"project"}), Data("project_access", {"project"}),
        Alter("prompts", {}, {"project_id"}), Alter("project_access", {},
        {"project_id"})>> \in Seq(Allowed("up", "0006"))
    <2>1. Data("prompts", {"project"}) \in Allowed("up", "0006")
        <3>1. "prompts" \in TableNames /\ {"project"} \in SUBSET Parts
            BY DEF TableNames, Parts
        <3> QED
            BY <3>1, DataAllowed
    <2>2. Data("project_access", {"project"}) \in Allowed("up", "0006")
        <3>1. "project_access" \in TableNames /\ {"project"} \in SUBSET Parts
            BY DEF TableNames, Parts
        <3> QED
            BY <3>1, DataAllowed
    <2>3. Alter("prompts", {}, {"project_id"}) \in Allowed("up", "0006")
        BY AddPartAllowed DEF TableNames, Parts
    <2>4. Alter("project_access", {}, {"project_id"}) \in Allowed("up", "0006")
        BY AddPartAllowed DEF TableNames, Parts
    <2> QED
        BY <2>1, <2>2, <2>3, <2>4
<1> QED
    BY <1>1, <1>2, <1>3, <1>4

LEMMA AllowedUp0006 ==
    ASSUME NEW d
    PROVE  Up0006(d) \in Seq(Allowed("up", "0006"))
BY PartsOf0006, ConcatOfSeq DEF Up0006

LEMMA PartsOf0007 ==
    ASSUME NEW S, S = Allowed("up", "0007")
    PROVE  /\ Create("roles", {}, <<"ix_id", "ix_name">>) \in Seq(S)
           /\ <<Data("roles", {}), Alter("users", {}, {"role_id"}),
                Data("users", {"role"})>> \in Seq(S)
           /\ Batch("users", {"ck_role", "role"}, {"fk_role", "ix_role_id"}, {}) \in Seq(S)
<1>1. Create("roles", {}, <<"ix_id", "ix_name">>) \in Seq(Allowed("up", "0007"))
    <2>1. <<"ix_id", "ix_name">> \in Seq(Parts)
        BY DEF Parts
    <2>2. {} \in SUBSET Parts
        BY DEF Parts
    <2> QED
        BY <2>1, <2>2, CreateAllowed DEF MayCreate, TableNames
<1>2. Batch("users", {"ck_role", "role"}, {"fk_role", "ix_role_id"}, {})
      \in Seq(Allowed("up", "0007"))
    BY BatchAllowed DEF TmpTables, MayDrop, Provides, Parts, RowKinds
<1>3. <<Data("roles", {}), Alter("users", {}, {"role_id"}), Data("users", {"role"})>>
      \in Seq(Allowed("up", "0007"))
    <2>1. Data("roles", {}) \in Allowed("up", "0007")
        <3>1. "roles" \in TableNames /\ {} \in SUBSET Parts
            BY DEF TableNames, Parts
        <3> QED
            BY <3>1, DataAllowed
    <2>2. Alter("users", {}, {"role_id"}) \in Allowed("up", "0007")
        BY AddPartAllowed DEF TableNames, Parts
    <2>3. Data("users", {"role"}) \in Allowed("up", "0007")
        <3>1. "users" \in TableNames /\ {"role"} \in SUBSET Parts
            BY DEF TableNames, Parts
        <3> QED
            BY <3>1, DataAllowed
    <2> QED
        BY <2>1, <2>2, <2>3
<1> QED
    BY <1>1, <1>2, <1>3

LEMMA AllowedUp0007 ==
    ASSUME NEW d
    PROVE  Up0007(d) \in Seq(Allowed("up", "0007"))
BY PartsOf0007, ConcatOfSeq DEF Up0007

LEMMA AllowedUp0008 ==
    ASSUME NEW d
    PROVE  Up0008(d) \in Seq(Allowed("up", "0008"))
<1>1. Batch("prompts", {}, PromptAudit \cup {"fk_created_by", "fk_updated_by"}, {})
      \in Seq(Allowed("up", "0008"))
    BY BatchAllowed
       DEF TmpTables, MayDrop, Provides, Parts, RowKinds, PromptAudit, VersionAudit
<1>2. Batch("prompt_versions", {}, VersionAudit \cup {"fk_created_by"}, {})
      \in Seq(Allowed("up", "0008"))
    BY BatchAllowed
       DEF TmpTables, MayDrop, Provides, Parts, RowKinds, PromptAudit, VersionAudit
<1>3. Batch("prompts", {}, {}, {}) \in Seq(Allowed("up", "0008"))
    BY BatchAllowed
       DEF TmpTables, MayDrop, Provides, Parts, RowKinds, PromptAudit, VersionAudit
<1>4. Batch("prompt_versions", {}, {}, {}) \in Seq(Allowed("up", "0008"))
    BY BatchAllowed
       DEF TmpTables, MayDrop, Provides, Parts, RowKinds, PromptAudit, VersionAudit
<1>5. <<Data("prompts", {"created_at"}), Data("prompt_versions", {"created_at"})>>
      \in Seq(Allowed("up", "0008"))
    <2>1. Data("prompts", {"created_at"}) \in Allowed("up", "0008")
        <3>1. "prompts" \in TableNames /\ {"created_at"} \in SUBSET Parts
            BY DEF TableNames, Parts
        <3> QED
            BY <3>1, DataAllowed
    <2>2. Data("prompt_versions", {"created_at"}) \in Allowed("up", "0008")
        <3>1. "prompt_versions" \in TableNames /\ {"created_at"} \in SUBSET Parts
            BY DEF TableNames, Parts
        <3> QED
            BY <3>1, DataAllowed
    <2> QED
        BY <2>1, <2>2
<1> QED
    BY <1>1, <1>2, <1>3, <1>4, <1>5, ConcatOfSeq, WhenOfSeq, EmptyOfSeq DEF Up0008

LEMMA AllowedUp0009 ==
    ASSUME NEW d
    PROVE  Up0009(d) \in Seq(Allowed("up", "0009"))
<1>1. <<Data("roles", {})>> \in Seq(Allowed("up", "0009"))
    <2>1. Data("roles", {}) \in Allowed("up", "0009")
        <3>1. "roles" \in TableNames /\ {} \in SUBSET Parts
            BY DEF TableNames, Parts
        <3> QED
            BY <3>1, DataAllowed
    <2> QED
        BY <2>1
<1> QED
    BY <1>1, ConcatOfSeq, WhenOfSeq, EmptyOfSeq DEF Up0009

LEMMA AllowedUp0010 ==
    ASSUME NEW d
    PROVE  Up0010(d) \in Seq(Allowed("up", "0010"))
<1>1. <<Data("prompts", {"created_by_id", "updated_by_id"}), Data("prompt_versions",
        {"created_by_id"})>> \in Seq(Allowed("up", "0010"))
    <2>1. Data("prompts", {"created_by_id", "updated_by_id"}) \in Allowed("up", "0010")
        <3>1. "prompts" \in TableNames /\ {"created_by_id", "updated_by_id"} \in SUBSET Parts
            BY DEF TableNames, Parts
        <3> QED
            BY <3>1, DataAllowed
    <2>2. Data("prompt_versions", {"created_by_id"}) \in Allowed("up", "0010")
        <3>1. "prompt_versions" \in TableNames /\ {"created_by_id"} \in SUBSET Parts
            BY DEF TableNames, Parts
        <3> QED
            BY <3>1, DataAllowed
    <2> QED
        BY <2>1, <2>2
<1> QED
    BY <1>1, ConcatOfSeq, WhenOfSeq, EmptyOfSeq DEF Up0010

LEMMA AllowedUp0011 ==
    ASSUME NEW d
    PROVE  Up0011(d) \in Seq(Allowed("up", "0011"))
<1>1. Batch("configs", {c \in Legacy : HasPart(d, "configs", c)}, {}, {})
      \in Seq(Allowed("up", "0011"))
    BY BatchAllowed DEF TmpTables, MayDrop, Provides, Parts, RowKinds, Legacy
<1> QED
    BY <1>1, ConcatOfSeq, WhenOfSeq, EmptyOfSeq DEF Up0011

LEMMA AllowedUp0012 ==
    ASSUME NEW d
    PROVE  Up0012(d) \in Seq(Allowed("up", "0012"))
<1>1. <<Alter("users", {}, {"password_changed_at"})>> \in Seq(Allowed("up", "0012"))
    <2>1. Alter("users", {}, {"password_changed_at"}) \in Allowed("up", "0012")
        BY AddPartAllowed DEF TableNames, Parts
    <2> QED
        BY <2>1
<1> QED
    BY <1>1, ConcatOfSeq, WhenOfSeq, EmptyOfSeq DEF Up0012

LEMMA AllowedUp0013 ==
    ASSUME NEW d
    PROVE  Up0013(d) \in Seq(Allowed("up", "0013"))
<1>1. Create("cache_requests", {}, <<"ix_id", "ix_cache_key">>)
      \in Seq(Allowed("up", "0013"))
    <2>1. <<"ix_id", "ix_cache_key">> \in Seq(Parts)
        BY DEF Parts
    <2>2. {} \in SUBSET Parts
        BY DEF Parts
    <2> QED
        BY <2>1, <2>2, CreateAllowed DEF MayCreate, TableNames
<1> QED
    BY <1>1, ConcatOfSeq, WhenOfSeq, EmptyOfSeq DEF Up0013

LEMMA AllowedUp0014 ==
    ASSUME NEW d
    PROVE  Up0014(d) \in Seq(Allowed("up", "0014"))
<1>1. Create("conversation_threads", {}, <<"ix_id", "ix_project_id", "ix_title">>)
      \in Seq(Allowed("up", "0014"))
    <2>1. <<"ix_id", "ix_project_id", "ix_title">> \in Seq(Parts)
        BY DEF Parts
    <2>2. {} \in SUBSET Parts
        BY DEF Parts
    <2> QED
        BY <2>1, <2>2, CreateAllowed DEF MayCreate, TableNames
<1>2. Create("conversation_messages", {}, <<"ix_id", "ix_thread_id", "ix_role">>)
      \in Seq(Allowed("up", "0014"))
    <2>1. <<"ix_id", "ix_thread_id", "ix_role">> \in Seq(Parts)
        BY DEF Parts
    <2>2. {} \in SUBSET Parts
        BY DEF Parts
    <2> QED
        BY <2>1, <2>2, CreateAllowed DEF MayCreate, TableNames
<1>3. Create("conversation_imports", {}, <<"ix_id", "ix_thread_id",
             "ix_import_format", "ix_status">>) \in Seq(Allowed("up", "0014"))
    <2>1. <<"ix_id", "ix_thread_id", "ix_import_format", "ix_status">> \in Seq(Parts)
        BY DEF Parts
    <2>2. {} \in SUBSET Parts
        BY DEF Parts
    <2> QED
        BY <2>1, <2>2, CreateAllowed DEF MayCreate, TableNames
<1> QED
    BY <1>1, <1>2, <1>3, ConcatOfSeq, WhenOfSeq, EmptyOfSeq DEF Up0014

LEMMA AllowedUp0015 ==
    ASSUME NEW d
    PROVE  Up0015(d) \in Seq(Allowed("up", "0015"))
<1>1. DropIfPresent(d, "prompt_tags") \in Seq(Allowed("up", "0015"))
    BY DropIfPresentAllowed DEF TableNames
<1>2. DropIfPresent(d, "prompt_versions") \in Seq(Allowed("up", "0015"))
    BY DropIfPresentAllowed DEF TableNames
<1>3. DropIfPresent(d, "prompts") \in Seq(Allowed("up", "0015"))
    BY DropIfPresentAllowed DEF TableNames
<1>4. DropIfPresent(d, "tags") \in Seq(Allowed("up", "0015"))
    BY DropIfPresentAllowed DEF TableNames
<1>5. DropIfPresent(d, "configs") \in Seq(Allowed("up", "0015"))
    BY DropIfPresentAllowed DEF TableNames
<1> QED
    BY <1>1, <1>2, <1>3, <1>4, <1>5, ConcatOfSeq, WhenOfSeq, EmptyOfSeq DEF Up0015

LEMMA AllowedUp0016 ==
    ASSUME NEW d
    PROVE  Up0016(d) \in Seq(Allowed("up", "0016"))
<1>1. Create("prompt_chains", {}, <<"ix_id", "ix_project_id", "ix_name",
             "ix_created_by_id", "ix_updated_by_id">>) \in Seq(Allowed("up", "0016"))
    <2>1. <<"ix_id", "ix_project_id", "ix_name", "ix_created_by_id",
            "ix_updated_by_id">> \in Seq(Parts)
        BY DEF Parts
    <2>2. {} \in SUBSET Parts
        BY DEF Parts
    <2> QED
        BY <2>1, <2>2, CreateAllowed DEF MayCreate, TableNames
<1>2. Create("prompt_chain_versions", {}, <<"ix_id", "ix_chain_id",
             "ix_created_by_id">>) \in Seq(Allowed("up", "0016"))
    <2>1. <<"ix_id", "ix_chain_id", "ix_created_by_id">> \in Seq(Parts)
        BY DEF Parts
    <2>2. {} \in SUBSET Parts
        BY DEF Parts
    <2> QED
        BY <2>1, <2>2, CreateAllowed DEF MayCreate, TableNames
<1> QED
    BY <1>1, <1>2, ConcatOfSeq, WhenOfSeq, EmptyOfSeq DEF Up0016

LEMMA AllowedUpGlobalConfig ==
    ASSUME NEW d
    PROVE  UpGlobalConfig(d) \in Seq(Allowed("up", "config"))
<1>1. Create("global_config", {}, << >>) \in Seq(Allowed("up", "config"))
    <2>1. << >> \in Seq(Parts)
        BY DEF Parts
    <2>2. {} \in SUBSET Parts
        BY DEF Parts
    <2> QED
        BY <2>1, <2>2, CreateAllowed DEF MayCreate, TableNames
<1> QED
    BY <1>1, ConcatOfSeq, WhenOfSeq, EmptyOfSeq DEF UpGlobalConfig

LEMMA AllowedDown0001 ==
    ASSUME NEW d
    PROVE  Down0001(d) \in Seq(Allowed("down", "0001"))
<1>1. Undo("prompt_tags", << >>) \in Seq(Allowed("down", "0001"))
    <2>1. << >> \in Seq(Indexes)
        BY DEF Indexes, Parts
    <2> QED
        BY <2>1, UndoAllowed DEF TableNames
<1>2. Undo("prompt_versions", <<"ix_id">>) \in Seq(Allowed("down", "0001"))
    <2>1. <<"ix_id">> \in Seq(Indexes)
        BY DEF Indexes, Parts
    <2> QED
        BY <2>1, UndoAllowed DEF TableNames
<1>3. Undo("tags", <<"ix_name", "ix_id">>) \in Seq(Allowed("down", "0001"))
    <2>1. <<"ix_name", "ix_id">> \in Seq(Indexes)
        BY DEF Indexes, Parts
    <2> QED
        BY <2>1, UndoAllowed DEF TableNames
<1>4. Undo("prompts", <<"ix_project", "ix_name", "ix_id">>)
      \in Seq(Allowed("down", "0001"))
    <2>1. <<"ix_project", "ix_name", "ix_id">> \in Seq(Indexes)
        BY DEF Indexes, Parts
    <2> QED
        BY <2>1, UndoAllowed DEF TableNames
<1> QED
    BY <1>1, <1>2, <1>3, <1>4, ConcatOfSeq, WhenOfSeq, EmptyOfSeq DEF Down0001

LEMMA AllowedDown0002 ==
    ASSUME NEW d
    PROVE  Down0002(d) \in Seq(Allowed("down", "0002"))
<1>1. Batch("prompt_versions", {p \in Components : HasPart(d, "prompt_versions", p)},
            {}, {}) \in Seq(Allowed("down", "0002"))
    BY BatchAllowed DEF TmpTables, MayDrop, Provides, Parts, RowKinds, Components
<1>2. AddMissing(d, "prompt_versions", "content") \in Seq(Allowed("down", "0002"))
    BY AddMissingAllowed DEF TableNames, Parts, Components
<1>3. <<Data("prompt_versions", {"content", "task"})>> \in Seq(Allowed("down", "0002"))
    <2>1. Data("prompt_versions", {"content", "task"}) \in Allowed("down", "0002")
        <3>1. "prompt_versions" \in TableNames /\ {"content", "task"} \in SUBSET Parts
            BY DEF TableNames, Parts
        <3> QED
            BY <3>1, DataAllowed
    <2> QED
        BY <2>1
<1> QED
    BY <1>1, <1>2, <1>3, ConcatOfSeq, WhenOfSeq, EmptyOfSeq DEF Down0002

LEMMA AllowedDown0003 ==
    ASSUME NEW d
    PROVE  Down0003(d) \in Seq(Allowed("down", "0003"))
<1>1. <<Alter("prompt_versions", {"uq_content_fields"}, {})>>
      \in Seq(Allowed("down", "0003"))
    <2>1. Alter("prompt_versions", {"uq_content_fields"}, {}) \in Allowed("down", "0003")
        BY AlterAllowed DEF TableNames, Parts, MayDrop, Provides
    <2> QED
        BY <2>1
<1> QED
    BY <1>1, ConcatOfSeq, WhenOfSeq, EmptyOfSeq DEF Down0003

LEMMA AllowedDown0004 ==
    ASSUME NEW d
    PROVE  Down0004(d) \in Seq(Allowed("down", "0004"))
<1>1. Batch("prompts", {"ck_project", "ck_name"}, {}, {}) \in Seq(Allowed("down", "0004"))
    BY BatchAllowed DEF TmpTables, MayDrop, Provides, Parts, RowKinds
<1> QED
    BY <1>1, ConcatOfSeq, WhenOfSeq, EmptyOfSeq DEF Down0004

LEMMA AllowedDown0005 ==
    ASSUME NEW d
    PROVE  Down0005(d) \in Seq(Allowed("down", "0005"))
<1>1. Undo("project_access", <<"ix_project", "ix_id">>) \in Seq(Allowed("down", "0005"))
    <2>1. <<"ix_project", "ix_id">> \in Seq(Indexes)
        BY DEF Indexes, Parts
    <2> QED
        BY <2>1, UndoAllowed DEF TableNames
<1>2. Undo("configs", <<"ix_id">>) \in Seq(Allowed("down", "0005"))
    <2>1. <<"ix_id">> \in Seq(Indexes)
        BY DEF Indexes, Parts
    <2> QED
        BY <2>1, UndoAllowed DEF TableNames
<1>3. Undo("users", <<"ix_username", "ix_id">>) \in Seq(Allowed("down", "0005"))
    <2>1. <<"ix_username", "ix_id">> \in Seq(Indexes)
        BY DEF Indexes, Parts
    <2> QED
        BY <2>1, UndoAllowed DEF TableNames
<1> QED
    BY <1>1, <1>2, <1>3, ConcatOfSeq, WhenOfSeq, EmptyOfSeq DEF Down0005

LEMMA AllowedDown0006 ==
    ASSUME NEW d
    PROVE  Down0006(d) \in Seq(Allowed("down", "0006"))
<1>1. Undo("projects", <<"ix_name", "ix_id">>) \in Seq(Allowed("down", "0006"))
    <2>1. <<"ix_name", "ix_id">> \in Seq(Indexes)
        BY DEF Indexes, Parts
    <2> QED
        BY <2>1, UndoAllowed DEF TableNames
<1>2. Batch("prompts", {"ix_project_id", "uq_name_project_id", "fk_project",
            "project_id"}, {"ck_project", "uq_name_project", "ix_project"}, {})
      \in Seq(Allowed("down", "0006"))
    BY BatchAllowed DEF TmpTables, MayDrop, Provides, Parts, RowKinds
<1>3. Batch("project_access", {"ix_project_id", "uq_user_project_id", "fk_project",
            "project_id"}, {"ck_project", "uq_user_project", "ix_project"}, {})
      \in Seq(Allowed("down", "0006"))
    BY BatchAllowed DEF TmpTables, MayDrop, Provides, Parts, RowKinds
<1>4. <<Alter("project_access", {}, {"project"}), Alter("prompts", {}, {"project"}),
        Data("prompts", {"project_id"}), Data("project_access", {"project_id"})>>
      \in Seq(Allowed("down", "0006"))
    <2>1. Alter("project_access", {}, {"project"}) \in Allowed("down", "0006")
        BY AddPartAllowed DEF TableNames, Parts
    <2>2. Alter("prompts", {}, {"project"}) \in Allowed("down", "0006")
        BY AddPartAllowed DEF TableNames, Parts
    <2>3. Data("prompts", {"project_id"}) \in Allowed("down", "0006")
        <3>1. "prompts" \in TableNames /\ {"project_id"} \in SUBSET Parts
            BY DEF TableNames, Parts
        <3> QED
            BY <3>1, DataAllowed
    <2>4. Data("project_access", {"project_id"}) \in Allowed("down", "0006")
        <3>1. "project_access" \in TableNames /\ {"project_id"} \in SUBSET Parts
            BY DEF TableNames, Parts
        <3> QED
            BY <3>1, DataAllowed
    <2> QED
        BY <2>1, <2>2, <2>3, <2>4
<1> QED
    BY <1>1, <1>2, <1>3, <1>4, ConcatOfSeq, WhenOfSeq, EmptyOfSeq DEF Down0006

LEMMA AllowedDown0007 ==
    ASSUME NEW d
    PROVE  Down0007(d) \in Seq(Allowed("down", "0007"))
<1>1. Undo("roles", <<"ix_name", "ix_id">>) \in Seq(Allowed("down", "0007"))
    <2>1. <<"ix_name", "ix_id">> \in Seq(Indexes)
        BY DEF Indexes, Parts
    <2> QED
        BY <2>1, UndoAllowed DEF TableNames
<1>2. Batch("users", {"ix_role_id", "fk_role", "role_id"}, {"ck_role"}, {})
      \in Seq(Allowed("down", "0007"))
    BY BatchAllowed DEF TmpTables, MayDrop, Provides, Parts, RowKinds
<1>3. <<Alter("users", {}, {"role"}), Data("users", {"role_id"})>>
      \in Seq(Allowed("down", "0007"))
    <2>1. Alter("users", {}, {"role"}) \in Allowed("down", "0007")
        BY AddPartAllowed DEF TableNames, Parts
    <2>2. Data("users", {"role_id"}) \in Allowed("down", "0007")
        <3>1. "users" \in TableNames /\ {"role_id"} \in SUBSET Parts
            BY DEF TableNames, Parts
        <3> QED
            BY <3>1, DataAllowed
    <2> QED
        BY <2>1, <2>2
<1> QED
    BY <1>1, <1>2, <1>3, ConcatOfSeq, WhenOfSeq, EmptyOfSeq DEF Down0007

LEMMA AllowedDown0008 ==
    ASSUME NEW d
    PROVE  Down0008(d) \in Seq(Allowed("down", "0008"))
<1>1. Batch("prompt_versions", VersionAudit \cup {"fk_created_by"}, {}, {})
      \in Seq(Allowed("down", "0008"))
    BY BatchAllowed
       DEF TmpTables, MayDrop, Provides, Parts, RowKinds, PromptAudit, VersionAudit
<1>2. Batch("prompts", PromptAudit \cup {"fk_created_by", "fk_updated_by"}, {}, {})
      \in Seq(Allowed("down", "0008"))
    BY BatchAllowed
       DEF TmpTables, MayDrop, Provides, Parts, RowKinds, PromptAudit, VersionAudit
<1> QED
    BY <1>1, <1>2, ConcatOfSeq, WhenOfSeq, EmptyOfSeq DEF Down0008

LEMMA AllowedDown0009 ==
    ASSUME NEW d
    PROVE  Down0009(d) \in Seq(Allowed("down", "0009"))
<1>1. <<Data("roles", {})>> \in Seq(Allowed("down", "0009"))
    <2>1. Data("roles", {}) \in Allowed("down", "0009")
        <3>1. "roles" \in TableNames /\ {} \in SUBSET Parts
            BY DEF TableNames, Parts
        <3> QED
            BY <3>1, DataAllowed
    <2> QED
        BY <2>1
<1> QED
    BY <1>1, ConcatOfSeq, WhenOfSeq, EmptyOfSeq DEF Down0009

LEMMA AllowedDown0010 ==
    ASSUME NEW d
    PROVE  Down0010(d) \in Seq(Allowed("down", "0010"))
<1>1. <<Data("prompts", {"created_by_id", "updated_by_id"}), Data("prompt_versions",
        {"created_by_id"})>> \in Seq(Allowed("down", "0010"))
    <2>1. Data("prompts", {"created_by_id", "updated_by_id"}) \in Allowed("down", "0010")
        <3>1. "prompts" \in TableNames /\ {"created_by_id", "updated_by_id"} \in SUBSET Parts
            BY DEF TableNames, Parts
        <3> QED
            BY <3>1, DataAllowed
    <2>2. Data("prompt_versions", {"created_by_id"}) \in Allowed("down", "0010")
        <3>1. "prompt_versions" \in TableNames /\ {"created_by_id"} \in SUBSET Parts
            BY DEF TableNames, Parts
        <3> QED
            BY <3>1, DataAllowed
    <2> QED
        BY <2>1, <2>2
<1> QED
    BY <1>1, ConcatOfSeq, WhenOfSeq, EmptyOfSeq DEF Down0010, Up0010

LEMMA AllowedDown0011 ==
    ASSUME NEW d
    PROVE  Down0011(d) \in Seq(Allowed("down", "0011"))
<1>1. AddMissing(d, "configs", "model_id") \in Seq(Allowed("down", "0011"))
    BY AddMissingAllowed DEF TableNames, Parts
<1>2. AddMissing(d, "configs", "rounds") \in Seq(Allowed("down", "0011"))
    BY AddMissingAllowed DEF TableNames, Parts
<1>3. AddMissing(d, "configs", "gp_profile") \in Seq(Allowed("down", "0011"))
    BY AddMissingAllowed DEF TableNames, Parts
<1> QED
    BY <1>1, <1>2, <1>3, ConcatOfSeq, WhenOfSeq, EmptyOfSeq DEF Down0011

LEMMA AllowedDown0012 ==
    ASSUME NEW d
    PROVE  Down0012(d) \in Seq(Allowed("down", "0012"))
<1>1. <<Alter("users", {"password_changed_at"}, {})>> \in Seq(Allowed("down", "0012"))
    <2>1. Alter("users", {"password_changed_at"}, {}) \in Allowed("down", "0012")
        BY AlterAllowed DEF TableNames, Parts, MayDrop, Provides
    <2> QED
        BY <2>1
<1> QED
    BY <1>1, ConcatOfSeq, WhenOfSeq, EmptyOfSeq DEF Down0012

LEMMA AllowedDown0013 ==
    ASSUME NEW d
    PROVE  Down0013(d) \in Seq(Allowed("down", "0013"))
<1>1. Undo("cache_requests", <<"ix_cache_key", "ix_id">>) \in Seq(Allowed("down", "0013"))
    <2>1. <<"ix_cache_key", "ix_id">> \in Seq(Indexes)
        BY DEF Indexes, Parts
    <2> QED
        BY <2>1, UndoAllowed DEF TableNames
<1> QED
    BY <1>1, ConcatOfSeq, WhenOfSeq, EmptyOfSeq DEF Down0013

LEMMA AllowedDown0014 ==
    ASSUME NEW d
    PROVE  Down0014(d) \in Seq(Allowed("down", "0014"))
<1>1. Undo("conversation_imports", <<"ix_status", "ix_import_format", "ix_thread_id",
           "ix_id">>) \in Seq(Allowed("down", "0014"))
    <2>1. <<"ix_status", "ix_import_format", "ix_thread_id", "ix_id">> \in
            Seq(Indexes)
        BY DEF Indexes, Parts
    <2> QED
        BY <2>1, UndoAllowed DEF TableNames
<1>2. Undo("conversation_messages", <<"ix_role", "ix_thread_id", "ix_id">>)
      \in Seq(Allowed("down", "0014"))
    <2>1. <<"ix_role", "ix_thread_id", "ix_id">> \in Seq(Indexes)
        BY DEF Indexes, Parts
    <2> QED
        BY <2>1, UndoAllowed DEF TableNames
<1>3. Undo("conversation_threads", <<"ix_title", "ix_project_id", "ix_id">>)
      \in Seq(Allowed("down", "0014"))
    <2>1. <<"ix_title", "ix_project_id", "ix_id">> \in Seq(Indexes)
        BY DEF Indexes, Parts
    <2> QED
        BY <2>1, UndoAllowed DEF TableNames
<1> QED
    BY <1>1, <1>2, <1>3, ConcatOfSeq, WhenOfSeq, EmptyOfSeq DEF Down0014

LEMMA AllowedDown0015 ==
    ASSUME NEW d
    PROVE  Down0015(d) \in Seq(Allowed("down", "0015"))
<1>1. Create("tags", {}, <<"ix_id", "ix_name">>) \in Seq(Allowed("down", "0015"))
    <2>1. <<"ix_id", "ix_name">> \in Seq(Parts)
        BY DEF Parts
    <2>2. {} \in SUBSET Parts
        BY DEF Parts, Components
    <2> QED
        BY <2>1, <2>2, CreateAllowed DEF MayCreate, TableNames
<1>2. Create("prompts", {"created_at", "updated_at", "created_by_id", "updated_by_id",
             "project_id", "uq_name_project_id", "ck_name", "unnamed_fk"}, <<"ix_id",
             "ix_name", "ix_project_id", "ix_created_by_id", "ix_updated_by_id">>)
      \in Seq(Allowed("down", "0015"))
    <2>1. <<"ix_id", "ix_name", "ix_project_id", "ix_created_by_id",
            "ix_updated_by_id">> \in Seq(Parts)
        BY DEF Parts
    <2>2. {"created_at", "updated_at", "created_by_id", "updated_by_id", "project_id",
            "uq_name_project_id", "ck_name", "unnamed_fk"} \in SUBSET Parts
        BY DEF Parts, Components
    <2> QED
        BY <2>1, <2>2, CreateAllowed DEF MayCreate, TableNames
<1>3. Create("prompt_versions", {"created_at", "created_by_id", "uq_version",
             "uq_content_fields", "unnamed_fk"} \cup Components, <<"ix_id",
             "ix_created_by_id">>) \in Seq(Allowed("down", "0015"))
    <2>1. <<"ix_id", "ix_created_by_id">> \in Seq(Parts)
        BY DEF Parts
    <2>2. {"created_at", "created_by_id", "uq_version", "uq_content_fields",
            "unnamed_fk"} \cup Components \in SUBSET Parts
        BY DEF Parts, Components
    <2> QED
        BY <2>1, <2>2, CreateAllowed DEF MayCreate, TableNames
<1>4. Create("prompt_tags", {}, << >>) \in Seq(Allowed("down", "0015"))
    <2>1. << >> \in Seq(Parts)
        BY DEF Parts
    <2>2. {} \in SUBSET Parts
        BY DEF Parts, Components
    <2> QED
        BY <2>1, <2>2, CreateAllowed DEF MayCreate, TableNames
<1>5. Create("configs", {}, <<"ix_id">>) \in Seq(Allowed("down", "0015"))
    <2>1. <<"ix_id">> \in Seq(Parts)
        BY DEF Parts
    <2>2. {} \in SUBSET Parts
        BY DEF Parts, Components
    <2> QED
        BY <2>1, <2>2, CreateAllowed DEF MayCreate, TableNames
<1> QED
    BY <1>1, <1>2, <1>3, <1>4, <1>5, ConcatOfSeq, WhenOfSeq, EmptyOfSeq DEF Down0015

LEMMA AllowedDown0016 ==
    ASSUME NEW d
    PROVE  Down0016(d) \in Seq(Allowed("down", "0016"))
<1>1. DropIfPresent(d, "prompt_chain_versions") \in Seq(Allowed("down", "0016"))
    BY DropIfPresentAllowed DEF TableNames
<1>2. DropIfPresent(d, "prompt_chains") \in Seq(Allowed("down", "0016"))
    BY DropIfPresentAllowed DEF TableNames
<1> QED
    BY <1>1, <1>2, ConcatOfSeq, WhenOfSeq, EmptyOfSeq DEF Down0016

LEMMA AllowedDownGlobalConfig ==
    ASSUME NEW d
    PROVE  DownGlobalConfig(d) \in Seq(Allowed("down", "config"))
<1>1. Undo("global_config", << >>) \in Seq(Allowed("down", "config"))
    <2>1. << >> \in Seq(Indexes)
        BY DEF Indexes, Parts
    <2> QED
        BY <2>1, UndoAllowed DEF TableNames
<1> QED
    BY <1>1, ConcatOfSeq, WhenOfSeq, EmptyOfSeq DEF DownGlobalConfig

LEMMA UpIsAllowed ==
    ASSUME NEW r \in Revisions, NEW d
    PROVE  Up(r, d) \in Seq(Allowed("up", r))
<1>1. CASE r = "0001"
    BY <1>1, AllowedUp0001 DEF Up
<1>2. CASE r = "0002"
    BY <1>2, AllowedUp0002 DEF Up
<1>3. CASE r = "0003"
    BY <1>3, AllowedUp0003 DEF Up
<1>4. CASE r = "0004"
    BY <1>4, AllowedUp0004 DEF Up
<1>5. CASE r = "0005"
    BY <1>5, AllowedUp0005 DEF Up
<1>6. CASE r = "0006"
    BY <1>6, AllowedUp0006 DEF Up
<1>7. CASE r = "0007"
    BY <1>7, AllowedUp0007 DEF Up
<1>8. CASE r = "0008"
    BY <1>8, AllowedUp0008 DEF Up
<1>9. CASE r = "0009"
    BY <1>9, AllowedUp0009 DEF Up
<1>10. CASE r = "0010"
    BY <1>10, AllowedUp0010 DEF Up
<1>11. CASE r = "0011"
    BY <1>11, AllowedUp0011 DEF Up
<1>12. CASE r = "0012"
    BY <1>12, AllowedUp0012 DEF Up
<1>13. CASE r = "0013"
    BY <1>13, AllowedUp0013 DEF Up
<1>14. CASE r = "config"
    BY <1>14, AllowedUpGlobalConfig DEF Up
<1>15. CASE r = "merge"
    BY <1>15, EmptyOfSeq DEF Up
<1>16. CASE r = "0014"
    BY <1>16, AllowedUp0014 DEF Up
<1>17. CASE r = "0015"
    BY <1>17, AllowedUp0015 DEF Up
<1>18. CASE r = "0016"
    BY <1>18, AllowedUp0016 DEF Up
<1> QED
    BY <1>1, <1>2, <1>3, <1>4, <1>5, <1>6, <1>7, <1>8, <1>9,
       <1>10, <1>11, <1>12, <1>13, <1>14, <1>15, <1>16, <1>17, <1>18 DEF Revisions

LEMMA DownIsAllowed ==
    ASSUME NEW r \in Revisions, NEW d
    PROVE  Down(r, d) \in Seq(Allowed("down", r))
<1>1. CASE r = "0001"
    BY <1>1, AllowedDown0001 DEF Down
<1>2. CASE r = "0002"
    BY <1>2, AllowedDown0002 DEF Down
<1>3. CASE r = "0003"
    BY <1>3, AllowedDown0003 DEF Down
<1>4. CASE r = "0004"
    BY <1>4, AllowedDown0004 DEF Down
<1>5. CASE r = "0005"
    BY <1>5, AllowedDown0005 DEF Down
<1>6. CASE r = "0006"
    BY <1>6, AllowedDown0006 DEF Down
<1>7. CASE r = "0007"
    BY <1>7, AllowedDown0007 DEF Down
<1>8. CASE r = "0008"
    BY <1>8, AllowedDown0008 DEF Down
<1>9. CASE r = "0009"
    BY <1>9, AllowedDown0009 DEF Down
<1>10. CASE r = "0010"
    BY <1>10, AllowedDown0010 DEF Down
<1>11. CASE r = "0011"
    BY <1>11, AllowedDown0011 DEF Down
<1>12. CASE r = "0012"
    BY <1>12, AllowedDown0012 DEF Down
<1>13. CASE r = "0013"
    BY <1>13, AllowedDown0013 DEF Down
<1>14. CASE r = "config"
    BY <1>14, AllowedDownGlobalConfig DEF Down
<1>15. CASE r = "merge"
    BY <1>15, EmptyOfSeq DEF Down
<1>16. CASE r = "0014"
    BY <1>16, AllowedDown0014 DEF Down
<1>17. CASE r = "0015"
    BY <1>17, AllowedDown0015 DEF Down
<1>18. CASE r = "0016"
    BY <1>18, AllowedDown0016 DEF Down
<1> QED
    BY <1>1, <1>2, <1>3, <1>4, <1>5, <1>6, <1>7, <1>8, <1>9,
       <1>10, <1>11, <1>12, <1>13, <1>14, <1>15, <1>16, <1>17, <1>18 DEF Revisions

-----------------------------------------------------------------------------
(* What a revision that adds a part has yet to do.                         *)

Present(d, t, p) == Has(d, t) => p \in d.tables[t]

Adds(s, t, p) == s.op \in {"alter", "rebuild"} /\ s.table = t /\ p \in s.adds
Pending(stmts, t, p) == \E i \in DOMAIN stmts : Adds(stmts[i], t, p)

LEMMA PendingInConcat ==
    ASSUME NEW S, NEW a \in Seq(S), NEW b \in Seq(S), NEW t, NEW p,
           Pending(a, t, p) \/ Pending(b, t, p)
    PROVE  Pending(a \o b, t, p)
<1>1. CASE Pending(a, t, p)
    <2>1. PICK i \in DOMAIN a : Adds(a[i], t, p)
        BY <1>1 DEF Pending
    <2>2. i \in DOMAIN (a \o b) /\ (a \o b)[i] = a[i]
        BY <2>1, ConcatProperties
    <2> QED
        BY <2>1, <2>2 DEF Pending
<1>2. CASE Pending(b, t, p)
    <2>1. PICK i \in DOMAIN b : Adds(b[i], t, p)
        BY <1>2 DEF Pending
    <2>2. Len(a) + i \in DOMAIN (a \o b) /\ (a \o b)[Len(a) + i] = b[i]
        BY <2>1, ConcatProperties
    <2> QED
        BY <2>1, <2>2 DEF Pending
<1> QED
    BY <1>1, <1>2

LEMMA PendingInTail ==
    ASSUME NEW S, NEW a \in Seq(S), a # << >>, NEW t, NEW p,
           Pending(a, t, p), ~Adds(Head(a), t, p)
    PROVE  Pending(Tail(a), t, p)
<1>1. PICK i \in DOMAIN a : Adds(a[i], t, p)
    BY DEF Pending
<1>2. i # 1 /\ i \in 1..Len(a)
    BY <1>1
<1>3. i - 1 \in DOMAIN Tail(a) /\ Tail(a)[i - 1] = a[i]
    BY <1>2
<1> QED
    BY <1>1, <1>3 DEF Pending


LEMMA Provided0006 ==
    ASSUME NEW d, NEW p \in {"project_id", "uq_user_project_id"}
    PROVE  Pending(Up0006(d), "project_access", p)
<1> DEFINE S == Allowed("up", "0006")
           a == Create("projects", {}, <<"ix_id", "ix_name">>)
           b == <<Data("prompts", {"project"}), Data("project_access", {"project"}),
                  Alter("prompts", {}, {"project_id"}),
                  Alter("project_access", {}, {"project_id"})>>
           c == Batch("prompts",
                      {"uq_name_project", "ck_project", "ix_project", "project"},
                      {"fk_project", "uq_name_project_id", "ix_project_id"}, {"padded"})
           e == Batch("project_access",
                      {"uq_user_project", "ck_project", "ix_project", "project"},
                      {"fk_project", "uq_user_project_id", "ix_project_id"}, {})
<1>1. a \in Seq(S) /\ b \in Seq(S) /\ c \in Seq(S) /\ e \in Seq(S)
    BY PartsOf0006
<1>2. CASE p = "project_id"
    <2>1. Adds(b[4], "project_access", p) /\ 4 \in DOMAIN b
        BY <1>2 DEF Adds, Alter, Stmt
    <2>2. Pending(b, "project_access", p)
        BY <2>1 DEF Pending
    <2> HIDE DEF S, a, b, c, e
    <2>3. Pending(a \o b, "project_access", p) /\ a \o b \in Seq(S)
        BY <1>1, <2>2, PendingInConcat, ConcatOfSeq
    <2>4. Pending(a \o b \o c, "project_access", p) /\ a \o b \o c \in Seq(S)
        BY <1>1, <2>3, PendingInConcat, ConcatOfSeq
    <2>5. Pending(a \o b \o c \o e, "project_access", p)
        BY <1>1, <2>4, PendingInConcat
    <2> QED
        BY <2>5 DEF Up0006, a, b, c, e
<1>3. CASE p = "uq_user_project_id"
    <2>1. Adds(e[2], "project_access", p) /\ 2 \in DOMAIN e
        BY <1>3 DEF Adds, Batch, Stmt
    <2>2. Pending(e, "project_access", p)
        BY <2>1 DEF Pending
    <2> HIDE DEF S, a, b, c, e
    <2>3. a \o b \o c \in Seq(S)
        BY <1>1, ConcatOfSeq
    <2>4. Pending(a \o b \o c \o e, "project_access", p)
        BY <1>1, <2>2, <2>3, PendingInConcat
    <2> QED
        BY <2>4 DEF Up0006, a, b, c, e
<1> QED
    BY <1>2, <1>3

LEMMA Provided0007 ==
    ASSUME NEW d
    PROVE  Pending(Up0007(d), "users", "role_id")
<1> DEFINE S == Allowed("up", "0007")
           a == Create("roles", {}, <<"ix_id", "ix_name">>)
           b == <<Data("roles", {}), Alter("users", {}, {"role_id"}), Data("users", {"role"})>>
           c == Batch("users", {"ck_role", "role"}, {"fk_role", "ix_role_id"}, {})
<1>1. a \in Seq(S) /\ b \in Seq(S) /\ c \in Seq(S)
    BY PartsOf0007
<1>2. Adds(b[2], "users", "role_id") /\ 2 \in DOMAIN b
    BY DEF Adds, Alter, Stmt
<1>3. Pending(b, "users", "role_id")
    BY <1>2 DEF Pending
<1> HIDE DEF S, a, b, c
<1>4. Pending(a \o b, "users", "role_id") /\ a \o b \in Seq(S)
    BY <1>1, <1>3, PendingInConcat, ConcatOfSeq
<1>5. Pending(a \o b \o c, "users", "role_id")
    BY <1>1, <1>4, PendingInConcat
<1> QED
    BY <1>5 DEF Up0007, a, b, c

LEMMA UpProvides ==
    ASSUME NEW r \in Revisions, NEW d, NEW t, NEW p \in Provides(r, t)
    PROVE  Pending(Up(r, d), t, p)
<1>1. CASE r = "0006" /\ t = "project_access"
    BY <1>1, Provided0006 DEF Up, Provides
<1>2. CASE r = "0007" /\ t = "users"
    BY <1>2, Provided0007 DEF Up, Provides
<1>3. CASE r = "0012" /\ t = "users"
    <2>1. Up(r, d) = <<Alter("users", {}, {"password_changed_at"})>>
        BY <1>3 DEF Up, Up0012
    <2>2. p = "password_changed_at"
        BY <1>3 DEF Provides
    <2>3. Adds(Up(r, d)[1], t, p) /\ 1 \in DOMAIN Up(r, d)
        BY <1>3, <2>1, <2>2 DEF Adds, Alter, Stmt
    <2> QED
        BY <2>3 DEF Pending
<1> QED
    BY <1>1, <1>2, <1>3 DEF Provides

-----------------------------------------------------------------------------
(* The inductive invariant.                                                *)

DbType(d) ==
    /\ d = [tables |-> d.tables, tmps |-> d.tmps, applied |-> d.applied, rows |-> d.rows]
    /\ d.tmps \subseteq TmpTables
    /\ d.applied \subseteq Revisions
    /\ d.rows \subseteq RowKinds

Migrating == server \in {"upgrading", "downgrading"}

TypeInv ==
    /\ DbType(disk) /\ DbType(work)
    /\ dialect \in {"sqlite", "postgres"}
    /\ inTx \in BOOLEAN
    /\ server \in {"down", "upgrading", "creating", "serving", "downgrading"}
    /\ rev \in Revisions \cup {""}
    /\ todo \in Seq(Allowed(Direction, rev))
    /\ torn \subseteq Directions \X Revisions

Closed(d) == \A r \in d.applied : Parents[r] \subseteq d.applied

\* Where the run of Alembic stands.
FlowInv ==
    /\ Closed(disk) /\ Closed(work)
    /\ ~inTx => disk = work
    /\ ~OnSqlite /\ Migrating => inTx
    /\ ~Migrating => ~inTx /\ rev = ""
    /\ rev = "" => todo = << >>
    /\ OnSqlite => disk.applied = work.applied
    /\ server = "upgrading" /\ rev # "" =>
        rev \notin work.applied /\ Parents[rev] \subseteq work.applied
    /\ server = "downgrading" =>
        /\ rev # "" /\ rev \in disk.applied /\ disk.applied = work.applied
        /\ \A q \in disk.applied : rev \notin Parents[q]
    /\ server = "creating" => work.applied = Revisions

Altered == {"users", "project_access"}
PartsThere(d, r) == \A t \in Altered : \A p \in Provides(r, t) : Present(d, t, p)

\* An applied revision's parts are there, but for the downgrade in progress and
\* a downgrade of 20260518_0012 that was cut short.
SuppliedInv ==
    /\ \A r \in work.applied :
        \/ server = "downgrading" /\ rev = r
        \/ r = "0012" /\ <<"down", r>> \in torn
        \/ PartsThere(work, r)
    /\ \A r \in disk.applied :
        \/ r = "0012" /\ OnSqlite /\ server = "downgrading" /\ rev = r
        \/ r = "0012" /\ <<"down", r>> \in torn
        \/ PartsThere(disk, r)
    /\ server = "upgrading" /\ rev # "" =>
        \A t \in Altered : \A p \in Provides(rev, t) :
            Present(work, t, p) \/ Pending(todo, t, p)

MigrationsInv == TypeInv /\ FlowInv /\ SuppliedInv /\ ServingMeansCurrentSchema

-----------------------------------------------------------------------------
(* One statement.                                                          *)

LEMMA EffectType ==
    ASSUME NEW d, DbType(d), NEW s \in Statement
    PROVE  DbType(Effect(d, s)) /\ Effect(d, s).applied = d.applied
<1>1. CASE s.op = "create"
    BY <1>1 DEF DbType, Effect
<1>2. CASE s.op = "drop"
    BY <1>2 DEF DbType, Effect
<1>3. CASE s.op = "alter"
    BY <1>3 DEF DbType, Effect
<1>4. CASE s.op = "rebuild"
    BY <1>4 DEF DbType, Effect
<1>5. CASE s.op = "tmp"
    BY <1>5 DEF DbType, Effect, Statement
<1>6. CASE s.op = "data"
    BY <1>6 DEF DbType, Effect
<1>7. CASE s.op = "check"
    BY <1>7 DEF DbType, Effect
<1> QED
    BY <1>1, <1>2, <1>3, <1>4, <1>5, <1>6, <1>7 DEF Statement, Ops

\* Parts are kept by any statement but those of the revision that adds them and
\* of the one that creates the table.
LEMMA EffectKeeps ==
    ASSUME NEW d, DbType(d), NEW dir, NEW r, NEW s \in Allowed(dir, r),
           NEW q \in Revisions, NEW t \in Altered, NEW p \in Provides(q, t),
           Present(d, t, p), ~(dir = "down" /\ r = q), ~(dir = "up" /\ r = "0005")
    PROVE  Present(Effect(d, s), t, p)
<1>1. s \in Statement /\ (s.op = "create" => s.table # t)
    BY DEF Allowed, MayCreate, Altered
<1>2. s.op \in {"alter", "rebuild"} /\ s.table = t => p \notin s.drops
    BY DEF Allowed, MayDrop
<1>3. CASE s.op = "create"
    BY <1>1, <1>3 DEF DbType, Effect, Present, Has, AddTables
<1>4. CASE s.op = "drop"
    BY <1>4 DEF DbType, Effect, Present, Has
<1>5. CASE s.op = "alter"
    BY <1>2, <1>5 DEF DbType, Effect, Present, Has
<1>6. CASE s.op = "rebuild"
    BY <1>2, <1>6 DEF DbType, Effect, Present, Has
<1>7. CASE s.op = "tmp"
    BY <1>7 DEF DbType, Effect, Present, Has
<1>8. CASE s.op = "data"
    BY <1>8 DEF DbType, Effect, Present, Has
<1>9. CASE s.op = "check"
    BY <1>9 DEF DbType, Effect, Present, Has
<1> QED
    BY <1>1, <1>3, <1>4, <1>5, <1>6, <1>7, <1>8, <1>9 DEF Statement, Ops

\* Only statements that move rows take away parts that later revisions need,
\* but for 20260518_0012.
LEMMA EffectKeepsUnwritten ==
    ASSUME NEW d, DbType(d), NEW r \in Revisions, r # "0012",
           NEW s \in Allowed("down", r), ~Writes(s),
           NEW t \in Altered, NEW p \in Provides(r, t), Present(d, t, p)
    PROVE  Present(Effect(d, s), t, p)
<1>1. s \in Statement /\ (s.op = "create" => s.table # t)
    BY DEF Allowed, MayCreate, Altered
<1>2. s.op = "alter" /\ s.table = t => p \notin s.drops
    BY DEF Allowed, MayDrop
<1>3. CASE s.op = "create"
    BY <1>1, <1>3 DEF DbType, Effect, Present, Has, AddTables
<1>4. CASE s.op = "drop"
    BY <1>4 DEF DbType, Effect, Present, Has
<1>5. CASE s.op = "alter"
    BY <1>2, <1>5 DEF DbType, Effect, Present, Has
<1>6. CASE s.op = "tmp"
    BY <1>6 DEF DbType, Effect, Present, Has
<1>7. CASE s.op = "check"
    BY <1>7 DEF DbType, Effect, Present, Has
<1> QED
    BY <1>1, <1>3, <1>4, <1>5, <1>6, <1>7 DEF Statement, Ops, Writes

LEMMA EffectAdds ==
    ASSUME NEW d, DbType(d), NEW s, NEW t, NEW p, Adds(s, t, p)
    PROVE  Present(Effect(d, s), t, p)
<1>1. CASE s.op = "alter"
    BY <1>1 DEF DbType, Effect, Present, Has, Adds
<1>2. CASE s.op = "rebuild"
    BY <1>2 DEF DbType, Effect, Present, Has, Adds
<1> QED
    BY <1>1, <1>2 DEF Adds

LEMMA AppliedType ==
    ASSUME NEW d, DbType(d), NEW r \in Revisions
    PROVE  /\ DbType([d EXCEPT !.applied = @ \cup {r}])
           /\ DbType([d EXCEPT !.applied = @ \ {r}])
           /\ DbType([d EXCEPT !.rows = {}])
BY DEF DbType

-----------------------------------------------------------------------------
(* The invariant is inductive.                                             *)

LEMMA NothingAppliedInit ==
    ASSUME MigrationsInit
    PROVE  disk.applied = {} /\ work = disk
<1>1. PICK tables \in {<< >>, LegacyTables}, rows \in LegacyRows \cup {{}} :
        disk = [tables |-> tables, tmps |-> {}, applied |-> {}, rows |-> rows]
    BY DEF MigrationsInit
<1> QED
    BY <1>1 DEF MigrationsInit

LEMMA TypeInvInit == ASSUME MigrationsInit PROVE TypeInv
<1>1. PICK tables \in {<< >>, LegacyTables}, rows \in LegacyRows \cup {{}} :
        disk = [tables |-> tables, tmps |-> {}, applied |-> {}, rows |-> rows]
    BY DEF MigrationsInit
<1>2. rows \subseteq RowKinds
    BY MigrationsAssumption
<1>3. DbType(disk)
    BY <1>1, <1>2 DEF DbType
<1>4. todo \in Seq(Allowed(Direction, rev))
    BY EmptyOfSeq DEF MigrationsInit
<1> QED
    BY <1>3, <1>4 DEF MigrationsInit, TypeInv

LEMMA MigrationsTypeInv ==
    ASSUME TypeInv, FlowInv, [MigrationsNext]_migVars
    PROVE  TypeInv'
<1> USE DEF TypeInv
<1>1. CASE StartServer
    <2>1. todo = << >>
        BY <1>1 DEF StartServer, FlowInv, Migrating
    <2> QED
        BY <1>1, <2>1, EmptyOfSeq DEF StartServer
<1>2. CASE RunStatement
    <2>1. Head(todo) \in Allowed(Direction, rev) /\ Tail(todo) \in Seq(Allowed(Direction, rev))
        BY <1>2, HeadTailProperties DEF RunStatement
    <2>2. DbType(work') /\ DbType(disk')
        BY <1>2, <2>1, EffectType DEF RunStatement, Allowed
    <2> QED
        BY <1>2, <2>1, <2>2 DEF RunStatement, Direction, Writes
<1>3. CASE EndRevision
    <2>1. rev \in Revisions /\ DbType(work')
        BY <1>3, AppliedType DEF EndRevision
    <2> QED
        BY <1>3, <2>1, EmptyOfSeq DEF EndRevision, OnSqlite
<1>4. CASE EndDowngrade
    <2>1. rev \in Revisions /\ DbType(work')
        BY <1>4, AppliedType DEF EndDowngrade, FlowInv
    <2> QED
        BY <1>4, <2>1, EmptyOfSeq DEF EndDowngrade
<1>5. CASE EndUpgrade
    <2>1. todo = << >>
        BY <1>5 DEF EndUpgrade, FlowInv
    <2> QED
        BY <1>5, <2>1, EmptyOfSeq DEF EndUpgrade
<1>6. CASE Serve
    <2>1. todo = << >>
        BY <1>6 DEF Serve, CreateAll, FlowInv, Migrating
    <2>2. DbType(work')
        BY <1>6 DEF Serve, CreateAll, DbType
    <2> QED
        BY <1>6, <2>1, <2>2, EmptyOfSeq DEF Serve, CreateAll
<1>7. CASE StopServer
    <2>1. todo = << >>
        BY <1>7 DEF StopServer, FlowInv, Migrating
    <2> QED
        BY <1>7, <2>1, EmptyOfSeq DEF StopServer
<1>8. CASE StatementFails \/ Crash
    <2>1. ProcessEnds
        BY <1>8 DEF StatementFails, Crash
    <2>2. torn' \subseteq Directions \X Revisions
        <3>1. Direction \in Directions
            BY DEF Direction, Directions
        <3>2. rev # "" => <<Direction, rev>> \in Directions \X Revisions
            BY <3>1
        <3>3. torn' = torn \/ (rev # "" /\ torn' = torn \cup {<<Direction, rev>>})
            BY <2>1 DEF ProcessEnds, OnSqlite
        <3> QED
            BY <3>2, <3>3
    <2> QED
        BY <2>1, <2>2, EmptyOfSeq DEF ProcessEnds
<1>9. CASE RepairRows
    <2>1. DbType(disk')
        BY <1>9, AppliedType DEF RepairRows, DbType
    <2> QED
        BY <1>9, <2>1 DEF RepairRows, Direction
<1>10. ASSUME NEW r \in Revisions, BeginRevision(r)
       PROVE  TypeInv'
    <2>1. todo' \in Seq(Allowed("up", r))
        BY <1>10, UpIsAllowed DEF BeginRevision
    <2> QED
        BY <1>10, <2>1 DEF BeginRevision, Direction
<1>11. ASSUME NEW r \in Revisions, StartDowngrade(r)
       PROVE  TypeInv'
    <2>1. todo' \in Seq(Allowed("down", r))
        BY <1>11, DownIsAllowed DEF StartDowngrade
    <2> QED
        BY <1>11, <2>1 DEF StartDowngrade, Direction, OnSqlite
<1>12. CASE UNCHANGED migVars
    BY <1>12 DEF migVars, Direction
<1> QED
    BY <1>1, <1>2, <1>3, <1>4, <1>5, <1>6, <1>7, <1>8, <1>9, <1>10, <1>11, <1>12
       DEF MigrationsNext

LEMMA FlowInvInit == ASSUME MigrationsInit PROVE FlowInv
<1>1. disk.applied = {} /\ work = disk
    BY NothingAppliedInit
<1> QED
    BY <1>1 DEF MigrationsInit, FlowInv, Closed, Migrating

LEMMA MigrationsFlowInv ==
    ASSUME TypeInv, FlowInv, [MigrationsNext]_migVars
    PROVE  FlowInv'
<1> USE DEF FlowInv, Migrating, OnSqlite
<1>1. CASE StartServer
    BY <1>1 DEF StartServer, Closed
<1>2. CASE RunStatement
    <2>1. Head(todo) \in Statement
        BY <1>2, HeadTailProperties DEF RunStatement, TypeInv, Allowed
    <2>2. work'.applied = work.applied /\ rev # "" /\ Migrating
        BY <1>2, <2>1, EffectType DEF RunStatement, TypeInv
    <2>3. disk' = disk \/ disk' = work'
        BY <1>2 DEF RunStatement
    <2> QED
        BY <1>2, <2>2, <2>3 DEF RunStatement, TypeInv, Closed, Writes
<1>3. CASE EndRevision
    <2>1. rev \in Revisions /\ work'.applied = work.applied \cup {rev}
        BY <1>3 DEF EndRevision, TypeInv, DbType
    <2>2. Closed(work')
        BY <1>3, <2>1 DEF EndRevision, Closed
    <2> QED
        BY <1>3, <2>1, <2>2 DEF EndRevision, Closed
<1>4. CASE EndDowngrade
    <2>1. rev \in Revisions /\ work'.applied = work.applied \ {rev}
        BY <1>4 DEF EndDowngrade, TypeInv, DbType
    <2>2. Closed(work')
        <3>1. Closed(work) /\ \A q \in work.applied : rev \notin Parents[q]
            BY <1>4 DEF EndDowngrade
        <3> QED
            BY <2>1, <3>1 DEF Closed
    <2> QED
        BY <1>4, <2>1, <2>2 DEF EndDowngrade, Closed
<1>5. CASE EndUpgrade
    BY <1>5 DEF EndUpgrade, Closed
<1>6. CASE Serve
    <2>1. work'.applied = work.applied
        BY <1>6 DEF Serve, CreateAll, TypeInv, DbType
    <2> QED
        BY <1>6, <2>1 DEF Serve, CreateAll, Closed
<1>7. CASE StopServer
    BY <1>7 DEF StopServer, Closed
<1>8. CASE StatementFails \/ Crash
    <2>1. ProcessEnds
        BY <1>8 DEF StatementFails, Crash
    <2> QED
        BY <2>1 DEF ProcessEnds, Closed
<1>9. CASE RepairRows
    <2>1. disk'.applied = disk.applied
        BY <1>9 DEF RepairRows, TypeInv, DbType
    <2> QED
        BY <1>9, <2>1 DEF RepairRows, Closed
<1>10. ASSUME NEW r \in Revisions, BeginRevision(r)
       PROVE  FlowInv'
    BY <1>10 DEF BeginRevision, Closed, Revisions
<1>11. ASSUME NEW r \in Revisions, StartDowngrade(r)
       PROVE  FlowInv'
    BY <1>11 DEF StartDowngrade, Closed, Revisions
<1>12. CASE UNCHANGED migVars
    BY <1>12 DEF migVars, Closed
<1> QED
    BY <1>1, <1>2, <1>3, <1>4, <1>5, <1>6, <1>7, <1>8, <1>9, <1>10, <1>11, <1>12
       DEF MigrationsNext

LEMMA SuppliedInvInit == ASSUME MigrationsInit PROVE SuppliedInv
<1>1. disk.applied = {} /\ work = disk
    BY NothingAppliedInit
<1> QED
    BY <1>1 DEF MigrationsInit, SuppliedInv

LEMMA SamePartsThere ==
    ASSUME NEW d, NEW e, e.tables = d.tables, NEW r
    PROVE  PartsThere(e, r) <=> PartsThere(d, r)
BY DEF PartsThere, Present, Has

LEMMA NotBefore0007 ==
    ASSUME NEW d, Closed(d), "0007" \notin d.applied
    PROVE  "0012" \notin d.applied
<1>1. \A r \in d.applied : Parents[r] \subseteq d.applied
    BY DEF Closed
<1>2. "0008" \notin d.applied
    BY <1>1 DEF Parents, Revisions
<1>3. "0009" \notin d.applied
    BY <1>1, <1>2 DEF Parents, Revisions
<1>4. "0010" \notin d.applied
    BY <1>1, <1>3 DEF Parents, Revisions
<1>5. "0011" \notin d.applied
    BY <1>1, <1>4 DEF Parents, Revisions
<1> QED
    BY <1>1, <1>5 DEF Parents, Revisions

LEMMA RunKeepsSupplied ==
    ASSUME TypeInv, FlowInv, SuppliedInv, RunStatement
    PROVE  SuppliedInv'
<1>1. /\ Head(todo) \in Allowed(Direction, rev) /\ Head(todo) \in Statement
      /\ todo \in Seq(Allowed(Direction, rev)) /\ todo # << >>
    BY HeadTailProperties DEF RunStatement, TypeInv, Allowed
<1>2. /\ Migrating /\ rev # "" /\ rev \in Revisions
      /\ work'.applied = work.applied /\ work' = Effect(work, Head(todo))
      /\ DbType(work)
    BY <1>1, EffectType DEF RunStatement, TypeInv, FlowInv
<1>3. ASSUME NEW r \in work.applied, PartsThere(work, r),
             ~(server = "downgrading" /\ rev = r)
      PROVE  PartsThere(work', r)
    <2>1. ~(Direction = "down" /\ rev = r)
        BY <1>2, <1>3 DEF Direction, Migrating
    <2>2. r \in Revisions
        BY <1>2 DEF DbType
    <2>3. CASE ~(Direction = "up" /\ rev = "0005")
        BY <1>1, <1>2, <1>3, <2>1, <2>2, <2>3, EffectKeeps DEF PartsThere
    <2>4. CASE Direction = "up" /\ rev = "0005"
        <3>1. "0005" \notin work.applied
            BY <1>2, <2>4 DEF Direction, FlowInv, Migrating
        <3>2. "0006" \notin work.applied
            BY <3>1 DEF FlowInv, Closed, Parents, Revisions
        <3>3. "0007" \notin work.applied
            BY <3>2 DEF FlowInv, Closed, Parents, Revisions
        <3>4. "0012" \notin work.applied
            BY <3>3, NotBefore0007 DEF FlowInv
        <3> QED
            BY <3>2, <3>3, <3>4, <1>3 DEF PartsThere, Provides
    <2> QED
        BY <2>3, <2>4
<1>4. ASSUME server = "upgrading", NEW t \in Altered, NEW p \in Provides(rev, t)
      PROVE  Present(work', t, p) \/ Pending(todo', t, p)
    <2>1. Present(work, t, p) \/ Pending(todo, t, p)
        BY <1>2, <1>4 DEF SuppliedInv
    <2>2. CASE Adds(Head(todo), t, p)
        BY <1>2, <2>2, EffectAdds
    <2>3. CASE Present(work, t, p)
        <3>1. rev # "0005"
            BY <1>4 DEF Provides
        <3>2. Head(todo) \in Allowed("up", rev)
            BY <1>1, <1>4 DEF Direction
        <3>3. rev \in Revisions /\ DbType(work) /\ t \in Altered /\ p \in Provides(rev, t)
            BY <1>2, <1>4
        <3>4. Present(Effect(work, Head(todo)), t, p)
            BY <2>3, <3>1, <3>2, <3>3, EffectKeeps
        <3> QED
            BY <1>2, <3>4
    <2>4. CASE Pending(todo, t, p) /\ ~Adds(Head(todo), t, p)
        BY <1>1, <2>4, PendingInTail DEF RunStatement
    <2> QED
        BY <2>1, <2>2, <2>3, <2>4
<1>5. \A r \in work'.applied :
        \/ server' = "downgrading" /\ rev' = r
        \/ r = "0012" /\ <<"down", r>> \in torn'
        \/ PartsThere(work', r)
    BY <1>2, <1>3 DEF RunStatement, SuppliedInv
<1>6. ASSUME NEW r \in disk'.applied
      PROVE  \/ r = "0012" /\ OnSqlite' /\ server' = "downgrading" /\ rev' = r
             \/ r = "0012" /\ <<"down", r>> \in torn'
             \/ PartsThere(disk', r)
    <2>1. CASE inTx'
        BY <2>1, <1>6 DEF RunStatement, SuppliedInv, OnSqlite
    <2>2. CASE ~inTx'
        <3>1. disk' = work' /\ ~inTx /\ ~Writes(Head(todo)) /\ disk = work
            BY <2>2 DEF RunStatement, FlowInv
        <3>2. r \in work.applied
            BY <1>2, <1>6, <3>1
        <3>3. CASE server = "downgrading" /\ rev = r /\ r # "0012"
            <4>1. PartsThere(work, r)
                BY <3>1, <3>2, <3>3 DEF SuppliedInv
            <4>2. Head(todo) \in Allowed("down", r) /\ r \in Revisions
                BY <1>1, <1>2, <3>3 DEF Direction
            <4>3. ASSUME NEW t \in Altered, NEW p \in Provides(r, t)
                  PROVE  Present(work', t, p)
                <5>1. Present(work, t, p)
                    BY <4>1, <4>3 DEF PartsThere
                <5> QED
                    BY <1>2, <3>1, <3>3, <4>2, <4>3, <5>1, EffectKeepsUnwritten
            <4> QED
                BY <3>1, <4>3 DEF PartsThere
        <3>4. CASE ~(server = "downgrading" /\ rev = r)
            BY <1>3, <3>1, <3>2, <3>4 DEF SuppliedInv, RunStatement
        <3>5. CASE server = "downgrading" /\ rev = r /\ r = "0012"
            BY <2>2, <3>5, <3>1 DEF RunStatement, FlowInv, OnSqlite, Migrating
        <3> QED
            BY <3>3, <3>4, <3>5
    <2> QED
        BY <2>1, <2>2
<1>7. server' = server /\ rev' = rev
    BY DEF RunStatement
<1> QED
    BY <1>4, <1>5, <1>6, <1>7 DEF SuppliedInv

LEMMA ProvidedRevisions ==
    ASSUME NEW d, NEW r, r \notin {"0006", "0007", "0012"}
    PROVE  PartsThere(d, r)
BY DEF PartsThere, Provides

LEMMA MigrationsSuppliedInv ==
    ASSUME TypeInv, FlowInv, SuppliedInv, [MigrationsNext]_migVars
    PROVE  SuppliedInv'
<1> USE DEF OnSqlite, Migrating
<1>1. CASE StartServer
    BY <1>1 DEF StartServer, SuppliedInv, FlowInv
<1>2. CASE RunStatement
    BY <1>2, RunKeepsSupplied
<1>3. CASE EndRevision
    <2>1. /\ rev \in Revisions /\ work'.applied = work.applied \cup {rev}
          /\ work'.tables = work.tables
        BY <1>3 DEF EndRevision, TypeInv, DbType
    <2>2. PartsThere(work, rev)
        <3>1. todo = << >>
            BY <1>3 DEF EndRevision
        <3>2. \A t, p : ~Pending(todo, t, p)
            BY <3>1 DEF Pending
        <3> QED
            BY <1>3, <3>2 DEF EndRevision, SuppliedInv, PartsThere
    <2>3. \A r \in work'.applied :
            (r = "0012" /\ <<"down", r>> \in torn) \/ PartsThere(work, r)
        BY <1>3, <2>1, <2>2 DEF EndRevision, SuppliedInv
    <2>4. \A r \in work'.applied :
            (r = "0012" /\ <<"down", r>> \in torn') \/ PartsThere(work', r)
        BY <1>3, <2>1, <2>3, SamePartsThere DEF EndRevision
    <2>5. disk' = work' \/ disk' = disk
        BY <1>3 DEF EndRevision
    <2>6. \A r \in disk'.applied :
            (r = "0012" /\ <<"down", r>> \in torn') \/ PartsThere(disk', r)
        <3>1. CASE disk' = work'
            BY <2>4, <3>1
        <3>2. CASE disk' = disk
            BY <1>3, <3>2 DEF EndRevision, SuppliedInv
        <3> QED
            BY <2>5, <3>1, <3>2
    <2> QED
        BY <1>3, <2>4, <2>6 DEF EndRevision, SuppliedInv
<1>4. CASE EndDowngrade
    <2>1. /\ rev \in Revisions /\ work'.applied = work.applied \ {rev}
          /\ work'.tables = work.tables
        BY <1>4 DEF EndDowngrade, TypeInv, DbType, FlowInv
    <2>2. \A r \in work'.applied :
            (r = "0012" /\ <<"down", r>> \in torn) \/ PartsThere(work, r)
        BY <1>4, <2>1 DEF EndDowngrade, SuppliedInv
    <2>3. \A r \in work'.applied :
            (r = "0012" /\ <<"down", r>> \in torn') \/ PartsThere(work', r)
        <3> SUFFICES ASSUME NEW r \in work'.applied
                     PROVE  (r = "0012" /\ <<"down", r>> \in torn') \/ PartsThere(work', r)
            OBVIOUS
        <3>1. r # rev /\ <<"down", r>> # <<"down", rev>>
            BY <2>1
        <3> QED
            BY <1>4, <2>1, <2>2, <3>1, SamePartsThere DEF EndDowngrade
    <2> QED
        BY <1>4, <2>3 DEF EndDowngrade, SuppliedInv
<1>5. CASE EndUpgrade
    BY <1>5 DEF EndUpgrade, SuppliedInv
<1>6. CASE Serve
    <2>1. work'.applied = work.applied /\ work'.tables = AddTables(work.tables, ModelSchema)
        BY <1>6 DEF Serve, CreateAll, TypeInv, DbType
    <2>2. ASSUME NEW r \in Revisions, PartsThere(work, r)
          PROVE  PartsThere(work', r)
        <3>1. \A t \in Altered : t \in DOMAIN ModelSchema
            BY DEF Altered, ModelSchema
        <3>2. \A t \in Altered : \A p \in Provides(r, t) : p \in ModelSchema[t]
            BY DEF Altered, ModelSchema, Provides
        <3> QED
            BY <2>1, <2>2, <3>1, <3>2 DEF PartsThere, Present, Has, AddTables
    <2>3. \A r \in work.applied : r \in Revisions
        BY DEF TypeInv, DbType
    <2> QED
        BY <1>6, <2>1, <2>2, <2>3 DEF Serve, CreateAll, SuppliedInv
<1>7. CASE StopServer
    BY <1>7 DEF StopServer, SuppliedInv
<1>8. CASE StatementFails \/ Crash
    <2>1. ProcessEnds
        BY <1>8 DEF StatementFails, Crash
    <2>2. ASSUME NEW r \in disk.applied
          PROVE  (r = "0012" /\ <<"down", r>> \in torn') \/ PartsThere(disk, r)
        <3>1. CASE r = "0012" /\ dialect = "sqlite" /\ server = "downgrading" /\ rev = r
            BY <2>1, <3>1 DEF ProcessEnds, Direction
        <3>2. CASE r = "0012" /\ <<"down", r>> \in torn
            BY <2>1, <3>2 DEF ProcessEnds
        <3> QED
            BY <3>1, <3>2 DEF SuppliedInv
    <2> QED
        BY <2>1, <2>2 DEF ProcessEnds, SuppliedInv
<1>9. CASE RepairRows
    <2>1. disk'.applied = disk.applied /\ disk'.tables = disk.tables
        BY <1>9 DEF RepairRows, TypeInv, DbType
    <2> QED
        BY <1>9, <2>1, SamePartsThere DEF RepairRows, SuppliedInv
<1>10. ASSUME NEW r \in Revisions, BeginRevision(r)
       PROVE  SuppliedInv'
    BY <1>10, UpProvides DEF BeginRevision, SuppliedInv
<1>11. ASSUME NEW r \in Revisions, StartDowngrade(r)
       PROVE  SuppliedInv'
    BY <1>11 DEF StartDowngrade, SuppliedInv
<1>12. CASE UNCHANGED migVars
    BY <1>12 DEF migVars, SuppliedInv, PartsThere, Present, Has, Pending
<1> QED
    BY <1>1, <1>2, <1>3, <1>4, <1>5, <1>6, <1>7, <1>8, <1>9, <1>10, <1>11, <1>12
       DEF MigrationsNext

LEMMA MigrationsServes ==
    ASSUME TypeInv, FlowInv, SuppliedInv, ServingMeansCurrentSchema,
           [MigrationsNext]_migVars
    PROVE  ServingMeansCurrentSchema'
<1>1. CASE Serve
    <2>1. /\ disk' = work' /\ torn' = torn
          /\ work'.tables = AddTables(work.tables, ModelSchema)
        BY <1>1 DEF Serve, CreateAll, TypeInv, DbType
    <2>2. work.applied = Revisions /\ server = "creating"
        BY <1>1 DEF Serve, CreateAll, FlowInv
    <2>3. ASSUME torn \cap DropsColumns = {}, NEW t \in DOMAIN ModelSchema
          PROVE  t \in DOMAIN work'.tables /\ ModelSchema[t] \subseteq work'.tables[t]
        <3>1. t \in DOMAIN work'.tables
            BY <2>1 DEF AddTables
        <3>2. CASE t \notin DOMAIN work.tables
            BY <2>1, <3>2 DEF AddTables
        <3>3. CASE t \in DOMAIN work.tables
            <4>1. work'.tables[t] = work.tables[t]
                BY <2>1, <3>3 DEF AddTables
            <4>2. \A r \in Revisions : PartsThere(work, r)
                BY <2>2, <2>3 DEF SuppliedInv, DropsColumns
            <4>3. \A p \in ModelSchema[t] : \E r \in Revisions : p \in Provides(r, t)
                BY DEF ModelSchema, Provides, Revisions
            <4>4. ModelSchema[t] # {} => t \in Altered
                BY DEF ModelSchema, Altered
            <4> QED
                BY <3>1, <3>3, <4>1, <4>2, <4>3, <4>4 DEF PartsThere, Present, Has
        <3> QED
            BY <3>1, <3>2, <3>3
    <2> QED
        BY <2>1, <2>3 DEF ServingMeansCurrentSchema, Has
<1>2. CASE server' = "serving" /\ ~Serve
    <2>1. UNCHANGED migVars
        BY <1>2 DEF MigrationsNext, StartServer, RunStatement, EndRevision, EndDowngrade,
           EndUpgrade, StopServer, StatementFails, Crash, ProcessEnds, RepairRows,
           BeginRevision, StartDowngrade, TypeInv, FlowInv, Migrating
    <2> QED
        BY <2>1 DEF migVars, ServingMeansCurrentSchema, Has
<1>3. CASE server' # "serving"
    BY <1>3 DEF ServingMeansCurrentSchema
<1> QED
    BY <1>1, <1>2, <1>3

LEMMA MigrationsInvariant == MigrationsSpec => []MigrationsInv
<1>1. MigrationsInit => MigrationsInv
    <2> SUFFICES ASSUME MigrationsInit PROVE MigrationsInv
        OBVIOUS
    <2>1. ServingMeansCurrentSchema
        BY DEF MigrationsInit, ServingMeansCurrentSchema
    <2> QED
        BY <2>1, TypeInvInit, FlowInvInit, SuppliedInvInit DEF MigrationsInv
<1>2. MigrationsInv /\ [MigrationsNext]_migVars => MigrationsInv'
    BY MigrationsTypeInv, MigrationsFlowInv, MigrationsSuppliedInv, MigrationsServes
       DEF MigrationsInv
<1> QED
    BY <1>1, <1>2, PTL DEF MigrationsSpec

\* Whatever crashes, failures and downgrades came before, and whatever the
\* legacy tables held, a server that takes requests (init_database) finds
\* every table of the models with what the models use of it, unless on SQLite
\* a downgrade of 20260518_0012 was cut short and not completed since.
THEOREM ServingHasCurrentSchema == MigrationsSpec => []ServingMeansCurrentSchema
BY MigrationsInvariant, PTL DEF MigrationsInv

\* Every state of the migrations has its type, and a stopped server leaves no
\* work behind that is not on the disk.
THEOREM MigrationsTypeCorrect == MigrationsSpec => []MigrationsTypeOK
<1>1. MigrationsInv => MigrationsTypeOK
    <2> SUFFICES ASSUME MigrationsInv PROVE MigrationsTypeOK
        OBVIOUS
    <2>1. \A d \in {disk, work} :
            [tmps |-> d.tmps, applied |-> d.applied, rows |-> d.rows] \in Database
        BY DEF MigrationsInv, TypeInv, DbType, Database, TmpTables
    <2> QED
        BY <2>1 DEF MigrationsInv, TypeInv, FlowInv, Migrating, MigrationsTypeOK
<1> QED
    BY <1>1, MigrationsInvariant, PTL
=============================================================================
