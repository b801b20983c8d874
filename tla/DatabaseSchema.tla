--------------------------- MODULE DatabaseSchema ---------------------------
(* The schema of the database as the program's two descriptions of it give  *)
(* it: the chain of Alembic revisions (alembic/versions), as the DDL each   *)
(* one runs, and the tables the ORM declares (app/models).                  *)
(*                                                                          *)
(* A table is its name, its foreign keys, the enum types its CREATE makes   *)
(* and its unique keys.  A foreign key is the table it points at and what a *)
(* DELETE there does; columns that no statement after the CREATE touches,   *)
(* and indexes that are not unique, follow their table and are left out.    *)
EXTENDS Integers, Sequences

Table(n, k, e, u) == [name |-> n, keys |-> k, types |-> e, unique |-> u]

\* What deleting the row pointed at does to the row that points.
OwnedBy(S) == S \X {"cascade"}
Mentions(S) == S \X {"set null"}
Pins(S) == S \X {"restrict"}

-----------------------------------------------------------------------------
(* DDL.  A database is the revision it records, its tables, its enum types, *)
(* the columns and the enum values that were added later.                   *)

Create(t) == [op |-> "create table", table |-> t]
Drop(n) == [op |-> "drop table", name |-> n]
DropIfExists(S) == [op |-> "drop if exists", names |-> S]
AddKey(n, k) == [op |-> "add key", name |-> n, key |-> k]
DropKey(n, k) == [op |-> "drop key", name |-> n, key |-> k]
AddColumn(n, c) == [op |-> "add column", column |-> <<n, c>>]
DropColumn(n, c) == [op |-> "drop column", column |-> <<n, c>>]
AddValue(t, v) == [op |-> "add value", value |-> <<t, v>>]

Names(d) == {t.name : t \in d.tables}
TableOf(d, n) == CHOOSE t \in d.tables : t.name = n

\* CREATE TABLE also creates the enum types of its columns, and drop_table by
\* name leaves them: alembic checks neither for what is already there.
Accepts(d, o) ==
  CASE o.op = "create table" ->
         /\ o.table.name \notin Names(d)
         /\ o.table.types \cap d.types = {}
         /\ \A k \in o.table.keys : k[1] \in Names(d) \cup {o.table.name}
    [] o.op = "drop table" ->
         /\ o.name \in Names(d)
         /\ \A t \in d.tables : t.name # o.name => \A k \in t.keys : k[1] # o.name
    [] o.op = "add key" ->
         o.name \in Names(d) /\ o.key[1] \in Names(d) /\ o.key \notin TableOf(d, o.name).keys
    [] o.op = "drop key" -> o.name \in Names(d) /\ o.key \in TableOf(d, o.name).keys
    [] o.op = "add column" -> o.column[1] \in Names(d) /\ o.column \notin d.columns
    [] o.op = "drop column" -> o.column \in d.columns
    [] o.op = "add value" -> o.value[1] \in d.types
    [] o.op = "drop if exists" -> TRUE

WithKeys(d, n, ks) ==
  (d.tables \ {TableOf(d, n)}) \cup {[TableOf(d, n) EXCEPT !.keys = ks]}

Without(d, S) ==
  [d EXCEPT !.tables = {t \in @ : t.name \notin S},
            !.columns = {c \in @ : c[1] \notin S}]

Effect(d, o) ==
  CASE o.op = "create table" ->
         [d EXCEPT !.tables = @ \cup {o.table}, !.types = @ \cup o.table.types]
    [] o.op = "drop table" -> Without(d, {o.name})
    [] o.op = "drop if exists" -> Without(d, o.names)
    [] o.op = "add key" ->
         [d EXCEPT !.tables = WithKeys(d, o.name, TableOf(d, o.name).keys \cup {o.key})]
    [] o.op = "drop key" ->
         [d EXCEPT !.tables = WithKeys(d, o.name, TableOf(d, o.name).keys \ {o.key})]
    [] o.op = "add column" -> [d EXCEPT !.columns = @ \cup {o.column}]
    [] o.op = "drop column" -> [d EXCEPT !.columns = @ \ {o.column}]
    [] o.op = "add value" -> [d EXCEPT !.values = @ \cup {o.value}]

\* One statement, unless an earlier one was refused.
Statement(r, o) ==
  IF r.ok /\ Accepts(r.db, o) THEN [ok |-> TRUE, db |-> Effect(r.db, o)]
  ELSE [ok |-> FALSE, db |-> r.db]

\* The statements of one revision, in order; the first one refused ends them.
Execute(d, ops) ==
  LET after[i \in 0..Len(ops)] ==
        IF i = 0 THEN [ok |-> TRUE, db |-> d] ELSE Statement(after[i - 1], ops[i])
  IN  after[Len(ops)]

Creates(ts) == [i \in DOMAIN ts |-> Create(ts[i])]
Drops(ns) == [i \in DOMAIN ns |-> Drop(ns[i])]

-----------------------------------------------------------------------------
(* The revisions, each the statements of upgrade() and of downgrade().      *)

\* The tables a database had when Prisma managed it.
LegacyTable ==
  LET T(n, k) == Table(n, k, {}, {})
  IN  [TrainingCategory |-> T("TrainingCategory", Pins({"Tenant"})),
       Module |-> T("Module", Pins({"Training"})),
       prisma |-> T("_prisma_migrations", {}),
       Training |-> T("Training", Pins({"User", "TrainingCategory", "Tenant"})),
       User |-> Table("User", {}, {}, {{"email"}}),
       Lesson |-> T("Lesson", Pins({"Module"})),
       Tenant |-> T("Tenant", {}),
       TenantUser |-> T("TenantUser", Pins({"Tenant", "User"}))]

LegacyTables == {LegacyTable[n] : n \in DOMAIN LegacyTable}

Rev_dab2aa28a1dd ==
  [up |-> <<Create(Table("tenants", {}, {"tenant_plan"}, {{"slug"}, {"custom_domain"}})),
            DropIfExists({t.name : t \in LegacyTables})>>,
   down |-> LET L == LegacyTable
            IN  Creates(<<L.TrainingCategory, L.Module, L.prisma, L.Training, L.User,
                          L.Lesson, L.Tenant, L.TenantUser>>)
                \o <<Drop("tenants")>>]

Rev_7ad7eae2fd77 ==
  [up |-> <<Create(Table("users", OwnedBy({"tenants"}), {"user_role"},
                         {{"tenant_id", "email"}}))>>,
   down |-> <<Drop("users")>>]

Up_3d5e545f7fec ==
  Creates(<<
    Table("products", OwnedBy({"tenants"}),
          {"product_type", "product_status", "product_visibility"}, {{"tenant_id", "slug"}}),
    Table("courses", OwnedBy({"tenants"}) \cup Mentions({"users"}), {"course_status"},
          {{"tenant_id", "slug"}}),
    Table("enrollments", OwnedBy({"tenants", "products", "users"}),
          {"enrollment_status", "enrolled_by"}, {{"tenant_id", "user_id", "product_id"}}),
    Table("modules", OwnedBy({"tenants", "courses"}), {}, {}),
    Table("product_courses", OwnedBy({"courses", "products"}), {},
          {{"product_id", "course_id"}}),
    Table("lessons", OwnedBy({"tenants", "modules"}),
          {"lesson_type", "video_provider", "drip_type"}, {}),
    Table("lesson_progress", OwnedBy({"lessons", "users"}), {}, {{"user_id", "lesson_id"}}),
    Table("notes", OwnedBy({"lessons", "users"}), {}, {})>>)

Rev_3d5e545f7fec ==
  [up |-> Up_3d5e545f7fec,
   down |-> Drops(<<"notes", "lesson_progress", "lessons", "product_courses", "modules",
                    "enrollments", "courses", "products">>)]

Rev_5de87816aeec ==
  [up |-> Creates(<<Table("leads", OwnedBy({"tenants"}), {"lead_source"}, {}),
                    Table("webhook_logs", OwnedBy({"tenants"}), {"webhook_provider"}, {})>>),
   down |-> Drops(<<"webhook_logs", "leads">>)]

\* users.company_id becomes a foreign key here, under a name of its own.
CompanyKey == <<"companies", "set null">>

Rev_0e85d2cae605 ==
  [up |-> <<Create(Table("companies", OwnedBy({"tenants"}), {"company_status"}, {})),
            Create(Table("company_members", OwnedBy({"companies", "users"}), {},
                         {{"company_id", "user_id"}})),
            AddKey("users", CompanyKey),
            Create(Table("company_goals", OwnedBy({"companies"}) \cup Mentions({"courses"}),
                         {"company_goal_metric", "company_goal_status"}, {}))>>,
   down |-> <<DropKey("users", CompanyKey)>>
            \o Drops(<<"company_goals", "company_members", "companies">>)]

\* Its upgrade keeps the company key; its downgrade creates it once more.
Rev_177afad4a430 ==
  [up |-> <<Create(Table("menu_configs", OwnedBy({"tenants"}), {"menu_role"},
                         {{"tenant_id", "role"}}))>>,
   down |-> <<AddKey("users", CompanyKey), Drop("menu_configs")>>]

Rev_6f589788a558 ==
  [up |-> Creates(<<
     Table("email_audiences", OwnedBy({"tenants"}), {}, {}),
     Table("email_automations", OwnedBy({"tenants"}), {}, {}),
     Table("email_templates", OwnedBy({"tenants"}), {}, {}),
     Table("email_campaigns", OwnedBy({"tenants", "email_audiences", "email_templates"}),
           {"campaign_status"}, {}),
     Table("email_sends", OwnedBy({"email_automations", "email_campaigns", "users"}),
           {"email_send_status"}, {})>>),
   down |-> Drops(<<"email_sends", "email_campaigns", "email_templates",
                    "email_automations", "email_audiences">>)]

Up_f0cbf12d8626 ==
  Creates(<<
    Table("badges", OwnedBy({"tenants"}), {"badge_category", "badge_rarity"}, {}),
    Table("leagues", OwnedBy({"tenants"}), {"league_tier"}, {}),
    Table("spaces", OwnedBy({"tenants"}), {}, {}),
    Table("channels", OwnedBy({"tenants", "spaces"}), {"channel_type", "post_policy"}, {}),
    Table("league_companies", OwnedBy({"companies", "leagues"}), {}, {}),
    Table("special_events", OwnedBy({"tenants", "companies"}), {"special_event_type"}, {}),
    Table("posts", OwnedBy({"tenants", "channels", "users"}), {}, {}),
    Table("user_badges", OwnedBy({"badges", "users"}), {}, {{"user_id", "badge_id"}}),
    Table("user_levels", OwnedBy({"tenants", "users"}), {}, {{"tenant_id", "user_id"}}),
    Table("user_streaks", OwnedBy({"users"}) \cup Mentions({"companies"}), {}, {{"user_id"}}),
    Table("xp_events", OwnedBy({"tenants", "users"}) \cup Mentions({"companies"}),
          {"xp_action_type"}, {}),
    Table("comments", OwnedBy({"tenants", "posts", "users"}), {}, {}),
    Table("post_likes", OwnedBy({"posts", "users"}), {}, {{"user_id", "post_id"}}),
    Table("reports", OwnedBy({"tenants", "posts", "comments", "users"}),
          {"report_status"}, {})>>)

Rev_f0cbf12d8626 ==
  [up |-> Up_f0cbf12d8626,
   down |-> Drops(<<"reports", "post_likes", "comments", "xp_events", "user_streaks",
                    "user_levels", "user_badges", "posts", "special_events",
                    "league_companies", "channels", "spaces", "leagues", "badges">>)]

Rev_24ae512765f6 ==
  [up |-> Creates(<<
     Table("landing_pages", OwnedBy({"tenants"}) \cup Mentions({"products"}), {},
           {{"tenant_id", "slug"}}),
     Table("page_views", OwnedBy({"landing_pages"}), {}, {})>>),
   down |-> Drops(<<"page_views", "landing_pages">>)]

Rev_cc90ca926a8d ==
  [up |-> Creates(<<
     Table("conversations", OwnedBy({"tenants"}), {}, {}),
     Table("conversation_participants", OwnedBy({"conversations", "users"}), {},
           {{"conversation_id", "user_id"}}),
     Table("messages", OwnedBy({"conversations", "users"}), {}, {})>>),
   down |-> Drops(<<"messages", "conversation_participants", "conversations">>)]

Rev_eaf76cc087c0 ==
  [up |-> Creates(<<
     Table("notifications", OwnedBy({"tenants", "users"}), {}, {}),
     Table("user_sessions", OwnedBy({"tenants", "users"}), {}, {}),
     Table("quiz_battles", OwnedBy({"tenants", "users"}) \cup Mentions({"courses", "users"}),
           {}, {}),
     Table("quiz_battle_answers", OwnedBy({"quiz_battles", "users"}), {}, {})>>),
   down |-> Drops(<<"quiz_battle_answers", "quiz_battles", "user_sessions",
                    "notifications">>)]

Rev_aabc55a14b39 ==
  [up |-> <<Create(Table("push_subscriptions", OwnedBy({"tenants", "users"}), {}, {}))>>,
   down |-> <<Drop("push_subscriptions")>>]

\* The audit trail is the one table that pins the rows it points at.
Rev_dd72c941244c ==
  [up |-> <<Create(Table("audit_logs", Pins({"tenants", "users"}), {}, {}))>>,
   down |-> <<Drop("audit_logs")>>]

Rev_a1b2c3d4e5f6 ==
  [up |-> <<AddColumn("lessons", "transcript_tsv")>>,
   down |-> <<DropColumn("lessons", "transcript_tsv")>>]

\* An enum value cannot be removed: the downgrade does nothing.
Rev_b2c3d4e5f6a7 ==
  [up |-> <<AddValue("company_goal_metric", "courses_completed")>>, down |-> <<>>]

\* Faulty variant: the ondelete of the keys is forgotten.
Rev_c3d4e5f6a7b8_Unowned ==
  [up |-> <<Create(Table("product_spaces", Pins({"products", "spaces"}), {},
                         {{"product_id", "space_id"}}))>>,
   down |-> <<Drop("product_spaces")>>]

Rev_c3d4e5f6a7b8 ==
  [up |-> <<Create(Table("product_spaces", OwnedBy({"products", "spaces"}), {},
                         {{"product_id", "space_id"}}))>>,
   down |-> <<Drop("product_spaces")>>]

Rev_d4e5f6a7b8c9 ==
  [up |-> <<AddColumn("posts", "is_pinned")>>, down |-> <<DropColumn("posts", "is_pinned")>>]

\* down_revision links them in this order.
Chain ==
  <<Rev_dab2aa28a1dd, Rev_7ad7eae2fd77, Rev_3d5e545f7fec, Rev_5de87816aeec,
    Rev_0e85d2cae605, Rev_177afad4a430, Rev_6f589788a558, Rev_f0cbf12d8626,
    Rev_24ae512765f6, Rev_cc90ca926a8d, Rev_eaf76cc087c0, Rev_aabc55a14b39,
    Rev_dd72c941244c, Rev_a1b2c3d4e5f6, Rev_b2c3d4e5f6a7, Rev_c3d4e5f6a7b8,
    Rev_d4e5f6a7b8c9>>
==============================================================================
