---------------------------- MODULE SchemaModels -----------------------------
(* The tables the ORM declares (app/models), file by file, in the form      *)
(* DatabaseSchema gives to a table: what the running program believes the   *)
(* database to be, whatever the revisions have made of it.                  *)
EXTENDS DatabaseSchema

AuditModels == {Table("audit_logs", Pins({"tenants", "users"}), {}, {})}

CommunityModels ==
  {Table("spaces", OwnedBy({"tenants"}), {}, {}),
   Table("channels", OwnedBy({"spaces", "tenants"}), {"channel_type", "post_policy"}, {}),
   Table("posts", OwnedBy({"channels", "users", "tenants"}), {}, {}),
   Table("comments", OwnedBy({"posts", "users", "tenants"}), {}, {}),
   Table("post_likes", OwnedBy({"posts", "users"}), {}, {{"user_id", "post_id"}}),
   Table("reports", OwnedBy({"posts", "comments", "users", "tenants"}), {"report_status"}, {})}

CompanyModels ==
  {Table("companies", OwnedBy({"tenants"}), {"company_status"}, {}),
   Table("company_members", OwnedBy({"companies", "users"}), {}, {{"company_id", "user_id"}}),
   Table("company_goals", OwnedBy({"companies"}) \cup Mentions({"courses"}),
         {"company_goal_metric", "company_goal_status"}, {})}

CourseModels ==
  {Table("courses", OwnedBy({"tenants"}) \cup Mentions({"users"}), {"course_status"},
         {{"tenant_id", "slug"}}),
   Table("modules", OwnedBy({"courses", "tenants"}), {}, {}),
   Table("lessons", OwnedBy({"modules", "tenants"}),
         {"lesson_type", "video_provider", "drip_type"}, {})}

EmailModels ==
  {Table(n, OwnedBy({"tenants"}), {}, {}) :
     n \in {"email_audiences", "email_templates", "email_automations"}}
  \cup
  {Table("email_campaigns", OwnedBy({"email_audiences", "email_templates", "tenants"}),
         {"campaign_status"}, {}),
   Table("email_sends", OwnedBy({"email_campaigns", "email_automations", "users"}),
         {"email_send_status"}, {})}

EnrollmentModels ==
  {Table("enrollments", OwnedBy({"users", "products", "tenants"}),
         {"enrollment_status", "enrolled_by"}, {{"tenant_id", "user_id", "product_id"}})}

PointsModels ==
  {Table("xp_events", OwnedBy({"users", "tenants"}) \cup Mentions({"companies"}),
         {"xp_action_type"}, {}),
   Table("user_levels", OwnedBy({"users", "tenants"}), {}, {{"tenant_id", "user_id"}}),
   Table("badges", OwnedBy({"tenants"}), {"badge_category", "badge_rarity"}, {}),
   Table("user_badges", OwnedBy({"users", "badges"}), {}, {{"user_id", "badge_id"}})}

ContestModels ==
  {Table("user_streaks", OwnedBy({"users"}) \cup Mentions({"companies"}), {}, {{"user_id"}}),
   Table("special_events", OwnedBy({"companies", "tenants"}), {"special_event_type"}, {}),
   Table("leagues", OwnedBy({"tenants"}), {"league_tier"}, {}),
   Table("league_companies", OwnedBy({"leagues", "companies"}), {}, {})}

LandingPageModels ==
  {Table("landing_pages", OwnedBy({"tenants"}) \cup Mentions({"products"}), {},
         {{"tenant_id", "slug"}}),
   Table("page_views", OwnedBy({"landing_pages"}), {}, {})}

MenuModels ==
  {Table("menu_configs", OwnedBy({"tenants"}), {"menu_role"}, {{"tenant_id", "role"}})}

MessagingModels ==
  {Table("conversations", OwnedBy({"tenants"}), {}, {}),
   Table("conversation_participants", OwnedBy({"conversations", "users"}), {},
         {{"conversation_id", "user_id"}}),
   Table("messages", OwnedBy({"conversations", "users"}), {}, {})}

NotificationModels ==
  {Table(n, OwnedBy({"users", "tenants"}), {}, {}) : n \in {"notifications", "user_sessions"}}

ProductModels ==
  {Table("products", OwnedBy({"tenants"}),
         {"product_type", "product_status", "product_visibility"}, {{"tenant_id", "slug"}}),
   Table("product_courses", OwnedBy({"products", "courses"}), {}, {{"product_id", "course_id"}}),
   Table("product_spaces", OwnedBy({"products", "spaces"}), {}, {{"product_id", "space_id"}})}

ProgressModels ==
  {Table("lesson_progress", OwnedBy({"users", "lessons"}), {}, {{"user_id", "lesson_id"}}),
   Table("notes", OwnedBy({"users", "lessons"}), {}, {})}

PushModels == {Table("push_subscriptions", OwnedBy({"users", "tenants"}), {}, {})}

QuizModels ==
  {Table("quiz_battles", OwnedBy({"users", "tenants"}) \cup Mentions({"users", "courses"}),
         {}, {}),
   Table("quiz_battle_answers", OwnedBy({"quiz_battles", "users"}), {}, {})}

TenantModels == {Table("tenants", {}, {"tenant_plan"}, {{"slug"}, {"custom_domain"}})}

UserModels ==
  {Table("users", OwnedBy({"tenants"}) \cup Mentions({"companies"}), {"user_role"},
         {{"tenant_id", "email"}})}

WebhookModels ==
  {Table("webhook_logs", OwnedBy({"tenants"}), {"webhook_provider"}, {}),
   Table("leads", OwnedBy({"tenants"}), {"lead_source"}, {})}

\* Everything app/models/__init__ imports.
Models ==
  UNION {AuditModels, CommunityModels, CompanyModels, CourseModels, EmailModels,
         EnrollmentModels, PointsModels, ContestModels, LandingPageModels, MenuModels,
         MessagingModels, NotificationModels, ProductModels, ProgressModels, PushModels,
         QuizModels, TenantModels, UserModels, WebhookModels}

\* What was added to a table after its CREATE, and the program reads.
LaterColumns == {<<"lessons", "transcript_tsv">>, <<"posts", "is_pinned">>}
LaterValues == {<<"company_goal_metric", "courses_completed">>}
==============================================================================
