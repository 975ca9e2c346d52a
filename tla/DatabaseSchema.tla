---------------------------- MODULE DatabaseSchema ----------------------------
(***************************************************************************)
(* The migrations of the database (repositories/db/migrations.py) as steps *)
(* for DatabaseStart, and what the base script makes of a file (schema.py).*)
(* A part is a column, or the tables, indexes or values that one statement *)
(* or several in a row without a condition make.                           *)
(***************************************************************************)
EXTENDS Naturals, Sequences

MadeAlways ==
    {"filter options", "thumbnail jobs", "page anchors", "access failures", "ai metadata",
     "units index", "base indexes"}

\* The columns that are not older than migrations and that the script gives a
\* new file; it has no indexes of before sort_seq.
MadeColumns ==
    {"gallery.sort_seq", "gallery.favorite", "gallery.bytes", "gallery.thumbnail",
     "gallery.completed_at", "gallery.sha256", "gallery.background", "gallery.mask_coverage",
     "no old indexes",
     "presets.default_model", "presets.response_format", "presets.supports_mask",
     "jobs.stage_timings", "jobs.images", "jobs.webhook_url", "jobs.background",
     "tasks.pending_uploads", "r2.etag", "r2.last_remote_seen", "snippets.favorite",
     "units.claim_token", "units.attempts"}

-----------------------------------------------------------------------------
(* Steps                                                                   *)

\* No condition.
Nothing == "nothing"

LookAt == <<[kind |-> "look", part |-> Nothing, guard |-> Nothing]>>
Adding(column) == [kind |-> "alter", part |-> column, guard |-> column]
\* `if column not in _table_columns(...)' of columns of one table.
Columns(names) == LookAt \o [i \in DOMAIN names |-> Adding(names[i])]
Make(part) == <<[kind |-> "create", part |-> part, guard |-> Nothing]>>
Write(part) == <<[kind |-> "fill", part |-> part, guard |-> Nothing]>>
\* Under the condition of the column.
MakeWith(part, column) == <<[kind |-> "create", part |-> part, guard |-> column]>>
WriteWith(part, column) == <<[kind |-> "fill", part |-> part, guard |-> column]>>

-----------------------------------------------------------------------------
(* Migrations                                                              *)

SortSequence ==
    Columns(<<"gallery.sort_seq">>) \o MakeWith("no old indexes", "gallery.sort_seq")
        \o Write("sort_seq values")

GalleryMigrations ==
    << <<>>,
       Make("filter options") \o Write("filter option counts"),
       Make("thumbnail jobs"),
       SortSequence \o Make("keyset indexes"),
       SortSequence \o Make("filter indexes"),
       Make("page anchors") \o Write("gallery version"),
       Make("access failures") >>

PresetMigration ==
    << Columns(<<"presets.default_model", "presets.response_format">>) \o Write("preset defaults") >>

EntryMigration ==
    << Columns(<<"gallery.favorite", "gallery.bytes", "gallery.thumbnail",
                 "gallery.completed_at", "gallery.sha256">>)
         \o SortSequence \o Make("keyset indexes") \o Make("filter indexes")
         \o Make("created_at indexes") >>

ColumnMigrations ==
    << Columns(<<"jobs.stage_timings", "jobs.images", "jobs.webhook_url">>),
       Columns(<<"tasks.pending_uploads">>),
       Columns(<<"r2.etag", "r2.last_remote_seen">>),
       Columns(<<"snippets.favorite">>) \o Make("snippets index"),
       Make("ai metadata"),
       Columns(<<"jobs.completed", "jobs.success", "jobs.failure">>),
       Columns(<<"gallery.background">>) \o Columns(<<"jobs.background">>),
       Columns(<<"jobs.usage", "jobs.cost">>) \o Columns(<<"units.usage", "units.cost">>),
       Columns(<<"jobs.streaming", "jobs.partial_images">>),
       Columns(<<"units.claim_token", "units.attempts">>) \o Make("units index"),
       Make("performance indexes") >>

MaskMigrations ==
    << Columns(<<"jobs.mask_applied">>),
       Columns(<<"presets.supports_mask">>),
       Columns(<<"gallery.mask_coverage">>),
       Make("masked index"),
       Columns(<<"gallery.paste_back", "gallery.paste_back_scale">>) \o Columns(<<"jobs.paste_back">>),
       Columns(<<"gallery.sent_prompt", "gallery.revised_prompt", "gallery.reported_size",
                 "gallery.reported_quality", "gallery.duration_ms", "gallery.chroma">>),
       Make("collections"),
       Columns(<<"presets.prompt_guard">>),
       Columns(<<"gallery.diagnostics">>),
       Columns(<<"jobs.preset_id">>) >>

AgentMigrations ==
    << Make("agent tables"), Make("agent indexes") >>

RecoveryMigrations ==
    << Columns(<<"presets.provider_kind", "presets.provider_config">>),
       Columns(<<"units.remote", "units.checkpointed", "units.recoveries">>),
       Columns(<<"units.diagnostics">>) >>

\* Branches fill what they add, under the condition of the column.
BranchMigrations ==
    << Columns(<<"jobs.unit_statuses", "jobs.agent_turn", "jobs.agent_conversation">>),
       Columns(<<"turns.parent">>) \o WriteWith("parents of turns", "turns.parent")
         \o Columns(<<"conversations.selected">>)
         \o WriteWith("selected turns", "conversations.selected")
         \o <<Adding("conversations.revision")>> \o Make("parent index"),
       Columns(<<"turns.web_search">>),
       Columns(<<"turns.snapshot">>),
       Columns(<<"gallery.complexity", "gallery.frames", "gallery.frame_ms", "gallery.markup">>)
         \o Columns(<<"jobs.complexity", "jobs.frames", "jobs.frame_ms", "jobs.markup">>),
       Columns(<<"gallery.safety">>) \o Columns(<<"jobs.safety">>),
       Columns(<<"collections.alias">>) \o MakeWith("alias index", "collections.alias")
         \o Columns(<<"collection items.position">>)
         \o MakeWith("order index", "collection items.position") >>

\* SCHEMA_MIGRATIONS
Migrations ==
    GalleryMigrations \o PresetMigration \o EntryMigration \o ColumnMigrations
        \o MaskMigrations \o AgentMigrations \o RecoveryMigrations \o BranchMigrations

=============================================================================
