----------------------------- MODULE ConsentTable ----------------------------
(***************************************************************************)
(* CONSENT_TABLE (common/consent.py): what every published tool may do,    *)
(* and which of its calls are consequential.  A trigger is a set of        *)
(* argument properties; a call fires it by having them all, so {{}} asks   *)
(* for every call and {} for none.                                         *)
(***************************************************************************)
EXTENDS TLC

ToolPolicy(base, idempotent, triggers, dry_run) ==
    [base |-> base, idempotent |-> idempotent, triggers |-> triggers, dry_run |-> dry_run]

READ == ToolPolicy("read", TRUE, {}, FALSE)

_write(idempotent) == ToolPolicy("write", idempotent, {}, FALSE)

_always_ask(idempotent) == ToolPolicy("write", idempotent, {{}}, FALSE)

Asking(idempotent, triggers) == ToolPolicy("write", idempotent, triggers, FALSE)

------------------------------------------------------------------------------
ServerPolicies ==
    [connect_google_workspace |-> _write(FALSE), disconnect_google_workspace |-> _always_ask(TRUE),
     get_google_connection_status |-> READ, get_mcp_apps_diagnostics |-> READ,
     resolve_workspace_resource |-> READ, search_workspace |-> READ,
     uploads_delete_file |-> _write(TRUE), uploads_file_manager |-> READ, uploads_list_files |-> READ,
     uploads_read_file |-> READ, uploads_store_files |-> _write(FALSE)]

gmail_delete == ToolPolicy("write", TRUE, {{"permanent"}, {"bulk"}}, TRUE)

GmailPolicies ==
    [gmail_check_mail_updates |-> READ, gmail_delete |-> gmail_delete,
     gmail_delete_draft |-> _always_ask(TRUE), gmail_download_attachment |-> _write(FALSE),
     gmail_get_mail_digest |-> READ, gmail_get_thread |-> READ, gmail_list_drafts |-> READ,
     gmail_list_labels |-> READ,
     gmail_manage_filters |-> Asking(FALSE, {{"delete"}, {"create", "forward"}, {"create", "trash"}}),
     gmail_manage_forwarding |-> Asking(FALSE, {{"create"}, {"delete"}}),
     gmail_manage_labels |-> Asking(FALSE, {{"delete"}}),
     gmail_manage_vacation |-> Asking(TRUE, {{"update", "enable"}}),
     gmail_modify_messages |-> ToolPolicy("write", TRUE, {{"bulk"}}, TRUE),
     gmail_read_emails |-> READ, gmail_reply |-> _always_ask(FALSE), gmail_save_draft |-> _write(FALSE),
     gmail_search_emails |-> READ, gmail_send_draft |-> _always_ask(FALSE),
     gmail_send_email |-> _always_ask(FALSE)]

CalendarPolicies ==
    [calendar_create_event |-> Asking(FALSE, {{"guests"}}),
     calendar_delete_event |-> _always_ask(TRUE), calendar_find_free_time |-> READ,
     calendar_get_calendar_context |-> READ, calendar_get_calendar_digest |-> READ,
     calendar_read_events |-> READ, calendar_respond_to_event |-> _write(TRUE),
     calendar_search_events |-> READ,
     calendar_set_event_attachments |-> Asking(TRUE, {{"remove"}, {"notifies"}}),
     calendar_update_event |-> Asking(TRUE, {{"attendees"}, {"recurrence"}, {"notifies"}})]

DrivePolicies ==
    [drive_copy_file |-> _write(FALSE), drive_create_folder |-> _write(FALSE),
     drive_delete_file |-> Asking(TRUE, {{"permanent"}}), drive_download_file |-> _write(FALSE),
     drive_get_file |-> READ, drive_list_drives |-> READ, drive_list_files |-> READ,
     drive_list_permissions |-> READ, drive_move_file |-> _write(FALSE), drive_read_file |-> READ,
     drive_share_file |-> _always_ask(FALSE), drive_unshare_file |-> _always_ask(TRUE),
     drive_update_drive |-> _write(TRUE), drive_update_file_metadata |-> _write(TRUE),
     drive_upload_file |-> _write(FALSE)]

\* Ten requests or more, or any delete* request.
_raw_batch == ToolPolicy("write", FALSE, {{"bulk"}, {"deletes"}}, TRUE)

DocumentPolicies ==
    [docs_append_document_text |-> _write(FALSE), docs_batch_update_document |-> _raw_batch,
     docs_create_document |-> _write(FALSE), docs_read_document |-> READ,
     docs_replace_document_text |-> _write(TRUE),
     forms_batch_update_form |-> _raw_batch, forms_create_form |-> _write(FALSE),
     forms_get_form |-> READ, forms_list_form_responses |-> READ,
     forms_set_form_publish_settings |-> _write(TRUE),
     sheets_append_sheet_values |-> _write(FALSE), sheets_batch_update_spreadsheet |-> _raw_batch,
     sheets_create_spreadsheet |-> _write(FALSE), sheets_get_spreadsheet |-> READ,
     sheets_read_sheet_values |-> READ, sheets_update_sheet_values |-> _write(TRUE),
     slides_batch_update_presentation |-> _raw_batch, slides_create_presentation |-> _write(FALSE),
     slides_get_slide_thumbnail |-> READ, slides_read_presentation |-> READ,
     slides_replace_text_in_presentation |-> _write(TRUE)]

PersonalPolicies ==
    [tasks_create_task |-> _write(FALSE), tasks_create_tasklist |-> _write(FALSE),
     tasks_delete_task |-> _always_ask(TRUE), tasks_list_tasklists |-> READ, tasks_list_tasks |-> READ,
     tasks_tasks_digest |-> READ, tasks_update_task |-> Asking(TRUE, {{"deleted"}}),
     people_create_contact |-> _write(FALSE), people_delete_contact |-> _always_ask(TRUE),
     people_get_contact |-> READ, people_manage_contact_groups |-> _write(FALSE),
     people_search_contacts |-> READ, people_update_contact |-> _write(TRUE)]

AppsPolicies ==
    [apps_get_dashboard |-> READ, apps_get_email_attachment |-> READ, apps_get_email_detail |-> READ,
     apps_get_event_detail |-> READ, apps_get_state |-> READ, apps_get_weekly_calendar_view |-> READ,
     apps_next_range |-> _write(FALSE), apps_patch_state |-> _write(TRUE),
     apps_prev_range |-> _write(FALSE), apps_set_state |-> _write(TRUE), apps_today |-> _write(TRUE)]

ChatPolicies ==
    [chat_create_message |-> _always_ask(FALSE), chat_delete_message |-> _always_ask(TRUE),
     chat_find_direct_message |-> READ, chat_get_message |-> READ, chat_get_space |-> READ,
     chat_list_messages |-> READ, chat_list_space_members |-> READ, chat_list_spaces |-> READ,
     chat_post_message_simple |-> _always_ask(FALSE), chat_reply_to_message |-> _always_ask(FALSE),
     chat_update_message |-> _write(TRUE),
     gemini_analyze_audio |-> _write(FALSE), gemini_describe_video |-> _write(FALSE),
     gemini_edit_image |-> _write(FALSE), gemini_generate_image |-> _write(FALSE)]

_keep_replaces_and_deletes == Asking(FALSE, {{"apply", "delete_original"}})

KeepPolicies ==
    [keep_add_checklist_item |-> READ, keep_append_note_content |-> _keep_replaces_and_deletes,
     keep_archive_note |-> READ, keep_create_keep_label |-> READ,
     keep_create_note |-> Asking(FALSE, {{"collaborators"}}), keep_delete_keep_label |-> READ,
     keep_delete_note |-> _always_ask(TRUE), keep_get_note |-> READ, keep_list_keep_labels |-> READ,
     keep_list_notes |-> READ, keep_patch_note_checklist |-> _keep_replaces_and_deletes,
     keep_remove_checklist_item |-> READ, keep_share_note |-> _always_ask(FALSE),
     keep_toggle_checklist_item |-> READ, keep_unarchive_note |-> READ,
     keep_unshare_note |-> _always_ask(TRUE), keep_update_note |-> READ]

MeetPolicies ==
    [meet_create_space |-> _write(FALSE), meet_end_active_conference |-> _always_ask(TRUE),
     meet_get_conference_record |-> READ, meet_get_space |-> READ,
     meet_list_conference_participants |-> READ, meet_list_conference_recordings |-> READ,
     meet_list_conference_records |-> READ, meet_list_conference_transcripts |-> READ,
     meet_update_space |-> Asking(TRUE, {{"opens"}})]

CONSENT_TABLE ==
    ServerPolicies @@ GmailPolicies @@ CalendarPolicies @@ DrivePolicies @@ DocumentPolicies
        @@ PersonalPolicies @@ AppsPolicies @@ ChatPolicies @@ KeepPolicies @@ MeetPolicies
=============================================================================
