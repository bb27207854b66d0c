----------------------------- MODULE ServerTools -----------------------------
(***************************************************************************)
(* The calls of the Meet tools, of the dashboard (apps/tools.py), of the   *)
(* upload area and of the server's own tools.                              *)
(***************************************************************************)
EXTENDS GoogleMethods, Sequences

create_space_payload == <<Call("meet.spaces.create")>>
get_space_payload == <<Call("meet.spaces.get")>>
update_space_payload == <<Call("meet.spaces.patch")>>
end_active_conference_payload == <<Call("meet.spaces.endActiveConference")>>
list_conference_records_payload == <<Call("meet.conferenceRecords.list")>>
get_conference_record_payload == <<Call("meet.conferenceRecords.get")>>
list_conference_participants_payload == <<Call("meet.conferenceRecords.participants.list")>>
list_conference_recordings_payload == <<Call("meet.conferenceRecords.recordings.list")>>
list_conference_transcripts_payload == <<Call("meet.conferenceRecords.transcripts.list")>>

create_space == {Run({}, create_space_payload)}
get_space == {Run({}, get_space_payload)}

\* "opens": the configuration lets anyone in.
update_space == {Run(args, update_space_payload) : args \in {{}, {"opens"}}}
end_active_conference == {Run({}, end_active_conference_payload)}

\* The times of a list are shown in the account's zone.
list_conference_records == {Run({}, list_conference_records_payload \o <<Zone>>)}
list_conference_participants == {Run({}, list_conference_participants_payload \o <<Zone>>)}
list_conference_recordings == {Run({}, list_conference_recordings_payload \o <<Zone>>)}
list_conference_transcripts == {Run({}, list_conference_transcripts_payload \o <<Zone>>)}
get_conference_record == {Run({}, <<Zone>> \o get_conference_record_payload)}

------------------------------------------------------------------------------
\* A view is opened in the account's time zone, or reopened.
open_view == Optional(Zone)

_fetch_calendar_events == <<Call("calendar.events.list")>>

\* The errors of a section are shown in it.
build_dashboard_payload ==
    <<Caught("calendar.events.list"), Caught("gmail.users.messages.list"),
      Caught("gmail.users.messages.list"), Caught("gmail.users.messages.get")>>

get_dashboard == {Run({}, view \o build_dashboard_payload) : view \in open_view}

get_weekly_calendar_view == {Run({}, view \o _fetch_calendar_events) : view \in open_view}

get_event_detail == {Run({}, <<Zone, Call("calendar.events.get")>>)}

get_email_detail == {Run({}, <<Zone, Call("gmail.users.messages.get")>>)}

get_email_attachment ==
    {Run({}, <<Call("gmail.users.messages.get"), Call("gmail.users.messages.attachments.get")>>)}

get_state == {Run({}, <<>>)}

change_state == {Run({}, <<Call("views.update")>>)}

------------------------------------------------------------------------------
store_files == {Run({}, <<Call("uploads.store")>>)}
delete_file == {Run({}, <<Call("uploads.delete")>>)}
list_files == {Run({}, <<>>)}

\* The self test stores an upload and deletes it.
get_mcp_apps_diagnostics ==
    {Run({}, <<>>), Run({"self_test"}, <<Call("uploads.store"), Call("uploads.delete")>>)}

\* Three searches side by side; the call fails when all of them do, which
\* is left out.
search_workspace ==
    {Run({}, <<Caught("drive.files.list"), Caught("people.people.searchContacts"),
               Caught("people.people.searchContacts"), Caught("gmail.users.messages.list"),
               Caught("calendar.settings.get"), Caught("gmail.users.messages.get")>>)}

resolve_workspace_resource ==
    {Run({}, <<>>), Run({}, <<Call("drive.files.get"), Zone>>), Run({}, <<Call("gmail.users.messages.get")>>)}

connect_google_workspace == {Run({}, <<Call("oauth.connect")>>)}
get_google_connection_status == {Run({}, <<>>)}
disconnect_google_workspace == {Run({}, <<Call("oauth.revoke")>>)}

Tools ==
    [meet_create_space |-> create_space, meet_get_space |-> get_space, meet_update_space |-> update_space,
     meet_end_active_conference |-> end_active_conference,
     meet_list_conference_records |-> list_conference_records,
     meet_list_conference_participants |-> list_conference_participants,
     meet_list_conference_recordings |-> list_conference_recordings,
     meet_list_conference_transcripts |-> list_conference_transcripts,
     meet_get_conference_record |-> get_conference_record,
     apps_get_dashboard |-> get_dashboard, apps_get_weekly_calendar_view |-> get_weekly_calendar_view,
     apps_get_event_detail |-> get_event_detail, apps_get_email_detail |-> get_email_detail,
     apps_get_email_attachment |-> get_email_attachment, apps_get_state |-> get_state,
     apps_set_state |-> change_state, apps_patch_state |-> change_state,
     apps_next_range |-> change_state, apps_prev_range |-> change_state, apps_today |-> change_state,
     uploads_store_files |-> store_files, uploads_delete_file |-> delete_file,
     uploads_list_files |-> list_files, uploads_read_file |-> list_files,
     uploads_file_manager |-> list_files, get_mcp_apps_diagnostics |-> get_mcp_apps_diagnostics,
     search_workspace |-> search_workspace, resolve_workspace_resource |-> resolve_workspace_resource,
     connect_google_workspace |-> connect_google_workspace,
     get_google_connection_status |-> get_google_connection_status,
     disconnect_google_workspace |-> disconnect_google_workspace]
=============================================================================
