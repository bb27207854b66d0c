---------------------------- MODULE PersonalTools ----------------------------
(***************************************************************************)
(* The Google calls of the Tasks, People and Keep tools.                   *)
(***************************************************************************)
EXTENDS GoogleMethods, Sequences

list_tasklists_payload == <<Call("tasks.tasklists.list")>>
get_tasklist_payload == <<Call("tasks.tasklists.get")>>
create_tasklist_payload == <<Call("tasks.tasklists.insert")>>
list_tasks_payload == <<Call("tasks.tasks.list")>>
get_task_payload == <<Call("tasks.tasks.get")>>
create_task_payload == <<Call("tasks.tasks.insert")>>
move_task_payload == <<Call("tasks.tasks.move")>>
patch_task_payload == <<Call("tasks.tasks.patch")>>
delete_task_payload == <<Call("tasks.tasks.delete")>>

list_tasklists ==
    {Run({}, <<Zone>> \o lists) : lists \in {get_tasklist_payload, list_tasklists_payload}}

create_tasklist == {Run({}, <<Zone>> \o create_tasklist_payload)}

list_tasks == {Run({}, <<Zone>> \o tasks) : tasks \in {get_task_payload, list_tasks_payload}}

tasks_digest_tool == {Run({}, <<Zone>> \o list_tasks_payload)}

create_task == {Run({}, <<Zone>> \o create_task_payload)}

\* The move comes first and gives the task its new list; "deleted" is a field
\* of the patch.
update_task ==
    LET move == move_task_payload
        patch == patch_task_payload
    IN  {Run({}, <<Zone>> \o calls) : calls \in {move, patch, move \o patch}}
        \cup {Run({"deleted"}, <<Zone>> \o calls) : calls \in {patch, move \o patch}}

delete_task == {Run({}, delete_task_payload)}

------------------------------------------------------------------------------
list_contacts_payload == <<Call("people.people.connections.list")>>

\* A search is warmed up by an empty one.
search_contacts_payload ==
    <<Call("people.people.searchContacts"), Call("people.people.searchContacts")>>

get_contact_payload == <<Call("people.people.get")>>
create_contact_payload == <<Call("people.people.createContact")>>

\* A new name is merged with the stored one.
_merge_stored_name == Optional(Call("people.people.get"))

update_contact_payload == {name \o <<Call("people.people.updateContact")>> : name \in _merge_stored_name}
delete_contact_payload == <<Call("people.people.deleteContact")>>
list_contact_groups_payload == <<Call("people.contactGroups.list")>>
create_contact_group_payload == <<Call("people.contactGroups.create")>>
modify_contact_group_members_payload == <<Call("people.contactGroups.members.modify")>>

search_contacts == {Run({}, list_contacts_payload), Run({}, search_contacts_payload)}
get_contact == {Run({}, get_contact_payload)}
create_contact == {Run({}, create_contact_payload)}
update_contact == {Run({}, calls) : calls \in update_contact_payload}
delete_contact == {Run({}, delete_contact_payload)}

manage_contact_groups ==
    {Run({}, calls) : calls \in {list_contact_groups_payload, create_contact_group_payload,
                                 modify_contact_group_members_payload}}

------------------------------------------------------------------------------
create_note ==
    {Run({}, <<Call("keep.notes.create")>>),
     Run({"collaborators"}, <<Call("keep.notes.create"), Call("keep.notes.permissions.batchCreate")>>)}

get_note == {Run({}, <<Zone, Call("keep.notes.get")>>)}

list_notes == {Run({}, <<Zone, Call("keep.notes.list")>>)}

delete_note == {Run({}, <<Call("keep.notes.delete")>>)}

\* Keep cannot change a note: a new one takes its place, and the old one is
\* deleted afterwards when asked for.
_replace_note ==
    LET get == Call("keep.notes.get")
        create == Call("keep.notes.create")
    IN  {Run({}, <<get>>), Run({"delete_original"}, <<get>>), Run({"apply"}, <<get, create>>),
         Run({"apply", "delete_original"}, <<get, create, Call("keep.notes.delete")>>)}

append_note_content == _replace_note

patch_note_checklist == _replace_note

share_note == {Run({}, <<Call("keep.notes.permissions.batchCreate")>>)}

unshare_note == {Run({}, <<Call("keep.notes.permissions.batchDelete")>>)}

\* What the Keep API does not offer is only said.
unsupported == {Run({}, <<>>)}

Tools ==
    [tasks_list_tasklists |-> list_tasklists, tasks_create_tasklist |-> create_tasklist,
     tasks_list_tasks |-> list_tasks, tasks_tasks_digest |-> tasks_digest_tool,
     tasks_create_task |-> create_task, tasks_update_task |-> update_task,
     tasks_delete_task |-> delete_task,
     people_search_contacts |-> search_contacts, people_get_contact |-> get_contact,
     people_create_contact |-> create_contact, people_update_contact |-> update_contact,
     people_delete_contact |-> delete_contact, people_manage_contact_groups |-> manage_contact_groups,
     keep_create_note |-> create_note, keep_get_note |-> get_note, keep_list_notes |-> list_notes,
     keep_delete_note |-> delete_note, keep_append_note_content |-> append_note_content,
     keep_patch_note_checklist |-> patch_note_checklist, keep_share_note |-> share_note,
     keep_unshare_note |-> unshare_note, keep_update_note |-> unsupported,
     keep_archive_note |-> unsupported, keep_unarchive_note |-> unsupported,
     keep_list_keep_labels |-> unsupported, keep_create_keep_label |-> unsupported,
     keep_delete_keep_label |-> unsupported, keep_add_checklist_item |-> unsupported,
     keep_toggle_checklist_item |-> unsupported, keep_remove_checklist_item |-> unsupported]
=============================================================================
