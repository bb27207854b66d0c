------------------------------ MODULE DriveTools -----------------------------
(***************************************************************************)
(* The Google calls of the Drive tools (drive/tools/).                     *)
(***************************************************************************)
EXTENDS GoogleMethods, Sequences

list_files == {Run({}, <<Zone, Call("drive.files.list")>>)}

get_file == {Run({}, <<Zone, Call("drive.files.get")>>)}

create_folder == {Run({}, <<Call("drive.files.create")>>)}

\* Tells whether the folder already holds a file of that name.
_find_existing_file_by_name == Call("drive.files.list")

\* All the chunks of one upload are a single call to the tracker.
_send_upload(method) == Call(method)

\* An empty file, new content for file_id, or a new file: under its own name,
\* under a dated one, over the namesake, or not at all.
upload_file ==
    LET new == _send_upload("drive.files.create")
        onto == _send_upload("drive.files.update")
    IN  {Run({}, <<Call("drive.files.create")>>), Run({}, <<onto>>),
         Run({}, <<_find_existing_file_by_name, new>>), Run({}, <<_find_existing_file_by_name, Zone, new>>),
         Run({}, <<_find_existing_file_by_name, onto>>), Run({}, <<_find_existing_file_by_name>>)}

update_file_metadata == {Run({}, <<Call("drive.files.update")>>)}

move_file == {Run({}, <<Call("drive.files.update")>>)}

copy_file == {Run({}, <<Call("drive.files.copy")>>)}

delete_file ==
    {Run({}, <<Call("drive.files.update")>>), Run({"permanent"}, <<Call("drive.files.delete")>>)}

download_file ==
    {Run({}, <<Call("drive.files.get"), Call("drive.files." \o media), Call("files.write")>>) :
        media \in {"export_media", "get_media"}}

\* A shortcut is followed to its target.
read_file ==
    {Run({}, <<Zone, Call("drive.files.get")>> \o target \o <<Call("drive.files." \o content)>>) :
        target \in Optional(Call("drive.files.get")), content \in {"export", "get_media"}}

------------------------------------------------------------------------------
_create_permission == <<Call("drive.permissions.create")>>
_update_permission == <<Call("drive.permissions.update")>>

list_permissions == {Run({}, <<Call("drive.permissions." \o op)>>) : op \in {"get", "list"}}

share_file == {Run({"permission_id"}, _update_permission), Run({}, _create_permission)}

unshare_file == {Run({}, <<Call("drive.permissions.delete")>>)}

list_drives == {Run({}, <<Call("drive.drives." \o op)>>) : op \in {"get", "list"}}

update_drive == {Run({}, <<Call("drive.drives." \o op)>>) : op \in {"hide", "unhide"}}

Tools ==
    [drive_list_files |-> list_files, drive_get_file |-> get_file, drive_create_folder |-> create_folder,
     drive_upload_file |-> upload_file, drive_update_file_metadata |-> update_file_metadata,
     drive_move_file |-> move_file, drive_copy_file |-> copy_file, drive_delete_file |-> delete_file,
     drive_download_file |-> download_file, drive_read_file |-> read_file,
     drive_list_permissions |-> list_permissions, drive_share_file |-> share_file,
     drive_unshare_file |-> unshare_file, drive_list_drives |-> list_drives,
     drive_update_drive |-> update_drive]
=============================================================================
