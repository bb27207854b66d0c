------------------------------ MODULE ChatTools ------------------------------
(***************************************************************************)
(* The Google calls of the Chat and Gemini tools.                          *)
(***************************************************************************)
EXTENDS GoogleMethods, Sequences

\* Names of people are looked up where they can be: nothing fails for them.
_resolve_self_user_name ==
    {<<>>, <<Caught("gmail.users.getProfile"), Caught("chat.spaces.members.get")>>}

_resolve_user_profile == Optional(Caught("people.people.get"))

resolve_space_members ==
    {<<Call("chat.spaces.members.list")>> \o self \o profiles :
        self \in _resolve_self_user_name, profiles \in _resolve_user_profile}

\* Direct messages only; a failure leaves the space as it is.
enrich_dm ==
    {<<>>} \cup {<<Caught("chat.spaces.members.list")>> \o self \o profiles :
                    self \in _resolve_self_user_name, profiles \in _resolve_user_profile}

list_spaces == {Run({}, <<Call("chat.spaces.list")>> \o names) : names \in enrich_dm}

get_space == {Run({}, <<Call("chat.spaces.get")>> \o names) : names \in enrich_dm}

\* No such direct message is an answer, not an error.
find_direct_message ==
    {Run({}, <<Skipping(Call("chat.spaces.findDirectMessage"), {"not_found"})>>)}

list_messages ==
    {Run({}, <<Call("chat.spaces.messages.list"), Zone>> \o names) : names \in _resolve_user_profile}

get_message ==
    {Run({}, <<Call("chat.spaces.messages.get"), Zone>> \o names) : names \in _resolve_user_profile}

list_space_members == {Run({}, calls) : calls \in resolve_space_members}

\* Under the caller's request_id, or one made for this call.
create_message ==
    {Run({}, <<Keyed("chat.spaces.messages.create", key)>>) : key \in {"caller", "generated"}}

post_message_simple == {Run({}, <<Keyed("chat.spaces.messages.create", "generated")>>)}

reply_to_message ==
    {Run({}, <<Call("chat.spaces.messages.get"), Keyed("chat.spaces.messages.create", "generated")>>)}

update_message == {Run({}, <<Call("chat.spaces.messages.patch")>>)}

delete_message == {Run({}, <<Call("chat.spaces.messages.delete")>>)}

------------------------------------------------------------------------------
_stage_drive_file == <<Call("drive.files.get"), Call("drive.files.get_media")>>

\* The input is an upload, a local file, or a Drive file fetched for it.
_resolve_local_input == {<<>>, _stage_drive_file}

\* GeminiMediaClient: the file uploaded to Gemini is deleted there in any case.
generate_content == <<Call("gemini.generate")>>
analyze_uploaded_media == <<Call("gemini.generate")>>

generate_image_payload == generate_content \o <<Call("files.write")>>
edit_image_payload == {input \o generate_image_payload : input \in _resolve_local_input}
describe_video_payload == {input \o analyze_uploaded_media : input \in _resolve_local_input}
analyze_audio_payload == {input \o analyze_uploaded_media : input \in _resolve_local_input}

generate_image == {Run({}, generate_image_payload)}
edit_image == {Run({}, calls) : calls \in edit_image_payload}
describe_video == {Run({}, calls) : calls \in describe_video_payload}
analyze_audio == {Run({}, calls) : calls \in analyze_audio_payload}

Tools ==
    [chat_list_spaces |-> list_spaces, chat_get_space |-> get_space,
     chat_find_direct_message |-> find_direct_message, chat_list_messages |-> list_messages,
     chat_get_message |-> get_message, chat_list_space_members |-> list_space_members,
     chat_create_message |-> create_message, chat_post_message_simple |-> post_message_simple,
     chat_reply_to_message |-> reply_to_message, chat_update_message |-> update_message,
     chat_delete_message |-> delete_message,
     gemini_generate_image |-> generate_image, gemini_edit_image |-> edit_image,
     gemini_describe_video |-> describe_video, gemini_analyze_audio |-> analyze_audio]
=============================================================================
