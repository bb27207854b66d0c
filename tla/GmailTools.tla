------------------------------ MODULE GmailTools -----------------------------
(***************************************************************************)
(* The Google calls of the Gmail tools (gmail/tools/).  Loops over ids are *)
(* unrolled twice; building MIME messages, cleaning text and local files   *)
(* are left out.                                                           *)
(***************************************************************************)
EXTENDS GoogleMethods, Sequences

\* At most one labels.list per call, and none for ids and system labels.
LabelResolver == Optional(Call("gmail.users.labels.list"))

\* Read once per call: the preview of a reply and its body share the answers.
_read_reply_context ==
    <<Shared("gmail.users.messages.get"), Shared("gmail.users.getProfile"),
      Shared("gmail.users.settings.sendAs.list")>>

send_email == {Run({}, <<Call("gmail.users.messages.send")>>)}

_send_reply == _read_reply_context \o <<Call("gmail.users.messages.send")>>

reply == {Run({}, _send_reply)}

\* A message that is gone is listed, not raised.
read_emails ==
    LET message == Skipping(Call("gmail.users.messages.get"), {"not_found"})
    IN  {Run({}, <<Zone, message, message>>)}

------------------------------------------------------------------------------
list_drafts == {Run({}, <<Call("gmail.users.drafts." \o op)>>) : op \in {"get", "list"}}

_thread_reply_headers == Optional(Call("gmail.users.threads.get"))

save_draft ==
    {Run({}, headers \o <<Call("gmail.users.drafts." \o op)>>) :
        headers \in _thread_reply_headers, op \in {"create", "update"}}

delete_draft == {Run({}, <<Call("gmail.users.drafts.delete")>>)}

send_draft == {Run({}, <<Call("gmail.users.drafts.send")>>)}

------------------------------------------------------------------------------
\* A thread in one call of each kind, ids one by one out of Trash and then
\* together; ten ids or more are "bulk".
modify_messages ==
    LET untrash == Call("gmail.users.messages.untrash")
        one_thread == {<<Call("gmail.users.threads.untrash")>>, <<Call("gmail.users.threads.modify")>>,
                       <<Call("gmail.users.threads.untrash"), Call("gmail.users.threads.modify")>>}
        one_message == {<<untrash>>, <<Call("gmail.users.messages.modify")>>,
                        <<untrash, Call("gmail.users.messages.modify")>>}
        messages == {<<untrash, untrash>>, <<Call("gmail.users.messages.batchModify")>>,
                     <<untrash, untrash, Call("gmail.users.messages.batchModify")>>}
    IN  {Run({}, labels \o body) :
            labels \in LabelResolver, body \in one_thread \cup one_message \cup messages}
        \cup {Run({"bulk"}, labels \o body) : labels \in LabelResolver, body \in messages}

delete ==
    LET trash == Call("gmail.users.messages.trash")
    IN  {Run({}, <<Call("gmail.users.threads.trash")>>), Run({}, <<trash>>), Run({}, <<trash, trash>>),
         Run({"bulk"}, <<trash, trash>>),
         Run({"permanent"}, <<Call("gmail.users.threads.delete")>>),
         Run({"permanent"}, <<Call("gmail.users.messages.delete")>>),
         Run({"permanent"}, <<Call("gmail.users.messages.batchDelete")>>),
         Run({"permanent", "bulk"}, <<Call("gmail.users.messages.batchDelete")>>)}

------------------------------------------------------------------------------
manage_forwarding ==
    LET address(op) == <<Call("gmail.users.settings.forwardingAddresses." \o op)>>
    IN  {Run({}, address("list")), Run({}, address("get")),
         Run({"create"}, address("create")), Run({"delete"}, address("delete"))}

manage_vacation ==
    {Run({}, <<Call("gmail.users.settings.getVacation")>>),
     Run({"update"}, <<Call("gmail.users.settings.updateVacation")>>),
     Run({"update", "enable"}, <<Call("gmail.users.settings.updateVacation")>>)}

list_labels == {Run({}, <<Call("gmail.users.labels.list")>>)}

manage_labels ==
    {Run({"create"}, <<Call("gmail.users.labels.create")>>)}
    \cup {Run({"update"}, find \o <<Call("gmail.users.labels.patch")>>) : find \in LabelResolver}
    \cup {Run({"delete"}, find \o <<Call("gmail.users.labels.delete")>>) : find \in LabelResolver}

manage_filters ==
    {Run({}, <<Call("gmail.users.settings.filters.list")>>),
     Run({"delete"}, <<Call("gmail.users.settings.filters.delete")>>)}
    \cup {Run({"create"} \cup effect, labels \o <<Call("gmail.users.settings.filters.create")>>) :
            effect \in {{}, {"forward"}, {"trash"}}, labels \in LabelResolver}

------------------------------------------------------------------------------
\* Since a checkpoint, or from a cold start; a message deleted meanwhile is skipped.
check_mail_updates ==
    LET message == Skipping(Call("gmail.users.messages.get"), {"not_found"})
        since == <<Call("gmail.users.history.list")>>
        cold == <<Call("gmail.users.getProfile"), Call("gmail.users.messages.list")>>
    IN  {Run({}, <<Zone>> \o ids \o <<message, message>>) : ids \in {since, cold}}

get_mail_digest ==
    {Run({}, <<Zone, Call("gmail.users.messages.list"), Call("gmail.users.messages.get"),
               Call("gmail.users.messages.get")>>)}

search_emails ==
    {Run({}, labels \o <<Zone, Call("gmail.users." \o unit \o ".list"), Call("gmail.users." \o unit \o ".get"),
                         Call("gmail.users." \o unit \o ".get")>>) :
        labels \in LabelResolver, unit \in {"threads", "messages"}}

get_thread == {Run({}, <<Zone, Call("gmail.users.threads.get")>>)}

\* The content is saved to a file of this machine.
download_attachment ==
    {Run({}, <<Call("gmail.users.messages.attachments.get"), Call("files.write")>>)}

Tools ==
    [gmail_send_email |-> send_email, gmail_reply |-> reply, gmail_read_emails |-> read_emails,
     gmail_list_drafts |-> list_drafts, gmail_save_draft |-> save_draft,
     gmail_delete_draft |-> delete_draft, gmail_send_draft |-> send_draft,
     gmail_modify_messages |-> modify_messages, gmail_delete |-> delete,
     gmail_manage_forwarding |-> manage_forwarding, gmail_manage_vacation |-> manage_vacation,
     gmail_list_labels |-> list_labels, gmail_manage_labels |-> manage_labels,
     gmail_manage_filters |-> manage_filters, gmail_check_mail_updates |-> check_mail_updates,
     gmail_get_mail_digest |-> get_mail_digest, gmail_search_emails |-> search_emails,
     gmail_get_thread |-> get_thread, gmail_download_attachment |-> download_attachment]
=============================================================================
