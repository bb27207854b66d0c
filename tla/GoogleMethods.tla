---------------------------- MODULE GoogleMethods ----------------------------
(***************************************************************************)
(* The Google calls a tool body makes, and how often each may be repeated  *)
(* (common/repeat_safety.py).  A tool body is a sequence of steps; a step  *)
(* names a discovery method, the deduplication key the request carries,    *)
(* and what the body does with each kind of answer.                        *)
(***************************************************************************)
EXTENDS Naturals

(***************************************************************************)
(* Answers Google gives instead of a result.  "not_found" (404),           *)
(* "conflict" (409), "refused" (any other 4xx but 408) and "throttled"     *)
(* (429) say the request was not executed; "lost" stands for 5xx, 408,     *)
(* resets and socket timeouts, after which it may have been.               *)
(***************************************************************************)
Rejections == {"not_found", "conflict", "refused", "throttled"}
Failures == Rejections \cup {"lost"}

(***************************************************************************)
(* One call of a body.  skip: the failures after which the body goes on    *)
(* with the next step; it raises after the others.  then: what the body    *)
(* does once the call has succeeded.  shared: the consent preview makes    *)
(* this read, and the body reuses its answer.                              *)
(***************************************************************************)
Call(method) ==
    [method |-> method, key |-> "none", skip |-> {}, then |-> "next", shared |-> FALSE]
Keyed(method, key) == [Call(method) EXCEPT !.key = key]
Skipping(step, failures) == [step EXCEPT !.skip = failures]
Caught(method) == Skipping(Call(method), Failures)
Returning(step) == [step EXCEPT !.then = "return"]
Raising(step) == [step EXCEPT !.then = "raise"]
Shared(method) == [Call(method) EXCEPT !.shared = TRUE]
Optional(step) == {<<>>, <<step>>}

\* One way a tool can run: the properties of its arguments that the consent
\* table looks at, and the calls its body makes for them.
Run(args, calls) == [args |-> args, calls |-> calls]

\* resolve_user_timezone: the account's time zone is never guessed.
Zone == Call("calendar.settings.get")

------------------------------------------------------------------------------
(***************************************************************************)
(* METHOD_POLICIES, the methods the tools call.                            *)
(***************************************************************************)
NonIdempotent ==
    {"gmail.users.messages.send", "gmail.users.drafts.send", "gmail.users.drafts.create",
     "gmail.users.labels.create", "gmail.users.settings.filters.create",
     "gmail.users.settings.forwardingAddresses.create", "drive.permissions.create",
     "sheets.spreadsheets.create", "sheets.spreadsheets.batchUpdate", "sheets.spreadsheets.values.append",
     "docs.documents.create", "slides.presentations.create", "forms.forms.create",
     "tasks.tasklists.insert", "tasks.tasks.insert", "people.people.createContact",
     "people.contactGroups.create", "keep.notes.create", "meet.spaces.create"}

IdempotentGmail ==
    {"gmail.users.drafts.update", "gmail.users.drafts.delete", "gmail.users.messages.modify",
     "gmail.users.messages.batchModify", "gmail.users.messages.trash", "gmail.users.messages.untrash",
     "gmail.users.messages.delete", "gmail.users.messages.batchDelete", "gmail.users.threads.modify",
     "gmail.users.threads.trash", "gmail.users.threads.untrash", "gmail.users.threads.delete",
     "gmail.users.labels.patch", "gmail.users.labels.delete", "gmail.users.settings.filters.delete",
     "gmail.users.settings.forwardingAddresses.delete", "gmail.users.settings.updateVacation"}

IdempotentElsewhere ==
    {"calendar.events.patch", "calendar.events.delete", "drive.files.update", "drive.files.delete",
     "drive.permissions.update", "drive.permissions.delete", "drive.drives.hide", "drive.drives.unhide",
     "sheets.spreadsheets.values.update", "forms.forms.setPublishSettings", "tasks.tasks.patch",
     "tasks.tasks.move", "tasks.tasks.delete", "people.people.updateContact",
     "people.people.deleteContact", "people.contactGroups.members.modify", "keep.notes.delete",
     "keep.notes.permissions.batchCreate", "keep.notes.permissions.batchDelete",
     "chat.spaces.messages.patch", "chat.spaces.messages.delete", "meet.spaces.patch",
     "meet.spaces.endActiveConference"}

Idempotent == IdempotentGmail \cup IdempotentElsewhere

\* Safe to repeat only with the key the caller sends again: an event id,
\* a file id, a required revision or a request id.
CallerKeyed ==
    {"calendar.events.insert", "drive.files.create", "drive.files.copy", "docs.documents.batchUpdate",
     "slides.presentations.batchUpdate", "forms.forms.batchUpdate", "chat.spaces.messages.create"}

\* The key this server makes itself lives as long as one tool call.
GeneratedKeyed == {"chat.spaces.messages.create"}

\* Changes that are not Google calls of the tracked client: no tracker sees
\* them, and nothing resends them.
Local == {"uploads.store", "uploads.delete", "views.update", "files.write", "gemini.generate",
          "oauth.connect", "oauth.revoke"}

Listed == NonIdempotent \cup Idempotent \cup CallerKeyed

\* Mutant of Classify: the send of a draft is taken for idempotent, for the
\* draft is gone afterwards.
ClassifyDraftSend(step) ==
    CASE step.method \in Idempotent \cup {"gmail.users.drafts.send"} -> "idempotent"
      [] step.method \in CallerKeyed /\ step.key = "caller" -> "caller_keyed"
      [] step.method \in GeneratedKeyed /\ step.key = "generated" -> "transport_keyed"
      [] step.method \in Local -> "untracked"
      [] step.method \notin Listed \cup Local -> "read"
      [] OTHER -> "non_idempotent"

\* A method the table leaves out is a read when its name begins like one, as
\* all the others that the tools call do.
Classify(step) ==
    CASE step.method \in Idempotent -> "idempotent"
      [] step.method \in CallerKeyed /\ step.key = "caller" -> "caller_keyed"
      [] step.method \in GeneratedKeyed /\ step.key = "generated" -> "transport_keyed"
      [] step.method \in Local -> "untracked"
      [] step.method \notin Listed \cup Local -> "read"
      [] OTHER -> "non_idempotent"

is_mutating(step) == Classify(step) # "read"
Tracked(step) == Classify(step) \notin {"read", "untracked"}

\* Safe to repeat as a new tool call, and as the same HTTP request again.
CALL_REPEAT_SAFE == {"read", "idempotent", "caller_keyed"}
TRANSPORT_REPEAT_SAFE == CALL_REPEAT_SAFE \cup {"transport_keyed"}

http_retry_budget(step, configured) ==
    IF Classify(step) \in TRANSPORT_REPEAT_SAFE THEN configured ELSE 0

------------------------------------------------------------------------------
(***************************************************************************)
(* What Google does with the methods, whatever the table says.  Adds: each *)
(* execution adds something.  Irreversible: nothing takes it back.         *)
(***************************************************************************)
Adds ==
    {"gmail.users.messages.send", "gmail.users.drafts.send", "gmail.users.drafts.create",
     "gmail.users.labels.create", "gmail.users.settings.filters.create",
     "gmail.users.settings.forwardingAddresses.create", "calendar.events.insert", "drive.files.create",
     "drive.files.copy", "drive.permissions.create", "sheets.spreadsheets.create",
     "sheets.spreadsheets.batchUpdate", "sheets.spreadsheets.values.append", "docs.documents.create",
     "docs.documents.batchUpdate", "slides.presentations.create", "slides.presentations.batchUpdate",
     "forms.forms.create", "forms.forms.batchUpdate", "tasks.tasklists.insert", "tasks.tasks.insert",
     "people.people.createContact", "people.contactGroups.create", "keep.notes.create",
     "chat.spaces.messages.create", "meet.spaces.create"}

Irreversible ==
    {"gmail.users.messages.send", "gmail.users.drafts.send", "gmail.users.drafts.delete",
     "gmail.users.messages.delete", "gmail.users.messages.batchDelete", "gmail.users.threads.delete",
     "gmail.users.labels.delete", "gmail.users.settings.filters.delete",
     "gmail.users.settings.forwardingAddresses.create", "gmail.users.settings.forwardingAddresses.delete",
     "calendar.events.delete", "drive.files.delete", "drive.permissions.create",
     "drive.permissions.update", "drive.permissions.delete", "tasks.tasks.delete",
     "people.people.deleteContact", "keep.notes.delete", "keep.notes.permissions.batchCreate",
     "keep.notes.permissions.batchDelete", "chat.spaces.messages.create", "chat.spaces.messages.delete",
     "meet.spaces.endActiveConference", "oauth.revoke"}
=============================================================================
