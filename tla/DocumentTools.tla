---------------------------- MODULE DocumentTools ----------------------------
(***************************************************************************)
(* The Google calls of the Docs, Sheets, Slides and Forms tools.  "bulk"   *)
(* is a batch of ten requests or more, "deletes" one with a delete*        *)
(* request.                                                                *)
(***************************************************************************)
EXTENDS GoogleMethods, Sequences

Batches == {{}, {"bulk"}, {"deletes"}}

read_document_payload == <<Call("docs.documents.get")>>
create_document_payload == <<Call("docs.documents.create")>>
append_document_text_payload == <<Call("docs.documents.batchUpdate")>>
replace_document_text_payload == <<Call("docs.documents.batchUpdate")>>

\* The caller's write_control pins the revision.
batch_update_document_payload ==
    {<<Keyed("docs.documents.batchUpdate", key)>> : key \in {"none", "caller"}}

read_document == {Run({}, read_document_payload)}
create_document == {Run({}, create_document_payload)}
append_document_text == {Run({}, append_document_text_payload)}
replace_document_text == {Run({}, replace_document_text_payload)}
batch_update_document ==
    {Run(args, calls) : args \in Batches, calls \in batch_update_document_payload}

------------------------------------------------------------------------------
get_spreadsheet_payload == <<Call("sheets.spreadsheets.get")>>
create_spreadsheet_payload == <<Call("sheets.spreadsheets.create")>>
read_sheet_values_payload == <<Call("sheets.spreadsheets.values.batchGet")>>
append_sheet_values_payload == <<Call("sheets.spreadsheets.values.append")>>
update_sheet_values_payload == <<Call("sheets.spreadsheets.values.update")>>
batch_update_spreadsheet_payload == <<Call("sheets.spreadsheets.batchUpdate")>>

get_spreadsheet == {Run({}, get_spreadsheet_payload)}
create_spreadsheet == {Run({}, create_spreadsheet_payload)}
read_sheet_values == {Run({}, read_sheet_values_payload)}
append_sheet_values == {Run({}, append_sheet_values_payload)}
update_sheet_values == {Run({}, update_sheet_values_payload)}
batch_update_spreadsheet == {Run(args, batch_update_spreadsheet_payload) : args \in Batches}

------------------------------------------------------------------------------
read_presentation_payload == <<Call("slides.presentations.get")>>

\* One request per page.
read_pages_payload ==
    LET page == Call("slides.presentations.pages.get") IN <<page, page>>
create_presentation_payload == <<Call("slides.presentations.create")>>
replace_text_in_presentation_payload == <<Call("slides.presentations.batchUpdate")>>
get_slide_thumbnail_payload == <<Call("slides.presentations.pages.getThumbnail")>>
batch_update_presentation_payload == <<Call("slides.presentations.batchUpdate")>>

\* Raw pages one by one, or the whole presentation.
read_presentation == {Run({}, read_presentation_payload), Run({}, read_pages_payload)}
create_presentation == {Run({}, create_presentation_payload)}
replace_text_in_presentation == {Run({}, replace_text_in_presentation_payload)}
get_slide_thumbnail == {Run({}, get_slide_thumbnail_payload)}
batch_update_presentation == {Run(args, batch_update_presentation_payload) : args \in Batches}

------------------------------------------------------------------------------
get_form_payload == <<Call("forms.forms.get")>>
create_form_payload == <<Call("forms.forms.create")>>
batch_update_form_payload == <<Call("forms.forms.batchUpdate")>>
set_form_publish_settings_payload == <<Call("forms.forms.setPublishSettings")>>
list_form_responses_payload == <<Call("forms.forms.responses.list")>>
get_form_response_payload == <<Call("forms.forms.responses.get")>>

get_form == {Run({}, get_form_payload)}
create_form == {Run({}, create_form_payload)}
batch_update_form == {Run(args, batch_update_form_payload) : args \in Batches}
set_form_publish_settings == {Run({}, set_form_publish_settings_payload)}

\* One response or a page of them, with the titles of the questions.
list_form_responses ==
    {Run({}, responses \o <<Zone>> \o questions) :
        responses \in {get_form_response_payload, list_form_responses_payload},
        questions \in {<<>>, get_form_payload}}

Tools ==
    [docs_read_document |-> read_document, docs_create_document |-> create_document,
     docs_append_document_text |-> append_document_text,
     docs_replace_document_text |-> replace_document_text,
     docs_batch_update_document |-> batch_update_document,
     sheets_get_spreadsheet |-> get_spreadsheet, sheets_create_spreadsheet |-> create_spreadsheet,
     sheets_read_sheet_values |-> read_sheet_values, sheets_append_sheet_values |-> append_sheet_values,
     sheets_update_sheet_values |-> update_sheet_values,
     sheets_batch_update_spreadsheet |-> batch_update_spreadsheet,
     slides_read_presentation |-> read_presentation, slides_create_presentation |-> create_presentation,
     slides_replace_text_in_presentation |-> replace_text_in_presentation,
     slides_get_slide_thumbnail |-> get_slide_thumbnail,
     slides_batch_update_presentation |-> batch_update_presentation,
     forms_get_form |-> get_form, forms_create_form |-> create_form,
     forms_batch_update_form |-> batch_update_form,
     forms_set_form_publish_settings |-> set_form_publish_settings,
     forms_list_form_responses |-> list_form_responses]
=============================================================================
