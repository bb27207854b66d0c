----------------------------- MODULE MCToolCalls -----------------------------
EXTENDS ToolCalls, TLC

Calendar == INSTANCE CalendarTools
Gmail == INSTANCE GmailTools
Drive == INSTANCE DriveTools
Documents == INSTANCE DocumentTools
Personal == INSTANCE PersonalTools
Chat == INSTANCE ChatTools
Server == INSTANCE ServerTools
Table == INSTANCE ConsentTable

MCTools ==
    Calendar!Tools @@ Gmail!Tools @@ Drive!Tools @@ Documents!Tools @@ Personal!Tools @@ Chat!Tools
        @@ Server!Tools

MCTable == Table!CONSENT_TABLE

\* Tools published with task support.
MCTaskTools ==
    {"drive_upload_file", "drive_download_file", "gmail_download_attachment",
     "gemini_analyze_audio", "gemini_describe_video", "gemini_edit_image", "gemini_generate_image",
     "docs_batch_update_document", "forms_batch_update_form", "sheets_batch_update_spreadsheet",
     "slides_batch_update_presentation"}

\* Tools whose preview reads the account.
MCPreviewReads == {"gmail_reply", "gmail_send_draft"}
=============================================================================
