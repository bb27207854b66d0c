---------------------------- MODULE CalendarTools ----------------------------
(***************************************************************************)
(* The Google calls of the calendar tools (calendar/tools.py).  Every tool *)
(* is the set of its runs: what its arguments are like, and the calls its  *)
(* body makes for them, in order.                                          *)
(***************************************************************************)
EXTENDS GoogleMethods, Sequences

SendsUpdates == {{}, {"notifies"}}

search_events == {Run({}, <<Zone, Call("calendar.events.list")>>)}

\* An id that does not exist is listed, not raised; two ids stand for many.
read_events ==
    LET event == Skipping(Call("calendar.events.get"), {"not_found"})
    IN  {Run({}, zone \o <<event, event>>) : zone \in Optional(Zone)}

get_calendar_digest == {Run({}, <<Zone, Call("calendar.events.list")>>)}

\* include_calendars: every page of the calendar list.
get_calendar_context ==
    LET page == Call("calendar.calendarList.list")
    IN  {Run({}, <<Zone>> \o pages) : pages \in {<<>>, <<page>>, <<page, page>>}}

find_free_time ==
    {Run({}, zone \o <<Call("calendar.freebusy.query")>>) : zone \in Optional(Zone)}

\* The slot check of a write: its failure only adds a warning.
_check_time_slot_conflicts(method) == Caught(method)

\* An occupied slot raises "conflict", after a second query when the caller
\* asked for free slots (without it the body simply raises).
_raise_time_slot_conflict == Raising(Call("calendar.freebusy.query"))

\* With an idempotency_key the event's id is derived from it: an event of that
\* id is returned instead, before the insert or after Google's 409.
keyed_insert ==
    <<Skipping(Returning(Call("calendar.events.get")), {"not_found"}),
      _check_time_slot_conflicts("calendar.freebusy.query"),
      Skipping(Returning(Keyed("calendar.events.insert", "caller")), {"conflict"}),
      Call("calendar.events.get")>>

create_event ==
    LET check == _check_time_slot_conflicts("calendar.freebusy.query")
        bodies == {<<check, Call("calendar.events.insert")>>, keyed_insert,
                   <<check, _raise_time_slot_conflict>>}
    IN  {Run(guests, zone \o body) :
            guests \in {{}, {"guests"}}, zone \in Optional(Zone), body \in bodies}

\* The slot is checked when the patch moves both ends of the event.
update_event ==
    LET check == _check_time_slot_conflicts("calendar.events.list")
        bodies == {<<Call("calendar.events.patch")>>, <<check, Call("calendar.events.patch")>>,
                   <<check, _raise_time_slot_conflict>>}
    IN  {Run(args, zone \o body) :
            args \in {{}, {"attendees"}, {"recurrence"}, {"notifies"}},
            zone \in Optional(Zone), body \in bodies}

respond_to_event ==
    {Run(args, <<Call("calendar.events.get"), Call("calendar.events.patch"), Zone>>) :
        args \in SendsUpdates}

set_event_attachments ==
    {Run(args, <<Call("calendar.events.get"), Call("calendar.events.patch"), Zone>>) :
        args \in {{}, {"remove"}, {"notifies"}}}

delete_event == {Run(args, <<Call("calendar.events.delete")>>) : args \in SendsUpdates}

Tools ==
    [calendar_search_events |-> search_events,
     calendar_read_events |-> read_events,
     calendar_get_calendar_digest |-> get_calendar_digest,
     calendar_get_calendar_context |-> get_calendar_context,
     calendar_find_free_time |-> find_free_time,
     calendar_create_event |-> create_event,
     calendar_update_event |-> update_event,
     calendar_respond_to_event |-> respond_to_event,
     calendar_set_event_attachments |-> set_event_attachments,
     calendar_delete_event |-> delete_event]
=============================================================================
