----------------------------- MODULE EditDialog -----------------------------
(***************************************************************************)
(* How every section of the frontend edits its rows: a list read from the  *)
(* server, one dialog whose draft is copied from a row when it opens, one  *)
(* request at a time, and a success that closes whatever dialog is open.   *)
(* What a draft is, what it may become, what is sent and what the server   *)
(* makes of it is given by the form, one of the form modules.              *)
(* The other member works on the same rows, answers can be lost on the     *)
(* way, and a row can be removed under an open dialog.                     *)
(***************************************************************************)
EXTENDS Naturals, FiniteSets

CONSTANTS
    Form,              \* the forms
    Ids,               \* row ids, 1 .. n; row 1 exists at the start
    None,
    New,               \* the target of a dialog that creates a row
    MaxTouches,        \* bound: input events
    MaxOpens,          \* bound: dialogs opened
    MaxFaults,         \* bound: writes by others, lost answers, removals
    Rows(_),           \* rows the server can hold at the start
    Empty(_),          \* the draft of a new row
    Draft(_, _),       \* the draft of a row
    Typed(_, _, _),    \* the drafts one input event away
    Ready(_, _, _),    \* the check before the request
    Body(_, _, _),     \* the request of a draft
    Accepts(_, _, _),  \* the validation of the server
    Write(_, _, _),    \* the row the server keeps
    Elsewhere(_, _),   \* what a row can become by another hand
    Links(_, _),       \* what it can become by the dialog's own side request
    Suggested(_, _, _), \* drafts that a chip or a switch submits at once
    After(_, _),       \* what a removal leaves of a row, None if nothing
    Lists(_, _),       \* the row is one the section shows
    Offers(_, _)       \* what the section offers: to add, to deactivate, to
                       \* delete (from the list or from inside the dialog),
                       \* a draft that outlives its dialog, a dialog for
                       \* new rows that is apart from the one for old rows,
                       \* inputs laid over the row as the cache has it now

VARIABLES
    form,      \* the section on screen
    server,    \* id -> the row, None when there is none
    fresh,     \* the id of the next row
    cache,     \* the rows of the last read, which the list shows
    dialog,    \* None or [target, base, draft]: base is the row it opened on
    kept,      \* None or the draft of a new row that a closed dialog left
    wire,      \* None or the request of the dialog, [target, base, draft, body]
    side,      \* None or the side request, [target, row]
    doomed,    \* None or the row whose removal waits for a confirmation
    due,       \* history: the next id once the new row asked for is stored,
               \* and what was stored and not answered
    touches, opens, faults

bounds == <<touches, opens, faults>>
vars == <<form, server, fresh, cache, dialog, kept, wire, side, doomed, due, bounds>>

(* What the dialog works on: the row it was opened on, or, where inputs are *)
(* laid over the cache, the cached row.                                    *)
Base ==
    IF dialog.target # New /\ Offers(form, "live") THEN cache[dialog.target]
    ELSE dialog.base

Listed(row) == row # None /\ Lists(form, row)

Init ==
    /\ form \in Form
    /\ \E r \in Rows(form) : server = [i \in Ids |-> IF i = 1 THEN r ELSE None]
    /\ cache = server /\ fresh = 2
    /\ dialog = None /\ kept = None /\ wire = None /\ side = None
    /\ doomed = None /\ due = fresh /\ touches = 0 /\ opens = 0 /\ faults = 0

(* setFormTarget("new"). *)
OpenNew ==
    /\ dialog = None /\ opens < MaxOpens
    /\ Offers(form, "add")
    /\ dialog' = [target |-> New, base |-> None,
                  draft |-> IF kept = None THEN Empty(form) ELSE kept]
    /\ opens' = opens + 1
    /\ due' = fresh + 1
    /\ UNCHANGED <<form, server, fresh, cache, kept, wire, side, doomed, touches, faults>>

(* setFormTarget(row), a row of the list. *)
OpenRow(i) ==
    /\ dialog = None /\ opens < MaxOpens
    /\ Listed(cache[i])
    /\ dialog' = [target |-> i, base |-> cache[i], draft |-> Draft(form, cache[i])]
    /\ opens' = opens + 1
    /\ UNCHANGED <<form, server, fresh, cache, kept, wire, side, doomed, due,
                   touches, faults>>

Type ==
    /\ dialog # None /\ touches < MaxTouches
    /\ \E d \in Typed(form, dialog.draft, Base) :
           dialog' = [dialog EXCEPT !.draft = d]
    /\ touches' = touches + 1
    /\ UNCHANGED <<form, server, fresh, cache, kept, wire, side, doomed, due,
                   opens, faults>>

(* The cross, Escape, a drag downwards: the draft is gone, a request that  *)
(* is under way is not.                                                    *)
Close ==
    /\ dialog # None
    /\ dialog' = None
    /\ kept' = IF Offers(form, "keep") /\ dialog.target = New THEN dialog.draft
               ELSE kept
    /\ UNCHANGED <<form, server, fresh, cache, wire, side, doomed, due, bounds>>

(* The request for a draft of the open dialog. *)
Request(d) == [target |-> dialog.target, base |-> Base, draft |-> d,
               body |-> Body(form, d, Base)]

(* isSaving disables the button of whichever dialog is open. *)
Submit ==
    /\ dialog # None /\ wire = None
    /\ Ready(form, dialog.draft, Base)
    /\ dialog.target = New => fresh \in Ids
    /\ wire' = Request(dialog.draft)
    /\ UNCHANGED <<form, server, fresh, cache, dialog, kept, side, doomed, due, bounds>>

(* A chip or a switch: a draft of its own goes out, the dialog stays as it *)
(* is.                                                                     *)
SubmitSuggested ==
    /\ dialog # None /\ wire = None
    /\ dialog.target = New => fresh \in Ids
    /\ \E d \in Suggested(form, dialog.draft, Base) : wire' = Request(d)
    /\ UNCHANGED <<form, server, fresh, cache, dialog, kept, side, doomed, due, bounds>>

(* The target of a request is gone.  A section that deactivates keeps the  *)
(* row: the update succeeds and shows nowhere.                             *)
Gone(w) == w.target # New /\ server[w.target] = None

Taken(w) ==
    IF Gone(w) THEN Offers(form, "deactivate")
    ELSE Accepts(form, w.body, IF w.target = New THEN None ELSE server[w.target])

(* The handler of the server, on the row as it is now. *)
Apply(w) ==
    IF w.target = New
    THEN /\ server' = [server EXCEPT ![fresh] = Write(form, w.body, None)]
         /\ fresh' = fresh + 1
    ELSE /\ server' = IF Gone(w) THEN server
                      ELSE [server EXCEPT ![w.target] = Write(form, w.body, @)]
         /\ UNCHANGED fresh

MutClosed(w) == dialog

(* onSuccess: invalidate, toast, setFormTarget(null), which is the one     *)
(* dialog of most sections, whatever it shows by now.  Inputs laid over    *)
(* the cache stay and are emptied.                                         *)
Closed(w) ==
    IF dialog = None THEN None
    ELSE IF Offers(form, "live")
         THEN [dialog EXCEPT !.draft = Draft(form, dialog.base)]
    ELSE IF Offers(form, "apart") /\ (dialog.target = New) # (w.target = New)
         THEN dialog
    ELSE None

Saved ==
    /\ wire # None /\ Taken(wire)
    /\ Apply(wire)
    /\ wire' = None
    /\ dialog' = Closed(wire)
    /\ kept' = IF wire.target = New THEN None ELSE kept
    /\ UNCHANGED <<form, cache, side, doomed, due, bounds>>

(* 422, 400, 404 or 409: an error toast, the dialog stays as it is. *)
Refused ==
    /\ wire # None /\ ~Taken(wire)
    /\ wire' = None
    /\ UNCHANGED <<form, server, fresh, cache, dialog, kept, side, doomed, due, bounds>>

(* The answer is lost, before or after the server did the work: the same   *)
(* toast, and a dialog that invites to send once more.                     *)
LoseAnswer ==
    /\ wire # None /\ faults < MaxFaults
    /\ wire' = None
    /\ faults' = faults + 1
    /\ \/ UNCHANGED <<server, fresh, due>>
       \/ /\ Taken(wire) /\ Apply(wire)
          /\ due' = IF wire.target = New THEN due + 1 ELSE due
    /\ UNCHANGED <<form, cache, dialog, kept, side, doomed, touches, opens>>

(* The side request of a dialog; its success closes the dialog too. *)
AskSide ==
    /\ dialog # None /\ dialog.target # New /\ side = None
    /\ \E r \in Links(form, dialog.base) :
           side' = [target |-> dialog.target, row |-> r]
    /\ UNCHANGED <<form, server, fresh, cache, dialog, kept, wire, doomed, due, bounds>>

SideSaved ==
    /\ side # None
    /\ server' = IF server[side.target] = None THEN server
                 ELSE [server EXCEPT ![side.target].linked = side.row.linked]
    /\ side' = None
    /\ dialog' = None
    /\ UNCHANGED <<form, fresh, cache, kept, wire, doomed, due, bounds>>

Removes == Offers(form, "deactivate") \/ Offers(form, "delete")

(* Remove, confirmed in a dialog of its own; from the list, or from inside *)
(* the dialog of the row.                                                  *)
AskRemove(i) ==
    /\ doomed = None /\ Removes
    /\ IF Offers(form, "inside") THEN dialog # None /\ dialog.target = i
                                ELSE dialog = None
    /\ Listed(cache[i])
    /\ doomed' = i
    /\ UNCHANGED <<form, server, fresh, cache, dialog, kept, wire, side, due, bounds>>

CancelRemove ==
    /\ doomed # None
    /\ doomed' = None
    /\ UNCHANGED <<form, server, fresh, cache, dialog, kept, wire, side, due, bounds>>

Removed ==
    /\ doomed # None /\ faults < MaxFaults
    /\ server' = [server EXCEPT ![doomed] = IF @ = None THEN None
                                           ELSE After(form, @)]
    /\ doomed' = None
    /\ dialog' = IF Offers(form, "inside") THEN None ELSE dialog
    /\ faults' = faults + 1
    /\ UNCHANGED <<form, fresh, cache, kept, wire, side, due, touches, opens>>

(* Another hand: the other member, a job, a synchronisation. *)
OtherWrites ==
    /\ faults < MaxFaults
    /\ \E i \in Ids :
        /\ server[i] # None
        /\ \/ \E r \in Elsewhere(form, server[i]) : server' = [server EXCEPT ![i] = r]
           \/ /\ Removes
              /\ server' = [server EXCEPT ![i] = After(form, @)]
    /\ faults' = faults + 1
    /\ UNCHANGED <<form, fresh, cache, dialog, kept, wire, side, doomed, due, touches, opens>>

(* The list is read again, after an invalidation or when it grows stale;   *)
(* inputs laid over a row go with it.                                      *)
Refetch ==
    /\ cache # server
    /\ cache' = server
    /\ dialog' = IF dialog # None /\ Offers(form, "live") /\ dialog.target # New
                    /\ ~Listed(server[dialog.target])
                 THEN None ELSE dialog
    /\ UNCHANGED <<form, server, fresh, kept, wire, side, doomed, due, bounds>>

Next ==
    \/ OpenNew \/ Type \/ Close \/ Submit \/ SubmitSuggested
    \/ Saved \/ Refused \/ LoseAnswer
    \/ AskSide \/ SideSaved
    \/ CancelRemove \/ Removed
    \/ OtherWrites \/ Refetch
    \/ \E i \in Ids : OpenRow(i) \/ AskRemove(i)

Spec == Init /\ [][Next]_vars
=============================================================================
