------------------------------ MODULE DiffState ------------------------------
(***************************************************************************)
(* internal/poller/diff.go: what a poll of the location directory changes. *)
(* Of an RVM's fields the status, the name (LocationName and Address: the  *)
(* metadata that is compared) and the raw JSON are told apart.             *)
(*                                                                         *)
(* previous and current are functions from the IDs of the machines that    *)
(* memory holds, and that upstream lists, to their RVMs.  The upstream     *)
(* list is assumed to name a machine once.  The code also treats an RVM    *)
(* with IsDeleted = 1 as unknown; memory never holds one.                  *)
(*                                                                         *)
(* A definition marked "Variant" is the one after it with a plausible      *)
(* mistake; no specification uses it.                                      *)
(***************************************************************************)
EXTENDS Naturals

\* model.RVM.  Time 0 is Go's zero time.
Row(loc, firstSeenAt, updatedAt) ==
    [id |-> loc.id, status |-> loc.status, name |-> loc.name, raw |-> loc.raw,
     firstSeenAt |-> firstSeenAt, updatedAt |-> updatedAt, isDeleted |-> FALSE]

\* An RVM as UnmarshalJSON leaves it: the tracker's own fields are not set.
Polled(loc) == Row(loc, 0, 0)

\* model.RVMEvent.
Event(type, loc, from, to) == [type |-> type, id |-> loc.id, from |-> from, to |-> to]

\* CurrentStatus of a MACHINE_REMOVED event.
Deleted == "DELETED"
-------------------------------------------------------------------------------
New(previous, current) == DOMAIN current \ DOMAIN previous

Gone(previous, current) == DOMAIN previous \ DOMAIN current

StatusChanged(previous, current) ==
    {m \in DOMAIN previous \cap DOMAIN current : previous[m].status # current[m].status}

\* The metadata is only compared when the status is the same (else if).
Renamed(previous, current) ==
    {m \in DOMAIN previous \cap DOMAIN current :
        previous[m].status = current[m].status /\ previous[m].name # current[m].name}
-------------------------------------------------------------------------------
\* result.Added
AddedRows(previous, current, now) ==
    {Row(current[m], now, now) : m \in New(previous, current)}

\* Variant: a change of the status alone writes no row.
UpdatedRowsRenamed(previous, current, now) ==
    {Row(current[m], previous[m].firstSeenAt, now) : m \in Renamed(previous, current)}

\* Variant: the old JSON is kept with the new status and name.
UpdatedRowsOldRaw(previous, current, now) ==
    {[previous[m] EXCEPT !.status = current[m].status, !.name = current[m].name,
                         !.updatedAt = now] :
        m \in StatusChanged(previous, current) \cup Renamed(previous, current)}

\* result.Updated
UpdatedRows(previous, current, now) ==
    {Row(current[m], previous[m].firstSeenAt, now) :
        m \in StatusChanged(previous, current) \cup Renamed(previous, current)}

\* Variant: the row keeps its version.
RemovedRowsUndated(previous, current, now) ==
    {[previous[m] EXCEPT !.isDeleted = TRUE] : m \in Gone(previous, current)}

\* result.Removed
RemovedRows(previous, current, now) ==
    {[previous[m] EXCEPT !.isDeleted = TRUE, !.updatedAt = now] :
        m \in Gone(previous, current)}

\* Variant: the new status is reported as the previous one, too.
ChangeEventsFrom(previous, current) ==
    {Event("MACHINE_ADDED", current[m], "", current[m].status) :
        m \in New(previous, current)}
    \cup {Event("STATUS_CHANGED", current[m], current[m].status, current[m].status) :
        m \in StatusChanged(previous, current)}
    \cup {Event("METADATA_UPDATED", current[m], previous[m].status, current[m].status) :
        m \in Renamed(previous, current)}

\* result.Events, as far as the loop over the upstream list appends them.
ChangeEvents(previous, current) ==
    {Event("MACHINE_ADDED", current[m], "", current[m].status) :
        m \in New(previous, current)}
    \cup {Event("STATUS_CHANGED", current[m], previous[m].status, current[m].status) :
        m \in StatusChanged(previous, current)}
    \cup {Event("METADATA_UPDATED", current[m], previous[m].status, current[m].status) :
        m \in Renamed(previous, current)}

\* Variant: the two statuses of a removal are swapped.
RemovalEventsSwapped(previous, current) ==
    {Event("MACHINE_REMOVED", previous[m], Deleted, previous[m].status) :
        m \in Gone(previous, current)}

\* result.Events, as far as the loop over the previous map appends them.
RemovalEvents(previous, current) ==
    {Event("MACHINE_REMOVED", previous[m], previous[m].status, Deleted) :
        m \in Gone(previous, current)}
===============================================================================
