--------------------------- MODULE LocationTracker ---------------------------
(***************************************************************************)
(* internal/poller/poller.go, the location directory: PollLocations        *)
(* compares the upstream directory with memory and sends rows and events   *)
(* to the batch buffer; ClickHouse keeps the newest row of each machine    *)
(* (rvm_current) and all events (rvm_events); HydrateFromStorage rebuilds  *)
(* memory from rvm_current when the process starts again.                  *)
(*                                                                         *)
(* The batch buffer is what TableLog promises of it: per table, a first    *)
(* part of the rows that wait is inserted, with or without the buffer      *)
(* learning of it.                                                         *)
(*                                                                         *)
(* A definition marked "Variant" is the one after it with a plausible      *)
(* mistake; no specification uses it.                                      *)
(***************************************************************************)
EXTENDS DiffState, Sequences, FiniteSetsExt

CONSTANTS
    Machines,     \* RVM IDs
    Statuses,     \* upstream statuses
    Names,        \* values of LocationName and Address
    Raws,         \* values of the rest of the upstream JSON
    None,         \* no listing, no row or no event of a machine
    MayDrop,      \* a full channel may drop rows and events
    MayRepeat,    \* an insert may be committed without being acknowledged
    MayBlank,     \* the API may answer without any machine
    MayForget,    \* loading rvm_current may fail when the process starts
    MaxChanges,   \* bound: changes of the upstream directory and empty answers
    MaxCrashes,   \* bound: crashes
    MaxRows       \* bound: rows and events that wait before an insert must happen

\* What the upstream directory says of a machine.
Listings == [id : Machines, status : Statuses, name : Names, raw : Raws]

\* Rows of rvm_current and of rvm_events.
Rows == [id : Machines, status : Statuses, name : Names, raw : Raws,
         firstSeenAt : Nat, updatedAt : Nat, isDeleted : BOOLEAN]
EventRows == [type : {"MACHINE_ADDED", "MACHINE_REMOVED", "STATUS_CHANGED",
                      "METADATA_UPDATED"},
              id : Machines, from : Statuses \cup {""}, to : Statuses \cup {Deleted}]

ASSUME TrackerAssumption ==
    /\ MayDrop \in BOOLEAN /\ MayRepeat \in BOOLEAN /\ MayForget \in BOOLEAN
    /\ MayBlank \in BOOLEAN
    /\ MaxChanges \in Nat /\ MaxCrashes \in Nat /\ MaxRows \in Nat
    /\ IsFiniteSet(Machines)
    /\ None \notin Listings \cup Rows \cup EventRows

VARIABLES
    upstream,    \* upstream[m]: what the directory says of m
    clock,       \* time.Now(): counts the polls that found a difference
    running,     \* the process is up and hydrated
    active,      \* p.activeRVMs
    rowsToDo,    \* rows that PollLocations has still to enqueue
    eventsToDo,  \* events that PollLocations has still to enqueue
    rowBuffer,   \* rows for rvm_current in the batch buffer
    eventBuffer, \* events for rvm_events in the batch buffer
    table,       \* table[m]: rvm_current FINAL, the row of m with the last updatedAt
    log,         \* log[m]: the last event of m in rvm_events
    stale,       \* machines whose newest row was dropped or not loaded (history)
    lost,        \* machines of which a crash lost a row or an event (history)
    changes,     \* changes of the upstream directory and empty answers so far
    crashes      \* crashes so far

envVars == <<upstream, changes, crashes>>
histVars == <<stale, lost>>
memVars == <<running, active, rowsToDo, eventsToDo>>
bufVars == <<rowBuffer, eventBuffer>>
dbVars  == <<table, log>>
vars == <<envVars, clock, memVars, bufVars, dbVars, histVars>>

Init ==
    /\ upstream \in [Machines -> Listings \cup {None}]
    /\ \A m \in Machines : upstream[m] # None => upstream[m].id = m
    /\ clock = 1
    /\ running = TRUE
    /\ active = <<>>
    /\ rowsToDo = <<>> /\ eventsToDo = <<>>
    /\ rowBuffer = <<>> /\ eventBuffer = <<>>
    /\ table = [m \in Machines |-> None]
    /\ log = [m \in Machines |-> None]
    /\ stale = {} /\ lost = {}
    /\ changes = 0 /\ crashes = 0
-------------------------------------------------------------------------------
(* Upstream                                                                 *)

Change(m) ==
    /\ changes < MaxChanges
    /\ changes' = changes + 1
    /\ \E now \in Listings \cup {None} :
          /\ now # upstream[m]
          /\ now # None => now.id = m
          /\ upstream' = [upstream EXCEPT ![m] = now]
    /\ UNCHANGED <<crashes, clock, memVars, bufVars, dbVars, histVars>>
-------------------------------------------------------------------------------
(* PollLocations.  A poll that fails changes nothing.                       *)

\* The enumerations of a finite set: the upstream list comes in any order, and Go
\* iterates over a map in any order.
Orders(S) == {s \in [1..Cardinality(S) -> S] : Range(s) = S}

\* The answer of GetLocations; each machine is listed once.
Directory == [m \in {m \in Machines : upstream[m] # None} |-> upstream[m]]

\* The new map holds the RVMs as they were polled, not the rows of the diff.
NewMap(answer) == [m \in DOMAIN answer |-> Polled(answer[m])]

\* DiffState and the new map, under the lock, from the upstream answer; upstream may
\* have changed again by the time the rows are enqueued.
PollAnswered(answer) ==
    /\ running
    /\ rowsToDo = <<>> /\ eventsToDo = <<>>
    /\ Len(rowBuffer) <= MaxRows /\ Len(eventBuffer) <= MaxRows
    /\ \E added \in Orders(AddedRows(active, answer, clock)),
          updated \in Orders(UpdatedRows(active, answer, clock)),
          removed \in Orders(RemovedRows(active, answer, clock)) :
             rowsToDo' = added \o updated \o removed
    /\ \E changed \in Orders(ChangeEvents(active, answer)),
          removed \in Orders(RemovalEvents(active, answer)) :
             eventsToDo' = changed \o removed
    /\ active' = NewMap(answer)
    /\ clock' = IF rowsToDo' = <<>> THEN clock ELSE clock + 1
    /\ UNCHANGED <<upstream, crashes, running, bufVars, dbVars, histVars>>

PollLocations == PollAnswered(Directory) /\ UNCHANGED changes

\* An answer of status 200 that holds no data is an empty directory: its own status
\* field is not looked at.
PollBlank ==
    /\ MayBlank
    /\ changes < MaxChanges
    /\ changes' = changes + 1
    /\ PollAnswered(<<>>)

\* EnqueueRVM: into the channel, or lost when it is full.
EnqueueRow ==
    /\ running
    /\ rowsToDo # <<>>
    /\ rowsToDo' = Tail(rowsToDo)
    /\ \/ /\ rowBuffer' = Append(rowBuffer, Head(rowsToDo))
          /\ stale' = stale \ {Head(rowsToDo).id}
       \/ /\ MayDrop
          /\ stale' = stale \cup {Head(rowsToDo).id}
          /\ UNCHANGED rowBuffer
    /\ UNCHANGED <<envVars, clock, running, active, eventsToDo, eventBuffer, dbVars, lost>>

\* EnqueueEvent, after all rows of the poll.
EnqueueEvent ==
    /\ running
    /\ rowsToDo = <<>> /\ eventsToDo # <<>>
    /\ eventsToDo' = Tail(eventsToDo)
    /\ \/ eventBuffer' = Append(eventBuffer, Head(eventsToDo))
       \/ MayDrop /\ UNCHANGED eventBuffer
    /\ UNCHANGED <<envVars, clock, running, active, rowsToDo, rowBuffer, dbVars, histVars>>
-------------------------------------------------------------------------------
(* The batch buffer and ClickHouse                                          *)

\* m's row after the insert of rows: ReplacingMergeTree(updated_at), read with FINAL,
\* keeps the one with the greatest version.  No two rows of a machine share one.
Version(row, rows, m) ==
    LET versions == {rows[i] : i \in {i \in DOMAIN rows : rows[i].id = m}}
                    \cup ({row} \ {None})
    IN  IF versions = {}
        THEN None
        ELSE CHOOSE v \in versions : \A w \in versions : w.updatedAt <= v.updatedAt

Merge(rows) == [m \in Machines |-> Version(table[m], rows, m)]

\* flush inserts a batch of RVMs.
InsertRVMs(k) ==
    /\ table' = Merge(SubSeq(rowBuffer, 1, k))
    /\ \/ rowBuffer' = SubSeq(rowBuffer, k + 1, Len(rowBuffer))
       \/ MayRepeat /\ UNCHANGED rowBuffer
    /\ UNCHANGED <<envVars, clock, memVars, eventBuffer, log, histVars>>

\* m's last event after the insert of events.
LastEvent(event, events, m) ==
    LET of == {i \in DOMAIN events : events[i].id = m}
    IN  IF of = {} THEN event ELSE events[Max(of)]

\* flush inserts a batch of events.
InsertEvents(k) ==
    /\ log' = [m \in Machines |-> LastEvent(log[m], SubSeq(eventBuffer, 1, k), m)]
    /\ \/ eventBuffer' = SubSeq(eventBuffer, k + 1, Len(eventBuffer))
       \/ MayRepeat /\ UNCHANGED eventBuffer
    /\ lost' = lost \ {eventBuffer[i].id : i \in 1..k}
    /\ UNCHANGED <<envVars, clock, memVars, rowBuffer, table, stale>>
-------------------------------------------------------------------------------
(* Crash and restart                                                        *)

Crash ==
    /\ running
    /\ crashes < MaxCrashes
    /\ crashes' = crashes + 1
    /\ running' = FALSE
    /\ active' = <<>>
    /\ rowsToDo' = <<>> /\ eventsToDo' = <<>>
    /\ rowBuffer' = <<>> /\ eventBuffer' = <<>>
    /\ lost' = lost \cup {row.id : row \in Range(rowBuffer \o rowsToDo)}
                    \cup {event.id : event \in Range(eventBuffer \o eventsToDo)}
    /\ UNCHANGED <<upstream, changes, clock, dbVars, stale>>

Alive == {m \in Machines : table[m] # None /\ ~table[m].isDeleted}

\* Variant: nothing is loaded.
HydrateNothing ==
    /\ ~running
    /\ running' = TRUE
    /\ UNCHANGED <<envVars, clock, active, histVars, rowsToDo, eventsToDo, bufVars, dbVars>>

\* HydrateFromStorage: LoadActiveRVMs, or after an error the empty map.
Hydrate ==
    /\ ~running
    /\ running' = TRUE
    /\ \/ /\ active' = [m \in Alive |-> table[m]]
          /\ stale' = {}
       \/ /\ MayForget
          /\ UNCHANGED active
          /\ stale' = Alive
    /\ UNCHANGED <<envVars, clock, rowsToDo, eventsToDo, bufVars, dbVars, lost>>
-------------------------------------------------------------------------------
InsertStep ==
    \/ \E k \in 1..Len(rowBuffer) : InsertRVMs(k)
    \/ \E k \in 1..Len(eventBuffer) : InsertEvents(k)

Next ==
    \/ \E m \in Machines : Change(m)
    \/ PollLocations \/ PollBlank \/ EnqueueRow \/ EnqueueEvent
    \/ InsertStep
    \/ Crash \/ Hydrate

Spec == Init /\ [][Next]_vars

\* The location ticker polls again and again and the upstream API answers, in full; the
\* buffer flushes and the database is not down for ever, each of which BatchBuffer shows
\* of the code under its own fairness; a process that crashed is started again.
FlushRVMs == rowBuffer # <<>> /\ InsertRVMs(Len(rowBuffer)) /\ rowBuffer' = <<>>
FlushEvents == eventBuffer # <<>> /\ InsertEvents(Len(eventBuffer)) /\ eventBuffer' = <<>>

FairSpec ==
    /\ Spec
    /\ SF_vars(PollLocations)
    /\ WF_vars(EnqueueRow) /\ WF_vars(EnqueueEvent)
    /\ WF_vars(FlushRVMs) /\ WF_vars(FlushEvents)
    /\ WF_vars(Hydrate)
-------------------------------------------------------------------------------
(* Properties.                                                              *)

\* Every variable has its type.
TypeOK ==
    /\ upstream \in [Machines -> Listings \cup {None}]
    /\ clock \in Nat \ {0}
    /\ running \in BOOLEAN
    /\ DOMAIN active \subseteq Machines
    /\ \A m \in DOMAIN active : active[m] \in Rows /\ active[m].id = m
    /\ rowsToDo \in Seq(Rows) /\ rowBuffer \in Seq(Rows)
    /\ eventsToDo \in Seq(EventRows) /\ eventBuffer \in Seq(EventRows)
    /\ table \in [Machines -> Rows \cup {None}]
    /\ log \in [Machines -> EventRows \cup {None}]
    /\ stale \subseteq Machines /\ lost \subseteq Machines
    /\ changes \in 0..MaxChanges /\ crashes \in 0..MaxCrashes

\* The row of m that the database ends up with when all that waits is inserted.
Newest(m) == Version(table[m], rowBuffer \o rowsToDo, m)

InDatabase(m) == Newest(m) # None /\ ~Newest(m).isDeleted

\* Memory and the database, with the rows on their way, agree on which machines exist
\* and on their status and name, whatever was polled, inserted twice, lost in a crash
\* or reloaded; only a machine whose row a full channel dropped, or whose row could
\* not be loaded, may differ, and only until its next row.
DatabaseFollows ==
    running =>
        \A m \in Machines \ stale :
            /\ m \in DOMAIN active <=> InDatabase(m)
            /\ m \in DOMAIN active => /\ Newest(m).status = active[m].status
                                      /\ Newest(m).name = active[m].name

Closing(e) == e.type = "MACHINE_REMOVED"

\* e may follow d in the life of a machine; None is before its first event.
Continues(d, e) ==
    /\ e.type = "MACHINE_ADDED" <=> d = None \/ Closing(d)
    /\ e.type # "MACHINE_ADDED" => e.from = d.to
    /\ e.type = "STATUS_CHANGED" => e.from # e.to

\* After e, a machine is listed or not, and with a status, as in RVMs.
Tells(e, rvms, m) ==
    /\ m \in DOMAIN rvms <=> e # None /\ ~Closing(e)
    /\ m \in DOMAIN rvms => e.to = rvms[m].status

\* As long as the buffer loses and repeats nothing, a machine's events tell its life
\* without a gap: it is added first and after each removal, each event starts at the
\* status at which the one before ended, and the last one tells what memory holds.
\* A crash breaks this only for a machine of which a row or an event was waiting, and
\* only until the next event of that machine is stored.
EventsTellAll ==
    ~MayDrop /\ ~MayRepeat /\ ~MayForget =>
        LET events == eventBuffer \o eventsToDo
            Last(m, n) == LastEvent(log[m], SubSeq(events, 1, n), m)
        IN  /\ \A i \in 1..Len(events) :
                  events[i].id \notin lost => Continues(Last(events[i].id, i - 1), events[i])
            /\ running =>
                  \A m \in Machines \ lost : Tells(Last(m, Len(events)), active, m)

\* A machine's row says what the directory says of it.
Says(row, listing) ==
    IF listing = None
    THEN row = None \/ row.isDeleted
    ELSE /\ row # None
         /\ ~row.isDeleted
         /\ row.status = listing.status
         /\ row.name = listing.name

\* The machines of which the last poll has still to enqueue a row.
Writing == {row.id : row \in Range(rowsToDo)}

\* One poll with a full answer is enough: the rows it leaves to be enqueued, with those
\* that wait already, make the database say what upstream says of every machine, however
\* memory came to be what it is; except of the machines that DatabaseFollows leaves out
\* and of which this poll writes no row.  A row holds all of the upstream JSON: what a
\* change of the JSON alone left out, as it writes no row, comes with the next one.
PollSettles ==
    [][PollLocations =>
          /\ \A m \in (Machines \ stale) \cup Writing' : Says(Newest(m)', upstream[m])
          /\ \A m \in Writing' :
                upstream[m] # None => Newest(m)'.raw = upstream[m].raw]_vars

\* Once upstream stops changing and answers in full, and the process stops crashing,
\* the database comes to say what upstream says: a machine that disappeared while the
\* process was down is marked deleted, one that appeared is added, and a change lost in
\* a crash is found again.
Reconciled == <>[](\A m \in Machines : Says(table[m], upstream[m]))

\* Said of DiffState by its test: the time at which a machine was first seen is
\* preserved as long as it is listed.
FirstSeenPreserved ==
    [][\A m \in Machines :
          table[m] # None /\ ~table[m].isDeleted /\ ~table'[m].isDeleted
              => table'[m].firstSeenAt = table[m].firstSeenAt]_vars
===============================================================================
