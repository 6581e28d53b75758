------------------------------ MODULE Listings ------------------------------
(***************************************************************************)
(* The windows of one listing: made by its weekly schedule and by hand,    *)
(* rolled on by the job, and edited in the listing form                    *)
(* (web/src/app/screens/AddListing.tsx).  The form keeps a draft on the    *)
(* device; saving it is a row of requests, any of which may fail; the job  *)
(* and another device change the windows meanwhile.  The server is as      *)
(* update_listing, add_slots, remove_slot and apply_schedule in catalog.   *)
(***************************************************************************)
EXTENDS Naturals, FiniteSets

CONSTANTS Plans,    \* weekly schedules: the days each opens; {} is none
          Dates,    \* days the owner may add by hand
          LastDay,  \* days are 1 .. LastDay
          MaxSlot   \* windows ever made

VARIABLES
    slots,   \* the windows at the server: [id, at, gen]
    spec,    \* the listing's schedule
    until,   \* scheduled_until: the last day it was made for, 0 for null
    day,     \* the horizon
    count,   \* windows made so far
    rolling, \* the schedule the job has read and not applied yet: a set of at most one
    view,    \* ids of the windows as the owner's page last read them
    open,    \* the form is on the screen
    drafted, \* what it holds is kept on the device as well
    form,    \* [kept, plan, adds]: the windows kept, the schedule chosen (a set of at most one), the dates added
    dropped, \* windows the owner took away in it
    step,    \* where saving is: "idle", "put", "remove", "add", "done"
    gone,    \* the windows that saving takes away, as they were at the click
    todo     \* windows whose removal is under way

server == <<slots, spec, until, count>>
job == <<day, rolling>>
fields == <<open, drafted, form, dropped>>
saving == <<step, gone, todo>>
vars == <<server, job, view, fields, saving>>

Day == 1 .. LastDay
Id == 1 .. MaxSlot
Slot == [id: Id, at: Day, gen: BOOLEAN]
Form == [kept: SUBSET Id, plan: SUBSET Plans, adds: SUBSET Dates]

TypeOK ==
    /\ slots \subseteq Slot /\ spec \in Plans /\ until \in 0 .. LastDay /\ day \in Day /\ count \in 0 .. MaxSlot
    /\ rolling \subseteq Plans /\ view \subseteq Id
    /\ open \in BOOLEAN /\ drafted \in BOOLEAN /\ form \in Form /\ dropped \subseteq Id
    /\ step \in {"idle", "put", "remove", "add", "done"} /\ gone \subseteq Id /\ todo \subseteq Id

Ids == {s.id : s \in slots}
Blank == [kept |-> {}, plan |-> {}, adds |-> {}]

\* A listing with a window made by hand or, when it repeats, one of its schedule.
Init ==
    /\ spec \in Plans /\ day = 1 /\ until = (IF spec = {} THEN 0 ELSE 1)
    /\ \/ slots = {[id |-> 1, at |-> 1, gen |-> 1 \in spec]}
       \/ slots = {} /\ 1 \notin spec
    /\ count = 1 /\ rolling = {} /\ view = Ids
    /\ open = FALSE /\ drafted = FALSE /\ form = Blank /\ dropped = {}
    /\ step = "idle" /\ gone = {} /\ todo = {}

-----------------------------------------------------------------------------
(* The catalog.  Each of these holds the listing's row.                    *)

Taken(all) == {s.at : s \in all}
\* New windows at these days, numbered on from the last.
Number(days) == CHOOSE f \in [days -> 1 .. Cardinality(days)] : \A d, e \in days : d < e => f[d] < f[e]
New(days, gen) == {[id |-> count + Number(days)[d], at |-> d, gen |-> gen] : d \in days}

\* apply_schedule: with replace, the windows the schedule made go first; none overlaps one that is there.
Free(plan, all) == {d \in plan : d <= day /\ d \notin Taken(all)}
ApplySchedule(plan, replace, there) ==
    LET left == IF replace THEN {s \in there : ~s.gen} ELSE there
        days == Free(plan, left)
    IN
    /\ count + Cardinality(days) <= MaxSlot
    /\ slots' = left \cup New(days, TRUE) /\ count' = count + Cardinality(days)
    /\ until' = (IF plan = {} THEN 0 ELSE day)

\* update_listing: a schedule left out is kept, one that changed is applied.
Put ==
    IF form.plan \subseteq {spec} THEN UNCHANGED server
    ELSE \E p \in form.plan : spec' = p /\ ApplySchedule(p, TRUE, slots)

\* remove_slot: under a window made by hand the schedule comes back at once.
RemoveSlot(id) ==
    LET left == {s \in slots : s.id # id} IN
    /\ IF spec # {} /\ \E s \in slots : s.id = id /\ ~s.gen
       THEN ApplySchedule(spec, FALSE, left)
       ELSE slots' = left /\ UNCHANGED <<until, count>>
    /\ UNCHANGED spec

\* add_slots: as sent, over whatever is there.
AddSlots(days) ==
    /\ count + Cardinality(days) <= MaxSlot
    /\ slots' = slots \cup New(days, FALSE) /\ count' = count + Cardinality(days)
    /\ UNCHANGED <<spec, until>>

\* keep_schedules_once: reads which listings are due, with their schedules, then rolls each on.
ReadDue ==
    /\ until # 0 /\ until < day /\ spec # {} /\ rolling = {} /\ rolling' = {spec}
    /\ UNCHANGED <<server, day, view, fields, saving>>
RollOn ==
    /\ \E p \in rolling : ApplySchedule(p, FALSE, slots)
    /\ rolling' = {}
    /\ UNCHANGED <<spec, day, view, fields, saving>>

Tomorrow == day < LastDay /\ day' = day + 1 /\ UNCHANGED <<server, rolling, view, fields, saving>>

\* The owner's other device adds a date.
Elsewhere == \E d \in Dates : AddSlots({d}) /\ UNCHANGED <<job, view, fields, saving>>

-----------------------------------------------------------------------------
(* The form.                                                               *)

Fetch == view' = Ids /\ UNCHANGED <<server, job, fields, saving>>

\* The draft when there is one, else what the listing has.
Mount ==
    /\ ~open /\ step = "idle" /\ open' = TRUE
    /\ IF drafted THEN UNCHANGED <<form, dropped>> ELSE form' = [Blank EXCEPT !.kept = view] /\ dropped' = {}
    /\ UNCHANGED <<server, job, view, drafted, saving>>

\* Every change is in the draft at once.
Edited(f) ==
    /\ open /\ step = "idle" /\ form' = f /\ drafted' = TRUE
    /\ UNCHANGED <<server, job, view, open, saving>>
TakeAway(id) ==
    id \in form.kept /\ Edited([form EXCEPT !.kept = @ \ {id}]) /\ dropped' = dropped \cup {id}
ChoosePlan(p) == form.plan # {p} /\ Edited([form EXCEPT !.plan = {p}]) /\ UNCHANGED dropped
AddDates(days) == form.adds # days /\ Edited([form EXCEPT !.adds = days]) /\ UNCHANGED dropped

\* Left, or reloaded; the draft stays.
Leave ==
    /\ open /\ step = "idle" /\ open' = FALSE
    /\ IF drafted THEN UNCHANGED <<form, dropped>> ELSE form' = Blank /\ dropped' = {}
    /\ UNCHANGED <<server, job, view, drafted, saving>>
Emptied == open' = FALSE /\ drafted' = FALSE /\ form' = Blank /\ dropped' = {}
Discard == open /\ step = "idle" /\ drafted /\ Emptied /\ UNCHANGED <<server, job, view, saving>>

-----------------------------------------------------------------------------
(* Save changes: the listing, the windows that go, the dates that come.    *)

\* The click: what goes are the windows then on the page that the form does not keep.
Submit ==
    /\ open /\ step = "idle" /\ todo = {} /\ step' = "put" /\ gone' = view \ form.kept
    /\ UNCHANGED <<server, job, view, fields, todo>>

Goes(s) == step' = s /\ UNCHANGED gone
Failed == step' = "idle" /\ gone' = {}
Rest == UNCHANGED <<job, view, fields>>

\* Each request is done, and its answer comes or is lost.
SavePut ==
    /\ step = "put" /\ Put /\ Rest
    /\ \/ Goes("remove") /\ todo' = gone
       \/ Failed /\ UNCHANGED todo

\* The removals go out together; one that is not found fails the save, not the others.
SaveRemove(id) ==
    /\ id \in todo /\ todo' = todo \ {id} /\ Rest
    /\ IF id \in Ids THEN RemoveSlot(id) /\ (Goes(step) \/ Failed) ELSE UNCHANGED server /\ Failed
\* Wrong on purpose: the save goes on with the first removal.
RemovedFirst ==
    /\ step = "remove" /\ Goes(IF form.adds = {} THEN "done" ELSE "add")
    /\ UNCHANGED <<server, todo>> /\ Rest

Removed ==
    /\ step = "remove" /\ todo = {} /\ Goes(IF form.adds = {} THEN "done" ELSE "add")
    /\ UNCHANGED <<server, todo>> /\ Rest
SaveAdd == step = "add" /\ AddSlots(form.adds) /\ (Goes("done") \/ Failed) /\ UNCHANGED todo /\ Rest

\* Never reached the server.
Lost ==
    /\ \/ step \in {"put", "add"} /\ UNCHANGED todo
       \/ \E id \in todo : todo' = todo \ {id}
    /\ Failed /\ UNCHANGED server /\ Rest

\* Said, the page read again, the draft gone, back to the list.
Saved ==
    /\ step = "done" /\ step' = "idle" /\ gone' = {}
    /\ view' = Ids /\ Emptied
    /\ UNCHANGED <<server, job, todo>>

-----------------------------------------------------------------------------
Owner ==
    \/ Fetch \/ Mount \/ Leave \/ Discard \/ Submit
    \/ \E id \in Id : TakeAway(id)
    \/ (\E p \in Plans : ChoosePlan(p)) \/ (\E ds \in SUBSET Dates : AddDates(ds))
Saving == SavePut \/ (\E id \in todo : SaveRemove(id)) \/ Removed \/ SaveAdd \/ Lost \/ Saved
Next == Owner \/ Saving \/ ReadDue \/ RollOn \/ Tomorrow \/ Elsewhere

Spec == Init /\ [][Next]_vars
\* The job runs every hour.
FairSpec == Spec /\ WF_vars(ReadDue) /\ WF_vars(RollOn)

-----------------------------------------------------------------------------
\* The schedule never lays a window of its own over another: the form, the job and a removal that
\* brings the weekly hours back work on the same windows (apply_schedule).
GeneratedApart == \A s, t \in slots : s.gen /\ t.gen /\ s.at = t.at => s = t

\* When the form says it is saved, what the owner took away is gone, whatever failed before.
SavedMeansRemoved == [][Saved => gone \cap Ids = {}]_vars

\* A listing with a schedule is rolled on to every new horizon, unless the bound on windows is met.
Full == \E p \in rolling \cup {spec} : count + Cardinality(Free(p, slots)) > MaxSlot
RollsOn == spec # {} /\ until < day ~> until = day \/ spec = {} \/ Full

\* "Editing: the windows already listed stay unless removed" (AddListing.tsx).
OnlyRemovedGo == gone \subseteq dropped

\* "the windows the schedule made are gone" once it is stopped (GUIDE.md).
StoppedIsGone == spec = {} => \A s \in slots : ~s.gen
=============================================================================
