---------------------------- MODULE ScheduleStore ----------------------------
(***************************************************************************)
(* The list of feeding schedules on flash: feed_schedule_save and          *)
(* feed_schedule_load of driver/src/feeding_schedule.c.  A save writes the *)
(* counter and then one NVS key per entry; the power may go, or NVS refuse *)
(* a write, between any two of them.  The LVGL task edits the list and     *)
(* saves it when the user taps Save, the MQTT task after every command,    *)
(* and the main task, at boot, when the entries are of the old format.     *)
(***************************************************************************)
EXTENDS ScheduleList, Sequences

CONSTANTS UiTask, CloudTask, MainTask,
          Plans,         \* what the feedings are for: the names of the entries
          Nobody,        \* the mutex is free
          Absent,        \* an NVS key that does not exist
          Inputs,        \* the entries that editors write
          Lists,         \* the lists that a sync_schedules command brings
          FirstFlash,    \* the contents of the flash that the firmware finds
          MaxEdits,      \* bound: edits of the list
          MaxFailures,   \* bound: operations that NVS refuses
          MaxCrashes     \* bound: power cuts

Entries == [plan : Plans, time : Nat, amount : Nat, enabled : BOOLEAN, every : Nat]

\* An entry on flash, in the old format or in the new one, and all of the flash.
Cells   == [x : Entries, legacy : BOOLEAN]
Flashes == [count : {Absent} \cup 0..MaxItems, item : [Slots -> Cells \cup {Absent}]]

ASSUME StoreAssumption ==
  /\ MaxEdits \in Nat /\ MaxFailures \in Nat /\ MaxCrashes \in Nat
  /\ Nobody \notin {UiTask, CloudTask, MainTask}
  /\ Absent \notin Nat /\ Absent \notin Cells
  /\ Inputs \subseteq Entries
  /\ \A s \in Lists : s \in Seq(Entries) /\ Len(s) <= MaxItems
  /\ FirstFlash \subseteq Flashes

VARIABLES
  items,    \* s_items
  count,    \* s_count
  mutex,    \* who holds s_mutex
  saving,   \* saving[t]: how far t is in feed_schedule_save
  up,       \* the firmware has booted
  nvs,      \* the flash: the counter and the entries, with their format
  bounds,   \* how many edits, failures and power cuts there were
  saved,    \* history: the list of the last save that returned ESP_OK
  dirty,    \* history: a later save has begun to write
  begun     \* history: the lists that such saves were to write

memory    == <<items, count, mutex, saving>>
ghosts    == <<saved, dirty, begun>>
storeVars == <<memory, up, nvs, bounds, ghosts>>

Tasks == {UiTask, CloudTask, MainTask}
Blank == [plan |-> "none", time |-> 0, amount |-> 0, enabled |-> FALSE, every |-> 0]
Idle  == [pc |-> "idle", k |-> 0, n |-> 0]

\* nvs_get_blob of an entry: one of the old format has four bytes and no
\* interval; it is fed every day.
Entry(cell) ==
  Sanitize(IF cell.legacy THEN [cell.x EXCEPT !.every = 1] ELSE cell.x)

\* What feed_schedule_load makes of the flash: the entries up to the counter,
\* or up to the first one that cannot be read.
Recovered(flash) ==
  IF flash.count = Absent THEN <<>>
  ELSE LET n == CHOOSE m \in 0..flash.count :
                  /\ \A k \in Slots : k < m => flash.item[k] # Absent
                  /\ m = flash.count \/ flash.item[m] = Absent
       IN [k \in 1..n |-> Entry(flash.item[k - 1])]

Migrates(flash) ==
  \E k \in Slots : /\ k < Len(Recovered(flash))
                   /\ flash.item[k].legacy

InMemory == [k \in 1..count |-> items[k - 1]]

StoreInit ==
  /\ items = [k \in Slots |-> Blank]
  /\ count = 0
  /\ mutex = Nobody
  /\ saving = [t \in Tasks |-> Idle]
  /\ up = FALSE
  /\ nvs \in FirstFlash
  /\ bounds = [edits |-> 0, failures |-> 0, crashes |-> 0]
  /\ saved = Recovered(nvs)
  /\ dirty = FALSE
  /\ begun = {}

Place(t, pc) == saving' = [saving EXCEPT ![t].pc = pc]
Count(what, max) == bounds[what] < max /\ bounds' = [bounds EXCEPT ![what] = @ + 1]
-----------------------------------------------------------------------------
\* Mutant: the counter is set after the migration has been saved.
LoadCountsLate ==
  /\ ~up
  /\ up' = TRUE
  /\ items' = Overwrite(items, Recovered(nvs), Len(Recovered(nvs)))
  /\ count' = IF Migrates(nvs) THEN 0 ELSE Len(Recovered(nvs))
  /\ saving' = [saving EXCEPT ![MainTask].pc = IF Migrates(nvs) THEN "open" ELSE "idle"]
  /\ UNCHANGED <<mutex, nvs, bounds, ghosts>>

\* feed_schedule_load, in the main task before the others are started; entries
\* of the old format are saved in the new one.
Load ==
  /\ ~up
  /\ up' = TRUE
  /\ items' = Overwrite(items, Recovered(nvs), Len(Recovered(nvs)))
  /\ count' = Len(Recovered(nvs))
  /\ saving' = [saving EXCEPT ![MainTask].pc = IF Migrates(nvs) THEN "open" ELSE "idle"]
  /\ UNCHANGED <<mutex, nvs, bounds, ghosts>>

\* NVS cannot be opened: the device works with an empty list.
LoadFails ==
  /\ ~up
  /\ Count("failures", MaxFailures)
  /\ up' = TRUE
  /\ UNCHANGED <<memory, nvs, ghosts>>

\* The power goes; the memory with it.
PowerCut ==
  /\ up
  /\ Count("crashes", MaxCrashes)
  /\ up' = FALSE
  /\ items' = [k \in Slots |-> Blank]
  /\ count' = 0
  /\ mutex' = Nobody
  /\ saving' = [t \in Tasks |-> Idle]
  /\ UNCHANGED <<nvs, ghosts>>
-----------------------------------------------------------------------------
\* The list after set_item, add_item, remove_item or replace_all, each of them
\* under the mutex; a call that is refused leaves the list alone.
SetItem(i, x) ==
  /\ i < count
  /\ items' = [items EXCEPT ![i] = Sanitize(x)]
  /\ UNCHANGED count

\* Mutant: a new entry is not sanitized.
AddItemRaw(x) ==
  /\ count < MaxItems
  /\ items' = [items EXCEPT ![count] = x]
  /\ count' = count + 1

AddItem(x) ==
  /\ count < MaxItems
  /\ items' = [items EXCEPT ![count] = Sanitize(x)]
  /\ count' = count + 1

RemoveItem(i) ==
  /\ i < count
  /\ items' = Close(items, i, count)
  /\ count' = count - 1

ReplaceAll(s) ==
  /\ items' = [k \in Slots |-> IF k < Len(s) THEN Sanitize(s[k + 1]) ELSE items[k]]
  /\ count' = Len(s)

Refused == count = MaxItems /\ UNCHANGED <<items, count>>

OneItem == \/ \E x \in Inputs : AddItem(x) \/ \E i \in Slots : SetItem(i, x)
           \/ \E i \in Slots : RemoveItem(i)

MayEdit(t) ==
  /\ up /\ saving[MainTask].pc = "idle" /\ saving[t].pc = "idle"
  /\ mutex = Nobody

\* The dialog of feeding_page.c edits the list, and its Save button saves it.
EditByHand ==
  /\ MayEdit(UiTask)
  /\ Count("edits", MaxEdits)
  /\ OneItem
  /\ UNCHANGED <<mutex, saving, up, nvs, ghosts>>

SaveButton ==
  /\ up /\ saving[MainTask].pc = "idle" /\ saving[UiTask].pc = "idle"
  /\ Place(UiTask, "open")
  /\ UNCHANGED <<items, count, mutex, up, nvs, bounds, ghosts>>

\* on_cloud_command: an edit, and a save whether the edit was made or refused.
EditByCloud ==
  /\ MayEdit(CloudTask)
  /\ Count("edits", MaxEdits)
  /\ OneItem \/ Refused \/ \E s \in Lists : ReplaceAll(s)
  /\ Place(CloudTask, "open")
  /\ UNCHANGED <<mutex, up, nvs, ghosts>>
-----------------------------------------------------------------------------
\* Mutant: the mutex is not taken.
SaveUnlocked(t) ==
  /\ saving[t].pc = "open"
  /\ saving' = [saving EXCEPT ![t] = [pc |-> "count", k |-> 0, n |-> count]]
  /\ UNCHANGED <<items, count, mutex, up, nvs, bounds, ghosts>>

\* feed_schedule_save: NVS is opened, then the mutex taken, ...
SaveLock(t) ==
  /\ saving[t].pc = "open"
  /\ mutex = Nobody
  /\ mutex' = t
  /\ saving' = [saving EXCEPT ![t] = [pc |-> "count", k |-> 0, n |-> count]]
  /\ UNCHANGED <<items, count, up, nvs, bounds, ghosts>>

\* Mutant: the old entries are erased first.
EraseAll(t) ==
  /\ saving[t].pc = "count"
  /\ nvs' = [count |-> saving[t].n, item |-> [k \in Slots |-> Absent]]
  /\ dirty' = TRUE
  /\ begun' = begun \cup {InMemory}
  /\ Place(t, "item")
  /\ UNCHANGED <<items, count, mutex, up, bounds, saved>>

\* ... the counter written, ...
WriteCount(t) ==
  /\ saving[t].pc = "count"
  /\ nvs' = [nvs EXCEPT !.count = saving[t].n]
  /\ dirty' = TRUE
  /\ begun' = begun \cup {InMemory}
  /\ Place(t, "item")
  /\ UNCHANGED <<items, count, mutex, up, bounds, saved>>

\* ... the entries one after the other, ...
WriteItem(t) ==
  /\ saving[t].pc = "item" /\ saving[t].k < saving[t].n
  /\ nvs' = [nvs EXCEPT !.item[saving[t].k] = [x |-> items[saving[t].k], legacy |-> FALSE]]
  /\ saving' = [saving EXCEPT ![t].k = @ + 1]
  /\ UNCHANGED <<items, count, mutex, up, bounds, ghosts>>

\* ... and the mutex given back when everything is committed.
Commit(t) ==
  /\ saving[t].pc = "item" /\ saving[t].k = saving[t].n
  /\ mutex' = Nobody
  /\ saving' = [saving EXCEPT ![t] = Idle]
  /\ saved' = InMemory
  /\ dirty' = FALSE
  /\ begun' = {}
  /\ UNCHANGED <<items, count, up, nvs, bounds>>

\* Any of these operations may fail; the save stops there and says so.
SaveFails(t) ==
  /\ saving[t].pc # "idle"
  /\ Count("failures", MaxFailures)
  /\ mutex' = IF mutex = t THEN Nobody ELSE mutex
  /\ saving' = [saving EXCEPT ![t] = Idle]
  /\ UNCHANGED <<items, count, up, nvs, ghosts>>

SaveStep(t) == SaveLock(t) \/ WriteCount(t) \/ WriteItem(t) \/ Commit(t) \/ SaveFails(t)

StoreNext ==
  \/ Load \/ LoadFails \/ PowerCut
  \/ EditByHand \/ SaveButton \/ EditByCloud
  \/ \E t \in Tasks : SaveStep(t)

StoreSpec == StoreInit /\ [][StoreNext]_storeVars
-----------------------------------------------------------------------------
\* Types of the store's state.
StoreTypeOK ==
  /\ count \in 0..MaxItems
  /\ items \in [Slots -> Entries \cup {Blank}]
  /\ \A k \in Slots : k < count => items[k] \in Entries /\ Sane(items[k])
  /\ nvs \in Flashes
  /\ mutex \in Tasks \cup {Nobody}
  /\ saving \in [Tasks -> [pc : {"idle", "open", "count", "item"},
                          k : 0..MaxItems, n : 0..MaxItems]]
  /\ \A t \in Tasks : saving[t].k <= saving[t].n
  /\ up \in BOOLEAN /\ dirty \in BOOLEAN
  /\ bounds \in [edits : 0..MaxEdits, failures : 0..MaxFailures, crashes : 0..MaxCrashes]
  /\ saved \in Seq(Entries) /\ begun \subseteq Seq(Entries)

\* "with NVS persistence" (README.md:14): unless a later save has begun to
\* write, a restart brings back exactly the list of the last save that succeeded
\* (the page says "Saved!"), whoever edited and saved meanwhile.
SavedListSurvives == ~dirty => Recovered(nvs) = saved

\* A save that is cut short, or several in a row, cannot harm the entries that
\* it does not change: they are recovered, at their index.
UntouchedSurvives ==
  \A k \in 1..Len(saved) :
    (\A s \in begun : k <= Len(s) /\ s[k] = saved[k]) =>
      k <= Len(Recovered(nvs)) /\ Recovered(nvs)[k] = saved[k]

\* "Legacy item format detected, upgrading schedule data" (feeding_schedule.c:133):
\* a migration, interrupted anywhere and begun again, keeps every plan.
MigrationKeepsPlans ==
  bounds.edits = 0 /\ bounds.failures = 0 => Recovered(nvs) = saved
=============================================================================
