------------------------------ MODULE Scheduler ------------------------------
(***************************************************************************)
(* The feeding scheduler of driver/src/feeding_schedule.c: a task that once *)
(* a second compares the clock with every entry of the list, while the     *)
(* LVGL task and the MQTT task edit the list.  The mutex is given back     *)
(* around the callback, and the amount is read without it.                 *)
(*                                                                         *)
(* An entry carries the name of the user's plan (plan, which the code does *)
(* not have), so that properties can follow a plan while its index moves.  *)
(***************************************************************************)
EXTENDS ScheduleList, Sequences

CONSTANTS Editors,        \* the LVGL task and the MQTT task
          Nobody,         \* the mutex is free
          Plans,          \* the names of the plans
          Inputs,         \* the entries that editors write, before sanitizing
          Lists,          \* the lists that a sync_schedules command brings
          FirstLists,     \* the lists that may be loaded at boot
          Minute,         \* 60: polls of the scheduler in a minute
          Days,           \* bound: days that the clock shows
          MaxEdits,       \* bound: edits of the list
          MaxSets,        \* bound: times that SNTP sets the clock
          MaxReboots      \* bound: restarts of the device

\* Entries as editors write them: feed_schedule_item_t has bytes for the numbers.
Items == [plan : Plans, time : Nat, amount : Nat, enabled : BOOLEAN, every : Nat]

\* The lists that arrive have one entry to a plan; those of a boot are sanitized.
ASSUME SchedulerAssumption ==
  /\ Nobody \notin Editors
  /\ Minute \in Nat \ {0} /\ Days \in Nat \ {0}
  /\ MaxEdits \in Nat /\ MaxSets \in Nat /\ MaxReboots \in Nat
  /\ Inputs \subseteq Items
  /\ \A s \in Lists \cup FirstLists :
       /\ s \in Seq(Items) /\ Len(s) <= MaxItems
       /\ \A j, k \in 1..Len(s) : s[j].plan = s[k].plan => j = k
  /\ \A s \in FirstLists : \A k \in 1..Len(s) : Sane(s[k])

VARIABLES
  items,    \* s_items, the whole array
  count,    \* s_count
  last,     \* s_last_triggered
  mutex,    \* who holds s_mutex
  edit,     \* the rest of the edit that the holder is making
  sched,    \* the scheduler: its place and its locals
  now,      \* the clock, in polls since the first midnight
  valid,    \* time_valid: the year is at least 2024
  polled,   \* the scheduler has read the clock in this second
  bounds,   \* how many edits, settings of the clock and restarts there were,
            \* and how many of the edits began in this minute (lately)
  lastFed,  \* history: when each plan was last fed
  watch,    \* history: the plans due since the minute began
  owed      \* history: the plans that a minute left unfed

listVars  == <<items, count, last>>
clockVars == <<now, valid, polled>>
ghosts    == <<lastFed, watch, owed>>
schedulerVars == <<listVars, mutex, edit, sched, clockVars, bounds, ghosts>>

Day    == Minute * MinutesPerDay
Never  == -Minute            \* s_last_triggered is 0, far in the past
End    == Days * Day - 1     \* the clock stops here
Blank  == [plan |-> "none", time |-> 0, amount |-> 0, enabled |-> FALSE, every |-> 0]
NoEdit == [op |-> "none"]
SchedPCs == {"sleep", "day", "scan", "callback", "called"}
Asleep == [pc |-> "sleep", t |-> 0, day |-> 0, i |-> 0, got |-> Blank]

MinuteOf(t) == (t \div Minute) % MinutesPerDay
DayOf(t)    == t \div Day

Due(x, minute, day) == x.enabled /\ x.time = minute /\ day % x.every = 0

\* The plans of a list that are due at t.
DuePlans(list, n, t) ==
  {list[k].plan : k \in {j \in Slots : j < n /\ Due(Sanitize(list[j]), MinuteOf(t), DayOf(t))}}

Used == {items[k].plan : k \in {j \in Slots : j < count}}

\* A list in memory that was loaded or brought as the sequence s.
Loaded(s) == Overwrite([k \in Slots |-> Blank], s, Len(s))

SchedulerInit ==
  /\ \E s \in FirstLists : items = Loaded(s) /\ count = Len(s)
  /\ last = [k \in Slots |-> Never]
  /\ mutex = Nobody
  /\ edit = NoEdit
  /\ sched = Asleep
  /\ now = 0
  /\ valid = FALSE
  /\ polled = FALSE
  /\ bounds = [edits |-> 0, sets |-> 0, reboots |-> 0, lately |-> 0]
  /\ lastFed = [p \in Plans |-> Never]
  /\ watch = {}
  /\ owed = {}
-----------------------------------------------------------------------------
\* An edit takes the mutex for as long as it lasts.
Lock(t) ==
  /\ mutex = Nobody
  /\ bounds.edits < MaxEdits
  /\ bounds' = [bounds EXCEPT !.edits = @ + 1, !.lately = @ + 1]
  /\ mutex' = t

Unlock(t) == mutex = t /\ mutex' = Nobody /\ edit' = NoEdit /\ UNCHANGED bounds

\* A plan that an edit takes away, disables or moves is no longer expected.
StillDue ==
  /\ watch' = watch \cap DuePlans(items', count', now)
  /\ owed'  = owed \cap {items'[k].plan : k \in {j \in Slots : j < count' /\ items'[j].enabled}}
  /\ UNCHANGED lastFed

\* feed_schedule_set_item: the entry is copied, then sanitized in place.
SetItem(t, i, x) ==
  /\ i < count /\ x.plan = items[i].plan
  /\ Lock(t)
  /\ items' = [items EXCEPT ![i] = x]
  /\ edit' = [op |-> "set", i |-> i]
  /\ UNCHANGED <<count, last, sched, clockVars>>
  /\ StillDue

SetItemEnd(t) ==
  /\ edit.op = "set"
  /\ Unlock(t)
  /\ items' = [items EXCEPT ![edit.i] = Sanitize(@)]
  /\ UNCHANGED <<count, last, sched, clockVars>>
  /\ StillDue

\* feed_schedule_add_item: a new plan, as long as there is room.  A new plan has
\* a name of its own, not that of one that was fed before.
AddItem(t, x) ==
  /\ count < MaxItems
  /\ x.plan \notin Used /\ lastFed[x.plan] = Never
  /\ Lock(t)
  /\ items' = [items EXCEPT ![count] = x]
  /\ edit' = [op |-> "add"]
  /\ UNCHANGED <<count, last, sched, clockVars, ghosts>>

AddItemEnd(t) ==
  /\ edit.op = "add"
  /\ Unlock(t)
  /\ items' = [items EXCEPT ![count] = Sanitize(@)]
  /\ last' = [last EXCEPT ![count] = Never]
  /\ count' = count + 1
  /\ UNCHANGED <<sched, clockVars>>
  /\ StillDue

\* feed_schedule_replace_all: entries are copied and sanitized one by one under
\* the mutex; without it a reader sees the old, the copied or the final entry.
ReplaceAll(t, s) ==
  /\ Lock(t)
  /\ items' = Overwrite(items, s, Len(s))
  /\ edit' = [op |-> "replace", n |-> Len(s)]
  /\ UNCHANGED <<count, last, sched, clockVars, ghosts>>

ReplaceAllEnd(t) ==
  /\ edit.op = "replace"
  /\ Unlock(t)
  /\ items' = [k \in Slots |-> IF k < edit.n THEN Sanitize(items[k]) ELSE items[k]]
  /\ last' = [k \in Slots |-> IF k < edit.n THEN Never ELSE last[k]]
  /\ count' = edit.n
  /\ UNCHANGED <<sched, clockVars>>
  /\ StillDue

\* Mutant: the trigger times do not move with the entries.
RemoveItemOnly(i) ==
  /\ i < count
  /\ mutex = Nobody /\ bounds.edits < MaxEdits
  /\ bounds' = [bounds EXCEPT !.edits = @ + 1, !.lately = @ + 1]
  /\ items' = Close(items, i, count)
  /\ count' = count - 1
  /\ UNCHANGED <<last, mutex, edit, sched, clockVars>>
  /\ StillDue

\* feed_schedule_remove_item.
RemoveItem(i) ==
  /\ i < count
  /\ mutex = Nobody /\ bounds.edits < MaxEdits
  /\ bounds' = [bounds EXCEPT !.edits = @ + 1, !.lately = @ + 1]
  /\ items' = Close(items, i, count)
  /\ last' = Close(last, i, count)
  /\ count' = count - 1
  /\ UNCHANGED <<mutex, edit, sched, clockVars>>
  /\ StillDue
-----------------------------------------------------------------------------
\* scheduler_task_func: once a second, when the clock is valid, it is read ...
Sample ==
  /\ sched.pc = "sleep"
  /\ valid /\ ~polled
  /\ polled' = TRUE
  /\ sched' = [sched EXCEPT !.pc = "day", !.t = now]
  /\ UNCHANGED <<listVars, mutex, edit, now, valid, bounds, ghosts>>

\* ... and once more by get_local_day_index.
SampleDay ==
  /\ sched.pc = "day"
  /\ sched' = [sched EXCEPT !.pc = "scan", !.day = DayOf(now), !.i = 0]
  /\ UNCHANGED <<listVars, mutex, edit, clockVars, bounds, ghosts>>

\* Mutant: the loop ends before the last entry.
HitsButLast ==
  {k \in Slots : /\ sched.i <= k /\ k + 1 < count
                 /\ Due(items[k], MinuteOf(sched.t), sched.day)
                 /\ sched.t - last[k] >= Minute}

\* Mutant: only a second trigger in the same second is held back.
HitsSameSecond ==
  {k \in Slots : /\ sched.i <= k /\ k < count
                 /\ Due(items[k], MinuteOf(sched.t), sched.day)
                 /\ sched.t # last[k]}

\* The entries from index i on that are to be triggered in this pass.
Hits ==
  {k \in Slots : /\ sched.i <= k /\ k < count
                 /\ Due(items[k], MinuteOf(sched.t), sched.day)
                 /\ sched.t - last[k] >= Minute}

\* With the mutex: the first of them is marked, and the mutex given back.
Trigger ==
  /\ sched.pc = "scan" /\ mutex = Nobody
  /\ \E k \in Hits :
       /\ \A j \in Hits : k <= j
       /\ last' = [last EXCEPT ![k] = sched.t]
       /\ sched' = [sched EXCEPT !.pc = "callback", !.i = k]
       /\ lastFed' = [lastFed EXCEPT ![items[k].plan] = sched.t]
       /\ owed' = owed \ {items[k].plan}
  /\ UNCHANGED <<items, count, mutex, edit, clockVars, bounds, watch>>

\* Without it: the callback gets the amount that is in the array by now.
Callback ==
  /\ sched.pc = "callback"
  /\ sched' = [sched EXCEPT !.pc = "called", !.got = items[sched.i]]
  /\ UNCHANGED <<listVars, mutex, edit, clockVars, bounds, ghosts>>

Continue ==
  /\ sched.pc = "called"
  /\ sched' = [sched EXCEPT !.pc = "scan", !.i = @ + 1, !.got = Blank]
  /\ UNCHANGED <<listVars, mutex, edit, clockVars, bounds, ghosts>>

PassEnds ==
  /\ sched.pc = "scan" /\ mutex = Nobody
  /\ Hits = {}
  /\ sched' = Asleep
  /\ UNCHANGED <<listVars, mutex, edit, clockVars, bounds, ghosts>>
-----------------------------------------------------------------------------
\* The plans that must be fed in the minute that begins at t, unless an edit or
\* a jump of the clock takes them out: those that are due and have not been fed
\* in the minute before.
Expected(t) == {p \in DuePlans(items, count, t) : lastFed[p] <= t - Minute}

\* A second passes; the scheduler's delay is a second too, so it has read the
\* clock meanwhile.  Before the first synchronisation the clock does not matter.
Tick ==
  /\ now < End
  /\ valid /\ polled
  /\ now' = now + 1
  /\ polled' = FALSE
  /\ IF now' % Minute # 0 THEN UNCHANGED <<watch, owed, bounds>>
     ELSE /\ watch' = Expected(now')
          /\ owed'  = {p \in watch : lastFed[p] <= now - Minute}
          /\ bounds' = [bounds EXCEPT !.lately = 0]
  /\ UNCHANGED <<listVars, mutex, edit, sched, valid, lastFed>>

\* time_sync_cb: SNTP sets the clock at once (SNTP_SYNC_MODE_IMMED), the first
\* time and whenever the device synchronises again.
SetClock(t) ==
  /\ bounds.sets < MaxSets
  /\ bounds' = [bounds EXCEPT !.sets = @ + 1]
  /\ now' = t
  /\ valid' = TRUE
  /\ polled' = FALSE
  /\ watch' = {} /\ owed' = {}
  /\ UNCHANGED <<listVars, mutex, edit, sched, lastFed>>

\* A restart: the saved list is loaded, the trigger times are forgotten, and
\* the clock goes on in the RTC.
Reboot ==
  /\ mutex = Nobody
  /\ bounds.reboots < MaxReboots
  /\ bounds' = [bounds EXCEPT !.reboots = @ + 1]
  /\ items' = [k \in Slots |-> IF k < count THEN items[k] ELSE Blank]
  /\ last' = [k \in Slots |-> Never]
  /\ sched' = Asleep
  /\ polled' = FALSE
  /\ watch' = {} /\ owed' = {}
  /\ UNCHANGED <<count, mutex, edit, now, valid, lastFed>>

\* The bound Days is reached.
AtHorizon == now = End /\ UNCHANGED schedulerVars

EditStep ==
  \/ \E t \in Editors :
       \/ \E x \in Inputs : AddItem(t, x) \/ \E i \in Slots : SetItem(t, i, x)
       \/ \E s \in Lists : ReplaceAll(t, s)
       \/ SetItemEnd(t) \/ AddItemEnd(t) \/ ReplaceAllEnd(t)
  \/ \E i \in Slots : RemoveItem(i)

ScanStep == Sample \/ SampleDay \/ Trigger \/ Callback \/ Continue \/ PassEnds

SchedulerNext ==
  \/ EditStep \/ ScanStep
  \/ Tick \/ \E t \in 0..End : SetClock(t)
  \/ Reboot
  \/ AtHorizon

SchedulerSpec == SchedulerInit /\ [][SchedulerNext]_schedulerVars
-----------------------------------------------------------------------------
\* Types of the scheduler's state; outside an edit the entries in use are sane.
SchedulerTypeOK ==
  /\ count \in 0..MaxItems
  /\ DOMAIN items = Slots /\ DOMAIN last = Slots
  /\ mutex = Nobody => \A k \in Slots : k < count => Sane(items[k])
  /\ \A k \in Slots : last[k] \in {Never} \cup 0..End
  /\ mutex \in Editors \cup {Nobody}
  /\ mutex = Nobody <=> edit = NoEdit
  /\ sched.pc \in SchedPCs
  /\ sched.i \in 0..MaxItems
  /\ now \in 0..End

\* Outside an edit the trigger time kept at an index is the last feed of the
\* plan that is there, or it was forgotten: the cooldown follows the plan while
\* entries move, change and come and go between the scheduler's unlock and lock.
CooldownFollowsPlan ==
  mutex = Nobody =>
    \A k \in Slots : k < count /\ last[k] # Never => last[k] = lastFed[items[k].plan]

\* So a plan is fed twice within a minute only when a synchronised list or a
\* restart has made the device forget that it was fed.
Forgotten == {items[k].plan : k \in {j \in Slots : j < count /\ last[j] = Never}}

FedOnceUnlessForgotten ==
  [][\A p \in Plans \ Forgotten : lastFed'[p] # lastFed[p] =>
       lastFed'[p] - lastFed[p] >= Minute]_schedulerVars

\* "The feeding scheduler checks enabled schedules once per second"
\* (README.md:73): a plan that is due for a whole minute is fed in it, although
\* an edit that closes a gap makes a pass skip an entry.
NoFeedMissed == sched.pc = "sleep" => owed = {}

\* Why the cooldown follows.  What an edit under way has left to do ...
EditUnderWay ==
  /\ edit \in {NoEdit} \cup [op : {"set"}, i : Slots] \cup [op : {"add"}]
                        \cup [op : {"replace"}, n : 0..MaxItems]
  /\ edit.op = "set" => edit.i < count
  /\ edit.op = "add" => count < MaxItems

\* ... the entries it will leave, which name each plan once, ...
Written == CASE edit.op = "add" -> count + 1
             [] edit.op = "replace" -> edit.n
             [] OTHER -> count

PlansOnce ==
  /\ \A k \in Slots : k < Written => items[k] \in Items
  /\ \A j, k \in Slots :
       j < Written /\ k < Written /\ items[j].plan = items[k].plan => j = k

\* ... and what of the entries holds before it is over.
Settled ==
  edit.op # "replace" =>
    \A k \in Slots : k < count =>
      /\ (edit.op = "set" /\ edit.i = k) \/ Sane(items[k])
      /\ last[k] # Never => last[k] = lastFed[items[k].plan]

\* The inductive invariant of the scheduler.
SchedulerInv ==
  /\ SchedulerTypeOK
  /\ items \in [Slots -> Items \cup {Blank}]
  /\ last \in [Slots -> {Never} \cup 0..End]
  /\ lastFed \in [Plans -> {Never} \cup 0..End]
  /\ sched \in [pc : SchedPCs, t : 0..End, day : Int, i : 0..MaxItems,
                got : Items \cup {Blank}]
  /\ sched.pc \in {"callback", "called"} => sched.i \in Slots
  /\ EditUnderWay
  /\ PlansOnce
  /\ Settled

\* Why no feed is missed.  Plans that must be fed are due as long as nobody is
\* in the middle of an edit, ...
WatchIsDue ==
  /\ watch \subseteq Plans
  /\ mutex = Nobody => watch \subseteq DuePlans(items, count, now)

\* ... a pass works with the time of its own second, and from the second second
\* of a minute on with the day of that minute, ...
PassReadsClock ==
  sched.pc # "sleep" =>
    /\ polled => sched.t = now
    /\ watch # {} /\ ~polled => sched.t = now - 1
    /\ watch # {} /\ (polled \/ now % Minute # 0) /\ sched.pc # "day" =>
         sched.day = DayOf(now)

\* ... and every pass of the minute that is over and left a plan unfed lost it to
\* an edit that began in this minute.  The passes are counted from -1: that of
\* the last second of the minute before may still go on.
MinuteStart == now - (now % Minute)

PassesOver ==
  (now % Minute) + (IF sched.pc = "sleep" THEN (IF polled THEN 1 ELSE 0)
                                          ELSE (IF polled THEN 0 ELSE -1))

Ahead(p) ==
  \/ sched.pc = "day"
  \/ sched.pc = "scan" /\ sched.i = 0
  \/ mutex = Nobody /\ \E k \in Slots :
       /\ k < count /\ items[k].plan = p
       /\ sched.i <= k /\ (sched.pc # "scan" => sched.i # k)

Unfed(p) == lastFed[p] < MinuteStart

SkippedByEdits ==
  \A p \in watch : Unfed(p) =>
    /\ lastFed[p] <= MinuteStart - Minute
    /\ PassesOver <= bounds.lately
    /\ sched.pc # "sleep" /\ ~Ahead(p) => PassesOver < bounds.lately

WatchInv ==
  /\ bounds \in [edits : Nat, sets : Nat, reboots : Nat, lately : Nat]
  /\ WatchIsDue
  /\ PassReadsClock
  /\ SkippedByEdits

\* At least two polls of a minute more than edits in it.
FewEdits == bounds.lately + 1 < Minute
=============================================================================
