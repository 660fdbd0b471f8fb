----------------------------- MODULE ScheduleList -----------------------------
(***************************************************************************)
(* The list of feeding schedules of driver/src/feeding_schedule.c as data: *)
(* the array s_items with its counter, and what the editing functions do   *)
(* to them.  The steps of those functions are in the modules that use the  *)
(* list: Scheduler (the task that triggers feeds) and ScheduleStore (NVS). *)
(***************************************************************************)
EXTENDS Integers

CONSTANTS MaxItems,        \* MAX_SCHEDULE_ITEMS, 8
          MaxAmount,       \* 6 slots
          MaxEvery,        \* MAX_EVERY_DAYS, 7
          MinutesPerDay    \* 24 * 60: a time of day is its number of minutes

ASSUME ListAssumption ==
  /\ MaxItems \in Nat \ {0}
  /\ MaxAmount \in Nat \ {0}
  /\ MaxEvery \in Nat \ {0}
  /\ MinutesPerDay \in Nat \ {0}

Slots == 0..(MaxItems - 1)

Clamp(n, lo, hi) == IF n < lo THEN lo ELSE IF n > hi THEN hi ELSE n

\* sanitize_item.  An hour or a minute out of range becomes 0; with the time as
\* one number that is the time 0.
Sanitize(x) ==
  [x EXCEPT !.time   = IF @ < MinutesPerDay THEN @ ELSE 0,
            !.amount = Clamp(@, 1, MaxAmount),
            !.every  = Clamp(@, 1, MaxEvery)]

Sane(x) == Sanitize(x) = x

\* The loop of feed_schedule_remove_item on one of its arrays, of which the
\* first n cells are in use: what lies above index i moves down by one, and the
\* last cell keeps its content.
Close(f, i, n) ==
  [k \in DOMAIN f |-> IF i <= k /\ k + 1 < n THEN f[k + 1] ELSE f[k]]

\* The first n cells of f, replaced by those of the sequence s of length n.
Overwrite(f, s, n) ==
  [k \in DOMAIN f |-> IF k < n THEN s[k + 1] ELSE f[k]]
=============================================================================
