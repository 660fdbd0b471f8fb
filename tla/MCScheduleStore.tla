--------------------------- MODULE MCScheduleStore ---------------------------
(* ScheduleStore for TLC: a list of at most three entries, two kinds of entry *)
(* and the flash of a new device, of an old firmware, of this firmware.      *)
EXTENDS ScheduleStore

CONSTANTS lvgl, mqtt, main, nobody, absent, a, b, c

Plan(p, n, e) == [plan |-> p, time |-> 0, amount |-> n, enabled |-> TRUE, every |-> e]

Flash(s, old) ==
  [count |-> Len(s),
   item  |-> [k \in Slots |-> IF k < Len(s) THEN [x |-> s[k + 1], legacy |-> old] ELSE Absent]]

MCPlans  == {a, b, c}
MCInputs == {Plan(a, 9, 1), Plan(c, 1, 2)}
MCLists  == {<<>>, <<Plan(b, 2, 1), Plan(c, 1, 1)>>}
NewFlash == [count |-> Absent, item |-> [k \in Slots |-> Absent]]
MCFlash  == {NewFlash, Flash(<<Plan(a, 9, 0), Plan(b, 1, 0)>>, TRUE),
             Flash(<<Plan(a, 1, 1), Plan(b, 2, 1)>>, FALSE)}
=============================================================================
