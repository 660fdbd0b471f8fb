----------------------------- MODULE MCScheduler -----------------------------
(* Scheduler for TLC: two plans, two times of day, minutes of three polls.   *)
EXTENDS Scheduler, TLC

CONSTANTS lvgl, mqtt, nobody, a, b

Plan(p, t, n, e, d) ==
  [plan |-> p, time |-> t, amount |-> n, enabled |-> e, every |-> d]

MCEditors == {lvgl, mqtt}
EditorSymmetry == Permutations(MCEditors)
MCPlans   == {a, b}

\* A plan that is moved, one that is given out of range, one that is disabled.
MCInputs  == {Plan(a, 0, 1, TRUE, 1), Plan(a, 1, 1, TRUE, 1), Plan(b, 0, 0, TRUE, 2),
              Plan(b, 1, 2, FALSE, 1)}
MCFirst   == {<<Plan(a, 0, 1, TRUE, 1), Plan(b, 0, 2, TRUE, 1)>>,
              <<Plan(a, 1, 2, TRUE, 2)>>}
MCLists   == {<<Plan(a, 0, 1, TRUE, 1)>>, <<Plan(b, 0, 2, TRUE, 1), Plan(a, 0, 1, TRUE, 1)>>}

\* bounds.lately counts for the proof alone: no step and no property of the run
\* depends on it, so states that differ in it only are one.
MCView == <<listVars, mutex, edit, sched, clockVars, ghosts, [bounds EXCEPT !.lately = 0]>>
=============================================================================
