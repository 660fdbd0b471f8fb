--------------------------- MODULE SchedulerProofs ---------------------------
(***************************************************************************)
(* Proofs about the scheduler, for lists of every length, every number of  *)
(* editing tasks, every clock and every number of edits and restarts.      *)
(***************************************************************************)
EXTENDS Scheduler, TLAPS

(***************************************************************************)
(* The numbers of the list and of the clock.                               *)
(***************************************************************************)
LEMMA ClockNumbers ==
  /\ Day \in Nat \ {0}
  /\ End \in Nat
  /\ Never \in Int
  /\ MaxItems \in Nat \ {0}
  <1>1. Minute \in Nat \ {0} /\ MinutesPerDay \in Nat \ {0} /\ Days \in Nat \ {0}
    BY SchedulerAssumption, ListAssumption
  <1>2. Minute * MinutesPerDay \in Nat \ {0}
    BY <1>1
  <1>3. Day \in Nat \ {0}
    BY <1>2 DEF Day
  <1>4. Days * Day \in Nat \ {0}
    BY <1>1, <1>3
  <1>. QED BY <1>1, <1>3, <1>4, ListAssumption DEF End, Never

LEMMA SameEntry ==
  ASSUME NEW x \in Items, NEW y \in Items,
         x.plan = y.plan, x.time = y.time, x.amount = y.amount,
         x.enabled = y.enabled, x.every = y.every
  PROVE  x = y
  BY DEF Items

LEMMA Clamping ==
  ASSUME NEW n \in Nat, NEW m \in Nat \ {0}
  PROVE  /\ Clamp(n, 1, m) \in Nat
         /\ Clamp(Clamp(n, 1, m), 1, m) = Clamp(n, 1, m)
  BY DEF Clamp

\* What sanitize_item leaves of an entry, field by field.
LEMMA SanitizedFields ==
  ASSUME NEW x \in Items
  PROVE  /\ Sanitize(x) \in Items
         /\ Sanitize(x).plan = x.plan
         /\ Sanitize(x).time = IF x.time < MinutesPerDay THEN x.time ELSE 0
         /\ Sanitize(x).amount = Clamp(x.amount, 1, MaxAmount)
         /\ Sanitize(x).enabled = x.enabled
         /\ Sanitize(x).every = Clamp(x.every, 1, MaxEvery)
  <1>. DEFINE t == IF x.time < MinutesPerDay THEN x.time ELSE 0
              a == Clamp(x.amount, 1, MaxAmount)
              e == Clamp(x.every, 1, MaxEvery)
  <1>1. t \in Nat /\ a \in Nat /\ e \in Nat
    BY ListAssumption, Clamping DEF Items
  <1>2. Sanitize(x) = [x EXCEPT !.time = t, !.amount = a, !.every = e]
    BY DEF Sanitize
  <1>. HIDE DEF t, a, e
  <1>3. LET y == [x EXCEPT !.time = t, !.amount = a, !.every = e]
        IN  /\ y \in Items /\ y.plan = x.plan /\ y.enabled = x.enabled
            /\ y.time = t /\ y.amount = a /\ y.every = e
    BY <1>1 DEF Items
  <1>. QED BY <1>2, <1>3 DEF t, a, e

\* It makes a legal entry of the same plan, and of a legal entry nothing new.
LEMMA Sanitizing ==
  ASSUME NEW x \in Items
  PROVE  /\ Sanitize(x) \in Items
         /\ Sanitize(x).plan = x.plan
         /\ Sane(Sanitize(x))
  <1>1. PICK y : y = Sanitize(x)
    OBVIOUS
  <1>2. y \in Items /\ Sanitize(y) \in Items
    BY <1>1, SanitizedFields
  <1>3. /\ MinutesPerDay \in Nat \ {0} /\ x.time \in Nat
        /\ x.amount \in Nat /\ MaxAmount \in Nat \ {0}
        /\ x.every \in Nat /\ MaxEvery \in Nat \ {0}
    BY ListAssumption DEF Items
  <1>4. y.time < MinutesPerDay
    BY <1>1, <1>3, SanitizedFields
  <1>5. Clamp(y.amount, 1, MaxAmount) = y.amount /\ Clamp(y.every, 1, MaxEvery) = y.every
    BY <1>1, <1>3, SanitizedFields, Clamping
  <1>6. Sanitize(y) = y
    <2>1. /\ Sanitize(y).plan = y.plan /\ Sanitize(y).enabled = y.enabled
          /\ Sanitize(y).time = y.time /\ Sanitize(y).amount = y.amount
          /\ Sanitize(y).every = y.every
      BY <1>2, <1>4, <1>5, SanitizedFields
    <2>. QED BY <1>2, <2>1, SameEntry
  <1>. QED BY <1>1, <1>6, SanitizedFields DEF Sane

-----------------------------------------------------------------------------
(***************************************************************************)
(* SchedulerInv is inductive.  First the steps that leave the list alone.  *)
(***************************************************************************)
SchedTyped ==
  /\ sched \in [pc : SchedPCs, t : 0..End, day : Int, i : 0..MaxItems,
                got : Items \cup {Blank}]
  /\ sched.pc \in {"callback", "called"} => sched.i \in Slots

LEMMA AsleepTyped ==
  Asleep \in [pc : SchedPCs, t : 0..End, day : Int, i : 0..MaxItems,
              got : Items \cup {Blank}]
  BY ClockNumbers DEF Asleep, SchedPCs

LEMMA ListUntouched ==
  ASSUME SchedulerInv, UNCHANGED <<listVars, mutex, edit, lastFed>>,
         SchedTyped', now' \in 0..End
  PROVE  SchedulerInv'
  <1>. USE DEF SchedulerInv, listVars
  <1>1. SchedulerTypeOK'
    BY DEF SchedulerTypeOK, SchedTyped
  <1>2. EditUnderWay'
    BY DEF EditUnderWay
  <1>3. PlansOnce'
    BY DEF PlansOnce, Written
  <1>4. Settled'
    BY DEF Settled
  <1>. QED BY <1>1, <1>2, <1>3, <1>4 DEF SchedTyped

LEMMA ScanKeepsInv ==
  ASSUME SchedulerInv, Sample \/ SampleDay \/ Callback \/ Continue \/ PassEnds
  PROVE  SchedulerInv'
  <1>1. SchedTyped /\ now \in 0..End /\ items \in [Slots -> Items \cup {Blank}]
    BY DEF SchedulerInv, SchedulerTypeOK, SchedTyped
  <1>2. CASE Sample
    <2>1. SchedTyped'
      BY <1>1, <1>2 DEF Sample, SchedTyped, SchedPCs
    <2>. QED BY <1>1, <1>2, <2>1, ListUntouched DEF Sample, ghosts
  <1>3. CASE SampleDay
    <2>1. DayOf(now) \in Int /\ 0 \in 0..MaxItems
      BY <1>1, ClockNumbers DEF DayOf
    <2>2. SchedTyped'
      BY <1>1, <1>3, <2>1 DEF SampleDay, SchedTyped, SchedPCs
    <2>. QED BY <1>1, <1>3, <2>2, ListUntouched DEF SampleDay, ghosts, clockVars
  <1>4. CASE Callback
    <2>1. SchedTyped'
      BY <1>1, <1>4 DEF Callback, SchedTyped, SchedPCs
    <2>. QED BY <1>1, <1>4, <2>1, ListUntouched DEF Callback, ghosts, clockVars
  <1>5. CASE Continue
    <2>1. sched.i + 1 \in 0..MaxItems
      BY <1>1, <1>5, ClockNumbers DEF Continue, SchedTyped, Slots
    <2>2. SchedTyped'
      BY <1>1, <1>5, <2>1 DEF Continue, SchedTyped, SchedPCs
    <2>. QED BY <1>1, <1>5, <2>2, ListUntouched DEF Continue, ghosts, clockVars
  <1>6. CASE PassEnds
    <2>1. SchedTyped'
      BY <1>6, AsleepTyped DEF PassEnds, SchedTyped, Asleep
    <2>. QED BY <1>1, <1>6, <2>1, ListUntouched DEF PassEnds, ghosts, clockVars
  <1>. QED BY <1>2, <1>3, <1>4, <1>5, <1>6

LEMMA ClockKeepsInv ==
  ASSUME SchedulerInv, Tick \/ \E t \in 0..End : SetClock(t)
  PROVE  SchedulerInv'
  <1>1. SchedTyped /\ now \in 0..End
    BY DEF SchedulerInv, SchedulerTypeOK, SchedTyped
  <1>2. CASE Tick
    <2>1. now' \in 0..End
      BY <1>1, <1>2, ClockNumbers DEF Tick
    <2>. QED BY <1>1, <1>2, <2>1, ListUntouched DEF Tick, SchedTyped
  <1>3. CASE \E t \in 0..End : SetClock(t)
    BY <1>1, <1>3, ListUntouched DEF SetClock, SchedTyped
  <1>. QED BY <1>2, <1>3

-----------------------------------------------------------------------------
(***************************************************************************)
(* The scheduler triggers an entry: its own trigger time is the last feed  *)
(* of its plan, and no other entry has that plan.                          *)
(***************************************************************************)
LEMMA TriggerKeepsInv ==
  ASSUME SchedulerInv, Trigger
  PROVE  SchedulerInv'
  <1>. USE DEF SchedulerInv
  <1>1. PICK k \in Hits :
          /\ last' = [last EXCEPT ![k] = sched.t]
          /\ sched' = [sched EXCEPT !.pc = "callback", !.i = k]
          /\ lastFed' = [lastFed EXCEPT ![items[k].plan] = sched.t]
    BY DEF Trigger
  <1>2. /\ edit = NoEdit /\ mutex = Nobody
        /\ UNCHANGED <<items, count, mutex, edit, now>>
    BY DEF Trigger, SchedulerTypeOK, clockVars
  <1>3. k \in Slots /\ k < count /\ sched.t \in 0..End
    BY DEF Hits
  <1>4. items[k] \in Items /\ items[k].plan \in Plans
    BY <1>2, <1>3 DEF PlansOnce, Written, NoEdit, Items
  <1>5. /\ last' \in [Slots -> {Never} \cup 0..End]
        /\ lastFed' \in [Plans -> {Never} \cup 0..End]
    BY <1>1, <1>3, <1>4
  <1>6. SchedTyped'
    <2>1. k \in 0..MaxItems
      BY <1>3, ClockNumbers DEF Slots
    <2>. QED BY <1>1, <1>3, <1>4, <2>1 DEF SchedTyped, SchedPCs
  <1>7. SchedulerTypeOK'
    BY <1>2, <1>5, <1>6 DEF SchedulerTypeOK, SchedTyped
  <1>8. EditUnderWay' /\ PlansOnce'
    BY <1>2 DEF EditUnderWay, PlansOnce, Written
  <1>9. Settled'
    <2>. SUFFICES ASSUME NEW j \in Slots, j < count
                  PROVE  /\ Sane(items[j])
                         /\ last'[j] # Never => last'[j] = lastFed'[items[j].plan]
      BY <1>2 DEF Settled
    <2>1. Sane(items[j]) /\ (last[j] # Never => last[j] = lastFed[items[j].plan])
      BY <1>2 DEF Settled, NoEdit
    <2>2. items[j] \in Items /\ items[j].plan \in Plans
      BY <1>2 DEF PlansOnce, Written, NoEdit, Items
    <2>3. CASE j = k
      BY <1>1, <1>3, <1>4, <2>1, <2>3
    <2>4. CASE j # k
      <3>1. items[j].plan # items[k].plan
        BY <1>2, <1>3, <2>4 DEF PlansOnce, Written, NoEdit
      <3>. QED BY <1>1, <1>3, <1>4, <2>1, <2>2, <2>4, <3>1
    <2>. QED BY <2>3, <2>4
  <1>. QED BY <1>2, <1>5, <1>6, <1>7, <1>8, <1>9 DEF SchedTyped

-----------------------------------------------------------------------------
(***************************************************************************)
(* The edits.                                                              *)
(***************************************************************************)
\* An edit leaves the scheduler, the clock and the feeds alone.
EditFrame == UNCHANGED <<sched, now, lastFed>>

LEMMA SetKeepsInv ==
  ASSUME SchedulerInv, NEW t \in Editors, NEW i \in Slots, NEW x \in Inputs,
         SetItem(t, i, x)
  PROVE  SchedulerInv'
  <1>. USE DEF SchedulerInv
  <1>1. /\ edit = NoEdit /\ mutex = Nobody /\ mutex' = t /\ t # Nobody
        /\ i < count /\ x.plan = items[i].plan
        /\ items' = [items EXCEPT ![i] = x]
        /\ edit' = [op |-> "set", i |-> i]
        /\ UNCHANGED <<count, last, sched, now, lastFed>>
    BY SchedulerAssumption DEF SetItem, Lock, StillDue, clockVars, SchedulerTypeOK
  <1>2. x \in Items
    BY SchedulerAssumption
  <1>3. items' \in [Slots -> Items \cup {Blank}]
    BY <1>1, <1>2
  <1>4. SchedulerTypeOK'
    BY <1>1, <1>3 DEF SchedulerTypeOK, NoEdit
  <1>5. EditUnderWay'
    BY <1>1 DEF EditUnderWay
  <1>6. \A k \in Slots : k < count =>
          items[k] \in Items /\ items'[k] \in Items /\ items'[k].plan = items[k].plan
    BY <1>1, <1>2 DEF PlansOnce, Written, NoEdit
  <1>7. PlansOnce'
    BY <1>1, <1>6 DEF PlansOnce, Written, NoEdit
  <1>8. Settled'
    BY <1>1, <1>6 DEF Settled, NoEdit
  <1>. QED BY <1>1, <1>3, <1>4, <1>5, <1>7, <1>8

LEMMA SetEndKeepsInv ==
  ASSUME SchedulerInv, NEW t \in Editors, SetItemEnd(t)
  PROVE  SchedulerInv'
  <1>. USE DEF SchedulerInv
  <1>1. /\ edit.op = "set" /\ edit' = NoEdit /\ mutex' = Nobody
        /\ items' = [items EXCEPT ![edit.i] = Sanitize(items[edit.i])]
        /\ UNCHANGED <<count, last, sched, now, lastFed>>
    BY DEF SetItemEnd, Unlock, StillDue, clockVars
  <1>2. edit.i \in Slots /\ edit.i < count
    BY <1>1 DEF EditUnderWay, NoEdit
  <1>3. \A k \in Slots : k < count => items[k] \in Items
    BY <1>1 DEF PlansOnce, Written
  <1>4. \A k \in Slots : k < count =>
          /\ items'[k] \in Items /\ items'[k].plan = items[k].plan
          /\ Sane(items'[k])
    BY <1>1, <1>2, <1>3, Sanitizing DEF Settled
  <1>5. items' \in [Slots -> Items \cup {Blank}]
    BY <1>1, <1>2, <1>3, Sanitizing
  <1>6. SchedulerTypeOK'
    BY <1>1, <1>4, <1>5 DEF SchedulerTypeOK
  <1>7. EditUnderWay'
    BY <1>1 DEF EditUnderWay, NoEdit
  <1>8. PlansOnce'
    BY <1>1, <1>3, <1>4 DEF PlansOnce, Written, NoEdit
  <1>9. Settled'
    BY <1>1, <1>4 DEF Settled
  <1>. QED BY <1>1, <1>5, <1>6, <1>7, <1>8, <1>9

LEMMA AddKeepsInv ==
  ASSUME SchedulerInv, NEW t \in Editors, NEW x \in Inputs, AddItem(t, x)
  PROVE  SchedulerInv'
  <1>. USE DEF SchedulerInv
  <1>1. /\ edit = NoEdit /\ mutex = Nobody /\ mutex' = t /\ t # Nobody
        /\ count < MaxItems /\ x.plan \notin Used
        /\ items' = [items EXCEPT ![count] = x]
        /\ edit' = [op |-> "add"]
        /\ UNCHANGED <<count, last, sched, now, lastFed>>
    BY SchedulerAssumption DEF AddItem, Lock, clockVars, ghosts, SchedulerTypeOK
  <1>2. x \in Items /\ count \in Slots
    BY <1>1, SchedulerAssumption, ClockNumbers DEF SchedulerTypeOK, Slots
  <1>3. items' \in [Slots -> Items \cup {Blank}]
    BY <1>1, <1>2
  <1>4. SchedulerTypeOK'
    BY <1>1, <1>3 DEF SchedulerTypeOK, NoEdit
  <1>5. EditUnderWay'
    BY <1>1 DEF EditUnderWay
  <1>6. /\ items'[count] = x
        /\ \A k \in Slots : k < count => items'[k] = items[k]
    BY <1>1, <1>2 DEF Slots
  <1>7. PlansOnce'
    <2>1. \A k \in Slots : k < count => items[k] \in Items /\ items[k].plan # x.plan
      BY <1>1 DEF PlansOnce, Written, NoEdit, Used
    <2>2. \A k \in Slots : k < count + 1 => k < count \/ k = count
      BY <1>2 DEF Slots
    <2>3. Written' = count + 1
      BY <1>1 DEF Written
    <2>. QED BY <1>1, <1>2, <1>6, <2>1, <2>2, <2>3 DEF PlansOnce, Written, NoEdit
  <1>8. Settled'
    BY <1>1, <1>6 DEF Settled, NoEdit
  <1>. QED BY <1>1, <1>3, <1>4, <1>5, <1>7, <1>8

LEMMA AddEndKeepsInv ==
  ASSUME SchedulerInv, NEW t \in Editors, AddItemEnd(t)
  PROVE  SchedulerInv'
  <1>. USE DEF SchedulerInv
  <1>1. /\ edit.op = "add" /\ edit' = NoEdit /\ mutex' = Nobody
        /\ items' = [items EXCEPT ![count] = Sanitize(items[count])]
        /\ last' = [last EXCEPT ![count] = Never]
        /\ count' = count + 1
        /\ UNCHANGED <<sched, now, lastFed>>
    BY DEF AddItemEnd, Unlock, StillDue, clockVars
  <1>2. count < MaxItems /\ count \in Slots /\ count' \in 0..MaxItems
    BY <1>1, ClockNumbers DEF EditUnderWay, SchedulerTypeOK, Slots
  <1>3. \A k \in Slots : k < count' => k < count \/ k = count
    BY <1>1, <1>2 DEF Slots
  <1>4. \A k \in Slots : k < count' => items[k] \in Items
    BY <1>1 DEF PlansOnce, Written
  <1>5. \A k \in Slots : k < count' =>
          /\ items'[k] \in Items /\ items'[k].plan = items[k].plan
          /\ Sane(items'[k])
    <2>. SUFFICES ASSUME NEW k \in Slots, k < count'
                  PROVE  /\ items'[k] \in Items /\ items'[k].plan = items[k].plan
                         /\ Sane(items'[k])
      OBVIOUS
    <2>1. CASE k = count
      BY <1>1, <1>2, <1>4, <2>1, Sanitizing
    <2>2. CASE k # count
      BY <1>1, <1>2, <1>3, <1>4, <2>2 DEF Settled
    <2>. QED BY <2>1, <2>2
  <1>6. items' \in [Slots -> Items \cup {Blank}]
    BY <1>1, <1>2, <1>4, Sanitizing, count < count' DEF Slots
  <1>7. last' \in [Slots -> {Never} \cup 0..End]
    BY <1>1
  <1>8. SchedulerTypeOK'
    BY <1>1, <1>2, <1>5, <1>6, <1>7 DEF SchedulerTypeOK
  <1>9. EditUnderWay'
    BY <1>1 DEF EditUnderWay, NoEdit
  <1>10. PlansOnce'
    BY <1>1, <1>4, <1>5 DEF PlansOnce, Written, NoEdit
  <1>11. Settled'
    <2>. SUFFICES ASSUME NEW k \in Slots, k < count'
                  PROVE  last'[k] # Never => last'[k] = lastFed[items'[k].plan]
      BY <1>1, <1>5 DEF Settled
    <2>1. CASE k = count
      BY <1>1, <1>2, <2>1
    <2>2. CASE k # count
      BY <1>1, <1>2, <1>3, <1>5, <2>2 DEF Settled
    <2>. QED BY <2>1, <2>2
  <1>. QED BY <1>1, <1>6, <1>7, <1>8, <1>9, <1>10, <1>11

LEMMA ReplaceKeepsInv ==
  ASSUME SchedulerInv, NEW t \in Editors, NEW s \in Lists, ReplaceAll(t, s)
  PROVE  SchedulerInv'
  <1>. USE DEF SchedulerInv
  <1>1. /\ edit = NoEdit /\ mutex = Nobody /\ mutex' = t /\ t # Nobody
        /\ items' = Overwrite(items, s, Len(s))
        /\ edit' = [op |-> "replace", n |-> Len(s)]
        /\ UNCHANGED <<count, last, sched, now, lastFed>>
    BY SchedulerAssumption DEF ReplaceAll, Lock, clockVars, ghosts, SchedulerTypeOK
  <1>2. /\ s \in Seq(Items) /\ Len(s) \in 0..MaxItems
        /\ \A j, k \in 1..Len(s) : s[j].plan = s[k].plan => j = k
    BY SchedulerAssumption, ClockNumbers
  <1>3. \A k \in Slots : k < Len(s) =>
          k + 1 \in 1..Len(s) /\ items'[k] = s[k + 1] /\ items'[k] \in Items
    BY <1>1, <1>2 DEF Overwrite, Slots
  <1>4. items' \in [Slots -> Items \cup {Blank}]
    BY <1>1, <1>2 DEF Overwrite, Slots
  <1>5. SchedulerTypeOK'
    BY <1>1, <1>4 DEF SchedulerTypeOK, NoEdit
  <1>6. EditUnderWay'
    BY <1>1, <1>2 DEF EditUnderWay
  <1>7. PlansOnce'
    <2>1. Written' = Len(s)
      BY <1>1 DEF Written
    <2>2. ASSUME NEW j \in Slots, NEW k \in Slots, j < Len(s), k < Len(s),
                 items'[j].plan = items'[k].plan
          PROVE  j = k
      BY <1>2, <1>3, <2>2 DEF Slots
    <2>. QED BY <1>3, <2>1, <2>2 DEF PlansOnce
  <1>8. Settled'
    BY <1>1 DEF Settled
  <1>. QED BY <1>1, <1>4, <1>5, <1>6, <1>7, <1>8

LEMMA ReplaceEndKeepsInv ==
  ASSUME SchedulerInv, NEW t \in Editors, ReplaceAllEnd(t)
  PROVE  SchedulerInv'
  <1>. USE DEF SchedulerInv
  <1>. DEFINE n == edit.n
  <1>1. /\ edit.op = "replace" /\ edit' = NoEdit /\ mutex' = Nobody
        /\ items' = [k \in Slots |-> IF k < n THEN Sanitize(items[k]) ELSE items[k]]
        /\ last' = [k \in Slots |-> IF k < n THEN Never ELSE last[k]]
        /\ count' = n
        /\ UNCHANGED <<sched, now, lastFed>>
    BY DEF ReplaceAllEnd, Unlock, StillDue, clockVars
  <1>2. n \in 0..MaxItems
    BY <1>1 DEF EditUnderWay, NoEdit
  <1>3. \A k \in Slots : k < n => items[k] \in Items
    BY <1>1 DEF PlansOnce, Written
  <1>4. \A k \in Slots : k < n =>
          /\ items'[k] \in Items /\ items'[k].plan = items[k].plan
          /\ Sane(items'[k]) /\ last'[k] = Never
    BY <1>1, <1>3, Sanitizing
  <1>5. /\ items' \in [Slots -> Items \cup {Blank}]
        /\ last' \in [Slots -> {Never} \cup 0..End]
    BY <1>1, <1>3, Sanitizing
  <1>6. SchedulerTypeOK'
    BY <1>1, <1>2, <1>4, <1>5 DEF SchedulerTypeOK
  <1>7. EditUnderWay'
    BY <1>1 DEF EditUnderWay, NoEdit
  <1>8. PlansOnce'
    BY <1>1, <1>3, <1>4 DEF PlansOnce, Written, NoEdit
  <1>9. Settled'
    BY <1>1, <1>4 DEF Settled
  <1>. QED BY <1>1, <1>5, <1>6, <1>7, <1>8, <1>9

\* Removing an entry: index k afterwards is k or k + 1 before, in both arrays.
LEMMA RemoveKeepsInv ==
  ASSUME SchedulerInv, NEW i \in Slots, RemoveItem(i)
  PROVE  SchedulerInv'
  <1>. USE DEF SchedulerInv
  <1>1. /\ edit = NoEdit /\ mutex = Nobody /\ i < count
        /\ items' = Close(items, i, count) /\ last' = Close(last, i, count)
        /\ count' = count - 1
        /\ UNCHANGED <<mutex, edit, sched, now, lastFed>>
    BY DEF RemoveItem, StillDue, clockVars, SchedulerTypeOK
  <1>2. count \in 0..MaxItems /\ count' \in 0..MaxItems /\ i \in Nat
    BY <1>1, ClockNumbers DEF SchedulerTypeOK, Slots
  <1>. DEFINE old(k) == IF k < i THEN k ELSE k + 1
  <1>3. \A k \in Slots : k < count' =>
          /\ old(k) \in Slots /\ old(k) < count
          /\ items'[k] = items[old(k)] /\ last'[k] = last[old(k)]
    BY <1>1, <1>2, ClockNumbers DEF Close, Slots
  <1>4. \A j, k \in Slots : old(j) = old(k) => j = k
    BY <1>2 DEF Slots
  <1>. HIDE DEF old
  <1>5. /\ items' \in [Slots -> Items \cup {Blank}]
        /\ last' \in [Slots -> {Never} \cup 0..End]
    BY <1>1, <1>2, ClockNumbers DEF Close, Slots
  <1>6. \A k \in Slots : k < count' =>
          /\ items'[k] \in Items /\ Sane(items'[k])
          /\ last'[k] # Never => last'[k] = lastFed'[items'[k].plan]
    BY <1>1, <1>3 DEF Settled, PlansOnce, Written, NoEdit
  <1>7. SchedulerTypeOK'
    BY <1>1, <1>2, <1>5, <1>6 DEF SchedulerTypeOK
  <1>8. EditUnderWay'
    BY <1>1 DEF EditUnderWay, NoEdit
  <1>9. PlansOnce'
    <2>1. ASSUME NEW j \in Slots, NEW k \in Slots, j < count', k < count',
                 items'[j].plan = items'[k].plan
          PROVE  j = k
      <3>1. old(j) = old(k)
        BY <1>1, <1>3, <2>1 DEF PlansOnce, Written, NoEdit
      <3>. QED BY <1>4, <3>1
    <2>2. Written' = count'
      BY <1>1 DEF Written, NoEdit
    <2>. QED BY <1>6, <2>1, <2>2 DEF PlansOnce
  <1>10. Settled'
    BY <1>1, <1>6 DEF Settled
  <1>. QED BY <1>1, <1>5, <1>7, <1>8, <1>9, <1>10

\* A restart forgets the trigger times.
LEMMA RebootKeepsInv ==
  ASSUME SchedulerInv, Reboot
  PROVE  SchedulerInv'
  <1>. USE DEF SchedulerInv
  <1>1. /\ edit = NoEdit /\ mutex = Nobody
        /\ items' = [k \in Slots |-> IF k < count THEN items[k] ELSE Blank]
        /\ last' = [k \in Slots |-> Never]
        /\ sched' = Asleep
        /\ UNCHANGED <<count, mutex, edit, now, lastFed>>
    BY DEF Reboot, SchedulerTypeOK
  <1>2. /\ items' \in [Slots -> Items \cup {Blank}]
        /\ last' \in [Slots -> {Never} \cup 0..End]
    BY <1>1
  <1>3. \A k \in Slots : k < count => items'[k] = items[k] /\ last'[k] = Never
    BY <1>1
  <1>4. SchedTyped'
    BY <1>1, AsleepTyped DEF SchedTyped, Asleep
  <1>5. SchedulerTypeOK'
    BY <1>1, <1>2, <1>3, <1>4 DEF SchedulerTypeOK, SchedTyped
  <1>6. EditUnderWay'
    BY <1>1 DEF EditUnderWay
  <1>7. PlansOnce'
    BY <1>1, <1>3 DEF PlansOnce, Written, NoEdit
  <1>8. Settled'
    BY <1>1, <1>3 DEF Settled, NoEdit
  <1>. QED BY <1>1, <1>2, <1>4, <1>5, <1>6, <1>7, <1>8 DEF SchedTyped

LEMMA InitInv == SchedulerInit => SchedulerInv
  <1>. SUFFICES ASSUME SchedulerInit PROVE SchedulerInv
    OBVIOUS
  <1>1. PICK s \in FirstLists : items = Loaded(s) /\ count = Len(s)
    BY DEF SchedulerInit
  <1>2. /\ s \in Seq(Items) /\ Len(s) \in 0..MaxItems
        /\ \A j, k \in 1..Len(s) : s[j].plan = s[k].plan => j = k
        /\ \A k \in 1..Len(s) : Sane(s[k])
    BY SchedulerAssumption, ClockNumbers
  <1>3. /\ edit = NoEdit /\ mutex = Nobody /\ now = 0 /\ sched = Asleep
        /\ last = [k \in Slots |-> Never] /\ lastFed = [p \in Plans |-> Never]
    BY DEF SchedulerInit
  <1>4. items = [k \in Slots |-> IF k < Len(s) THEN s[k + 1] ELSE Blank]
    BY <1>1 DEF Loaded, Overwrite
  <1>5. \A k \in Slots : k < count =>
          k + 1 \in 1..Len(s) /\ items[k] = s[k + 1] /\ items[k] \in Items /\ Sane(items[k])
    BY <1>1, <1>2, <1>4 DEF Slots
  <1>6. items \in [Slots -> Items \cup {Blank}]
    BY <1>1, <1>4, <1>5
  <1>7. SchedTyped
    BY <1>3, AsleepTyped DEF SchedTyped, Asleep
  <1>8. SchedulerTypeOK
    BY <1>1, <1>2, <1>3, <1>5, <1>6, <1>7, ClockNumbers DEF SchedulerTypeOK, SchedTyped
  <1>9. EditUnderWay
    BY <1>3 DEF EditUnderWay, NoEdit
  <1>10. PlansOnce
    <2>1. ASSUME NEW j \in Slots, NEW k \in Slots, j < count, k < count,
                 items[j].plan = items[k].plan
          PROVE  j = k
      BY <1>2, <1>5, <2>1 DEF Slots
    <2>. QED BY <1>3, <1>5, <2>1 DEF PlansOnce, Written, NoEdit
  <1>11. Settled
    BY <1>3, <1>5 DEF Settled
  <1>. QED BY <1>3, <1>6, <1>7, <1>8, <1>9, <1>10, <1>11 DEF SchedulerInv, SchedTyped

LEMMA StepKeepsInv == SchedulerInv /\ [SchedulerNext]_schedulerVars => SchedulerInv'
  <1>. SUFFICES ASSUME SchedulerInv, [SchedulerNext]_schedulerVars PROVE SchedulerInv'
    OBVIOUS
  <1>1. CASE EditStep
    BY <1>1, SetKeepsInv, SetEndKeepsInv, AddKeepsInv, AddEndKeepsInv,
       ReplaceKeepsInv, ReplaceEndKeepsInv, RemoveKeepsInv DEF EditStep
  <1>2. CASE ScanStep
    BY <1>2, ScanKeepsInv, TriggerKeepsInv DEF ScanStep
  <1>3. CASE Tick \/ \E t \in 0..End : SetClock(t)
    BY <1>3, ClockKeepsInv
  <1>4. CASE Reboot
    BY <1>4, RebootKeepsInv
  <1>5. CASE AtHorizon \/ UNCHANGED schedulerVars
    <2>1. SchedTyped /\ now \in 0..End
      BY DEF SchedulerInv, SchedulerTypeOK, SchedTyped
    <2>. QED BY <1>5, <2>1, ListUntouched
         DEF AtHorizon, schedulerVars, ghosts, clockVars, SchedTyped
  <1>. QED BY <1>1, <1>2, <1>3, <1>4, <1>5 DEF SchedulerNext

-----------------------------------------------------------------------------
\* The invariant holds of the scheduler, whoever edits the list meanwhile.
THEOREM SchedulerInvariant == SchedulerSpec => []SchedulerInv
  BY InitInv, StepKeepsInv, PTL DEF SchedulerSpec

\* The state has its types, and outside an edit every entry in use is one that
\* sanitize_item leaves alone.
THEOREM SchedulerTypes == SchedulerSpec => []SchedulerTypeOK
  <1>1. SchedulerInv => SchedulerTypeOK
    BY DEF SchedulerInv
  <1>. QED BY <1>1, SchedulerInvariant, PTL

\* The trigger time at an index is that of the plan which is there, or none.
THEOREM CooldownAlwaysFollowsPlan == SchedulerSpec => []CooldownFollowsPlan
  <1>1. SchedulerInv => CooldownFollowsPlan
    BY DEF SchedulerInv, SchedulerTypeOK, Settled, CooldownFollowsPlan, NoEdit
  <1>. QED BY <1>1, SchedulerInvariant, PTL

\* Feeds of a plan are a minute apart, unless its trigger time was forgotten.
THEOREM FeedsAreAMinuteApart == SchedulerSpec => FedOnceUnlessForgotten
  <1>1. ASSUME SchedulerInv, [SchedulerNext]_schedulerVars,
               NEW p \in Plans \ Forgotten, lastFed'[p] # lastFed[p]
        PROVE  lastFed'[p] - lastFed[p] >= Minute
    <2>1. CASE Trigger
      <3>1. PICK k \in Hits : lastFed' = [lastFed EXCEPT ![items[k].plan] = sched.t]
        BY <2>1 DEF Trigger
      <3>2. k \in Slots /\ k < count /\ sched.t - last[k] >= Minute
        BY <3>1 DEF Hits
      <3>3. lastFed \in [Plans -> {Never} \cup 0..End] /\ edit = NoEdit
        BY <1>1, <2>1 DEF Trigger, SchedulerInv, SchedulerTypeOK
      <3>4. items[k].plan = p
        BY <1>1, <3>1, <3>3
      <3>5. last[k] = lastFed[p]
        BY <1>1, <3>2, <3>3, <3>4 DEF Forgotten, SchedulerInv, Settled, NoEdit
      <3>6. lastFed'[p] = sched.t
        BY <3>1, <3>3, <3>4
      <3>. QED BY <3>2, <3>5, <3>6
    <2>2. CASE EditStep
      BY <1>1, <2>2 DEF EditStep, SetItem, SetItemEnd, AddItem, AddItemEnd, ReplaceAll,
                        ReplaceAllEnd, RemoveItem, StillDue, ghosts
    <2>3. CASE Sample \/ SampleDay \/ Callback \/ Continue \/ PassEnds
      BY <1>1, <2>3 DEF Sample, SampleDay, Callback, Continue, PassEnds, ghosts
    <2>4. CASE Tick \/ (\E t \in 0..End : SetClock(t)) \/ Reboot \/ AtHorizon
               \/ UNCHANGED schedulerVars
      BY <1>1, <2>4 DEF Tick, SetClock, Reboot, AtHorizon, schedulerVars, ghosts
    <2>. QED BY <1>1, <2>1, <2>2, <2>3, <2>4 DEF SchedulerNext, ScanStep
  <1>2. SchedulerInv /\ [SchedulerNext]_schedulerVars =>
          [\A p \in Plans \ Forgotten : lastFed'[p] # lastFed[p] =>
             lastFed'[p] - lastFed[p] >= Minute]_schedulerVars
    <2>1. ASSUME SchedulerInv, [SchedulerNext]_schedulerVars
          PROVE  \A p \in Plans \ Forgotten : lastFed'[p] # lastFed[p] =>
                   lastFed'[p] - lastFed[p] >= Minute
      BY <1>1, <2>1, SMTT(60)
    <2>. QED BY <2>1
  <1>. QED BY <1>2, SchedulerInvariant, PTL DEF SchedulerSpec, FedOnceUnlessForgotten

-----------------------------------------------------------------------------
(***************************************************************************)
(* No feed is missed.  First the numbers of the clock.                     *)
(***************************************************************************)
LEMMA NextSecond ==
  ASSUME NEW m \in Nat \ {0}, NEW t \in Nat
  PROVE  /\ t % m \in 0..(m - 1) /\ t \div m \in Nat
         /\ (t + 1) % m = IF (t % m) + 1 = m THEN 0 ELSE (t % m) + 1
         /\ (t + 1) \div m = IF (t % m) + 1 = m THEN (t \div m) + 1 ELSE t \div m
  <1>. DEFINE q == t \div m
              r == t % m
  <1>1. r \in 0..(m - 1) /\ q \in Nat /\ t = (m * q) + r
    OBVIOUS
  <1>. HIDE DEF q, r
  <1>2. CASE r + 1 = m
    <2>1. t + 1 = (m * (q + 1)) + 0
      BY <1>1, <1>2
    <2>2. (t + 1) % m = 0 /\ (t + 1) \div m = q + 1
      BY <1>1, <2>1
    <2>. QED BY <1>1, <1>2, <2>2 DEF q, r
  <1>3. CASE r + 1 # m
    <2>1. t + 1 = (m * q) + (r + 1) /\ r + 1 \in 0..(m - 1)
      BY <1>1, <1>3
    <2>2. (t + 1) % m = r + 1 /\ (t + 1) \div m = q
      BY <1>1, <2>1
    <2>. QED BY <1>1, <1>3, <2>2 DEF q, r
  <1>. QED BY <1>2, <1>3

LEMMA NextDiffers ==
  ASSUME NEW m \in Nat \ {0}, m # 1, NEW q \in Nat
  PROVE  (q + 1) % m # q % m
  <1>1. /\ q % m \in 0..(m - 1)
        /\ (q + 1) % m = IF (q % m) + 1 = m THEN 0 ELSE (q % m) + 1
    BY NextSecond
  <1>. DEFINE r == q % m
  <1>2. r \in Nat /\ (q + 1) % m = IF r + 1 = m THEN 0 ELSE r + 1
    BY <1>1
  <1>. HIDE DEF r
  <1>3. (q + 1) % m # r
    BY <1>2
  <1>. QED BY <1>3 DEF r

\* A day begins with a minute.
LEMMA DayBeginsMinute ==
  ASSUME NEW m \in Nat \ {0}, NEW k \in Nat \ {0}, NEW x \in Nat,
         x % (m * k) = 0
  PROVE  x % m = 0
  <1>1. PICK d : d = m * k
    OBVIOUS
  <1>2. d \in Nat \ {0} /\ x % d = 0
    BY <1>1
  <1>3. PICK q \in Nat : x = d * q
    <2>1. x \div d \in Nat /\ x = (d * (x \div d)) + (x % d)
      BY <1>2
    <2>2. x = d * (x \div d)
      BY <1>2, <2>1
    <2>. QED BY <2>1, <2>2
  <1>4. k * q \in Nat /\ x = m * (k * q)
    BY <1>1, <1>3
  <1>5. \A n \in Nat : (m * n) % m = 0
    OBVIOUS
  <1>. QED BY <1>4, <1>5

\* What a second changes.
LEMMA SecondPasses ==
  ASSUME NEW t \in Nat
  PROVE  /\ t % Minute \in 0..(Minute - 1)
         /\ (t + 1) % Minute = IF (t % Minute) + 1 = Minute THEN 0 ELSE (t % Minute) + 1
         /\ (t + 1) % Minute # 0 =>
              MinuteOf(t + 1) = MinuteOf(t) /\ DayOf(t + 1) = DayOf(t)
         /\ (t + 1) % Minute = 0 /\ MinutesPerDay # 1 => MinuteOf(t + 1) # MinuteOf(t)
  <1>1. Minute \in Nat \ {0} /\ MinutesPerDay \in Nat \ {0}
    BY SchedulerAssumption, ListAssumption
  <1>2. /\ t % Minute \in 0..(Minute - 1) /\ t \div Minute \in Nat
        /\ (t + 1) % Minute = IF (t % Minute) + 1 = Minute THEN 0 ELSE (t % Minute) + 1
        /\ (t + 1) \div Minute = IF (t % Minute) + 1 = Minute THEN (t \div Minute) + 1
                                                              ELSE t \div Minute
    BY <1>1, NextSecond
  <1>3. ASSUME (t + 1) % Minute # 0
        PROVE  MinuteOf(t + 1) = MinuteOf(t) /\ DayOf(t + 1) = DayOf(t)
    <2>1. (t + 1) % (Minute * MinutesPerDay) # 0
      <3>1. t + 1 \in Nat
        OBVIOUS
      <3>. QED BY <1>1, <1>3, <3>1, DayBeginsMinute
    <2>2. (t + 1) % Day # 0
      BY <2>1 DEF Day
    <2>3. (t + 1) \div Day = t \div Day
      BY <2>2, ClockNumbers, NextSecond
    <2>. QED BY <1>1, <1>2, <1>3, <2>3 DEF MinuteOf, DayOf
  <1>4. ASSUME (t + 1) % Minute = 0, MinutesPerDay # 1
        PROVE  MinuteOf(t + 1) # MinuteOf(t)
    <2>1. (t + 1) \div Minute = (t \div Minute) + 1
      BY <1>1, <1>2, <1>4
    <2>. QED BY <1>1, <1>2, <1>4, <2>1, NextDiffers DEF MinuteOf
  <1>. QED BY <1>2, <1>3, <1>4

LEMMA DuePlansNamed ==
  ASSUME NEW f \in [Slots -> Items \cup {Blank}], NEW n, NEW t
  PROVE  DuePlans(f, n, t) \subseteq Plans
  <1>. SUFFICES ASSUME NEW k \in Slots, Due(Sanitize(f[k]), MinuteOf(t), DayOf(t))
                PROVE  f[k].plan \in Plans
    BY DEF DuePlans
  <1>1. ~Sanitize(Blank).enabled
    BY DEF Sanitize, Blank
  <1>2. f[k] # Blank
    BY <1>1 DEF Due
  <1>. QED BY <1>2 DEF Items

-----------------------------------------------------------------------------
(***************************************************************************)
(* WatchInv is inductive, given SchedulerInv.                              *)
(***************************************************************************)
LEMMA WatchStarts == SchedulerInit => WatchInv
  <1>. SUFFICES ASSUME SchedulerInit PROVE WatchInv
    OBVIOUS
  <1>1. /\ bounds = [edits |-> 0, sets |-> 0, reboots |-> 0, lately |-> 0]
        /\ watch = {} /\ sched = Asleep
    BY DEF SchedulerInit
  <1>2. sched.pc = "sleep"
    BY <1>1 DEF Asleep
  <1>. QED BY <1>1, <1>2 DEF WatchInv, WatchIsDue, PassReadsClock, SkippedByEdits

\* What the counters are made of.
LEMMA WatchNumbers ==
  ASSUME SchedulerInv, WatchInv
  PROVE  /\ now \in Nat /\ now % Minute \in 0..(Minute - 1)
         /\ Minute \in Nat \ {0} /\ sched.t \in Nat /\ sched.i \in Nat
         /\ MinuteStart \in Nat /\ PassesOver \in Int /\ bounds.lately \in Nat
         /\ \A p \in Plans : lastFed[p] \in Int
         /\ watch \subseteq Plans
  <1>1. now \in Nat /\ Minute \in Nat \ {0}
    BY SchedulerAssumption, ClockNumbers DEF SchedulerInv, SchedulerTypeOK
  <1>2. now % Minute \in 0..(Minute - 1) /\ now - (now % Minute) \in Nat
    <2>1. now % Minute \in 0..(Minute - 1) /\ now = (Minute * (now \div Minute)) + (now % Minute)
          /\ now \div Minute \in Nat
      BY <1>1
    <2>2. Minute * (now \div Minute) \in Nat
      BY <1>1, <2>1
    <2>. QED BY <1>1, <2>1, <2>2
  <1>3. sched.t \in Nat /\ sched.i \in Nat
    BY ClockNumbers DEF SchedulerInv
  <1>4. \A p \in Plans : lastFed[p] \in Int
    BY ClockNumbers DEF SchedulerInv
  <1>5. PassesOver \in Int
    BY <1>2 DEF PassesOver
  <1>. QED BY <1>1, <1>2, <1>3, <1>4, <1>5 DEF MinuteStart, WatchInv, WatchIsDue

\* Outside an edit the list holds every plan that must be fed, due now.
LEMMA WatchedEntry ==
  ASSUME SchedulerInv, WatchInv, mutex = Nobody, NEW p \in watch
  PROVE  \E k \in Slots : /\ k < count /\ items[k].plan = p
                          /\ Due(items[k], MinuteOf(now), DayOf(now))
  <1>1. PICK k \in Slots : /\ k < count /\ items[k].plan = p
                           /\ Due(Sanitize(items[k]), MinuteOf(now), DayOf(now))
    BY DEF WatchInv, WatchIsDue, DuePlans
  <1>2. Sanitize(items[k]) = items[k]
    BY <1>1 DEF SchedulerInv, SchedulerTypeOK, Sane
  <1>. QED BY <1>1, <1>2

\* A pass of this minute that has a plan still before it triggers it.
LEMMA AheadIsHit ==
  ASSUME SchedulerInv, WatchInv, mutex = Nobody, sched.pc = "scan",
         NEW p \in watch, Unfed(p), Ahead(p), polled \/ now % Minute # 0
  PROVE  \E k \in Hits : items[k].plan = p
  <1>1. PICK k \in Slots : /\ k < count /\ items[k].plan = p
                           /\ Due(items[k], MinuteOf(now), DayOf(now))
    BY WatchedEntry
  <1>2. sched.i <= k
    <2>1. CASE sched.i = 0
      BY <2>1 DEF Slots
    <2>2. CASE sched.i # 0
      <3>1. PICK j \in Slots : j < count /\ items[j].plan = p /\ sched.i <= j
        BY <2>2 DEF Ahead
      <3>2. edit = NoEdit
        BY DEF SchedulerInv, SchedulerTypeOK
      <3>3. j = k
        BY <1>1, <3>1, <3>2 DEF SchedulerInv, PlansOnce, Written, NoEdit
      <3>. QED BY <3>1, <3>3
    <2>. QED BY <2>1, <2>2
  <1>3. MinuteOf(sched.t) = MinuteOf(now) /\ sched.t >= MinuteStart
    <2>1. CASE polled
      <3>1. sched.t = now
        BY <2>1 DEF WatchInv, PassReadsClock
      <3>. QED BY <3>1, WatchNumbers DEF MinuteStart
    <2>2. CASE ~polled
      <3>1. sched.t = now - 1 /\ now % Minute # 0
        BY <2>2 DEF WatchInv, PassReadsClock
      <3>2. (sched.t + 1) = now /\ sched.t \in Nat
        BY <3>1, WatchNumbers
      <3>3. MinuteOf(now) = MinuteOf(sched.t)
        BY <3>1, <3>2, SecondPasses
      <3>. QED BY <3>1, <3>3, WatchNumbers DEF MinuteStart
    <2>. QED BY <2>1, <2>2
  <1>4. sched.day = DayOf(now)
    BY DEF WatchInv, PassReadsClock
  <1>5. sched.t - last[k] >= Minute
    <2>1. last[k] = Never \/ last[k] = lastFed[p]
      BY <1>1 DEF SchedulerInv, SchedulerTypeOK, Settled, NoEdit
    <2>2. lastFed[p] <= MinuteStart - Minute /\ lastFed[p] \in Int
      BY WatchNumbers DEF WatchInv, SkippedByEdits
    <2>3. CASE last[k] = Never
      BY <2>3, WatchNumbers DEF Never
    <2>4. CASE last[k] = lastFed[p]
      BY <2>2, <2>4, <1>3, WatchNumbers
    <2>. QED BY <2>1, <2>3, <2>4
  <1>6. k \in Hits
    BY <1>1, <1>2, <1>3, <1>4, <1>5 DEF Hits
  <1>. QED BY <1>1, <1>6

\* The steps of a pass that neither trigger an entry nor end it.
LEMMA ScanKeepsWatch ==
  ASSUME SchedulerInv, WatchInv, Sample \/ SampleDay \/ Callback \/ Continue
  PROVE  WatchInv'
  <1>1. /\ UNCHANGED <<listVars, mutex, now, bounds, lastFed, watch>>
        /\ sched.pc = "sleep" => sched'.pc = "day" /\ ~polled /\ polled'
        /\ sched.pc # "sleep" => sched'.pc # "sleep" /\ polled' = polled
        /\ sched'.pc # "sleep"
    BY DEF Sample, SampleDay, Callback, Continue, ghosts, clockVars, SchedulerInv, SchedPCs
  <1>2. WatchIsDue'
    BY <1>1 DEF WatchInv, WatchIsDue, DuePlans, listVars
  <1>3. PassReadsClock'
    <2>1. CASE Sample
      BY <2>1 DEF Sample, PassReadsClock, SchedulerInv
    <2>2. CASE SampleDay
      BY <2>2 DEF SampleDay, WatchInv, PassReadsClock, SchedulerInv, clockVars, ghosts
    <2>3. CASE Callback \/ Continue
      BY <2>3 DEF Callback, Continue, WatchInv, PassReadsClock, SchedulerInv, clockVars, ghosts
    <2>. QED BY <2>1, <2>2, <2>3
  <1>4. MinuteStart' = MinuteStart /\ PassesOver' = PassesOver
    BY <1>1 DEF MinuteStart, PassesOver
  <1>5. ASSUME NEW p \in watch, sched.pc # "sleep", Ahead(p)
        PROVE  Ahead(p)'
    <2>1. CASE SampleDay
      BY <2>1 DEF SampleDay, Ahead, SchedulerInv
    <2>2. CASE Callback
      BY <1>1, <1>5, <2>2 DEF Callback, Ahead, SchedulerInv, listVars
    <2>3. CASE Continue
      <3>1. PICK k \in Slots : k < count /\ items[k].plan = p /\ sched.i <= k /\ sched.i # k
        BY <1>5, <2>3 DEF Continue, Ahead
      <3>2. sched'.i = sched.i + 1 /\ sched'.pc = "scan" /\ mutex = Nobody
        BY <1>5, <2>3 DEF Continue, Ahead, SchedulerInv
      <3>3. sched'.i <= k
        BY <3>1, <3>2, WatchNumbers DEF Slots
      <3>. QED BY <1>1, <3>1, <3>2, <3>3 DEF Ahead, listVars
    <2>. QED BY <1>5, <2>1, <2>2, <2>3 DEF Sample
  <1>6. \A p \in watch : sched.pc = "sleep" => Ahead(p)'
    BY <1>1 DEF Ahead
  <1>7. SkippedByEdits'
    <2>. SUFFICES ASSUME NEW p \in watch, lastFed[p] < MinuteStart
                  PROVE  /\ lastFed[p] <= MinuteStart - Minute
                         /\ PassesOver <= bounds.lately
                         /\ ~Ahead(p)' => PassesOver < bounds.lately
      BY <1>1, <1>4 DEF SkippedByEdits, Unfed
    <2>. QED BY <1>5, <1>6 DEF WatchInv, SkippedByEdits, Unfed
  <1>. QED BY <1>1, <1>2, <1>3, <1>7 DEF WatchInv

\* A pass that ends while a plan is unfed did not have it before it any more.
LEMMA EndKeepsWatch ==
  ASSUME SchedulerInv, WatchInv, PassEnds
  PROVE  WatchInv'
  <1>1. /\ UNCHANGED <<listVars, mutex, now, polled, bounds, lastFed, watch>>
        /\ sched.pc = "scan" /\ mutex = Nobody /\ Hits = {} /\ sched'.pc = "sleep"
    BY DEF PassEnds, ghosts, clockVars, Asleep
  <1>2. WatchIsDue'
    BY <1>1 DEF WatchInv, WatchIsDue, DuePlans, listVars
  <1>3. PassReadsClock'
    BY <1>1 DEF PassReadsClock
  <1>4. MinuteStart' = MinuteStart /\ PassesOver' = PassesOver + 1
    BY <1>1, WatchNumbers DEF MinuteStart, PassesOver
  <1>5. SkippedByEdits'
    <2>. SUFFICES ASSUME NEW p \in watch, lastFed[p] < MinuteStart
                  PROVE  /\ lastFed[p] <= MinuteStart - Minute
                         /\ PassesOver + 1 <= bounds.lately
      BY <1>1, <1>4 DEF SkippedByEdits, Unfed
    <2>1. lastFed[p] <= MinuteStart - Minute /\ (~Ahead(p) => PassesOver < bounds.lately)
      BY <1>1 DEF WatchInv, SkippedByEdits, Unfed
    <2>2. CASE polled \/ now % Minute # 0
      <3>1. ~Ahead(p)
        BY <1>1, <2>2, AheadIsHit DEF Unfed
      <3>. QED BY <2>1, <3>1, WatchNumbers
    <2>3. CASE ~polled /\ now % Minute = 0
      <3>1. PassesOver = -1
        BY <1>1, <2>3 DEF PassesOver
      <3>. QED BY <2>1, <3>1, WatchNumbers
    <2>. QED BY <2>2, <2>3
  <1>. QED BY <1>1, <1>2, <1>3, <1>5 DEF WatchInv

\* The first hit is triggered, so the pass has the others still before it.  The
\* pass of the minute before feeds no plan of this one, whose time is another.
LEMMA TriggerKeepsWatch ==
  ASSUME SchedulerInv, WatchInv, MinutesPerDay # 1, Trigger
  PROVE  WatchInv'
  <1>1. PICK k \in Hits :
          /\ \A j \in Hits : k <= j
          /\ sched' = [sched EXCEPT !.pc = "callback", !.i = k]
          /\ lastFed' = [lastFed EXCEPT ![items[k].plan] = sched.t]
    BY DEF Trigger
  <1>2. /\ UNCHANGED <<items, count, mutex, now, polled, bounds, watch>>
        /\ sched.pc = "scan" /\ mutex = Nobody /\ edit = NoEdit
    BY DEF Trigger, clockVars, SchedulerInv, SchedulerTypeOK
  <1>3. /\ sched'.pc = "callback" /\ sched'.i = k
        /\ sched'.t = sched.t /\ sched'.day = sched.day
    BY <1>1 DEF SchedulerInv
  <1>4. /\ k \in Slots /\ k < count /\ sched.i <= k
        /\ Due(items[k], MinuteOf(sched.t), sched.day)
    BY DEF Hits
  <1>5. items[k].plan \in Plans
    BY <1>2, <1>4 DEF SchedulerInv, PlansOnce, Written, NoEdit, Items
  <1>6. WatchIsDue'
    BY <1>2 DEF WatchInv, WatchIsDue, DuePlans
  <1>7. PassReadsClock'
    BY <1>2, <1>3 DEF WatchInv, PassReadsClock
  <1>8. MinuteStart' = MinuteStart /\ PassesOver' = PassesOver
    BY <1>2, <1>3 DEF MinuteStart, PassesOver
  <1>9. \A p \in Plans : lastFed'[p] = IF p = items[k].plan THEN sched.t ELSE lastFed[p]
    BY <1>1, <1>5 DEF SchedulerInv
  <1>10. SkippedByEdits'
    <2>. SUFFICES ASSUME NEW p \in watch, lastFed'[p] < MinuteStart
                  PROVE  /\ lastFed'[p] <= MinuteStart - Minute
                         /\ PassesOver <= bounds.lately
                         /\ ~Ahead(p)' => PassesOver < bounds.lately
      BY <1>2, <1>8 DEF SkippedByEdits, Unfed
    <2>1. CASE p = items[k].plan
      <3>1. sched.t < MinuteStart
        BY <2>1, <1>9, WatchNumbers
      <3>2. ~polled /\ sched.t = now - 1
        BY <1>2, <3>1, WatchNumbers DEF WatchInv, PassReadsClock, MinuteStart
      <3>3. now % Minute = 0 /\ now = sched.t + 1
        BY <3>1, <3>2, WatchNumbers DEF MinuteStart
      <3>4. MinuteOf(now) # MinuteOf(sched.t)
        BY <3>3, WatchNumbers, SecondPasses
      <3>5. PICK j \in Slots : /\ j < count /\ items[j].plan = p
                               /\ Due(items[j], MinuteOf(now), DayOf(now))
        BY <1>2, WatchedEntry
      <3>6. j = k
        BY <1>2, <1>4, <2>1, <3>5 DEF SchedulerInv, PlansOnce, Written, NoEdit
      <3>. QED BY <1>4, <3>4, <3>5, <3>6 DEF Due
    <2>2. CASE p # items[k].plan
      <3>1. Unfed(p) /\ lastFed'[p] = lastFed[p]
        BY <1>9, <2>2, WatchNumbers DEF Unfed
      <3>2. /\ lastFed[p] <= MinuteStart - Minute /\ PassesOver <= bounds.lately
            /\ ~Ahead(p) => PassesOver < bounds.lately
        BY <1>2, <3>1 DEF WatchInv, SkippedByEdits
      <3>3. CASE ~polled /\ now % Minute = 0
        <4>1. PassesOver = -1
          BY <1>2, <3>3 DEF PassesOver
        <4>. QED BY <3>1, <3>2, <4>1, WatchNumbers
      <3>4. CASE (polled \/ now % Minute # 0) /\ Ahead(p)
        <4>1. PICK j \in Hits : items[j].plan = p
          BY <1>2, <3>1, <3>4, AheadIsHit
        <4>2. j \in Slots /\ j < count /\ k <= j /\ j # k
          BY <1>1, <2>2, <4>1 DEF Hits
        <4>3. Ahead(p)'
          BY <1>2, <1>3, <4>1, <4>2 DEF Ahead
        <4>. QED BY <3>1, <3>2, <4>3
      <3>. QED BY <3>1, <3>2, <3>3, <3>4
    <2>. QED BY <2>1, <2>2
  <1>. QED BY <1>2, <1>6, <1>7, <1>10 DEF WatchInv

\* A second passes, within a minute or into the next one.
LEMMA TickKeepsWatch ==
  ASSUME SchedulerInv, WatchInv, Tick
  PROVE  WatchInv'
  <1>1. /\ UNCHANGED <<listVars, mutex, sched, lastFed>>
        /\ polled /\ ~polled' /\ now' = now + 1
    BY DEF Tick
  <1>2. /\ (now + 1) % Minute = IF (now % Minute) + 1 = Minute THEN 0 ELSE (now % Minute) + 1
        /\ (now + 1) % Minute # 0 =>
             MinuteOf(now + 1) = MinuteOf(now) /\ DayOf(now + 1) = DayOf(now)
    BY WatchNumbers, SecondPasses
  <1>3. sched.pc # "sleep" => sched.t = now
    BY <1>1 DEF WatchInv, PassReadsClock
  <1>4. CASE (now + 1) % Minute # 0
    <2>1. UNCHANGED <<watch, bounds>>
      BY <1>1, <1>4 DEF Tick
    <2>2. WatchIsDue'
      BY <1>1, <1>2, <1>4, <2>1 DEF WatchInv, WatchIsDue, DuePlans, listVars
    <2>3. PassReadsClock'
      BY <1>1, <1>2, <1>3, <1>4, <2>1, WatchNumbers DEF WatchInv, PassReadsClock
    <2>4. MinuteStart' = MinuteStart /\ PassesOver' = PassesOver
      BY <1>1, <1>2, <1>4, WatchNumbers DEF MinuteStart, PassesOver
    <2>5. \A p \in watch : Ahead(p)' = Ahead(p)
      BY <1>1 DEF Ahead, listVars
    <2>6. SkippedByEdits'
      BY <1>1, <2>1, <2>4, <2>5 DEF WatchInv, SkippedByEdits, Unfed
    <2>. QED BY <2>1, <2>2, <2>3, <2>6 DEF WatchInv
  <1>5. CASE (now + 1) % Minute = 0
    <2>1. /\ watch' = Expected(now + 1)
          /\ bounds' = [bounds EXCEPT !.lately = 0]
      BY <1>1, <1>5 DEF Tick
    <2>2. bounds' \in [edits : Nat, sets : Nat, reboots : Nat, lately : Nat] /\ bounds'.lately = 0
      BY <2>1 DEF WatchInv
    <2>3. watch' \subseteq DuePlans(items, count, now + 1)
      BY <2>1 DEF Expected
    <2>4. WatchIsDue'
      <3>1. watch' \subseteq Plans
        BY <2>3, DuePlansNamed DEF SchedulerInv
      <3>. QED BY <1>1, <2>3, <3>1 DEF WatchIsDue, DuePlans, listVars
    <2>5. PassReadsClock'
      BY <1>1, <1>3, <1>5, WatchNumbers DEF PassReadsClock
    <2>6. MinuteStart' = now + 1 /\ PassesOver' \in {-1, 0}
          /\ (sched.pc # "sleep" => PassesOver' = -1)
      <3>1. now' % Minute = 0 /\ now + 1 \in Nat
        BY <1>1, <1>5, WatchNumbers
      <3>2. MinuteStart' = now + 1
        BY <1>1, <3>1 DEF MinuteStart
      <3>3. PassesOver' = IF sched.pc = "sleep" THEN 0 ELSE -1
        BY <1>1, <3>1 DEF PassesOver
      <3>. QED BY <3>2, <3>3
    <2>7. \A p \in watch' : lastFed'[p] <= MinuteStart' - Minute
      BY <1>1, <2>1, <2>6 DEF Expected
    <2>8. SkippedByEdits'
      BY <1>1, <2>2, <2>6, <2>7 DEF SkippedByEdits
    <2>. QED BY <2>2, <2>4, <2>5, <2>8 DEF WatchInv
  <1>. QED BY <1>4, <1>5

\* Nothing is expected of a minute in which the clock was set or the device
\* restarted.
LEMMA ResetKeepsWatch ==
  ASSUME WatchInv, (\E t \in 0..End : SetClock(t)) \/ Reboot
  PROVE  WatchInv'
  <1>1. watch' = {} /\ ~polled'
    BY DEF SetClock, Reboot
  <1>2. bounds' \in [edits : Nat, sets : Nat, reboots : Nat, lately : Nat]
    BY DEF WatchInv, SetClock, Reboot
  <1>. QED BY <1>1, <1>2 DEF WatchInv, WatchIsDue, PassReadsClock, SkippedByEdits

\* An edit counts when it begins; from then until it is over no pass that has
\* begun to scan the list is said to have a plan still before it.
LEMMA EditKeepsWatch ==
  ASSUME SchedulerInv, WatchInv,
         UNCHANGED <<sched, now, polled, lastFed>>,
         watch' \subseteq watch,
         mutex' = Nobody => watch' \subseteq DuePlans(items', count', now),
         \/ bounds' = [bounds EXCEPT !.edits = @ + 1, !.lately = @ + 1]
         \/ mutex # Nobody /\ bounds' = bounds
  PROVE  WatchInv'
  <1>1. /\ bounds' \in [edits : Nat, sets : Nat, reboots : Nat, lately : Nat]
        /\ \/ bounds'.lately = bounds.lately + 1
           \/ bounds'.lately = bounds.lately /\ mutex # Nobody
    <2>. DEFINE Counts == [edits : Nat, sets : Nat, reboots : Nat, lately : Nat]
    <2>1. bounds \in Counts
      BY DEF WatchInv
    <2>2. CASE bounds' = [bounds EXCEPT !.edits = @ + 1, !.lately = @ + 1]
      <3>1. bounds.edits + 1 \in Nat /\ bounds.lately + 1 \in Nat
        BY <2>1
      <3>2. bounds' = [bounds EXCEPT !.edits = bounds.edits + 1,
                                     !.lately = bounds.lately + 1]
        BY <2>2
      <3>. QED BY <2>1, <3>1, <3>2
    <2>3. CASE mutex # Nobody /\ bounds' = bounds
      BY <2>1, <2>3
    <2>. QED BY <2>2, <2>3
  <1>2. WatchIsDue'
    BY DEF WatchInv, WatchIsDue, DuePlans
  <1>3. PassReadsClock'
    BY DEF WatchInv, PassReadsClock
  <1>4. MinuteStart' = MinuteStart /\ PassesOver' = PassesOver
    BY DEF MinuteStart, PassesOver
  <1>5. SkippedByEdits'
    <2>. SUFFICES ASSUME NEW p \in watch, lastFed[p] < MinuteStart
                  PROVE  /\ lastFed[p] <= MinuteStart - Minute
                         /\ PassesOver <= bounds'.lately
                         /\ sched.pc # "sleep" /\ ~Ahead(p)' => PassesOver < bounds'.lately
      BY <1>4 DEF SkippedByEdits, Unfed
    <2>1. /\ lastFed[p] <= MinuteStart - Minute /\ PassesOver <= bounds.lately
          /\ sched.pc # "sleep" /\ ~Ahead(p) => PassesOver < bounds.lately
      BY DEF WatchInv, SkippedByEdits, Unfed
    <2>2. CASE bounds'.lately = bounds.lately + 1
      BY <2>1, <2>2, WatchNumbers
    <2>3. CASE bounds'.lately = bounds.lately /\ mutex # Nobody
      <3>1. Ahead(p) => Ahead(p)'
        BY <2>3 DEF Ahead
      <3>. QED BY <2>1, <2>3, <3>1
    <2>. QED BY <1>1, <2>2, <2>3
  <1>. QED BY <1>1, <1>2, <1>3, <1>5 DEF WatchInv

LEMMA EditsKeepWatch ==
  ASSUME SchedulerInv, WatchInv, EditStep
  PROVE  WatchInv'
  <1>1. UNCHANGED <<sched, now, polled, lastFed>>
    BY DEF EditStep, SetItem, SetItemEnd, AddItem, AddItemEnd, ReplaceAll, ReplaceAllEnd,
           RemoveItem, StillDue, ghosts, clockVars
  <1>2. watch' \subseteq watch
    BY DEF EditStep, SetItem, SetItemEnd, AddItem, AddItemEnd, ReplaceAll, ReplaceAllEnd,
           RemoveItem, StillDue, ghosts
  <1>3. mutex' = Nobody => watch' \subseteq DuePlans(items', count', now)
    BY SchedulerAssumption
       DEF EditStep, SetItem, SetItemEnd, AddItem, AddItemEnd, ReplaceAll, ReplaceAllEnd,
           RemoveItem, StillDue, Lock
  <1>4. \/ bounds' = [bounds EXCEPT !.edits = @ + 1, !.lately = @ + 1]
        \/ mutex # Nobody /\ bounds' = bounds
    BY SchedulerAssumption
       DEF EditStep, SetItem, SetItemEnd, AddItem, AddItemEnd, ReplaceAll, ReplaceAllEnd,
           RemoveItem, Lock, Unlock
  <1>. QED BY <1>1, <1>2, <1>3, <1>4, EditKeepsWatch

LEMMA StepKeepsWatch ==
  MinutesPerDay # 1 /\ SchedulerInv /\ WatchInv /\ [SchedulerNext]_schedulerVars => WatchInv'
  <1>. SUFFICES ASSUME MinutesPerDay # 1, SchedulerInv, WatchInv,
                       [SchedulerNext]_schedulerVars
                PROVE  WatchInv'
    OBVIOUS
  <1>1. CASE EditStep
    BY <1>1, EditsKeepWatch
  <1>2. CASE ScanStep
    BY <1>2, ScanKeepsWatch, EndKeepsWatch, TriggerKeepsWatch DEF ScanStep
  <1>3. CASE Tick
    BY <1>3, TickKeepsWatch
  <1>4. CASE (\E t \in 0..End : SetClock(t)) \/ Reboot
    BY <1>4, ResetKeepsWatch
  <1>5. CASE AtHorizon \/ UNCHANGED schedulerVars
    BY <1>5 DEF AtHorizon, schedulerVars, listVars, clockVars, ghosts, WatchInv, WatchIsDue,
                PassReadsClock, SkippedByEdits, MinuteStart, PassesOver, Ahead, Unfed, DuePlans
  <1>. QED BY <1>1, <1>2, <1>3, <1>4, <1>5 DEF SchedulerNext

\* At the end of a minute a plan could be owed only if an edit had come between
\* it and every pass of the minute but the last.
LEMMA NothingBecomesOwed ==
  ASSUME SchedulerInv, WatchInv, FewEdits, owed = {}, [SchedulerNext]_schedulerVars
  PROVE  owed' = {}
  <1>1. CASE Tick
    <2>1. CASE now' % Minute # 0
      BY <1>1, <2>1 DEF Tick
    <2>2. CASE now' % Minute = 0
      <3>1. owed' = {p \in watch : lastFed[p] <= now - Minute} /\ polled /\ now' = now + 1
        BY <1>1, <2>2 DEF Tick
      <3>2. (now % Minute) + 1 = Minute
        BY <2>2, <3>1, WatchNumbers, SecondPasses
      <3>3. PassesOver >= Minute - 1 /\ MinuteStart = (now - Minute) + 1
        BY <3>1, <3>2, WatchNumbers DEF PassesOver, MinuteStart
      <3>4. ASSUME NEW p \in watch, lastFed[p] <= now - Minute
            PROVE  FALSE
        <4>1. Unfed(p)
          BY <3>3, <3>4, WatchNumbers DEF Unfed
        <4>2. PassesOver <= bounds.lately
          BY <4>1 DEF WatchInv, SkippedByEdits
        <4>. QED BY <3>3, <4>2, WatchNumbers DEF FewEdits
      <3>. QED BY <3>1, <3>4
    <2>. QED BY <2>1, <2>2
  <1>2. CASE EditStep
    BY <1>2 DEF EditStep, SetItem, SetItemEnd, AddItem, AddItemEnd, ReplaceAll,
                ReplaceAllEnd, RemoveItem, StillDue, ghosts
  <1>3. CASE ScanStep
    BY <1>3 DEF ScanStep, Sample, SampleDay, Trigger, Callback, Continue, PassEnds, ghosts
  <1>4. CASE (\E t \in 0..End : SetClock(t)) \/ Reboot
    BY <1>4 DEF SetClock, Reboot
  <1>5. CASE AtHorizon \/ UNCHANGED schedulerVars
    BY <1>5 DEF AtHorizon, schedulerVars, ghosts
  <1>. QED BY <1>1, <1>2, <1>3, <1>4, <1>5 DEF SchedulerNext

-----------------------------------------------------------------------------
\* The plans that are watched are due, and every pass that failed one of them
\* lost it to an edit of the minute.
THEOREM WatchInvariant ==
  ASSUME MinutesPerDay # 1
  PROVE  SchedulerSpec => []WatchInv
  <1>1. SchedulerInv /\ WatchInv /\ [SchedulerNext]_schedulerVars => WatchInv'
    BY StepKeepsWatch
  <1>. QED BY <1>1, WatchStarts, SchedulerInvariant, PTL DEF SchedulerSpec

\* A plan that is due for a whole minute is fed in it, as long as at least two
\* polls of the minute are more than the edits that begin in it: each edit can
\* make one pass skip an entry, and the last pass of a day may read the next day.
THEOREM NoFeedIsMissed ==
  ASSUME MinutesPerDay # 1
  PROVE  SchedulerSpec /\ []FewEdits => []NoFeedMissed
  <1>1. SchedulerInit => owed = {}
    BY DEF SchedulerInit
  <1>2. SchedulerInv /\ WatchInv /\ FewEdits /\ owed = {} /\ [SchedulerNext]_schedulerVars
          => (owed = {})'
    BY NothingBecomesOwed
  <1>3. owed = {} => NoFeedMissed
    BY DEF NoFeedMissed
  <1>4. SchedulerSpec => []WatchInv
    BY WatchInvariant
  <1>. QED BY <1>1, <1>2, <1>3, <1>4, SchedulerInvariant, PTL DEF SchedulerSpec
=============================================================================
