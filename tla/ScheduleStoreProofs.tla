------------------------- MODULE ScheduleStoreProofs -------------------------
(***************************************************************************)
(* Proofs about the list on flash, for lists of every length, every entry  *)
(* that an editor may write, every flash that the firmware may find, and   *)
(* every number of edits, of operations that NVS refuses and of power cuts. *)
(***************************************************************************)
EXTENDS ScheduleStore, SequenceTheorems, WellFoundedInduction, TLAPS

(***************************************************************************)
(* The inductive invariant.  The mutex belongs to the task that is writing, *)
(* and the list is what that task counted when it took the mutex; ...      *)
(***************************************************************************)
Writing(t) == saving[t].pc \in {"count", "item"}

WriterHoldsMutex ==
  \A t \in Tasks : /\ Writing(t) <=> mutex = t
                   /\ Writing(t) => saving[t].n = count
                   /\ saving[t].pc = "count" => saving[t].k = 0
                   /\ ~up => saving[t].pc = "idle"

\* ... what it has written so far is the beginning of that list; ...
PrefixWritten ==
  \A t \in Tasks : saving[t].pc = "item" =>
    /\ dirty
    /\ InMemory \in begun
    /\ nvs.count = count
    /\ \A j \in Slots : j < saving[t].k =>
         nvs.item[j] = [x |-> items[j], legacy |-> FALSE]

\* ... until somebody writes, the flash is the list that was saved; ...
CleanIsSaved == ~dirty => begun = {} /\ Recovered(nvs) = saved

\* ... no entry of it is ever erased, and the ones that no writer since was to
\* change are still there; ...
Kept(k) == \A s \in begun : k <= Len(s) /\ s[k] = saved[k]

KeptOnFlash ==
  /\ Len(saved) <= MaxItems
  /\ \A k \in 1..Len(saved) :
       /\ nvs.item[k - 1] # Absent
       /\ Kept(k) => /\ nvs.count # Absent /\ k <= nvs.count
                     /\ Entry(nvs.item[k - 1]) = saved[k]

\* ... and before the first edit the list in memory is the saved one.
UneditedIsSaved ==
  bounds.edits = 0 /\ bounds.failures = 0 =>
    /\ Recovered(nvs) = saved
    /\ up => InMemory = saved

StoreInv ==
  /\ StoreTypeOK
  /\ WriterHoldsMutex
  /\ PrefixWritten
  /\ CleanIsSaved
  /\ KeptOnFlash
  /\ UneditedIsSaved
-----------------------------------------------------------------------------
(***************************************************************************)
(* Entries.  What sanitize_item has corrected it leaves alone afterwards.  *)
(***************************************************************************)
LEMMA Clamping ==
  ASSUME NEW n \in Nat, NEW m \in Nat \ {0}
  PROVE  /\ Clamp(n, 1, m) \in Nat
         /\ Clamp(Clamp(n, 1, m), 1, m) = Clamp(n, 1, m)
  BY DEF Clamp

LEMMA SameEntry ==
  ASSUME NEW x \in Entries, NEW y \in Entries,
         x.plan = y.plan, x.time = y.time, x.amount = y.amount,
         x.enabled = y.enabled, x.every = y.every
  PROVE  x = y
  BY DEF Entries

LEMMA SanitizedFields ==
  ASSUME NEW x \in Entries
  PROVE  /\ Sanitize(x) \in Entries
         /\ Sanitize(x).plan = x.plan
         /\ Sanitize(x).time = IF x.time < MinutesPerDay THEN x.time ELSE 0
         /\ Sanitize(x).amount = Clamp(x.amount, 1, MaxAmount)
         /\ Sanitize(x).enabled = x.enabled
         /\ Sanitize(x).every = Clamp(x.every, 1, MaxEvery)
  <1>. DEFINE t == IF x.time < MinutesPerDay THEN x.time ELSE 0
              a == Clamp(x.amount, 1, MaxAmount)
              e == Clamp(x.every, 1, MaxEvery)
  <1>1. t \in Nat /\ a \in Nat /\ e \in Nat
    BY ListAssumption, Clamping DEF Entries
  <1>2. Sanitize(x) = [x EXCEPT !.time = t, !.amount = a, !.every = e]
    BY DEF Sanitize
  <1>. HIDE DEF t, a, e
  <1>3. LET y == [x EXCEPT !.time = t, !.amount = a, !.every = e]
        IN  /\ y \in Entries /\ y.plan = x.plan /\ y.enabled = x.enabled
            /\ y.time = t /\ y.amount = a /\ y.every = e
    BY <1>1 DEF Entries
  <1>. QED BY <1>2, <1>3 DEF t, a, e

LEMMA Sanitizing ==
  ASSUME NEW x \in Entries
  PROVE  Sanitize(x) \in Entries /\ Sane(Sanitize(x))
  <1>1. PICK y : y = Sanitize(x)
    OBVIOUS
  <1>2. y \in Entries /\ Sanitize(y) \in Entries
    BY <1>1, SanitizedFields
  <1>3. /\ MinutesPerDay \in Nat \ {0} /\ x.time \in Nat
        /\ x.amount \in Nat /\ MaxAmount \in Nat \ {0}
        /\ x.every \in Nat /\ MaxEvery \in Nat \ {0}
    BY ListAssumption DEF Entries
  <1>4. y.time < MinutesPerDay
    BY <1>1, <1>3, SanitizedFields
  <1>5. Clamp(y.amount, 1, MaxAmount) = y.amount /\ Clamp(y.every, 1, MaxEvery) = y.every
    BY <1>1, <1>3, SanitizedFields, Clamping
  <1>6. Sanitize(y) = y
    <2>1. /\ Sanitize(y).plan = y.plan /\ Sanitize(y).enabled = y.enabled
          /\ Sanitize(y).time = y.time /\ Sanitize(y).amount = y.amount
          /\ Sanitize(y).every = y.every
      BY <1>2, <1>4, <1>5, SanitizedFields
    <2>. QED BY <1>2, <2>1, SameEntry
  <1>. QED BY <1>1, <1>2, <1>6 DEF Sane

\* An entry is read as a legal one, and one that was legal as itself.
LEMMA Reading ==
  /\ \A cell \in Cells : Entry(cell) \in Entries /\ Sane(Entry(cell))
  /\ \A x \in Entries : Sane(x) =>
       /\ [x |-> x, legacy |-> FALSE] \in Cells
       /\ Entry([x |-> x, legacy |-> FALSE]) = x
  <1>1. ASSUME NEW cell \in Cells
        PROVE  Entry(cell) \in Entries /\ Sane(Entry(cell))
    <2>1. [cell.x EXCEPT !.every = 1] \in Entries /\ cell.x \in Entries
      BY DEF Cells, Entries
    <2>. QED BY <2>1, Sanitizing DEF Entry
  <1>. QED BY <1>1 DEF Cells, Entry, Sane

(***************************************************************************)
(* Recovery.  The first entry that cannot be read exists and is unique.    *)
(***************************************************************************)
LEMMA FirstUnreadable ==
  ASSUME NEW flash \in Flashes, flash.count # Absent
  PROVE  \E m \in 0..flash.count :
           /\ \A k \in Slots : k < m => flash.item[k] # Absent
           /\ m = flash.count \/ flash.item[m] = Absent
  <1>1. flash.count \in 0..MaxItems /\ MaxItems \in Nat
    BY ListAssumption DEF Flashes
  <1>. DEFINE T == {m \in 0..flash.count : m = flash.count \/ flash.item[m] = Absent}
  <1>2. T \subseteq Nat /\ flash.count \in T
    BY <1>1
  <1>3. PICK m \in T : \A y \in T : ~ (<<y, m>> \in OpToRel(<, Nat))
    BY <1>2, NatLessThanWellFounded, WFMin, Zenon
  <1>4. \A y \in T : ~ (y < m)
    BY <1>2, <1>3, Zenon DEF OpToRel
  <1>5. ASSUME NEW k \in Slots, k < m
        PROVE  flash.item[k] # Absent
    <2>1. k \in 0..flash.count
      BY <1>1, <1>5 DEF Slots
    <2>. QED BY <1>4, <1>5, <2>1
  <1>. QED BY <1>5

LEMMA RecoveredUpTo ==
  ASSUME NEW flash \in Flashes, flash.count # Absent,
         NEW n \in 0..flash.count,
         \A k \in Slots : k < n => flash.item[k] # Absent,
         n = flash.count \/ flash.item[n] = Absent
  PROVE  Recovered(flash) = [k \in 1..n |-> Entry(flash.item[k - 1])]
  <1>. DEFINE First(m) == /\ \A k \in Slots : k < m => flash.item[k] # Absent
                          /\ m = flash.count \/ flash.item[m] = Absent
              c == CHOOSE m \in 0..flash.count : First(m)
  <1>1. flash.count \in 0..MaxItems /\ MaxItems \in Nat
    BY ListAssumption DEF Flashes
  <1>2. c \in 0..flash.count /\ First(c)
    BY Zenon
  <1>3. c = n
    <2>. HIDE DEF c
    <2>1. ~ (c < n)
      BY <1>1, <1>2 DEF Slots
    <2>2. ~ (n < c)
      BY <1>1, <1>2 DEF Slots
    <2>. QED BY <1>1, <1>2, <2>1, <2>2
  <1>4. Recovered(flash) = [k \in 1..c |-> Entry(flash.item[k - 1])]
    BY Zenon DEF Recovered
  <1>. HIDE DEF c
  <1>. QED BY <1>3, <1>4, Zenon

\* What a restart makes of any flash.
LEMMA RecoveredTyped ==
  ASSUME NEW flash \in Flashes, NEW r, r = Recovered(flash)
  PROVE  /\ r \in Seq(Entries) /\ Len(r) \in 0..MaxItems
         /\ flash.count = Absent => Len(r) = 0
         /\ flash.count # Absent =>
              /\ Len(r) <= flash.count
              /\ Len(r) = flash.count \/ flash.item[Len(r)] = Absent
         /\ \A k \in 1..Len(r) : /\ flash.item[k - 1] # Absent
                                 /\ r[k] = Entry(flash.item[k - 1])
                                 /\ Sane(r[k])
  <1>0. MaxItems \in Nat \ {0}
    BY ListAssumption
  <1>1. CASE flash.count = Absent
    BY <1>0, <1>1 DEF Recovered
  <1>2. CASE flash.count # Absent
    <2>0. flash.count \in 0..MaxItems
      BY <1>2 DEF Flashes
    <2>1. PICK n \in 0..flash.count :
             /\ \A k \in Slots : k < n => flash.item[k] # Absent
             /\ n = flash.count \/ flash.item[n] = Absent
      BY <1>2, FirstUnreadable
    <2>2. r = [k \in 1..n |-> Entry(flash.item[k - 1])]
      BY <1>2, <2>1, RecoveredUpTo
    <2>3. ASSUME NEW k \in 1..n
          PROVE  /\ flash.item[k - 1] # Absent
                 /\ Entry(flash.item[k - 1]) \in Entries
                 /\ Sane(Entry(flash.item[k - 1]))
      <3>1. k - 1 \in Slots /\ k - 1 < n
        BY <1>0, <2>0 DEF Slots
      <3>2. flash.item[k - 1] \in Cells
        BY <2>1, <3>1 DEF Flashes
      <3>. QED BY <2>1, <3>1, <3>2, Reading
    <2>4. r \in Seq(Entries) /\ Len(r) = n
      BY <2>0, <2>2, <2>3
    <2>5. Len(r) = flash.count \/ flash.item[Len(r)] = Absent
      BY <2>1, <2>4
    <2>6. Len(r) \in 0..MaxItems /\ Len(r) <= flash.count
      BY <1>0, <2>0, <2>4
    <2>7. \A k \in 1..Len(r) : r[k] = Entry(flash.item[k - 1])
      BY <2>2, <2>4
    <2>. QED BY <1>2, <2>3, <2>4, <2>5, <2>6, <2>7
  <1>. QED BY <1>1, <1>2

-----------------------------------------------------------------------------
(***************************************************************************)
(* StoreInv is inductive.  First the steps that do not write to the flash. *)
(***************************************************************************)
LEMMA FirstCells ==
  ASSUME NEW f, NEW n \in 0..MaxItems,
         \A k \in Slots : k < n => f[k] \in Entries /\ Sane(f[k])
  PROVE  LET s == [k \in 1..n |-> f[k - 1]]
         IN  /\ s \in Seq(Entries) /\ Len(s) = n
             /\ \A k \in 1..n : s[k] = f[k - 1] /\ k - 1 \in Slots /\ Sane(s[k])
  <1>1. MaxItems \in Nat /\ n \in Nat
    BY ListAssumption
  <1>2. ASSUME NEW k \in 1..n
        PROVE  k - 1 \in Slots /\ f[k - 1] \in Entries /\ Sane(f[k - 1])
    <2>1. k - 1 \in Slots /\ k - 1 < n
      BY <1>1 DEF Slots
    <2>. QED BY <2>1
  <1>. QED BY <1>1, <1>2

LEMMA ListInMemory ==
  ASSUME StoreTypeOK
  PROVE  /\ InMemory \in Seq(Entries) /\ Len(InMemory) = count
         /\ \A k \in 1..count : /\ InMemory[k] = items[k - 1] /\ k - 1 \in Slots
                                /\ Sane(InMemory[k])
  BY FirstCells DEF StoreTypeOK, InMemory

LEMMA FlashUntouched ==
  ASSUME StoreInv, UNCHANGED <<nvs, ghosts>>
  PROVE  CleanIsSaved' /\ KeptOnFlash'
  <1>1. nvs' = nvs /\ saved' = saved /\ dirty' = dirty /\ begun' = begun
    BY DEF ghosts
  <1>2. CleanIsSaved'
    BY <1>1 DEF StoreInv, CleanIsSaved
  <1>3. KeptOnFlash'
    BY <1>1 DEF StoreInv, KeptOnFlash, Kept
  <1>. QED BY <1>2, <1>3

LEMMA Counting ==
  ASSUME StoreTypeOK
  PROVE  LET B == [edits : 0..MaxEdits, failures : 0..MaxFailures, crashes : 0..MaxCrashes]
         IN  /\ Count("edits", MaxEdits) => bounds' \in B /\ bounds'.edits # 0
             /\ Count("failures", MaxFailures) => bounds' \in B /\ bounds'.failures # 0
             /\ Count("crashes", MaxCrashes) =>
                  /\ bounds' \in B
                  /\ bounds'.edits = bounds.edits /\ bounds'.failures = bounds.failures
  <1>1. MaxEdits \in Nat /\ MaxFailures \in Nat /\ MaxCrashes \in Nat
    BY StoreAssumption
  <1>. QED BY <1>1 DEF StoreTypeOK, Count

LEMMA StoreInitInv == StoreInit => StoreInv
  <1>. SUFFICES ASSUME StoreInit PROVE StoreInv
    OBVIOUS
  <1>. USE DEF StoreInit
  <1>0. nvs \in Flashes /\ MaxItems \in Nat \ {0}
    BY StoreAssumption, ListAssumption
  <1>1. /\ saved \in Seq(Entries) /\ Len(saved) \in 0..MaxItems
        /\ nvs.count = Absent => Len(saved) = 0
        /\ nvs.count # Absent => Len(saved) <= nvs.count
        /\ \A k \in 1..Len(saved) : /\ nvs.item[k - 1] # Absent
                                    /\ saved[k] = Entry(nvs.item[k - 1])
    BY <1>0, RecoveredTyped
  <1>2. StoreTypeOK
    <2>1. bounds \in [edits : 0..MaxEdits, failures : 0..MaxFailures, crashes : 0..MaxCrashes]
      BY StoreAssumption
    <2>2. /\ saving \in [Tasks -> [pc : {"idle", "open", "count", "item"},
                                   k : 0..MaxItems, n : 0..MaxItems]]
          /\ \A t \in Tasks : saving[t].k <= saving[t].n
      BY <1>0 DEF Idle
    <2>3. /\ count \in 0..MaxItems /\ items \in [Slots -> Entries \cup {Blank}]
          /\ \A k \in Slots : k < count => items[k] \in Entries /\ Sane(items[k])
      BY <1>0 DEF Slots
    <2>. QED BY <1>0, <1>1, <2>1, <2>2, <2>3 DEF StoreTypeOK
  <1>3. WriterHoldsMutex /\ PrefixWritten
    BY StoreAssumption DEF WriterHoldsMutex, PrefixWritten, Writing, Idle, Tasks
  <1>4. CleanIsSaved /\ UneditedIsSaved
    BY DEF CleanIsSaved, UneditedIsSaved
  <1>5. KeptOnFlash
    <2>1. CASE nvs.count = Absent
      BY <1>0, <1>1, <2>1 DEF KeptOnFlash
    <2>2. CASE nvs.count # Absent
      <3>1. nvs.count \in 0..MaxItems
        BY <1>0, <2>2 DEF Flashes
      <3>. QED BY <1>0, <1>1, <2>2, <3>1 DEF KeptOnFlash
    <2>. QED BY <2>1, <2>2
  <1>. QED BY <1>2, <1>3, <1>4, <1>5 DEF StoreInv

LEMMA LoadInv ==
  ASSUME StoreInv, Load
  PROVE  StoreInv'
  <1>. DEFINE r == Recovered(nvs)
  <1>. USE DEF StoreInv, Load
  <1>0. MaxItems \in Nat \ {0}
    BY ListAssumption
  <1>1. /\ r \in Seq(Entries) /\ Len(r) \in 0..MaxItems
        /\ \A k \in 1..Len(r) : Sane(r[k])
    BY RecoveredTyped DEF StoreTypeOK
  <1>. HIDE DEF r
  <1>2. items' = Overwrite(items, r, Len(r)) /\ count' = Len(r)
    BY DEF r
  <1>3. /\ items' \in [Slots -> Entries \cup {Blank}]
        /\ \A k \in Slots : k < count' => items'[k] = r[k + 1] /\ k + 1 \in 1..Len(r)
    <2>1. items \in [Slots -> Entries \cup {Blank}] /\ Len(r) \in Nat
      BY <1>0, <1>1 DEF StoreTypeOK
    <2>2. ASSUME NEW k \in Slots, k < Len(r)
          PROVE  k + 1 \in 1..Len(r) /\ r[k + 1] \in Entries
      <3>1. k + 1 \in 1..Len(r)
        BY <1>0, <2>1, <2>2 DEF Slots
      <3>. QED BY <1>1, <3>1
    <2>. QED BY <1>2, <2>1, <2>2 DEF Overwrite
  <1>4. \A k \in Slots : k < count' => items'[k] \in Entries /\ Sane(items'[k])
    BY <1>1, <1>3
  <1>5. /\ saving' \in [Tasks -> [pc : {"idle", "open", "count", "item"},
                                  k : 0..MaxItems, n : 0..MaxItems]]
        /\ \A t \in Tasks : /\ saving'[t].k = saving[t].k /\ saving'[t].n = saving[t].n
                            /\ saving'[t].pc \in {"idle", "open"}
    BY DEF StoreTypeOK, WriterHoldsMutex
  <1>6. StoreTypeOK'
    BY <1>1, <1>2, <1>3, <1>4, <1>5 DEF StoreTypeOK, ghosts
  <1>7. WriterHoldsMutex'
    BY <1>5 DEF WriterHoldsMutex, Writing
  <1>8. PrefixWritten'
    BY <1>5 DEF PrefixWritten
  <1>9. UneditedIsSaved'
    <2>1. InMemory' = r
      <3>1. InMemory' \in Seq(Entries) /\ Len(InMemory') = Len(r)
            /\ \A k \in 1..Len(r) : InMemory'[k] = items'[k - 1]
        BY <1>1, <1>2, <1>4, FirstCells DEF InMemory
      <3>2. ASSUME NEW k \in 1..Len(r)
            PROVE  items'[k - 1] = r[k]
        <4>1. k - 1 \in Slots /\ k - 1 < count' /\ (k - 1) + 1 = k
          BY <1>0, <1>1, <1>2 DEF Slots
        <4>. QED BY <1>3, <4>1
      <3>. QED BY <1>1, <3>1, <3>2, SeqEqual
    <2>. QED BY <2>1 DEF UneditedIsSaved, ghosts, r
  <1>. QED BY <1>6, <1>7, <1>8, <1>9, FlashUntouched

LEMMA LoadFailsInv ==
  ASSUME StoreInv, LoadFails
  PROVE  StoreInv'
  <1>. USE DEF StoreInv, LoadFails, memory
  <1>1. /\ bounds' \in [edits : 0..MaxEdits, failures : 0..MaxFailures, crashes : 0..MaxCrashes]
        /\ bounds'.failures # 0
    BY Counting
  <1>2. StoreTypeOK'
    BY <1>1 DEF StoreTypeOK, ghosts
  <1>3. WriterHoldsMutex'
    BY DEF WriterHoldsMutex, Writing
  <1>4. PrefixWritten'
    BY DEF PrefixWritten, InMemory, ghosts
  <1>5. UneditedIsSaved'
    BY <1>1 DEF UneditedIsSaved
  <1>. QED BY <1>2, <1>3, <1>4, <1>5, FlashUntouched

LEMMA PowerCutInv ==
  ASSUME StoreInv, PowerCut
  PROVE  StoreInv'
  <1>. USE DEF StoreInv, PowerCut
  <1>1. /\ bounds' \in [edits : 0..MaxEdits, failures : 0..MaxFailures, crashes : 0..MaxCrashes]
        /\ bounds'.failures = bounds.failures /\ bounds'.edits = bounds.edits
    BY Counting
  <1>0. MaxItems \in Nat \ {0}
    BY ListAssumption
  <1>2. StoreTypeOK'
    <2>1. /\ saving' \in [Tasks -> [pc : {"idle", "open", "count", "item"},
                                    k : 0..MaxItems, n : 0..MaxItems]]
          /\ \A t \in Tasks : saving'[t].k <= saving'[t].n
      BY <1>0 DEF Idle
    <2>2. /\ count' \in 0..MaxItems /\ items' \in [Slots -> Entries \cup {Blank}]
          /\ \A k \in Slots : ~ (k < count')
      BY <1>0 DEF Slots
    <2>. QED BY <1>1, <2>1, <2>2 DEF StoreTypeOK, ghosts
  <1>3. WriterHoldsMutex' /\ PrefixWritten'
    BY StoreAssumption DEF WriterHoldsMutex, PrefixWritten, Writing, Idle, Tasks
  <1>4. UneditedIsSaved'
    BY <1>1 DEF UneditedIsSaved, ghosts
  <1>. QED BY <1>2, <1>3, <1>4, FlashUntouched

\* What an editor leaves in memory is a list of legal entries again.
LEMMA EditedTyped ==
  ASSUME StoreTypeOK, OneItem \/ Refused \/ \E s \in Lists : ReplaceAll(s)
  PROVE  /\ count' \in 0..MaxItems
         /\ items' \in [Slots -> Entries \cup {Blank}]
         /\ \A k \in Slots : k < count' => items'[k] \in Entries /\ Sane(items'[k])
  <1>0. /\ MaxItems \in Nat \ {0} /\ count \in 0..MaxItems
        /\ items \in [Slots -> Entries \cup {Blank}]
        /\ \A k \in Slots : k < count => items[k] \in Entries /\ Sane(items[k])
    BY ListAssumption DEF StoreTypeOK
  <1>1. \A x \in Inputs : Sanitize(x) \in Entries /\ Sane(Sanitize(x))
    BY StoreAssumption, Sanitizing
  <1>2. ASSUME NEW x \in Inputs, AddItem(x)
        PROVE  /\ count' \in 0..MaxItems
               /\ items' \in [Slots -> Entries \cup {Blank}]
               /\ \A k \in Slots : k < count' => items'[k] \in Entries /\ Sane(items'[k])
    BY <1>0, <1>1, <1>2 DEF AddItem, Slots
  <1>3. ASSUME NEW x \in Inputs, NEW i \in Slots, SetItem(i, x)
        PROVE  /\ count' \in 0..MaxItems
               /\ items' \in [Slots -> Entries \cup {Blank}]
               /\ \A k \in Slots : k < count' => items'[k] \in Entries /\ Sane(items'[k])
    BY <1>0, <1>1, <1>3 DEF SetItem
  <1>4. ASSUME NEW i \in Slots, RemoveItem(i)
        PROVE  /\ count' \in 0..MaxItems
               /\ items' \in [Slots -> Entries \cup {Blank}]
               /\ \A k \in Slots : k < count' => items'[k] \in Entries /\ Sane(items'[k])
    <2>1. i \in Nat /\ count \in Nat /\ i < count /\ count' = count - 1
      BY <1>0, <1>4 DEF RemoveItem, Slots
    <2>2. items' = [k \in Slots |-> IF i <= k /\ k + 1 < count THEN items[k + 1] ELSE items[k]]
      BY <1>0, <1>4 DEF RemoveItem, Close
    <2>3. ASSUME NEW k \in Slots, k + 1 < count
          PROVE  k + 1 \in Slots
      BY <1>0, <2>3 DEF Slots
    <2>4. \A k \in Slots : items'[k] \in Entries \cup {Blank}
      BY <1>0, <2>2, <2>3
    <2>5. ASSUME NEW k \in Slots, k < count'
          PROVE  items'[k] \in Entries /\ Sane(items'[k])
      <3>1. k \in Nat /\ k + 1 < count /\ k < count /\ k + 1 \in Slots
        BY <1>0, <2>1, <2>3, <2>5 DEF Slots
      <3>. QED BY <1>0, <2>2, <3>1
    <2>. QED BY <1>0, <2>1, <2>2, <2>4, <2>5
  <1>5. ASSUME NEW s \in Lists, ReplaceAll(s)
        PROVE  /\ count' \in 0..MaxItems
               /\ items' \in [Slots -> Entries \cup {Blank}]
               /\ \A k \in Slots : k < count' => items'[k] \in Entries /\ Sane(items'[k])
    <2>1. s \in Seq(Entries) /\ Len(s) \in 0..MaxItems
      BY <1>0, StoreAssumption
    <2>2. ASSUME NEW k \in Slots, k < Len(s)
          PROVE  Sanitize(s[k + 1]) \in Entries /\ Sane(Sanitize(s[k + 1]))
      <3>1. k + 1 \in 1..Len(s)
        BY <1>0, <2>1, <2>2 DEF Slots
      <3>. QED BY <2>1, <3>1, Sanitizing
    <2>. QED BY <1>0, <1>5, <2>1, <2>2 DEF ReplaceAll
  <1>6. CASE Refused
    BY <1>0, <1>6 DEF Refused
  <1>. QED BY <1>2, <1>3, <1>4, <1>5, <1>6 DEF OneItem

\* An edit is made while nobody writes, so what was written stays the list.
LEMMA EditInv ==
  ASSUME StoreInv, EditByHand \/ EditByCloud
  PROVE  StoreInv'
  <1>. USE DEF StoreInv
  <1>1. PICK t \in Tasks : MayEdit(t)
    BY DEF EditByHand, EditByCloud, Tasks
  <1>2. /\ Count("edits", MaxEdits)
        /\ OneItem \/ Refused \/ \E s \in Lists : ReplaceAll(s)
        /\ UNCHANGED <<mutex, up, nvs, ghosts>>
        /\ saving' = saving \/ \E u \in Tasks : MayEdit(u) /\ Place(u, "open")
    BY DEF EditByHand, EditByCloud, Tasks
  <1>3. /\ bounds' \in [edits : 0..MaxEdits, failures : 0..MaxFailures, crashes : 0..MaxCrashes]
        /\ bounds'.edits # 0
    BY <1>2, Counting
  <1>4. mutex = Nobody /\ up /\ \A u \in Tasks : ~ Writing(u)
    BY <1>1, StoreAssumption DEF MayEdit, WriterHoldsMutex, Tasks
  <1>5. /\ saving' \in [Tasks -> [pc : {"idle", "open", "count", "item"},
                                  k : 0..MaxItems, n : 0..MaxItems]]
        /\ \A u \in Tasks : /\ saving'[u].k = saving[u].k /\ saving'[u].n = saving[u].n
                            /\ saving'[u].pc \in {"idle", "open"}
    <2>1. \A u \in Tasks : saving[u].pc \in {"idle", "open"}
      BY <1>4 DEF StoreTypeOK, Writing
    <2>2. CASE saving' = saving
      BY <2>1, <2>2 DEF StoreTypeOK
    <2>3. CASE \E u \in Tasks : Place(u, "open")
      <3>1. PICK u \in Tasks : saving' = [saving EXCEPT ![u].pc = "open"]
        BY <2>3 DEF Place
      <3>2. /\ saving' \in [Tasks -> [pc : {"idle", "open", "count", "item"},
                                      k : 0..MaxItems, n : 0..MaxItems]]
            /\ saving'[u] = [saving[u] EXCEPT !.pc = "open"]
            /\ \A v \in Tasks : v # u => saving'[v] = saving[v]
        BY <3>1 DEF StoreTypeOK
      <3>3. /\ saving'[u].k = saving[u].k /\ saving'[u].n = saving[u].n
            /\ saving'[u].pc = "open"
        BY <3>2 DEF StoreTypeOK
      <3>. QED BY <2>1, <3>2, <3>3
    <2>. QED BY <1>2, <2>2, <2>3
  <1>6. StoreTypeOK'
    BY <1>2, <1>3, <1>5, EditedTyped DEF StoreTypeOK, ghosts
  <1>7. WriterHoldsMutex' /\ PrefixWritten'
    BY <1>2, <1>4, <1>5, StoreAssumption DEF WriterHoldsMutex, PrefixWritten, Writing, Tasks
  <1>8. UneditedIsSaved'
    BY <1>3 DEF UneditedIsSaved
  <1>. QED BY <1>2, <1>6, <1>7, <1>8, FlashUntouched

LEMMA SaveButtonInv ==
  ASSUME StoreInv, SaveButton
  PROVE  StoreInv'
  <1>. USE DEF StoreInv, SaveButton
  <1>1. /\ saving' \in [Tasks -> [pc : {"idle", "open", "count", "item"},
                                  k : 0..MaxItems, n : 0..MaxItems]]
        /\ \A u \in Tasks : /\ saving'[u].k = saving[u].k /\ saving'[u].n = saving[u].n
                            /\ saving'[u].pc # saving[u].pc =>
                                 saving[u].pc = "idle" /\ saving'[u].pc = "open"
    BY DEF StoreTypeOK, Place
  <1>2. StoreTypeOK'
    BY <1>1 DEF StoreTypeOK, ghosts
  <1>3. WriterHoldsMutex'
    BY <1>1 DEF WriterHoldsMutex, Writing
  <1>4. PrefixWritten'
    BY <1>1 DEF PrefixWritten, InMemory, ghosts
  <1>5. UneditedIsSaved'
    BY DEF UneditedIsSaved, InMemory, ghosts
  <1>. QED BY <1>2, <1>3, <1>4, <1>5, FlashUntouched

LEMMA SaveLockInv ==
  ASSUME StoreInv, NEW t \in Tasks, SaveLock(t)
  PROVE  StoreInv'
  <1>. USE DEF StoreInv, SaveLock
  <1>0. count \in 0..MaxItems /\ MaxItems \in Nat \ {0} /\ \A u \in Tasks : u # Nobody
    BY ListAssumption, StoreAssumption DEF StoreTypeOK, Tasks
  <1>1. /\ saving' \in [Tasks -> [pc : {"idle", "open", "count", "item"},
                                  k : 0..MaxItems, n : 0..MaxItems]]
        /\ saving'[t] = [pc |-> "count", k |-> 0, n |-> count]
        /\ \A u \in Tasks : u # t => saving'[u] = saving[u]
    BY <1>0 DEF StoreTypeOK
  <1>2. StoreTypeOK'
    BY <1>0, <1>1 DEF StoreTypeOK, ghosts
  <1>3. WriterHoldsMutex'
    BY <1>0, <1>1 DEF WriterHoldsMutex, Writing
  <1>4. PrefixWritten'
    BY <1>1 DEF PrefixWritten, InMemory, ghosts
  <1>5. UneditedIsSaved'
    BY DEF UneditedIsSaved, InMemory, ghosts
  <1>. QED BY <1>2, <1>3, <1>4, <1>5, FlashUntouched

\* A save that is given up writes nothing more.
LEMMA SaveFailsInv ==
  ASSUME StoreInv, NEW t \in Tasks, SaveFails(t)
  PROVE  StoreInv'
  <1>. USE DEF StoreInv, SaveFails
  <1>0. MaxItems \in Nat \ {0} /\ t # Nobody
    BY ListAssumption, StoreAssumption DEF Tasks
  <1>1. /\ saving' \in [Tasks -> [pc : {"idle", "open", "count", "item"},
                                  k : 0..MaxItems, n : 0..MaxItems]]
        /\ saving'[t] = Idle
        /\ \A u \in Tasks : u # t => saving'[u] = saving[u]
    BY <1>0 DEF StoreTypeOK, Idle
  <1>2. /\ bounds' \in [edits : 0..MaxEdits, failures : 0..MaxFailures, crashes : 0..MaxCrashes]
        /\ bounds'.failures # 0
    BY Counting
  <1>3. StoreTypeOK'
    BY <1>0, <1>1, <1>2 DEF StoreTypeOK, ghosts, Idle
  <1>4. WriterHoldsMutex'
    BY <1>0, <1>1, StoreAssumption DEF WriterHoldsMutex, Writing, Idle, Tasks
  <1>5. PrefixWritten'
    BY <1>1 DEF PrefixWritten, InMemory, ghosts, Idle
  <1>6. UneditedIsSaved'
    BY <1>2 DEF UneditedIsSaved
  <1>. QED BY <1>3, <1>4, <1>5, <1>6, FlashUntouched

-----------------------------------------------------------------------------
(***************************************************************************)
(* The steps that write.  A flash whose counted cells read as the entries  *)
(* of a list is recovered as that list.                                    *)
(***************************************************************************)
LEMMA RecoveredList ==
  ASSUME NEW flash \in Flashes, NEW s \in Seq(Entries), Len(s) \in 0..MaxItems,
         flash.count = Len(s),
         \A k \in 1..Len(s) : flash.item[k - 1] # Absent /\ Entry(flash.item[k - 1]) = s[k]
  PROVE  Recovered(flash) = s
  <1>0. MaxItems \in Nat \ {0} /\ flash.count # Absent /\ Len(s) \in 0..flash.count
    BY ListAssumption, StoreAssumption
  <1>1. ASSUME NEW k \in Slots, k < Len(s)
        PROVE  flash.item[k] # Absent
    <2>1. k + 1 \in 1..Len(s) /\ (k + 1) - 1 = k
      BY <1>0, <1>1 DEF Slots
    <2>. QED BY <2>1
  <1>2. Recovered(flash) = [k \in 1..Len(s) |-> Entry(flash.item[k - 1])]
    BY <1>0, <1>1, RecoveredUpTo
  <1>3. s = [k \in 1..Len(s) |-> s[k]]
    BY <1>0
  <1>. QED BY <1>2, <1>3

\* What the task that writes may rely on.
LEMMA Writer ==
  ASSUME StoreInv, NEW t \in Tasks, Writing(t)
  PROVE  /\ saving[t].n = count /\ count \in 0..MaxItems /\ MaxItems \in Nat \ {0}
         /\ saving[t].k \in 0..count
         /\ up /\ mutex = t
         /\ \A u \in Tasks : u # t => ~ Writing(u)
         /\ InMemory \in Seq(Entries) /\ Len(InMemory) = count
         /\ \A k \in 1..count : /\ InMemory[k] = items[k - 1] /\ k - 1 \in Slots
                                /\ Sane(InMemory[k])
  <1>1. MaxItems \in Nat \ {0} /\ StoreTypeOK
    BY ListAssumption DEF StoreInv
  <1>2. saving[t].k \in 0..MaxItems /\ saving[t].k <= saving[t].n
    BY <1>1 DEF StoreTypeOK
  <1>3. /\ saving[t].n = count /\ count \in 0..MaxItems
        /\ up /\ mutex = t
        /\ \A u \in Tasks : u # t => ~ Writing(u)
    BY <1>1 DEF StoreInv, StoreTypeOK, WriterHoldsMutex, Writing
  <1>. QED BY <1>1, <1>2, <1>3, ListInMemory

LEMMA WriteCountInv ==
  ASSUME StoreInv, NEW t \in Tasks, WriteCount(t)
  PROVE  StoreInv'
  <1>. USE DEF StoreInv, WriteCount
  <1>0. Writing(t)
    BY DEF Writing
  <1>1. /\ saving' \in [Tasks -> [pc : {"idle", "open", "count", "item"},
                                  k : 0..MaxItems, n : 0..MaxItems]]
        /\ saving'[t].pc = "item"
        /\ \A u \in Tasks : /\ saving'[u].k = saving[u].k /\ saving'[u].n = saving[u].n
                            /\ u # t => saving'[u].pc = saving[u].pc
    BY DEF StoreTypeOK, Place
  <1>2. nvs' \in Flashes /\ nvs'.count = count /\ nvs'.item = nvs.item
    BY <1>0, Writer DEF StoreTypeOK, Flashes
  <1>3. StoreTypeOK'
    BY <1>0, <1>1, <1>2, Writer DEF StoreTypeOK
  <1>4. WriterHoldsMutex'
    BY <1>0, <1>1 DEF WriterHoldsMutex, Writing
  <1>5. PrefixWritten'
    <2>1. InMemory' = InMemory
      BY DEF InMemory
    <2>2. saving'[t].k = 0
      BY <1>1 DEF WriterHoldsMutex
    <2>3. \A u \in Tasks : u # t => saving'[u].pc # "item"
      BY <1>0, <1>1, Writer DEF Writing
    <2>. QED BY <1>0, <1>2, <2>1, <2>2, <2>3, Writer DEF PrefixWritten, Slots
  <1>6. CleanIsSaved'
    BY DEF CleanIsSaved
  <1>7. KeptOnFlash'
    <2>1. ASSUME NEW k \in 1..Len(saved), Kept(k)'
          PROVE  Kept(k) /\ k <= count
      BY <1>0, <2>1, Writer DEF Kept
    <2>2. count # Absent
      BY <1>0, Writer, StoreAssumption
    <2>. QED BY <1>2, <2>1, <2>2 DEF KeptOnFlash
  <1>8. UneditedIsSaved'
    <2>. SUFFICES ASSUME bounds.edits = 0, bounds.failures = 0
                  PROVE  Recovered(nvs') = saved /\ InMemory' = saved
      BY DEF UneditedIsSaved
    <2>1. Recovered(nvs) = saved /\ InMemory = saved
      BY <1>0, Writer DEF UneditedIsSaved
    <2>2. \A k \in 1..Len(saved) : nvs.item[k - 1] # Absent /\ Entry(nvs.item[k - 1]) = saved[k]
      BY <2>1, RecoveredTyped DEF StoreTypeOK
    <2>3. Recovered(nvs') = saved
      <3>1. /\ saved \in Seq(Entries) /\ Len(saved) \in 0..MaxItems
            /\ nvs' \in Flashes /\ nvs'.count = Len(saved) /\ nvs'.item = nvs.item
        BY <1>0, <1>2, <2>1, Writer
      <3>. QED BY <2>2, <3>1, RecoveredList
    <2>. QED BY <2>1, <2>3 DEF InMemory
  <1>. QED BY <1>3, <1>4, <1>5, <1>6, <1>7, <1>8

LEMMA WriteItemInv ==
  ASSUME StoreInv, NEW t \in Tasks, WriteItem(t)
  PROVE  StoreInv'
  <1>. DEFINE i    == saving[t].k
              cell == [x |-> items[i], legacy |-> FALSE]
  <1>. USE DEF StoreInv, WriteItem
  <1>0. Writing(t)
    BY DEF Writing
  <1>1. i \in Slots /\ i \in Nat /\ i < count /\ i + 1 \in 1..count
    BY <1>0, Writer DEF Slots
  <1>2. /\ cell \in Cells /\ cell # Absent /\ Entry(cell) = items[i]
        /\ InMemory[i + 1] = items[i]
    <2>1. items[i] \in Entries /\ Sane(items[i])
      BY <1>1 DEF StoreTypeOK
    <2>2. InMemory[i + 1] = items[(i + 1) - 1] /\ (i + 1) - 1 = i
      BY <1>0, <1>1, Writer
    <2>. QED BY <2>1, <2>2, Reading, StoreAssumption
  <1>3. nvs' = [nvs EXCEPT !.item[i] = cell]
    OBVIOUS
  <1>. HIDE DEF cell
  <1>4. /\ nvs' \in Flashes /\ nvs'.count = nvs.count
        /\ nvs'.item[i] = cell
        /\ \A j \in Slots : j # i => nvs'.item[j] = nvs.item[j]
    <2>1. nvs \in Flashes
      BY DEF StoreTypeOK
    <2>2. nvs.item \in [Slots -> Cells \cup {Absent}] /\ nvs.count \in {Absent} \cup 0..MaxItems
      BY <2>1 DEF Flashes
    <2>3. nvs' = [nvs EXCEPT !.item = [nvs.item EXCEPT ![i] = cell]]
      BY <1>3
    <2>4. nvs'.item = [nvs.item EXCEPT ![i] = cell] /\ nvs'.count = nvs.count
      BY <2>1, <2>3 DEF Flashes
    <2>5. nvs' = [count |-> nvs'.count, item |-> nvs'.item]
      BY <2>1, <2>3 DEF Flashes
    <2>6. nvs'.item \in [Slots -> Cells \cup {Absent}]
      BY <1>1, <1>2, <2>2, <2>4
    <2>7. nvs' \in Flashes
      BY <2>2, <2>4, <2>5, <2>6 DEF Flashes
    <2>. QED BY <1>1, <2>2, <2>4, <2>7
  <1>5. /\ saving' \in [Tasks -> [pc : {"idle", "open", "count", "item"},
                                  k : 0..MaxItems, n : 0..MaxItems]]
        /\ saving'[t].k = i + 1
        /\ \A u \in Tasks : /\ saving'[u].pc = saving[u].pc /\ saving'[u].n = saving[u].n
                            /\ u # t => saving'[u] = saving[u]
    BY <1>0, <1>1, Writer DEF StoreTypeOK
  <1>6. StoreTypeOK'
    BY <1>0, <1>1, <1>4, <1>5, Writer DEF StoreTypeOK, ghosts
  <1>7. WriterHoldsMutex'
    BY <1>5 DEF WriterHoldsMutex, Writing
  <1>8. PrefixWritten'
    <2>1. InMemory' = InMemory
      BY DEF InMemory
    <2>2. \A u \in Tasks : u # t => saving'[u].pc # "item"
      BY <1>0, <1>5, Writer DEF Writing
    <2>3. dirty /\ InMemory \in begun /\ nvs.count = count
      BY DEF PrefixWritten
    <2>4. ASSUME NEW j \in Slots, j < i + 1
          PROVE  nvs'.item[j] = [x |-> items[j], legacy |-> FALSE]
      <3>1. CASE j = i
        BY <1>4, <3>1 DEF cell
      <3>2. CASE j # i
        <4>1. j < i
          BY <1>1, <2>4, <3>2, ListAssumption DEF Slots
        <4>. QED BY <1>4, <3>2, <4>1 DEF PrefixWritten
      <3>. QED BY <3>1, <3>2
    <2>. QED BY <1>4, <1>5, <2>1, <2>2, <2>3, <2>4 DEF PrefixWritten, ghosts
  <1>9. CleanIsSaved'
    BY DEF CleanIsSaved, PrefixWritten, ghosts
  <1>10. KeptOnFlash'
    <2>1. saved' = saved /\ begun' = begun /\ InMemory \in begun
      BY DEF ghosts, PrefixWritten
    <2>2. Len(saved) \in 0..MaxItems /\ MaxItems \in Nat \ {0}
      BY ListAssumption DEF KeptOnFlash, StoreTypeOK
    <2>3. ASSUME NEW k \in 1..Len(saved)
          PROVE  /\ nvs'.item[k - 1] # Absent
                 /\ Kept(k) => /\ nvs'.count # Absent /\ k <= nvs'.count
                               /\ Entry(nvs'.item[k - 1]) = saved[k]
      <3>1. k - 1 \in Slots
        BY <2>2 DEF Slots
      <3>2. CASE k - 1 = i
        <4>1. k = i + 1
          BY <1>1, <3>2
        <4>2. Kept(k) => items[i] = saved[k]
          BY <1>2, <2>1, <4>1 DEF Kept
        <4>. QED BY <1>2, <1>4, <3>2, <4>2 DEF KeptOnFlash
      <3>3. CASE k - 1 # i
        BY <1>4, <3>1, <3>3 DEF KeptOnFlash
      <3>. QED BY <3>2, <3>3
    <2>. QED BY <2>1, <2>2, <2>3 DEF KeptOnFlash, Kept
  <1>11. UneditedIsSaved'
    <2>. SUFFICES ASSUME bounds.edits = 0, bounds.failures = 0
                  PROVE  Recovered(nvs') = saved /\ InMemory' = saved
      BY DEF UneditedIsSaved, ghosts
    <2>1. Recovered(nvs) = saved /\ InMemory = saved /\ nvs.count = count
      BY <1>0, Writer DEF UneditedIsSaved, PrefixWritten
    <2>2. \A k \in 1..Len(saved) : nvs.item[k - 1] # Absent /\ Entry(nvs.item[k - 1]) = saved[k]
      BY <2>1, RecoveredTyped DEF StoreTypeOK
    <2>3. ASSUME NEW k \in 1..Len(saved)
          PROVE  nvs'.item[k - 1] # Absent /\ Entry(nvs'.item[k - 1]) = saved[k]
      <3>1. k - 1 \in Slots /\ k \in Nat
        BY <1>0, <2>1, Writer
      <3>2. CASE k - 1 = i
        <4>1. k = i + 1
          BY <1>1, <3>1, <3>2
        <4>. QED BY <1>2, <1>4, <2>1, <3>2, <4>1
      <3>3. CASE k - 1 # i
        BY <1>4, <2>2, <3>1, <3>3
      <3>. QED BY <3>2, <3>3
    <2>4. Recovered(nvs') = saved
      <3>1. /\ saved \in Seq(Entries) /\ Len(saved) \in 0..MaxItems
            /\ nvs' \in Flashes /\ nvs'.count = Len(saved)
        BY <1>0, <1>4, <2>1, Writer
      <3>. QED BY <2>3, <3>1, RecoveredList
    <2>. QED BY <2>1, <2>4 DEF InMemory
  <1>. QED BY <1>6, <1>7, <1>8, <1>9, <1>10, <1>11

\* When the last entry is written the flash is the list in memory.
LEMMA CommitInv ==
  ASSUME StoreInv, NEW t \in Tasks, Commit(t)
  PROVE  StoreInv'
  <1>. USE DEF StoreInv, Commit
  <1>0. Writing(t)
    BY DEF Writing
  <1>1. /\ saving' \in [Tasks -> [pc : {"idle", "open", "count", "item"},
                                  k : 0..MaxItems, n : 0..MaxItems]]
        /\ saving'[t] = Idle
        /\ \A u \in Tasks : u # t => saving'[u] = saving[u]
    BY <1>0, Writer DEF StoreTypeOK, Idle
  <1>2. nvs.count = count /\ count # Absent
    BY <1>0, Writer, StoreAssumption DEF PrefixWritten
  <1>3. ASSUME NEW k \in 1..count
        PROVE  nvs.item[k - 1] # Absent /\ Entry(nvs.item[k - 1]) = InMemory[k]
    <2>1. k - 1 \in Slots /\ k - 1 < saving[t].k /\ k - 1 < count
      BY <1>0, Writer
    <2>2. nvs.item[k - 1] = [x |-> items[k - 1], legacy |-> FALSE]
      BY <2>1 DEF PrefixWritten
    <2>3. items[k - 1] \in Entries /\ Sane(items[k - 1])
      BY <2>1 DEF StoreTypeOK
    <2>4. InMemory[k] = items[k - 1]
      BY <1>0, Writer
    <2>. QED BY <2>2, <2>3, <2>4, Reading, StoreAssumption
  <1>4. Recovered(nvs) = InMemory
    BY <1>0, <1>2, <1>3, Writer, RecoveredList DEF StoreTypeOK
  <1>5. InMemory' = InMemory
    BY DEF InMemory
  <1>6. StoreTypeOK'
    <2>1. \A u \in Tasks : saving'[u].k <= saving'[u].n
      BY <1>1 DEF StoreTypeOK, Idle
    <2>2. mutex' \in Tasks \cup {Nobody} /\ saved' \in Seq(Entries) /\ begun' \subseteq Seq(Entries)
      BY <1>0, Writer
    <2>. QED BY <1>1, <2>1, <2>2 DEF StoreTypeOK
  <1>7. WriterHoldsMutex'
    BY <1>0, <1>1, Writer, StoreAssumption DEF WriterHoldsMutex, Writing, Idle, Tasks
  <1>8. PrefixWritten'
    BY <1>0, <1>1, Writer DEF PrefixWritten, Writing, Idle
  <1>9. CleanIsSaved' /\ UneditedIsSaved'
    BY <1>4, <1>5 DEF CleanIsSaved, UneditedIsSaved
  <1>10. KeptOnFlash'
    BY <1>0, <1>2, <1>3, Writer DEF KeptOnFlash
  <1>. QED BY <1>6, <1>7, <1>8, <1>9, <1>10

-----------------------------------------------------------------------------
(***************************************************************************)
(* The inductive invariant holds in every state: whoever edits and saves,  *)
(* wherever the power goes or NVS refuses an operation of                  *)
(* feed_schedule_save and feed_schedule_load.                              *)
(***************************************************************************)
THEOREM StoreInvariant == StoreSpec => []StoreInv
  <1>1. StoreInit => StoreInv
    BY StoreInitInv
  <1>2. ASSUME StoreInv, [StoreNext]_storeVars
        PROVE  StoreInv'
    <2>1. CASE UNCHANGED storeVars
      <3>1. UNCHANGED <<items, count, mutex, saving, up, nvs, bounds, ghosts>>
        BY <2>1 DEF storeVars, memory
      <3>2. StoreTypeOK'
        BY <1>2, <3>1 DEF StoreInv, StoreTypeOK, ghosts
      <3>3. WriterHoldsMutex'
        BY <1>2, <3>1 DEF StoreInv, WriterHoldsMutex, Writing
      <3>4. PrefixWritten'
        BY <1>2, <3>1 DEF StoreInv, PrefixWritten, InMemory, ghosts
      <3>5. UneditedIsSaved'
        BY <1>2, <3>1 DEF StoreInv, UneditedIsSaved, InMemory, ghosts
      <3>. QED BY <1>2, <3>1, <3>2, <3>3, <3>4, <3>5, FlashUntouched DEF StoreInv
    <2>2. CASE Load \/ LoadFails \/ PowerCut
      BY <1>2, <2>2, LoadInv, LoadFailsInv, PowerCutInv
    <2>3. CASE EditByHand \/ EditByCloud \/ SaveButton
      BY <1>2, <2>3, EditInv, SaveButtonInv
    <2>4. ASSUME NEW t \in Tasks, SaveStep(t)
          PROVE  StoreInv'
      BY <1>2, <2>4, SaveLockInv, WriteCountInv, WriteItemInv, CommitInv, SaveFailsInv
         DEF SaveStep
    <2>. QED BY <1>2, <2>1, <2>2, <2>3, <2>4 DEF StoreNext
  <1>. QED BY <1>1, <1>2, PTL DEF StoreSpec

\* The types of the list, of the flash and of the saves under way.
THEOREM StoreTypes == StoreSpec => []StoreTypeOK
  <1>1. StoreInv => StoreTypeOK
    BY DEF StoreInv
  <1>. QED BY <1>1, StoreInvariant, PTL

(***************************************************************************)
(* Unless a later save has begun to write, a restart brings back the list  *)
(* of the last feed_schedule_save that returned ESP_OK.                    *)
(***************************************************************************)
THEOREM SavedListIsSafe == StoreSpec => []SavedListSurvives
  <1>1. StoreInv => SavedListSurvives
    BY DEF StoreInv, CleanIsSaved, SavedListSurvives
  <1>. QED BY <1>1, StoreInvariant, PTL

(***************************************************************************)
(* Saves that were cut short, however many and wherever, leave the entries *)
(* that none of them was to change readable, at their index: no cell below *)
(* them is ever absent, and the counter never drops below them.            *)
(***************************************************************************)
THEOREM UntouchedIsSafe == StoreSpec => []UntouchedSurvives
  <1>1. ASSUME StoreInv PROVE UntouchedSurvives
    <2>. DEFINE r == Recovered(nvs)
    <2>1. /\ saved \in Seq(Entries) /\ Len(saved) \in 0..MaxItems
          /\ nvs \in Flashes /\ MaxItems \in Nat
      BY <1>1, ListAssumption DEF StoreInv, StoreTypeOK, KeptOnFlash
    <2>2. /\ Len(r) \in 0..MaxItems
          /\ nvs.count # Absent =>
               /\ Len(r) <= nvs.count
               /\ Len(r) = nvs.count \/ nvs.item[Len(r)] = Absent
          /\ \A k \in 1..Len(r) : r[k] = Entry(nvs.item[k - 1])
      BY <2>1, RecoveredTyped
    <2>. HIDE DEF r
    <2>3. ASSUME NEW k \in 1..Len(saved), Kept(k)
          PROVE  k <= Len(r) /\ r[k] = saved[k]
      <3>1. nvs.count # Absent /\ k <= nvs.count /\ Entry(nvs.item[k - 1]) = saved[k]
        BY <1>1, <2>3 DEF StoreInv, KeptOnFlash
      <3>2. nvs.count \in 0..MaxItems
        BY <2>1, <3>1 DEF Flashes
      <3>3. ASSUME Len(r) < k PROVE FALSE
        <4>1. Len(r) + 1 \in 1..Len(saved) /\ (Len(r) + 1) - 1 = Len(r)
          BY <2>1, <2>2, <3>3
        <4>2. nvs.item[Len(r)] # Absent
          BY <1>1, <4>1 DEF StoreInv, KeptOnFlash
        <4>. QED BY <2>1, <2>2, <3>1, <3>2, <3>3, <4>2
      <3>4. k \in 1..Len(r)
        BY <2>1, <2>2, <3>3
      <3>. QED BY <2>2, <3>1, <3>4
    <2>. QED BY <2>3 DEF r, UntouchedSurvives, Kept
  <1>. QED BY <1>1, StoreInvariant, PTL

(***************************************************************************)
(* The migration of a list of the old format, cut short anywhere and begun *)
(* again at the next boot, keeps every plan.                               *)
(***************************************************************************)
THEOREM MigrationIsSafe == StoreSpec => []MigrationKeepsPlans
  <1>1. StoreInv => MigrationKeepsPlans
    BY DEF StoreInv, UneditedIsSaved, MigrationKeepsPlans
  <1>. QED BY <1>1, StoreInvariant, PTL
=============================================================================
