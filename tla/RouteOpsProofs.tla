---------------------------- MODULE RouteOpsProofs ----------------------------
(***************************************************************************)
(* Theorems about changing routes, for any routes, tables, files, tasks    *)
(* and any number of operations, failing calls and changes by others.      *)
(***************************************************************************)
EXTENDS RouteOps, TLAPS

(* What the steps of a task rely on: its mode goes with its step, and what  *)
(* it still has to do, has made and has counted goes with its progress.     *)
Current(task) == task.file[task.at]

Shape(task) ==
    /\ task.pc = "unused" => task.mode = "none"
    /\ task.pc = "setting" => task.mode = "switch"
    /\ task.pc \in {"clearing", "entry", "deleting", "adding", "metric", "raised"}
          => task.mode \in ImportModes
    /\ task.pc = "deleting" => task.mode = "overwrite"
    /\ task.pc \in {"deleting", "adding", "metric"} => task.at <= Len(task.file)
    /\ task.pc \in {"deleting", "metric"} => Current(task).flaw = "none"
    /\ task.pc = "metric" => Current(task).key \in task.mine

Fresh(task) == task.mine = {} /\ task.good = {} /\ task.at = 1

Progress(task) ==
    /\ task.pc \in {"unused", "begin"} =>
          Fresh(task) /\ task.todo = {} /\ ~task.failures /\ ~task.trouble
    /\ task.pc = "clearing" => Fresh(task) /\ ~task.failures
    /\ task.mode \in {"skip", "overwrite"} => task.todo = {}
    /\ task.mode \in ImportModes /\ task.pc # "clearing" => task.todo = {}

Typed(task) ==
    /\ task \in TaskType
    /\ task.good \subseteq 1..Len(task.file)
    /\ task.at \in 1..(Len(task.file) + 1)

TaskInv(task) == Typed(task) /\ Shape(task) /\ Progress(task)

GuiHasKey ==
    gui.pc \in {"question", "validate", "confirm", "metric", "refused"} => gui.key \in Keys

TInv == TypeOK /\ GuiHasKey /\ \A t \in Tasks : TaskInv(tasks[t])

LEMMA KeyIsKnown ==
    ASSUME TypeOK, NEW t \in Tasks, tasks[t].at <= Len(tasks[t].file)
    PROVE  Entry(t) \in Entries /\ Entry(t).key \in Keys
<1>1. /\ tasks[t].file \in Seq(Entries)
      /\ tasks[t].at \in 1..(Len(tasks[t].file) + 1)
  BY DEF TypeOK, TaskType
<1>2. tasks[t].at \in 1..Len(tasks[t].file)
  BY <1>1
<1>3. Entry(t) \in Entries
  BY <1>1, <1>2 DEF Entry
<1> QED
  BY <1>3 DEF Entries

(* A call of IP Helper leaves well typed state behind.                      *)
LEMMA CallTyped ==
    ASSUME TypeOK, NEW who, NEW k \in Keys, NEW m \in Absent..MetricMax,
           NEW accepted, NEW r \in Outcomes, Calls(who, k, m, accepted, r)
    PROVE  /\ sys' \in Tables /\ touched' \in [Tasks -> SUBSET Keys]
           /\ mishaps' \in 0..MaxMishaps
<1>1. CASE r = "ok"
  <2>1. Changes(k, m, who) /\ UNCHANGED mishaps
    BY <1>1 DEF Calls
  <2>2. sys' \in Tables
    BY <2>1 DEF Changes, Tables, TypeOK
  <2>3. touched' \in [Tasks -> SUBSET Keys]
    BY <2>1 DEF Changes, TypeOK
  <2> QED
    BY <2>1, <2>2, <2>3 DEF TypeOK
<1>2. CASE r = "refused"
  BY <1>2 DEF Calls, TypeOK
<1>3. CASE r = "fault"
  BY <1>3, BoundsAssumption DEF Calls, TypeOK
<1> QED
  BY <1>1, <1>2, <1>3 DEF Outcomes

LEMMA MetricTypes ==
    /\ Absent \in Absent..MetricMax /\ MetricCreated \in Absent..MetricMax
    /\ MetricLow \in Absent..MetricMax /\ MetricHigh \in Absent..MetricMax
    /\ \A e \in Entries : HasMetric(e) => e.metric \in Absent..MetricMax
  BY DEF Absent, MetricMax, MetricCreated, MetricLow, MetricHigh, HasMetric, MetricMin

LEMMA CacheTyped ==
    ASSUME TypeOK
    PROVE  /\ Reads => /\ cached' \in Tables /\ valid' \in BOOLEAN
                       /\ unseen' \in SUBSET Keys /\ foreign' \in SUBSET Keys
           /\ NoRead => /\ cached' \in Tables /\ valid' \in BOOLEAN
                        /\ unseen' \in SUBSET Keys /\ foreign' \in SUBSET Keys
           /\ Invalidates => /\ cached' \in Tables /\ valid' \in BOOLEAN
                             /\ unseen' \in SUBSET Keys /\ foreign' \in SUBSET Keys
           /\ \A k \in Keys, r \in Outcomes :
                 Leaves(k, r) => /\ cached' \in Tables /\ valid' \in BOOLEAN
                                 /\ unseen' \in SUBSET Keys /\ foreign' \in SUBSET Keys
  BY MetricTypes DEF TypeOK, Tables, Reads, NoRead, Invalidates, Leaves, Read, cacheVars

(* Going on to the next entry of the file keeps a task's invariant, and so  *)
(* does counting the one that is done.                                      *)
LEMMA EntryAdvances ==
    ASSUME NEW task, TaskInv(task), task.pc \in {"entry", "adding", "metric"},
           task.at <= Len(task.file),
           NEW failures \in BOOLEAN, NEW trouble \in BOOLEAN,
           NEW good, good \subseteq 1..Len(task.file)
    PROVE  TaskInv([task EXCEPT !.pc = "entry", !.at = @ + 1, !.failures = failures,
                                !.trouble = trouble, !.good = good])
<1> DEFINE new == [task EXCEPT !.pc = "entry", !.at = @ + 1, !.failures = failures,
                               !.trouble = trouble, !.good = good]
<1>1. /\ task \in TaskType /\ task.at \in 1..(Len(task.file) + 1)
      /\ Len(task.file) \in Nat /\ good \subseteq Nat
  BY DEF TaskInv, Typed, TaskType
<1>2. /\ new.pc = "entry" /\ new.mode = task.mode /\ new.file = task.file
      /\ new.at = task.at + 1 /\ new.todo = task.todo /\ new.good = good
  BY <1>1 DEF TaskType
<1>3. new \in TaskType
  <2> DEFINE next == task.at + 1
  <2>1. next \in Nat /\ good \in SUBSET Nat
    BY <1>1
  <2> HIDE DEF next
  <2>2. [task EXCEPT !.pc = "entry", !.at = next, !.failures = failures,
                     !.trouble = trouble, !.good = good] \in TaskType
    BY <1>1, <2>1 DEF TaskType, TaskSteps
  <2> QED
    BY <2>2 DEF next
<1> HIDE DEF new
<1>4. Typed(new)
  BY <1>1, <1>2, <1>3 DEF Typed
<1>5. Shape(new) /\ Progress(new)
  BY <1>1, <1>2 DEF TaskInv, Shape, Progress
<1>6. TaskInv(new)
  BY <1>4, <1>5 DEF TaskInv
<1> QED
  BY <1>6 DEF new

LEMMA AdvancesKeep ==
    ASSUME NEW task, TaskInv(task), task.pc \in {"entry", "adding", "metric"},
           task.at <= Len(task.file), NEW f \in BOOLEAN, NEW g \in BOOLEAN
    PROVE  /\ TaskInv(NextEntry(task))
           /\ TaskInv([NextEntry(task) EXCEPT !.failures = f])
           /\ TaskInv([NextEntry(task) EXCEPT !.failures = f, !.trouble = g])
           /\ TaskInv(EntryDone(task))
           /\ TaskInv([EntryDone(task) EXCEPT !.trouble = g])
<1>1. task \in TaskType
  BY DEF TaskInv, Typed
<1>2. task.failures \in BOOLEAN /\ task.trouble \in BOOLEAN
  BY <1>1 DEF TaskType
<1>3. /\ task.good \subseteq 1..Len(task.file)
      /\ task.good \cup {task.at} \subseteq 1..Len(task.file)
  BY <1>1 DEF TaskInv, Typed, TaskType
<1> DEFINE next(a, b, good) ==
       [task EXCEPT !.pc = "entry", !.at = @ + 1, !.failures = a, !.trouble = b,
                    !.good = good]
<1>4. ASSUME NEW a \in BOOLEAN, NEW b \in BOOLEAN, NEW good \in SUBSET (1..Len(task.file))
      PROVE  TaskInv(next(a, b, good))
  BY EntryAdvances
<1>5. /\ NextEntry(task) = next(task.failures, task.trouble, task.good)
      /\ [NextEntry(task) EXCEPT !.failures = f] = next(f, task.trouble, task.good)
      /\ [NextEntry(task) EXCEPT !.failures = f, !.trouble = g] = next(f, g, task.good)
      /\ EntryDone(task) = next(task.failures, task.trouble, task.good \cup {task.at})
      /\ [EntryDone(task) EXCEPT !.trouble = g] =
            next(task.failures, g, task.good \cup {task.at})
  BY <1>1 DEF NextEntry, EntryDone, TaskType
<1> HIDE DEF next
<1> QED
  BY <1>2, <1>3, <1>4, <1>5

(* Every step of a task leaves its record as its invariant says.            *)
LEMMA TaskKeepsShape ==
    ASSUME TInv, NEW t \in Tasks, TaskStep(t)
    PROVE  /\ TaskInv(tasks'[t])
           /\ tasks' = [tasks EXCEPT ![t] = tasks'[t]]
<1> DEFINE task == tasks[t]
<1>1. TaskInv(task) /\ tasks \in [Tasks -> TaskType]
  BY DEF TInv, TypeOK
<1>2. CASE SwitchReads(t)
  BY <1>1, <1>2 DEF SwitchReads, TaskGoesOn, TaskInv, Typed, Shape, Progress, Fresh,
     TaskType, TaskSteps, ImportModes, Defaults, Present
<1>3. CASE SwitchSets(t)
  <2>1. PICK k \in task.todo, r \in Outcomes :
            tasks' = [tasks EXCEPT ![t].todo = @ \ {k}, ![t].failures = @ \/ r # "ok"]
    BY <1>3 DEF SwitchSets
  <2> DEFINE f == task.failures \/ r # "ok"
             new == [task EXCEPT !.todo = @ \ {k}, !.failures = f]
  <2>2. f \in BOOLEAN
    BY <1>1 DEF TaskInv, Typed, TaskType
  <2>3. tasks' = [tasks EXCEPT ![t] = new]
    BY <2>1, <1>1
  <2> HIDE DEF f
  <2>4. TaskInv(new)
    BY <1>1, <1>3, <2>2 DEF SwitchSets, TaskGoesOn, TaskInv, Typed, Shape, Progress,
       TaskType, Current, ImportModes
  <2> QED
    BY <1>1, <2>3, <2>4
<1>4. CASE SwitchEnds(t)
  BY <1>1, <1>4 DEF SwitchEnds, TaskGoesOn, TaskInv, Typed, Shape, Progress, Fresh,
     TaskType, TaskSteps, ImportModes
<1>5. CASE ImportBegins(t)
  <2>1. PICK families \in SUBSET {AF_INET, AF_INET6} :
          tasks' = [tasks EXCEPT
             ![t].todo = IF tasks[t].mode = "restore" THEN Listed(families) ELSE {},
             ![t].trouble = /\ tasks[t].mode = "restore"
                            /\ Listed(families) # Present(sys),
             ![t].pc = "clearing"]
    BY <1>5 DEF ImportBegins
  <2>2. Listed(families) \subseteq Keys
    BY DEF Listed, Present
  <2> DEFINE todo == IF task.mode = "restore" THEN Listed(families) ELSE {}
             trouble == task.mode = "restore" /\ Listed(families) # Present(sys)
  <2>3. todo \subseteq Keys /\ trouble \in BOOLEAN /\ (task.mode # "restore" => todo = {})
    BY <2>2
  <2>4. tasks' = [tasks EXCEPT ![t].todo = todo, ![t].trouble = trouble, ![t].pc = "clearing"]
    BY <2>1
  <2> HIDE DEF todo, trouble
  <2> QED
    BY <1>1, <1>5, <2>3, <2>4 DEF ImportBegins, TaskGoesOn, TaskInv, Typed, Shape, Progress,
       Fresh, TaskType, TaskSteps, ImportModes
<1>6. CASE ClearsOne(t)
  <2>1. PICK k \in task.todo, r \in Outcomes :
            tasks' = [tasks EXCEPT ![t].todo = @ \ {k}, ![t].trouble = @ \/ r = "fault"]
    BY <1>6 DEF ClearsOne
  <2> DEFINE f == task.trouble \/ r = "fault"
             new == [task EXCEPT !.todo = @ \ {k}, !.trouble = f]
  <2>2. f \in BOOLEAN
    BY <1>1 DEF TaskInv, Typed, TaskType
  <2>3. tasks' = [tasks EXCEPT ![t] = new]
    BY <2>1, <1>1
  <2> HIDE DEF f
  <2>4. TaskInv(new)
    BY <1>1, <1>6, <2>2 DEF ClearsOne, TaskGoesOn, TaskInv, Typed, Shape, Progress,
       Fresh, TaskType, TaskSteps, Current, ImportModes
  <2> QED
    BY <1>1, <2>3, <2>4
<1>7. CASE Cleared(t)
  BY <1>1, <1>7 DEF Cleared, TaskGoesOn, TaskInv, Typed, Shape, Progress, Fresh,
     TaskType, TaskSteps, ImportModes
<1>8. CASE RejectsEntry(t)
  <2>1. tasks' = [tasks EXCEPT ![t] = EntryFailed(task, FALSE)]
    BY <1>8 DEF RejectsEntry
  <2>2. TaskInv(EntryFailed(task, FALSE))
    <3> DEFINE f == task.trouble \/ FALSE
    <3>1. task.pc = "entry" /\ task.at <= Len(task.file) /\ f \in BOOLEAN
      BY <1>1, <1>8 DEF RejectsEntry, TaskGoesOn, TaskInv, Typed, TaskType
    <3> HIDE DEF f
    <3>2. TaskInv([NextEntry(task) EXCEPT !.failures = TRUE, !.trouble = f])
      BY <1>1, <3>1, AdvancesKeep
    <3> QED
      BY <3>2 DEF EntryFailed, f
  <2> QED
    BY <1>1, <2>1, <2>2
<1>9. CASE ChecksEntry(t)
  <2>1. /\ task.pc = "entry" /\ task.at <= Len(task.file) /\ Entry(t).flaw # "fields"
        /\ \/ tasks' = [tasks EXCEPT ![t] = NextEntry(task)]
           \/ /\ task.mode = "overwrite" /\ Entry(t).flaw = "none"
              /\ tasks' = [tasks EXCEPT ![t] = [task EXCEPT !.pc = "deleting"]]
           \/ tasks' = [tasks EXCEPT ![t] = [task EXCEPT !.pc = "adding"]]
    BY <1>9, <1>1 DEF ChecksEntry, TaskGoesOn, EntryExists
  <2>2. TaskInv(NextEntry(task))
    BY <1>1, <2>1, AdvancesKeep
  <2>3. TaskInv([task EXCEPT !.pc = "adding"])
    BY <1>1, <2>1 DEF Entry, TaskGoesOn, TaskInv, Typed, Shape, Progress,
       Fresh, TaskType, TaskSteps, Current, ImportModes
  <2>4. task.mode = "overwrite" /\ Entry(t).flaw = "none"
           => TaskInv([task EXCEPT !.pc = "deleting"])
    BY <1>1, <2>1 DEF Entry, TaskGoesOn, TaskInv, Typed, Shape, Progress,
       Fresh, TaskType, TaskSteps, Current, ImportModes
  <2> QED
    BY <1>1, <2>1, <2>2, <2>3, <2>4
<1>10. CASE DeletesEntry(t)
  <2>1. PICK r \in Outcomes :
            tasks' = [tasks EXCEPT ![t].pc = "adding", ![t].trouble = @ \/ r = "fault"]
    BY <1>10 DEF DeletesEntry
  <2> DEFINE f == task.trouble \/ r = "fault"
             new == [task EXCEPT !.pc = "adding", !.trouble = f]
  <2>2. f \in BOOLEAN
    BY <1>1 DEF TaskInv, Typed, TaskType
  <2>3. tasks' = [tasks EXCEPT ![t] = new]
    BY <2>1, <1>1
  <2> HIDE DEF f
  <2>4. TaskInv(new)
    BY <1>1, <1>10, <2>2 DEF DeletesEntry, TaskGoesOn, TaskInv, Typed, Shape, Progress,
       Fresh, TaskType, TaskSteps, Current, ImportModes
  <2> QED
    BY <1>1, <2>3, <2>4
<1>11. CASE AddsEntry(t)
  <2>1. PICK r \in Outcomes :
            tasks' = [tasks EXCEPT ![t] =
                IF r = "ok" THEN EntryAdded(task) ELSE EntryFailed(task, r = "fault")]
    BY <1>11 DEF AddsEntry
  <2>2. /\ task.pc = "adding" /\ task.at <= Len(task.file) /\ Current(task).flaw = "none"
        /\ Current(task).key \in Keys
    BY <1>1, <1>11, KeyIsKnown DEF AddsEntry, TaskGoesOn, TaskInv, Shape, TInv, Entry, Current
  <2>3. TaskInv(EntryAdded(task))
    BY <1>1, <2>2 DEF EntryAdded, TaskInv, Typed, Shape, Progress,
       Fresh, TaskType, TaskSteps, Current, ImportModes
  <2>4. TaskInv(EntryFailed(task, r = "fault"))
    <3> DEFINE f == task.trouble \/ r = "fault"
    <3>1. f \in BOOLEAN
      BY <1>1 DEF TaskInv, Typed, TaskType
    <3> HIDE DEF f
    <3>2. TaskInv([NextEntry(task) EXCEPT !.failures = TRUE, !.trouble = f])
      BY <1>1, <2>2, <3>1, AdvancesKeep
    <3> QED
      BY <3>2 DEF EntryFailed, f
  <2> QED
    BY <1>1, <2>1, <2>3, <2>4
<1>12. CASE EntryRaises(t)
  BY <1>1, <1>12 DEF EntryRaises, TaskGoesOn, TaskInv, Typed, Shape, Progress, Fresh,
     TaskType, TaskSteps, ImportModes
<1>13. CASE SetsEntryMetric(t)
  <2>1. PICK r \in Outcomes :
            tasks' = [tasks EXCEPT ![t] = [EntryDone(@) EXCEPT !.trouble = tasks[t].trouble \/ r = "fault"]]
    BY <1>13 DEF SetsEntryMetric
  <2> DEFINE f == task.trouble \/ r = "fault"
             new == [EntryDone(task) EXCEPT !.trouble = f]
  <2>2. f \in BOOLEAN
    BY <1>1 DEF TaskInv, Typed, TaskType
  <2>3. tasks' = [tasks EXCEPT ![t] = new]
    BY <1>1, <2>1
  <2> HIDE DEF f
  <2>4. TaskInv(new)
    <3>1. task.pc = "metric" /\ task.at <= Len(task.file) /\ f \in BOOLEAN
      BY <1>1, <1>13, <2>2 DEF SetsEntryMetric, TaskGoesOn, TaskInv, Shape
    <3> QED
      BY <1>1, <3>1, AdvancesKeep
  <2> QED
    BY <1>1, <2>3, <2>4
<1>14. CASE LeavesEntryMetric(t)
  <2>1. tasks' = [tasks EXCEPT ![t] = EntryDone(task)]
    BY <1>14 DEF LeavesEntryMetric
  <2>2. TaskInv(EntryDone(task))
    BY <1>1, <1>14, AdvancesKeep DEF LeavesEntryMetric, TaskGoesOn, TaskInv, Shape
  <2> QED
    BY <1>1, <2>1, <2>2
<1>15. CASE ImportEnds(t)
  BY <1>1, <1>15 DEF ImportEnds, TaskGoesOn, TaskInv, Typed, Shape, Progress, Fresh,
     TaskType, TaskSteps, ImportModes
<1> QED
  BY <1>2, <1>3, <1>4, <1>5, <1>6, <1>7, <1>8, <1>9, <1>10, <1>11, <1>12, <1>13, <1>14,
     <1>15 DEF TaskStep
WorldTyped ==
    /\ sys \in Tables /\ touched \in [Tasks -> SUBSET Keys]
    /\ mishaps \in 0..MaxMishaps

EntryTyped ==
    /\ cached \in Tables /\ valid \in BOOLEAN
    /\ unseen \in SUBSET Keys /\ foreign \in SUBSET Keys

GuiTyped ==
    /\ gui \in GuiType
    /\ gui.pc = "loading" => gui.task \in Tasks
    /\ gui.pc = "metric" => gui.key \in Keys /\ gui.metric # Absent
    /\ GuiHasKey

TasksTyped ==
    tasks \in [Tasks -> TaskType] /\ \A t \in Tasks : TaskInv(tasks[t])

RestTyped == down \in BOOLEAN /\ ops \in 0..MaxOps

LEMMA Parts ==
    /\ TInv <=> WorldTyped /\ EntryTyped /\ GuiTyped /\ TasksTyped /\ RestTyped
    /\ TInv' <=> WorldTyped' /\ EntryTyped' /\ GuiTyped' /\ TasksTyped' /\ RestTyped'
  BY DEF TInv, TypeOK, WorldTyped, EntryTyped, GuiTyped, TasksTyped, RestTyped, TaskInv,
     Typed

LEMMA CallsTyped ==
    ASSUME TInv, NEW who, NEW k \in Keys, NEW m \in Absent..MetricMax, NEW form,
           NEW r \in Outcomes
    PROVE  /\ CreateRoute(who, k, form, r) => WorldTyped'
           /\ DeleteRoute(who, k, form, r) => WorldTyped'
           /\ SetMetric(who, k, m, form, r) => WorldTyped'
<1>1. TypeOK
  BY DEF TInv
<1> QED
  BY <1>1, CallTyped, MetricTypes DEF CreateRoute, DeleteRoute, SetMetric, WorldTyped

LEMMA EntryKept ==
    ASSUME TInv
    PROVE  /\ Reads => EntryTyped'
           /\ NoRead => EntryTyped'
           /\ Invalidates => EntryTyped'
           /\ \A r : InvalidatesIfOk(r) => EntryTyped'
           /\ \A k \in Keys, r \in Outcomes : Leaves(k, r) => EntryTyped'
  BY CacheTyped DEF TInv, EntryTyped, InvalidatesIfOk
(* The steps of the tasks leave typed state behind.                         *)
LEMMA TaskStepTyped ==
    ASSUME TInv, NEW t \in Tasks, TaskStep(t)
    PROVE  TInv'
<1>1. TasksTyped'
  <2>1. TasksTyped
    BY Parts
  <2>2. TaskInv(tasks'[t]) /\ tasks' = [tasks EXCEPT ![t] = tasks'[t]]
    BY TaskKeepsShape
  <2>3. tasks'[t] \in TaskType
    BY <2>2 DEF TaskInv, Typed
  <2> QED
    BY <2>1, <2>2, <2>3 DEF TasksTyped
<1>2. GuiTyped' /\ RestTyped'
  <2>1. UNCHANGED <<gui, down, ops>>
    BY DEF TaskStep, SwitchReads, SwitchSets, SwitchEnds, ImportBegins, ClearsOne, Cleared,
       RejectsEntry, ChecksEntry, DeletesEntry, AddsEntry, EntryRaises, SetsEntryMetric,
       LeavesEntryMetric, ImportEnds, TaskGoesOn
  <2> QED
    BY <2>1, Parts DEF GuiTyped, RestTyped, GuiHasKey
<1>3. WorldTyped'
  <2>1. WorldTyped /\ EntryTyped /\ TInv /\ TasksTyped
    BY Parts
  <2>2. CASE UNCHANGED <<sys, touched, mishaps>>
    BY <2>1, <2>2 DEF WorldTyped
  <2>3. CASE SwitchReads(t)
    BY <2>1, <2>3 DEF SwitchReads, WorldTyped, EntryTyped
  <2>4. CASE ImportBegins(t)
    BY <2>1, <2>4 DEF ImportBegins, WorldTyped
  <2>5. CASE SwitchSets(t)
    BY <2>1, <2>5, CallsTyped, MetricTypes DEF SwitchSets, TasksTyped, TaskType
  <2>6. CASE ClearsOne(t)
    BY <2>1, <2>6, CallsTyped, MetricTypes DEF ClearsOne, TasksTyped, TaskType
  <2>7. ASSUME DeletesEntry(t) \/ AddsEntry(t) \/ SetsEntryMetric(t)
        PROVE  Entry(t) \in Entries /\ Entry(t).key \in Keys
    BY <2>1, <2>7, KeyIsKnown DEF TInv, TaskInv, Shape, DeletesEntry, AddsEntry,
       SetsEntryMetric, TaskGoesOn
  <2>8. CASE DeletesEntry(t)
    BY <2>1, <2>7, <2>8, CallsTyped, MetricTypes DEF DeletesEntry
  <2>9. CASE AddsEntry(t)
    BY <2>1, <2>7, <2>9, CallsTyped, MetricTypes DEF AddsEntry
  <2>10. CASE SetsEntryMetric(t)
    BY <2>1, <2>7, <2>10, CallsTyped, MetricTypes DEF SetsEntryMetric
  <2>11. CASE /\ ~SwitchReads(t) /\ ~ImportBegins(t) /\ ~SwitchSets(t) /\ ~ClearsOne(t)
              /\ ~DeletesEntry(t) /\ ~AddsEntry(t) /\ ~SetsEntryMetric(t)
    <3>1. UNCHANGED <<sys, touched, mishaps>>
      BY <2>11 DEF TaskStep, SwitchEnds, Cleared, RejectsEntry, ChecksEntry, EntryRaises,
         LeavesEntryMetric, ImportEnds
    <3> QED
      BY <3>1, <2>2
  <2> QED
    BY <2>3, <2>4, <2>5, <2>6, <2>8, <2>9, <2>10, <2>11
<1>4. EntryTyped'
  <2>1. \/ Reads \/ NoRead \/ Invalidates
        \/ \E k \in Keys, r \in Outcomes : Leaves(k, r)
    <3>1. \A k \in tasks[t].todo : k \in Keys
      BY DEF TInv, TypeOK, TaskType
    <3>2. ASSUME DeletesEntry(t) \/ AddsEntry(t) \/ SetsEntryMetric(t)
          PROVE  Entry(t).key \in Keys
      BY <3>2, KeyIsKnown DEF TInv, TaskInv, Shape, DeletesEntry, AddsEntry,
         SetsEntryMetric, TaskGoesOn
    <3> QED
      BY <3>1, <3>2 DEF TaskStep, SwitchReads, SwitchSets, SwitchEnds, ImportBegins,
         ClearsOne, Cleared, RejectsEntry, ChecksEntry, DeletesEntry, AddsEntry,
         EntryRaises, SetsEntryMetric, LeavesEntryMetric, ImportEnds
  <2> QED
    BY <2>1, EntryKept
<1> QED
  BY <1>1, <1>2, <1>3, <1>4, Parts
(* So do those of the main thread.                                          *)
LEMMA FreeTyped == Free \in GuiType /\ Free.pc = "free"
  BY MetricTypes DEF Free, GuiType

LEMMA GuiMoves ==
    ASSUME GuiTyped,
           \/ gui' = Free
           \/ \E pc \in {"question", "validate", "confirm"}, op \in {"add", "modify"},
                 k \in Keys, m \in Absent..MetricMax :
                 gui' = [Free EXCEPT !.op = op, !.key = k, !.metric = m, !.pc = pc]
           \/ \E t \in Tasks :
                 gui' = [Free EXCEPT !.pc = "loading", !.op = "task", !.task = t]
           \/ /\ gui.pc \in {"question", "validate", "confirm"}
              /\ \/ \E pc \in {"confirm", "refused"} : gui' = [gui EXCEPT !.pc = pc]
                 \/ gui.metric # Absent /\ gui' = [gui EXCEPT !.pc = "metric"]
    PROVE  GuiTyped'
<1>1. CASE gui' = Free
  BY <1>1, FreeTyped DEF GuiTyped, GuiHasKey
<1>2. ASSUME NEW pc \in {"question", "validate", "confirm"}, NEW op \in {"add", "modify"},
             NEW k \in Keys, NEW m \in Absent..MetricMax,
             gui' = [Free EXCEPT !.op = op, !.key = k, !.metric = m, !.pc = pc]
      PROVE  GuiTyped'
  <2>1. gui' \in GuiType /\ gui'.pc = pc /\ gui'.key \in Keys
    BY <1>2, FreeTyped DEF GuiType
  <2> QED
    BY <2>1 DEF GuiTyped, GuiHasKey
<1>3. ASSUME NEW t \in Tasks,
             gui' = [Free EXCEPT !.pc = "loading", !.op = "task", !.task = t]
      PROVE  GuiTyped'
  <2>1. gui' \in GuiType /\ gui'.pc = "loading" /\ gui'.task \in Tasks
    BY <1>3, FreeTyped DEF GuiType
  <2> QED
    BY <2>1 DEF GuiTyped, GuiHasKey
<1>4. CASE /\ gui.pc \in {"question", "validate", "confirm"}
           /\ \/ \E pc \in {"confirm", "refused"} : gui' = [gui EXCEPT !.pc = pc]
              \/ gui.metric # Absent /\ gui' = [gui EXCEPT !.pc = "metric"]
  BY <1>4 DEF GuiTyped, GuiHasKey, GuiType
<1> QED
  BY <1>1, <1>2, <1>3, <1>4

LEMMA NewTaskTyped ==
    /\ TaskInv(Unused)
    /\ \A iface \in DefaultIfaces :
          TaskInv([Unused EXCEPT !.pc = "begin", !.mode = "switch", !.iface = iface])
    /\ \A mode \in ImportModes, file \in Seq(Entries) :
          TaskInv([Unused EXCEPT !.pc = "begin", !.mode = mode, !.file = file])
<1>1. Unused \in TaskType
  BY DEF Unused, TaskType, TaskSteps
<1>2. Len(Unused.file) = 0
  BY DEF Unused
<1>3. TaskInv(Unused)
  BY <1>1, <1>2 DEF TaskInv, Typed, Shape, Progress, Fresh, Unused
<1>4. ASSUME NEW iface \in DefaultIfaces
      PROVE  TaskInv([Unused EXCEPT !.pc = "begin", !.mode = "switch", !.iface = iface])
  <2> DEFINE new == [Unused EXCEPT !.pc = "begin", !.mode = "switch", !.iface = iface]
  <2>1. /\ new \in TaskType /\ new.pc = "begin" /\ new.mode = "switch"
        /\ new.file = <<>> /\ new.todo = {} /\ new.mine = {} /\ new.good = {}
        /\ new.at = 1 /\ ~new.failures /\ ~new.trouble
    BY <1>1 DEF Unused, TaskType, TaskSteps
  <2>2. Len(new.file) = 0
    BY <2>1
  <2> HIDE DEF new
  <2>3. TaskInv(new)
    BY <2>1, <2>2 DEF TaskInv, Typed, Shape, Progress, Fresh, ImportModes
  <2> QED
    BY <2>3 DEF new
<1>5. ASSUME NEW mode \in ImportModes, NEW file \in Seq(Entries)
      PROVE  TaskInv([Unused EXCEPT !.pc = "begin", !.mode = mode, !.file = file])
  <2> DEFINE new == [Unused EXCEPT !.pc = "begin", !.mode = mode, !.file = file]
  <2>1. /\ new \in TaskType /\ new.pc = "begin" /\ new.mode = mode /\ new.file = file
        /\ new.todo = {} /\ new.mine = {} /\ new.good = {} /\ new.at = 1
        /\ ~new.failures /\ ~new.trouble
    BY <1>1 DEF Unused, TaskType, TaskSteps
  <2>2. Len(new.file) \in Nat
    BY <2>1
  <2> HIDE DEF new
  <2>3. TaskInv(new)
    BY <2>1, <2>2 DEF TaskInv, Typed, Shape, Progress, Fresh, ImportModes
  <2> QED
    BY <2>3 DEF new
<1> QED
  BY <1>3, <1>4, <1>5

LEMMA InitTyped == Init => TInv
<1> SUFFICES ASSUME Init PROVE TInv
  OBVIOUS
<1>1. WorldTyped /\ EntryTyped
  BY TablesAssumption, BoundsAssumption DEF Init, WorldTyped, EntryTyped
<1>2. GuiTyped
  BY FreeTyped DEF Init, GuiTyped, GuiHasKey
<1>3. TasksTyped
  BY NewTaskTyped DEF Init, TasksTyped, TaskInv, Typed
<1>4. RestTyped
  <2>1. down \in BOOLEAN
    BY DEF Init
  <2>2. ops \in 0..MaxOps
    BY BoundsAssumption DEF Init
  <2> QED
    BY <2>1, <2>2 DEF RestTyped
<1> QED
  BY <1>1, <1>2, <1>3, <1>4, Parts

LEMMA StepTyped == TInv /\ [Next]_vars => TInv'
<1> SUFFICES ASSUME TInv, [Next]_vars PROVE TInv'
  OBVIOUS
<1> USE MetricTypes
<1>a. WorldTyped /\ EntryTyped /\ GuiTyped /\ TasksTyped /\ RestTyped
  BY Parts
<1>b. UNCHANGED tasks => TasksTyped'
  BY <1>a DEF TasksTyped
<1>c. UNCHANGED <<sys, touched, mishaps>> => WorldTyped'
  BY <1>a DEF WorldTyped
<1>d. UserActs \/ GuiGoesOn => RestTyped'
  BY <1>a, BoundsAssumption DEF RestTyped, UserActs, GuiGoesOn
<1>1. ASSUME NEW k \in Keys, NEW m \in {Absent, MetricLow}, Add(k, m)
      PROVE  TInv'
  <2>1. WorldTyped' /\ EntryTyped' /\ TasksTyped' /\ RestTyped'
    BY <1>1, <1>b, <1>c, <1>d, EntryKept DEF Add
  <2>2. GuiTyped'
    BY <1>1, <1>a, GuiMoves DEF Add
  <2> QED
    BY <2>1, <2>2, Parts
<1>2. CASE AddReplaces
  <2>1. gui.pc = "question" /\ gui.key \in Keys
    BY <1>2, <1>a DEF AddReplaces, GuiTyped, GuiHasKey
  <2>2. WorldTyped' /\ EntryTyped'
    BY <1>2, <2>1, CallsTyped, EntryKept DEF AddReplaces
  <2>3. TasksTyped' /\ RestTyped'
    BY <1>2, <1>b, <1>d DEF AddReplaces, GuiGoesOn
  <2>4. GuiTyped'
    BY <1>2, <1>a, <2>1, GuiMoves DEF AddReplaces
  <2> QED
    BY <2>2, <2>3, <2>4, Parts
<1>3. CASE GivesUp
  <2>1. WorldTyped' /\ EntryTyped' /\ TasksTyped' /\ RestTyped'
    BY <1>3, <1>b, <1>c, <1>d, EntryKept DEF GivesUp, GuiGoesOn
  <2>2. GuiTyped'
    BY <1>3, <1>a, GuiMoves DEF GivesUp
  <2> QED
    BY <2>1, <2>2, Parts
<1>4. CASE AddConfirmed
  <2>1. gui.pc = "confirm" /\ gui.key \in Keys
    BY <1>4, <1>a DEF AddConfirmed, GuiTyped, GuiHasKey
  <2>2. WorldTyped' /\ EntryTyped'
    BY <1>4, <2>1, CallsTyped, EntryKept DEF AddConfirmed
  <2>3. TasksTyped' /\ RestTyped'
    BY <1>4, <1>b, <1>d DEF AddConfirmed, GuiGoesOn
  <2>4. \/ gui' = Free
        \/ gui' = [gui EXCEPT !.pc = "refused"]
        \/ gui.metric # Absent /\ gui' = [gui EXCEPT !.pc = "metric"]
    BY <1>4 DEF AddConfirmed
  <2>5. GuiTyped'
    BY <1>a, <2>1, <2>4, GuiMoves
  <2> QED
    BY <2>2, <2>3, <2>5, Parts
<1>5. CASE AddSetsMetric
  <2>1. gui.key \in Keys /\ gui.metric \in Absent..MetricMax
    BY <1>5, <1>a DEF AddSetsMetric, GuiTyped, GuiHasKey, GuiType
  <2>2. WorldTyped' /\ EntryTyped'
    BY <1>5, <2>1, CallsTyped, EntryKept DEF AddSetsMetric
  <2>3. TasksTyped' /\ RestTyped'
    BY <1>5, <1>b, <1>d DEF AddSetsMetric, GuiGoesOn
  <2>4. GuiTyped'
    BY <1>5, <1>a, GuiMoves DEF AddSetsMetric
  <2> QED
    BY <2>2, <2>3, <2>4, Parts
<1>6. ASSUME NEW k \in Keys, NEW form \in {"mask", "digits"}, Delete(k, form)
      PROVE  TInv'
  <2>1. WorldTyped' /\ EntryTyped'
    BY <1>6, CallsTyped, EntryKept DEF Delete
  <2>2. TasksTyped' /\ RestTyped' /\ GuiTyped'
    BY <1>6, <1>a, <1>b, <1>d DEF Delete, GuiTyped, GuiHasKey
  <2> QED
    BY <2>1, <2>2, Parts
<1>7. ASSUME NEW old \in Keys, NEW k \in Keys, NEW m \in {Absent, MetricLow},
             Modify(old, k, m)
      PROVE  TInv'
  <2>1. WorldTyped' /\ EntryTyped'
    BY <1>7, <1>c, CallsTyped, EntryKept DEF Modify
  <2>2. TasksTyped' /\ RestTyped'
    BY <1>7, <1>b, <1>d DEF Modify
  <2>3. GuiTyped'
    <3>1. \/ gui' = Free
          \/ gui' = [Free EXCEPT !.op = "modify", !.key = k, !.metric = m, !.pc = "validate"]
      BY <1>7 DEF Modify, Free
    <3> QED
      BY <1>a, <3>1, GuiMoves
  <2> QED
    BY <2>1, <2>2, <2>3, Parts
<1>8. CASE ModifyValidates
  <2>1. WorldTyped' /\ EntryTyped' /\ TasksTyped' /\ RestTyped'
    BY <1>8, <1>b, <1>c, <1>d, EntryKept DEF ModifyValidates, GuiGoesOn
  <2>2. GuiTyped'
    BY <1>8, <1>a, GuiMoves DEF ModifyValidates
  <2> QED
    BY <2>1, <2>2, Parts
<1>9. ASSUME NEW t \in Tasks, NEW new, TaskInv(new), Submits(t, new)
      PROVE  TInv'
  <2>1. WorldTyped' /\ EntryTyped' /\ RestTyped'
    BY <1>9, <1>c, <1>d, EntryKept DEF Submits
  <2>2. TasksTyped'
    BY <1>9, <1>a DEF Submits, TasksTyped, TaskInv, Typed
  <2>3. GuiTyped'
    BY <1>9, <1>a, GuiMoves DEF Submits
  <2> QED
    BY <2>1, <2>2, <2>3, Parts
<1>10. ASSUME NEW t \in Tasks, NEW iface \in DefaultIfaces, Switch(t, iface)
       PROVE  TInv'
  BY <1>9, <1>10, NewTaskTyped DEF Switch
<1>11. ASSUME NEW t \in Tasks, NEW mode \in ImportModes, NEW file \in Files,
              Import(t, mode, file)
       PROVE  TInv'
  BY <1>9, <1>11, NewTaskTyped, FilesAssumption DEF Import
<1>12. CASE DialogCloses
  <2>1. WorldTyped' /\ EntryTyped' /\ TasksTyped' /\ RestTyped'
    BY <1>12, <1>b, <1>c, <1>d, EntryKept DEF DialogCloses, GuiGoesOn
  <2>2. GuiTyped'
    BY <1>12, <1>a, GuiMoves DEF DialogCloses
  <2> QED
    BY <2>1, <2>2, Parts
<1>13. CASE DialogDismissed
  <2>1. WorldTyped' /\ EntryTyped' /\ TasksTyped'
    BY <1>13, <1>b, <1>c, EntryKept DEF DialogDismissed
  <2>2. RestTyped'
    BY <1>13, <1>a DEF DialogDismissed, RestTyped
  <2>3. GuiTyped'
    BY <1>13, <1>a, GuiMoves DEF DialogDismissed
  <2> QED
    BY <2>1, <2>2, <2>3, Parts
<1>14. ASSUME NEW t \in Tasks, TaskStep(t)
       PROVE  TInv'
  BY <1>14, TaskStepTyped
<1>15. ASSUME NEW k \in Keys, NEW m \in Choices, OthersChange(k, m)
       PROVE  TInv'
  <2>1. WorldTyped'
    <3>1. m \in Absent..MetricMax
      BY DEF Choices
    <3> QED
      BY <1>15, <1>a, <3>1, BoundsAssumption
      DEF OthersChange, Changes, WorldTyped, Tables
  <2>2. EntryTyped' /\ GuiTyped' /\ TasksTyped' /\ RestTyped'
    BY <1>15, <1>a DEF OthersChange, EntryTyped, GuiTyped, GuiHasKey, TasksTyped, RestTyped,
       cacheVars
  <2> QED
    BY <2>1, <2>2, Parts
<1>16. CASE Expires \/ Refreshes
  <2>1. WorldTyped' /\ EntryTyped' /\ GuiTyped' /\ TasksTyped' /\ RestTyped'
    BY <1>16, <1>a, <1>b, <1>c, EntryKept
    DEF Expires, Refreshes, GuiTyped, GuiHasKey, RestTyped
  <2> QED
    BY <2>1, Parts
<1>17. CASE UNCHANGED vars
  BY <1>17, <1>a, Parts DEF vars, cacheVars, WorldTyped, EntryTyped, GuiTyped, GuiHasKey,
     TasksTyped, RestTyped
<1> QED
  BY <1>1, <1>2, <1>3, <1>4, <1>5, <1>6, <1>7, <1>8, <1>10, <1>11, <1>12, <1>13, <1>14,
     <1>15, <1>16, <1>17 DEF Next

(* The state of the program keeps its types, for any set of routes, files,  *)
(* tasks and any bounds: in particular no task reads past the end of its    *)
(* file, and no metric out of range is set.                                 *)
THEOREM TypeCorrect == Spec => []TypeOK
<1>1. Spec => []TInv
  BY InitTyped, StepTyped, PTL DEF Spec
<1>2. TInv => TypeOK
  BY DEF TInv
<1> QED
  BY <1>1, <1>2, PTL

-----------------------------------------------------------------------------
(* What a task t finds after the steps of others: its own record, and each  *)
(* key whose metric changed among those it is known to have been touched.   *)
Watched(t) ==
    /\ touched[t] \subseteq touched'[t]
    /\ tasks[t].pc \notin {"unused", "begin"} =>
          \A k \in Keys : sys'[k] # sys[k] => k \in touched'[t]

LEMMA CallWatched ==
    ASSUME TInv, NEW t \in Tasks, NEW who, who # t, NEW k \in Keys, NEW m, NEW form,
           NEW r \in Outcomes
    PROVE  /\ CreateRoute(who, k, form, r) => Watched(t)
           /\ DeleteRoute(who, k, form, r) => Watched(t)
           /\ SetMetric(who, k, m, form, r) => Watched(t)
           /\ Changes(k, m, who) => Watched(t)
           /\ UNCHANGED <<sys, touched>> => Watched(t)
<1>1. sys \in [Keys -> Absent..MetricMax] /\ touched \in [Tasks -> SUBSET Keys]
  BY DEF TInv, TypeOK, Tables
<1>2. ASSUME NEW n PROVE Changes(k, n, who) => Watched(t)
  BY <1>1 DEF Changes, Watched
<1>3. UNCHANGED <<sys, touched>> => Watched(t)
  BY <1>1 DEF Watched
<1>4. ASSUME NEW n, NEW accepted PROVE Calls(who, k, n, accepted, r) => Watched(t)
  BY <1>2, <1>3 DEF Calls
<1> QED
  BY <1>2, <1>3, <1>4 DEF CreateRoute, DeleteRoute, SetMetric

LEMMA TaskStepWatched ==
    ASSUME TInv, NEW t \in Tasks, NEW s \in Tasks, s # t, TaskStep(s)
    PROVE  Watched(t) /\ tasks'[t] = tasks[t]
<1>1. tasks'[t] = tasks[t]
  BY TaskKeepsShape DEF TInv, TypeOK
<1>2. \A k \in tasks[s].todo : k \in Keys
  BY DEF TInv, TypeOK, TaskType
<1>3. ASSUME DeletesEntry(s) \/ AddsEntry(s) \/ SetsEntryMetric(s)
      PROVE  Entry(s).key \in Keys
  BY <1>3, KeyIsKnown DEF TInv, TaskInv, Shape, DeletesEntry, AddsEntry, SetsEntryMetric,
     TaskGoesOn
<1>4. UNCHANGED sys /\ touched'[t] = touched[t] => Watched(t)
  BY DEF Watched
<1>5. touched \in [Tasks -> SUBSET Keys]
  BY DEF TInv, TypeOK
<1>6. CASE SwitchReads(s) \/ ImportBegins(s)
  BY <1>1, <1>4, <1>5, <1>6 DEF SwitchReads, ImportBegins
<1>7. CASE SwitchSets(s) \/ ClearsOne(s)
  BY <1>1, <1>2, <1>7, CallWatched DEF SwitchSets, ClearsOne
<1>8. CASE DeletesEntry(s) \/ AddsEntry(s) \/ SetsEntryMetric(s)
  BY <1>1, <1>3, <1>8, CallWatched DEF DeletesEntry, AddsEntry, SetsEntryMetric
<1>9. CASE UNCHANGED <<sys, touched>>
  BY <1>1, <1>4, <1>9
<1>10. Watched(t)
  BY <1>6, <1>7, <1>8, <1>9 DEF TaskStep, SwitchEnds, Cleared, RejectsEntry, ChecksEntry,
     EntryRaises, LeavesEntryMetric, ImportEnds
<1> QED
  BY <1>1, <1>10

LEMMA OtherStepWatched ==
    ASSUME TInv, [Next]_vars, NEW t \in Tasks, ~TaskStep(t)
    PROVE  /\ Watched(t)
           /\ tasks'[t] = tasks[t] \/ (tasks[t].pc = "unused" /\ tasks'[t].pc = "begin")
<1>1. Gui # t /\ Nobody # t /\ tasks \in [Tasks -> TaskType]
  BY NamesAssumption DEF TInv, TypeOK
<1>2. UNCHANGED <<sys, touched>> => Watched(t)
  BY DEF Watched
<1>3. AddReplaces \/ AddConfirmed \/ AddSetsMetric => gui.key \in Keys
  BY DEF TInv, GuiHasKey, AddReplaces, AddConfirmed, AddSetsMetric
<1>4. ASSUME NEW k \in Keys, NEW m \in {Absent, MetricLow}, Add(k, m)
      PROVE  Watched(t) /\ UNCHANGED tasks
  BY <1>2, <1>4 DEF Add
<1>5. CASE AddReplaces \/ AddConfirmed \/ AddSetsMetric
  <2>1. Watched(t) /\ UNCHANGED tasks
    BY <1>1, <1>3, <1>5, CallWatched DEF AddReplaces, AddConfirmed, AddSetsMetric, GuiGoesOn
  <2> QED
    BY <2>1
<1>6. CASE GivesUp \/ ModifyValidates \/ DialogCloses \/ DialogDismissed
  BY <1>2, <1>6 DEF GivesUp, ModifyValidates, DialogCloses, DialogDismissed, GuiGoesOn
<1>7. ASSUME NEW k \in Keys, NEW form \in {"mask", "digits"}, Delete(k, form)
      PROVE  Watched(t) /\ UNCHANGED tasks
  BY <1>1, <1>7, CallWatched DEF Delete
<1>8. ASSUME NEW old \in Keys, NEW k \in Keys, NEW m \in {Absent, MetricLow},
             Modify(old, k, m)
      PROVE  Watched(t) /\ UNCHANGED tasks
  BY <1>1, <1>2, <1>8, CallWatched DEF Modify
<1>9. ASSUME NEW s \in Tasks, NEW new, new.pc = "begin", Submits(s, new)
      PROVE  /\ Watched(t)
             /\ tasks'[t] = tasks[t] \/ (tasks[t].pc = "unused" /\ tasks'[t].pc = "begin")
  BY <1>1, <1>2, <1>9 DEF Submits
<1>10. ASSUME NEW s \in Tasks, NEW iface \in DefaultIfaces, Switch(s, iface)
       PROVE  /\ Watched(t)
              /\ tasks'[t] = tasks[t] \/ (tasks[t].pc = "unused" /\ tasks'[t].pc = "begin")
  BY <1>9, <1>10 DEF Switch, Unused
<1>11. ASSUME NEW s \in Tasks, NEW mode \in ImportModes, NEW file \in Files,
              Import(s, mode, file)
       PROVE  /\ Watched(t)
              /\ tasks'[t] = tasks[t] \/ (tasks[t].pc = "unused" /\ tasks'[t].pc = "begin")
  BY <1>9, <1>11 DEF Import, Unused
<1>12. ASSUME NEW s \in Tasks, TaskStep(s)
       PROVE  Watched(t) /\ tasks'[t] = tasks[t]
  BY <1>12, TaskStepWatched
<1>13. ASSUME NEW k \in Keys, NEW m \in Choices, OthersChange(k, m)
       PROVE  Watched(t) /\ UNCHANGED tasks
  <2>1. Nobody # t /\ Changes(k, m, Nobody) /\ UNCHANGED tasks
    BY <1>1, <1>13 DEF OthersChange
  <2> QED
    BY <2>1, CallWatched DEF Outcomes
<1>14. CASE Expires \/ Refreshes \/ UNCHANGED vars
  BY <1>2, <1>14 DEF Expires, Refreshes, vars
<1> QED
  BY <1>4, <1>5, <1>6, <1>7, <1>8, <1>10, <1>11, <1>12, <1>13, <1>14 DEF Next

(* An import in the mode "skip" removes no route, and changes the metric of *)
(* none but those it has made, whatever file it imports, whatever the cache *)
(* holds, and whoever changes routes beside it.                             *)
LEMMA SkipStep ==
    ASSUME TInv, [Next]_vars, NEW t \in Tasks, tasks[t].mode = "skip",
           tasks'[t] # tasks[t], NEW k \in Keys, sys'[k] # sys[k]
    PROVE  sys[k] = Absent \/ k \in tasks[t].mine
<1>1. TaskInv(tasks[t])
  BY DEF TInv
<1>2. TaskStep(t)
  BY <1>1, OtherStepWatched DEF TaskInv, Shape
<1>3. sys \in [Keys -> Absent..MetricMax]
  BY DEF TInv, TypeOK, Tables
<1>4. /\ tasks[t].pc # "setting" /\ tasks[t].pc # "deleting" /\ tasks[t].todo = {}
      /\ tasks[t].pc = "metric" => Entry(t).key \in tasks[t].mine
  BY <1>1 DEF TaskInv, Shape, Progress, ImportModes, Entry, Current
<1>5. CASE AddsEntry(t)
  BY <1>3, <1>5 DEF AddsEntry, CreateRoute, Calls, Changes
<1>6. CASE SetsEntryMetric(t)
  BY <1>3, <1>4, <1>6 DEF SetsEntryMetric, SetMetric, Calls, Changes, TaskGoesOn
<1>7. CASE ~AddsEntry(t) /\ ~SetsEntryMetric(t)
  BY <1>2, <1>4, <1>7 DEF TaskStep, SwitchReads, SwitchSets, SwitchEnds, ImportBegins,
     ClearsOne, Cleared, RejectsEntry, ChecksEntry, DeletesEntry, EntryRaises,
     LeavesEntryMetric, ImportEnds, TaskGoesOn
<1> QED
  BY <1>5, <1>6, <1>7

THEOREM SkipKeepsRoutesHolds == Spec => SkipKeepsRoutes
<1>1. Spec => []TInv
  BY InitTyped, StepTyped, PTL DEF Spec
<1>2. TInv /\ [Next]_vars =>
         [\A t \in Tasks : tasks[t].mode = "skip" /\ tasks'[t] # tasks[t] =>
             \A k \in Keys : sys'[k] # sys[k] => sys[k] = Absent \/ k \in tasks[t].mine]_vars
  BY SkipStep
<1> QED
  BY <1>1, <1>2, PTL DEF Spec, SkipKeepsRoutes

-----------------------------------------------------------------------------
(* The cache may lack writes of the program only while a task is at work    *)
(* that will invalidate it at its end, or was cut short.                    *)
Busy == {"setting", "clearing", "entry", "deleting", "adding", "metric", "raised"}

SeenInv == unseen = {} \/ \E t \in Tasks : tasks[t].pc \in Busy

LEMMA SeenByOthers ==
    ASSUME [Next]_vars, \A t \in Tasks : ~TaskStep(t)
    PROVE  unseen' = unseen \/ unseen' = {}
<1>1. Reads \/ NoRead \/ Invalidates => unseen' = unseen \/ unseen' = {}
  BY DEF Reads, NoRead, Invalidates
<1>2. \A r : InvalidatesIfOk(r) => unseen' = unseen \/ unseen' = {}
  BY <1>1 DEF InvalidatesIfOk
<1> QED
  BY <1>1, <1>2 DEF Next, vars, Add, AddReplaces, GivesUp, AddConfirmed, AddSetsMetric,
     Delete, Modify, ModifyValidates, Switch, Import, Submits, DialogCloses,
     DialogDismissed, OthersChange, Expires, Refreshes

LEMMA SeenStep ==
    ASSUME TInv, SeenInv, [Next]_vars
    PROVE  SeenInv'
<1>1. CASE unseen' = {}
  BY <1>1 DEF SeenInv
<1>2. CASE unseen' # {} /\ \A t \in Tasks : ~TaskStep(t)
  <2>1. PICK t \in Tasks : tasks[t].pc \in Busy
    BY <1>2, SeenByOthers DEF SeenInv
  <2>2. tasks'[t] = tasks[t]
    BY <1>2, <2>1, OtherStepWatched DEF Busy
  <2> QED
    BY <2>1, <2>2 DEF SeenInv
<1>3. ASSUME NEW t \in Tasks, TaskStep(t), unseen' # {}
      PROVE  SeenInv'
  <2>1. tasks \in [Tasks -> TaskType] /\ TaskInv(tasks'[t])
        /\ tasks' = [tasks EXCEPT ![t] = tasks'[t]]
    BY <1>3, TaskKeepsShape DEF TInv, TypeOK
  <2>2. CASE SwitchReads(t)
    <3>1. unseen # {} /\ tasks[t].pc = "begin"
      BY <1>3, <2>2 DEF SwitchReads, Reads, TaskGoesOn
    <3>2. PICK s \in Tasks : tasks[s].pc \in Busy
      BY <3>1 DEF SeenInv
    <3>3. s # t
      BY <3>1, <3>2 DEF Busy
    <3>4. tasks'[s] = tasks[s]
      BY <2>1, <3>3
    <3> QED
      BY <3>2, <3>4 DEF SeenInv
  <2>3. CASE SwitchEnds(t) \/ ImportEnds(t)
    BY <1>3, <2>3 DEF SwitchEnds, ImportEnds, Invalidates
  <2>4. CASE ~SwitchReads(t) /\ ~SwitchEnds(t) /\ ~ImportEnds(t)
    <3> DEFINE task == tasks[t]
    <3>1. /\ NextEntry(task).pc = "entry" /\ EntryDone(task).pc = "entry"
          /\ EntryAdded(task).pc = "metric"
          /\ EntryFailed(task, FALSE).pc = "entry"
          /\ \A f : EntryFailed(task, f).pc = "entry"
          /\ \A f : [EntryDone(task) EXCEPT !.trouble = f].pc = "entry"
      BY <2>1 DEF NextEntry, EntryDone, EntryAdded, EntryFailed, TaskType
    <3>2. tasks[t] \in TaskType
      BY <2>1
    <3>3. SwitchSets(t) => tasks'[t].pc \in Busy
      BY <2>1, <3>2 DEF SwitchSets, TaskGoesOn, Busy, TaskType
    <3>4. ImportBegins(t) => tasks'[t].pc \in Busy
      BY <2>1, <3>2 DEF ImportBegins, TaskGoesOn, Busy, TaskType
    <3>5. ClearsOne(t) => tasks'[t].pc \in Busy
      BY <2>1, <3>2 DEF ClearsOne, TaskGoesOn, Busy, TaskType
    <3>6. Cleared(t) => tasks'[t].pc \in Busy
      BY <2>1, <3>2 DEF Cleared, TaskGoesOn, Busy, TaskType
    <3>7. DeletesEntry(t) => tasks'[t].pc \in Busy
      BY <2>1, <3>2 DEF DeletesEntry, TaskGoesOn, Busy, TaskType
    <3>8. EntryRaises(t) => tasks'[t].pc \in Busy
      BY <2>1, <3>2 DEF EntryRaises, TaskGoesOn, Busy, TaskType
    <3>9. RejectsEntry(t) => tasks'[t].pc \in Busy
      BY <2>1, <3>1, <3>2 DEF RejectsEntry, TaskGoesOn, Busy, TaskType
    <3>10. ChecksEntry(t) => tasks'[t].pc \in Busy
      BY <2>1, <3>1, <3>2 DEF ChecksEntry, TaskGoesOn, Busy, TaskType
    <3>11. AddsEntry(t) => tasks'[t].pc \in Busy
      BY <2>1, <3>1, <3>2 DEF AddsEntry, TaskGoesOn, Busy, TaskType
    <3>12. SetsEntryMetric(t) => tasks'[t].pc \in Busy
      BY <2>1, <3>1, <3>2 DEF SetsEntryMetric, TaskGoesOn, Busy, TaskType
    <3>13. LeavesEntryMetric(t) => tasks'[t].pc \in Busy
      BY <2>1, <3>1, <3>2 DEF LeavesEntryMetric, TaskGoesOn, Busy, TaskType
    <3>14. tasks'[t].pc \in Busy
      BY <1>3, <2>4, <3>3, <3>4, <3>5, <3>6, <3>7, <3>8, <3>9, <3>10, <3>11, <3>12, <3>13 DEF TaskStep
    <3> QED
      BY <3>14 DEF SeenInv
  <2> QED
    BY <2>2, <2>3, <2>4
<1> QED
  BY <1>1, <1>2, <1>3

(* When no task is at work and none was cut short, a cached table that is   *)
(* taken for valid has every change that the program itself has made.       *)
THEOREM OwnWritesSeenHolds == Spec => []OwnWritesSeen
<1>1. Init => SeenInv
  BY DEF Init, SeenInv
<1>2. TInv /\ SeenInv /\ [Next]_vars => SeenInv'
  BY SeenStep
<1>3. SeenInv => OwnWritesSeen
  BY DEF SeenInv, OwnWritesSeen, Ended, Busy
<1> QED
  BY <1>1, <1>2, <1>3, InitTyped, StepTyped, PTL DEF Spec

-----------------------------------------------------------------------------
(* Imports.  Of the entries counted as successes, each has its route in the *)
(* system, or a later one with the same route has, or the entry at hand is  *)
(* about to put it there; in a restore, a route that the import neither     *)
(* made nor has still to delete is gone.  Both hold of a task, the table    *)
(* and the keys that others have touched.                                   *)
Settled(task, table, seen, i) ==
    LET k == task.file[i].key IN
    \/ k \in seen
    \/ \E j \in task.good : /\ j >= i /\ task.file[j].key = k
                            /\ table[k] = Wanted(task.file[j])

UnderWay(task, table, k) ==
    /\ Current(task).key = k
    /\ \/ task.pc = "adding" /\ Current(task).flaw = "none" /\ table[k] = Absent
       \/ task.pc = "metric"

Counted(task) ==
    /\ task.good \subseteq 1..(task.at - 1)
    /\ task.mine \subseteq KeysOf(task.file)
    /\ task.pc = "done" => task.at > Len(task.file)
    /\ task.mode = "restore" /\ ~task.failures => 1..(task.at - 1) \subseteq task.good

Installed(task, table, seen) ==
    ~task.trouble => \A i \in task.good : \/ Settled(task, table, seen, i)
                                          \/ UnderWay(task, table, task.file[i].key)

JustAdded(task, table, seen) ==
    ~task.trouble /\ task.pc = "metric" =>
        Current(task).key \in seen \/ table[Current(task).key] = MetricCreated

NothingElse(task, table, seen) ==
    ~task.trouble /\ task.mode = "restore" /\ task.pc \notin {"unused", "begin"} =>
        \A k \in Keys \ seen : table[k] # Absent => k \in task.todo \/ k \in task.mine

ImportInv(task, table, seen) ==
    task.mode \in ImportModes =>
        /\ Counted(task) /\ Installed(task, table, seen)
        /\ JustAdded(task, table, seen) /\ NothingElse(task, table, seen)

IInv == \A t \in Tasks : ImportInv(tasks[t], sys, touched[t])

LEMMA FileKeys ==
    ASSUME NEW task, TaskInv(task), NEW i \in 1..Len(task.file)
    PROVE  task.file[i] \in Entries /\ task.file[i].key \in Keys
<1>1. task.file \in Seq(Entries)
  BY DEF TaskInv, Typed, TaskType
<1>2. task.file[i] \in Entries
  BY <1>1
<1> QED
  BY <1>2 DEF Entries

(* A task that has only begun has nothing to answer for.                    *)
LEMMA FreshImport ==
    ASSUME NEW task, TaskInv(task), task.pc \in {"unused", "begin"}, NEW table, NEW seen
    PROVE  ImportInv(task, table, seen)
  BY DEF TaskInv, Progress, Fresh, ImportInv, Counted, Installed, JustAdded, NothingElse

(* Whatever others change, they touch.                                      *)
LEMMA ImportUndisturbed ==
    ASSUME NEW task, TaskInv(task), NEW table, NEW seen, ImportInv(task, table, seen),
           NEW table2, NEW seen2 \in SUBSET Keys, seen \subseteq seen2,
           \A k \in Keys : table2[k] # table[k] => k \in seen2
    PROVE  ImportInv(task, table2, seen2)
<1> SUFFICES ASSUME task.mode \in ImportModes
             PROVE  ImportInv(task, table2, seen2)
  BY DEF ImportInv
<1>1. /\ Counted(task) /\ Installed(task, table, seen)
      /\ JustAdded(task, table, seen) /\ NothingElse(task, table, seen)
  BY DEF ImportInv
<1>2. \A i \in 1..Len(task.file) : task.file[i].key \in Keys
  BY FileKeys
<1>3. task.pc \in {"adding", "metric"} => Current(task).key \in Keys
  BY <1>2 DEF TaskInv, Typed, TaskType, Shape, Current
<1>4. Installed(task, table2, seen2)
  <2> SUFFICES ASSUME ~task.trouble, NEW i \in task.good
               PROVE  \/ Settled(task, table2, seen2, i)
                      \/ UnderWay(task, table2, task.file[i].key)
    BY DEF Installed
  <2>1. task.file[i].key \in Keys
    BY <1>2 DEF TaskInv, Typed
  <2>2. \/ Settled(task, table, seen, i) \/ UnderWay(task, table, task.file[i].key)
    BY <1>1 DEF Installed
  <2> QED
    BY <2>1, <2>2 DEF Settled, UnderWay
<1>5. JustAdded(task, table2, seen2)
  BY <1>1, <1>3 DEF JustAdded
<1>6. NothingElse(task, table2, seen2)
  BY <1>1 DEF NothingElse
<1> QED
  BY <1>1, <1>4, <1>5, <1>6 DEF ImportInv

(* The import's own steps, as changes of its record and of the table.       *)
LEMMA WantedIsMetric == \A e \in Entries : Wanted(e) # Absent
<1> SUFFICES ASSUME NEW e \in Entries PROVE Wanted(e) # Absent
  OBVIOUS
<1>1. CASE HasMetric(e)
  <2>1. e.metric \in 1..9999
    BY <1>1 DEF HasMetric, MetricMin, MetricMax
  <2>2. \A m \in 1..9999 : m # Absent
    BY DEF Absent
  <2>3. e.metric # Absent
    BY <2>1, <2>2
  <2> QED
    BY <1>1, <2>3 DEF Wanted
<1>2. CASE ~HasMetric(e)
  BY <1>2 DEF Wanted, MetricCreated, Absent
<1> QED
  BY <1>1, <1>2

(* Steps that leave the table and what is counted alone.                    *)
LEMMA ImportMoves ==
    ASSUME NEW task, TaskInv(task), NEW table, NEW seen, ImportInv(task, table, seen),
           NEW pc \in TaskSteps,
           \/ task.pc = "clearing" /\ pc = "entry" /\ task.todo = {}
           \/ task.pc = "entry" /\ pc \in {"deleting", "adding"}
           \/ task.pc = "entry" /\ pc = "done" /\ task.at > Len(task.file)
           \/ task.pc = "adding" /\ pc = "raised" /\ Current(task).flaw # "none"
    PROVE  ImportInv([task EXCEPT !.pc = pc], table, seen)
<1> DEFINE new == [task EXCEPT !.pc = pc]
<1>1. /\ new.mode = task.mode /\ new.file = task.file /\ new.at = task.at
      /\ new.todo = task.todo /\ new.mine = task.mine /\ new.good = task.good
      /\ new.pc = pc
  BY DEF TaskInv, Typed, TaskType
<1>2. new.failures = task.failures /\ new.trouble = task.trouble
  BY DEF TaskInv, Typed, TaskType
<1> HIDE DEF new
<1>3. SUFFICES ASSUME task.mode \in ImportModes
               PROVE  ImportInv(new, table, seen)
  BY <1>1 DEF ImportInv, new
<1>4. /\ Counted(task) /\ Installed(task, table, seen)
      /\ JustAdded(task, table, seen) /\ NothingElse(task, table, seen)
  BY <1>3 DEF ImportInv
<1>5. Counted(new)
  BY <1>1, <1>2, <1>4 DEF Counted
<1>6. Installed(new, table, seen)
  <2> SUFFICES ASSUME ~task.trouble, NEW i \in task.good
               PROVE  Settled(new, table, seen, i)
    BY <1>1, <1>2 DEF Installed
  <2>1. Settled(task, table, seen, i)
    BY <1>4 DEF Installed, UnderWay
  <2> QED
    BY <1>1, <2>1 DEF Settled
<1>7. JustAdded(new, table, seen)
  BY <1>1 DEF JustAdded
<1>8. NothingElse(new, table, seen)
  BY <1>1, <1>2, <1>4 DEF NothingElse
<1> QED
  BY <1>1, <1>5, <1>6, <1>7, <1>8 DEF ImportInv, new

(* Going on to the next entry: skipped, failed, or counted.                 *)
LEMMA ImportFails ==
    ASSUME NEW task, TaskInv(task), NEW table, NEW seen, ImportInv(task, table, seen),
           NEW fault \in BOOLEAN, task.at <= Len(task.file),
           \/ task.pc = "entry"
           \/ /\ task.pc = "adding" /\ Current(task).flaw = "none"
              /\ fault \/ table[Current(task).key] # Absent
    PROVE  ImportInv(EntryFailed(task, fault), table, seen)
<1> DEFINE new == EntryFailed(task, fault)
<1>1. /\ new.mode = task.mode /\ new.file = task.file /\ new.at = task.at + 1
      /\ new.todo = task.todo /\ new.mine = task.mine /\ new.good = task.good
      /\ new.pc = "entry"
  BY DEF TaskInv, Typed, TaskType, EntryFailed, NextEntry
<1>2. new.failures /\ (new.trouble <=> task.trouble \/ fault)
  BY DEF TaskInv, Typed, TaskType, EntryFailed, NextEntry
<1> HIDE DEF new
<1>3. SUFFICES ASSUME task.mode \in ImportModes
               PROVE  ImportInv(new, table, seen)
  BY <1>1 DEF ImportInv, new
<1>4. /\ Counted(task) /\ Installed(task, table, seen) /\ NothingElse(task, table, seen)
      /\ task.at \in Nat
  BY <1>3 DEF ImportInv, TaskInv, Typed, TaskType
<1>5. Counted(new)
  BY <1>1, <1>2, <1>4 DEF Counted
<1>6. Installed(new, table, seen)
  <2> SUFFICES ASSUME ~new.trouble, NEW i \in task.good
               PROVE  Settled(new, table, seen, i)
    BY <1>1 DEF Installed
  <2>1. Settled(task, table, seen, i)
    BY <1>2, <1>4 DEF Installed, UnderWay
  <2> QED
    BY <1>1, <2>1 DEF Settled
<1>7. JustAdded(new, table, seen)
  BY <1>1 DEF JustAdded
<1>8. NothingElse(new, table, seen)
  BY <1>1, <1>2, <1>4 DEF NothingElse
<1> QED
  BY <1>1, <1>5, <1>6, <1>7, <1>8 DEF ImportInv, new

LEMMA ImportSkips ==
    ASSUME NEW task, TaskInv(task), NEW table, NEW seen, ImportInv(task, table, seen),
           task.pc = "entry", task.mode = "skip", task.at <= Len(task.file)
    PROVE  ImportInv(NextEntry(task), table, seen)
<1> DEFINE new == NextEntry(task)
<1>1. /\ new.mode = "skip" /\ new.file = task.file /\ new.at = task.at + 1
      /\ new.mine = task.mine /\ new.good = task.good /\ new.pc = "entry"
      /\ new.trouble = task.trouble
  BY DEF TaskInv, Typed, TaskType, NextEntry
<1> HIDE DEF new
<1>2. /\ Counted(task) /\ Installed(task, table, seen) /\ task.at \in Nat
  BY DEF ImportInv, TaskInv, Typed, TaskType, ImportModes
<1>3. Counted(new)
  BY <1>1, <1>2 DEF Counted
<1>4. Installed(new, table, seen)
  <2> SUFFICES ASSUME ~task.trouble, NEW i \in task.good
               PROVE  Settled(new, table, seen, i)
    BY <1>1 DEF Installed
  <2>1. Settled(task, table, seen, i)
    BY <1>2 DEF Installed, UnderWay
  <2> QED
    BY <1>1, <2>1 DEF Settled
<1> QED
  BY <1>1, <1>3, <1>4 DEF ImportInv, JustAdded, NothingElse, new

LEMMA ImportCounts ==
    ASSUME NEW task, TaskInv(task), NEW table, NEW seen, ImportInv(task, table, seen),
           task.pc = "metric", NEW trouble \in BOOLEAN, NEW table2,
           task.trouble => trouble,
           \A k \in Keys : k # Current(task).key => table2[k] = table[k],
           \/ trouble
           \/ table2[Current(task).key] = Wanted(Current(task))
           \/ Current(task).key \in seen,
           trouble \/ (table2[Current(task).key] # Absent
                          => Current(task).key \in task.mine)
    PROVE  ImportInv([EntryDone(task) EXCEPT !.trouble = trouble], table2, seen)
<1> DEFINE new == [EntryDone(task) EXCEPT !.trouble = trouble]
           key == Current(task).key
<1>1. /\ new.mode = task.mode /\ new.file = task.file /\ new.at = task.at + 1
      /\ new.todo = task.todo /\ new.mine = task.mine
      /\ new.good = task.good \cup {task.at} /\ new.pc = "entry"
  BY DEF TaskInv, Typed, TaskType, EntryDone, NextEntry
<1>2. (new.failures <=> task.failures) /\ (new.trouble <=> trouble)
  BY DEF TaskInv, Typed, TaskType, EntryDone, NextEntry
<1> HIDE DEF new
<1>3. SUFFICES ASSUME task.mode \in ImportModes
               PROVE  ImportInv(new, table2, seen)
  BY <1>1 DEF ImportInv, new
<1>4. /\ Counted(task) /\ Installed(task, table, seen) /\ NothingElse(task, table, seen)
      /\ task.at \in Nat \ {0} /\ task.at <= Len(task.file)
  BY <1>3 DEF ImportInv, TaskInv, Typed, TaskType, Shape
<1>5. Counted(new)
  BY <1>1, <1>2, <1>4 DEF Counted
<1>6. Installed(new, table2, seen)
  <2> SUFFICES ASSUME ~trouble, NEW i \in task.good \cup {task.at}
               PROVE  Settled(new, table2, seen, i)
    BY <1>1, <1>2 DEF Installed
  <2>1. CASE task.file[i].key = key
    <3>1. i <= task.at /\ task.at \in new.good
      BY <1>1, <1>4 DEF Counted
    <3>2. new.file[task.at].key = key
      BY <1>1 DEF Current
    <3>3. table2[key] = Wanted(new.file[task.at]) \/ key \in seen
      BY <1>1 DEF Current
    <3> QED
      BY <1>1, <2>1, <3>1, <3>2, <3>3 DEF Settled
  <2>2. CASE task.file[i].key # key
    <3>1. i \in task.good /\ task.file[i].key \in Keys
      BY <2>2, FileKeys DEF Current, TaskInv, Typed
    <3>2. Settled(task, table, seen, i)
      BY <1>4, <2>2, <3>1 DEF Installed, UnderWay
    <3> QED
      BY <1>1, <2>2, <3>1, <3>2 DEF Settled
  <2> QED
    BY <2>1, <2>2
<1>7. JustAdded(new, table2, seen)
  BY <1>1 DEF JustAdded
<1>8. NothingElse(new, table2, seen)
  <2> SUFFICES ASSUME ~trouble, task.mode = "restore", NEW k \in Keys \ seen,
                      table2[k] # Absent
               PROVE  k \in task.todo \/ k \in task.mine
    BY <1>1, <1>2 DEF NothingElse
  <2>1. CASE k = key
    BY <2>1
  <2>2. CASE k # key
    BY <1>4, <2>2 DEF NothingElse
  <2> QED
    BY <2>1, <2>2
<1> QED
  BY <1>1, <1>5, <1>6, <1>7, <1>8 DEF ImportInv, new

(* The steps that delete and create the route of the entry at hand.         *)
LEMMA ImportAdds ==
    ASSUME NEW task, TaskInv(task), NEW table, NEW seen, ImportInv(task, table, seen),
           task.pc = "adding", NEW table2,
           \A k \in Keys : k # Current(task).key => table2[k] = table[k],
           table2[Current(task).key] = MetricCreated
    PROVE  ImportInv(EntryAdded(task), table2, seen)
<1> DEFINE new == EntryAdded(task)
           key == Current(task).key
<1>1. /\ new.mode = task.mode /\ new.file = task.file /\ new.at = task.at
      /\ new.todo = task.todo /\ new.mine = task.mine \cup {key}
      /\ new.good = task.good /\ new.pc = "metric"
  BY DEF TaskInv, Typed, TaskType, EntryAdded, Current
<1>2. (new.failures <=> task.failures) /\ (new.trouble <=> task.trouble)
  BY DEF TaskInv, Typed, TaskType, EntryAdded
<1> HIDE DEF new
<1>3. SUFFICES ASSUME task.mode \in ImportModes
               PROVE  ImportInv(new, table2, seen)
  BY <1>1 DEF ImportInv, new
<1>4. /\ Counted(task) /\ Installed(task, table, seen) /\ NothingElse(task, table, seen)
      /\ task.at \in 1..Len(task.file)
  BY <1>3 DEF ImportInv, TaskInv, Typed, TaskType, Shape
<1>5. Counted(new)
  <2>1. key \in KeysOf(task.file)
    BY <1>4 DEF KeysOf, Current
  <2> QED
    BY <1>1, <1>2, <1>4, <2>1 DEF Counted
<1>6. Installed(new, table2, seen)
  <2> SUFFICES ASSUME ~task.trouble, NEW i \in task.good
               PROVE  \/ Settled(new, table2, seen, i)
                      \/ UnderWay(new, table2, task.file[i].key)
    BY <1>1, <1>2 DEF Installed
  <2>1. CASE task.file[i].key = key
    BY <1>1, <2>1 DEF UnderWay, Current
  <2>2. CASE task.file[i].key # key
    <3>1. task.file[i].key \in Keys
      BY FileKeys DEF TaskInv, Typed
    <3>2. Settled(task, table, seen, i)
      BY <1>4, <2>2 DEF Installed, UnderWay
    <3> QED
      BY <1>1, <2>2, <3>1, <3>2 DEF Settled
  <2> QED
    BY <2>1, <2>2
<1>7. JustAdded(new, table2, seen)
  BY <1>1 DEF JustAdded, Current
<1>8. NothingElse(new, table2, seen)
  <2> SUFFICES ASSUME ~task.trouble, task.mode = "restore", NEW k \in Keys \ seen,
                      table2[k] # Absent, k # key
               PROVE  k \in task.todo \/ k \in task.mine
    BY <1>1, <1>2 DEF NothingElse
  <2> QED
    BY <1>4 DEF NothingElse
<1> QED
  BY <1>1, <1>5, <1>6, <1>7, <1>8 DEF ImportInv, new

LEMMA ImportDeletes ==
    ASSUME NEW task, TaskInv(task), NEW table, NEW seen, ImportInv(task, table, seen),
           task.pc = "deleting", NEW trouble \in BOOLEAN, NEW table2,
           task.trouble => trouble,
           \A k \in Keys : k # Current(task).key => table2[k] = table[k],
           \/ trouble
           \/ table2[Current(task).key] = table[Current(task).key]
           \/ table2[Current(task).key] = Absent
    PROVE  ImportInv([task EXCEPT !.pc = "adding", !.trouble = trouble], table2, seen)
<1> DEFINE new == [task EXCEPT !.pc = "adding", !.trouble = trouble]
           key == Current(task).key
<1>1. /\ new.mode = "overwrite" /\ new.file = task.file /\ new.at = task.at
      /\ new.todo = task.todo /\ new.mine = task.mine
      /\ new.good = task.good /\ new.pc = "adding"
  BY DEF TaskInv, Typed, TaskType, Shape
<1>2. new.trouble <=> trouble
  BY DEF TaskInv, Typed, TaskType
<1>3. Current(task).flaw = "none" /\ task.mode = "overwrite"
  BY DEF TaskInv, Shape
<1> HIDE DEF new
<1>4. Counted(task) /\ Installed(task, table, seen)
  BY <1>3 DEF ImportInv, ImportModes
<1>5. Counted(new)
  BY <1>1, <1>4 DEF Counted
<1>6. Installed(new, table2, seen)
  <2> SUFFICES ASSUME ~trouble, NEW i \in task.good
               PROVE  \/ Settled(new, table2, seen, i)
                      \/ UnderWay(new, table2, task.file[i].key)
    BY <1>1, <1>2 DEF Installed
  <2>1. Settled(task, table, seen, i) /\ task.file[i].key \in Keys
    BY <1>4, FileKeys DEF Installed, UnderWay, TaskInv, Typed
  <2>2. CASE task.file[i].key = key /\ table2[key] = Absent
    BY <1>1, <1>3, <2>2 DEF UnderWay, Current
  <2>3. CASE task.file[i].key = key /\ table2[key] = table[key]
    BY <1>1, <2>1, <2>3 DEF Settled
  <2>4. CASE task.file[i].key # key
    BY <1>1, <2>1, <2>4 DEF Settled
  <2> QED
    BY <2>2, <2>3, <2>4
<1> QED
  BY <1>1, <1>5, <1>6 DEF ImportInv, JustAdded, NothingElse, new

(* A restore begins with the system's table, and deletes what was in it.    *)
LEMMA ImportClears ==
    ASSUME NEW task, TaskInv(task), NEW table, NEW seen, ImportInv(task, table, seen),
           task.pc = "clearing", NEW trouble \in BOOLEAN, NEW table2,
           task.trouble => trouble, NEW key,
           \A k \in Keys : k # key => table2[k] = table[k],
           trouble \/ table2[key] = Absent
    PROVE  ImportInv([task EXCEPT !.todo = @ \ {key}, !.trouble = trouble], table2, seen)
<1> DEFINE new == [task EXCEPT !.todo = @ \ {key}, !.trouble = trouble]
<1>1. /\ new.mode = task.mode /\ new.file = task.file /\ new.at = 1
      /\ new.todo = task.todo \ {key} /\ new.mine = task.mine
      /\ new.good = {} /\ new.pc = "clearing"
  BY DEF TaskInv, Typed, TaskType, Progress, Fresh
<1>2. new.trouble <=> trouble
  BY DEF TaskInv, Typed, TaskType
<1>3. task.mine = {} /\ task.mode \in ImportModes
  BY DEF TaskInv, Progress, Fresh, Shape
<1> HIDE DEF new
<1>4. NothingElse(new, table2, seen)
  BY <1>1, <1>2, <1>3 DEF ImportInv, NothingElse
<1>5. Counted(new) /\ Installed(new, table2, seen) /\ JustAdded(new, table2, seen)
  BY <1>1, <1>3 DEF Counted, Installed, JustAdded
<1> QED
  BY <1>1, <1>4, <1>5 DEF ImportInv, new

LEMMA ImportStarts ==
    ASSUME NEW task, TaskInv(task), task.pc = "begin", NEW table,
           NEW todo, NEW trouble,
           task.mode = "restore" /\ ~trouble => todo = Present(table)
    PROVE  ImportInv([task EXCEPT !.todo = todo, !.trouble = trouble, !.pc = "clearing"],
                     table, {})
<1> DEFINE new == [task EXCEPT !.todo = todo, !.trouble = trouble, !.pc = "clearing"]
<1>1. /\ new.mode = task.mode /\ new.file = task.file /\ new.at = 1
      /\ new.todo = todo /\ new.mine = {} /\ new.good = {} /\ new.pc = "clearing"
      /\ new.trouble = trouble
  BY DEF TaskInv, Typed, TaskType, Progress, Fresh
<1> HIDE DEF new
<1>2. Counted(new) /\ Installed(new, table, {}) /\ JustAdded(new, table, {})
  BY <1>1 DEF Counted, Installed, JustAdded
<1>3. NothingElse(new, table, {})
  BY <1>1 DEF NothingElse, Present
<1> QED
  BY <1>2, <1>3 DEF ImportInv, new

(* What a task's own calls do, with a prefix that is always well formed.    *)
LEMMA OwnChange ==
    ASSUME TInv, NEW t \in Tasks, NEW k \in Keys, NEW m, Changes(k, m, t)
    PROVE  /\ touched'[t] = touched[t] /\ sys'[k] = m
           /\ \A j \in Keys : j # k => sys'[j] = sys[j]
<1>1. sys \in [Keys -> Absent..MetricMax] /\ touched \in [Tasks -> SUBSET Keys]
  BY DEF TInv, TypeOK, Tables
<1> QED
  BY <1>1 DEF Changes

LEMMA OwnCreate ==
    ASSUME TInv, NEW t \in Tasks, NEW k \in Keys, NEW r \in Outcomes,
           CreateRoute(t, k, "mask", r)
    PROVE  /\ touched'[t] = touched[t]
           /\ \A j \in Keys : j # k => sys'[j] = sys[j]
           /\ r = "ok" => sys'[k] = MetricCreated
           /\ r # "ok" => sys' = sys
           /\ r = "refused" => sys[k] # Absent
<1>1. PrefixIsValid(k, "mask")
  BY DEF PrefixIsValid
<1>2. \/ r = "ok" /\ sys[k] = Absent /\ Changes(k, MetricCreated, t)
      \/ r = "refused" /\ sys[k] # Absent /\ UNCHANGED <<sys, touched>>
      \/ r = "fault" /\ UNCHANGED <<sys, touched>>
  BY <1>1 DEF CreateRoute, Calls
<1>3. CASE r = "ok" /\ sys[k] = Absent /\ Changes(k, MetricCreated, t)
  BY <1>3, OwnChange
<1>4. CASE UNCHANGED <<sys, touched>> /\ (r = "fault" \/ (r = "refused" /\ sys[k] # Absent))
  BY <1>4
<1> QED
  BY <1>2, <1>3, <1>4

LEMMA OwnDelete ==
    ASSUME TInv, NEW t \in Tasks, NEW k \in Keys, NEW r \in Outcomes,
           DeleteRoute(t, k, "mask", r)
    PROVE  /\ touched'[t] = touched[t]
           /\ \A j \in Keys : j # k => sys'[j] = sys[j]
           /\ r = "fault" \/ sys'[k] = Absent
           /\ sys'[k] = Absent \/ sys'[k] = sys[k]
<1>1. PrefixIsValid(k, "mask")
  BY DEF PrefixIsValid
<1>2. \/ r = "ok" /\ sys[k] # Absent /\ Changes(k, Absent, t)
      \/ r = "refused" /\ sys[k] = Absent /\ UNCHANGED <<sys, touched>>
      \/ r = "fault" /\ UNCHANGED <<sys, touched>>
  BY <1>1 DEF DeleteRoute, Calls
<1>3. CASE r = "ok" /\ sys[k] # Absent /\ Changes(k, Absent, t)
  BY <1>3, OwnChange
<1>4. CASE UNCHANGED <<sys, touched>> /\ (r = "fault" \/ (r = "refused" /\ sys[k] = Absent))
  BY <1>4
<1> QED
  BY <1>2, <1>3, <1>4

LEMMA OwnMetric ==
    ASSUME TInv, NEW t \in Tasks, NEW k \in Keys, NEW m, NEW r \in Outcomes,
           SetMetric(t, k, m, "mask", r)
    PROVE  /\ touched'[t] = touched[t]
           /\ \A j \in Keys : j # k => sys'[j] = sys[j]
           /\ r = "ok" => sys'[k] = m /\ sys[k] # Absent
           /\ r # "ok" => sys' = sys
           /\ r = "refused" => sys[k] = Absent
<1>1. PrefixIsValid(k, "mask")
  BY DEF PrefixIsValid
<1>2. \/ r = "ok" /\ sys[k] # Absent /\ Changes(k, m, t)
      \/ r = "refused" /\ sys[k] = Absent /\ UNCHANGED <<sys, touched>>
      \/ r = "fault" /\ UNCHANGED <<sys, touched>>
  BY <1>1 DEF SetMetric, Calls
<1>3. CASE r = "ok" /\ sys[k] # Absent /\ Changes(k, m, t)
  BY <1>3, OwnChange
<1>4. CASE UNCHANGED <<sys, touched>> /\ (r = "fault" \/ (r = "refused" /\ sys[k] = Absent))
  BY <1>4
<1> QED
  BY <1>2, <1>3, <1>4

(* Every step of a task is one of the steps above.                          *)
LEMMA ImportTaskStep ==
    ASSUME TInv, IInv, NEW t \in Tasks, TaskStep(t)
    PROVE  ImportInv(tasks'[t], sys', touched'[t])
<1> DEFINE task == tasks[t]
<1>1. /\ TaskInv(task) /\ ImportInv(task, sys, touched[t])
      /\ tasks \in [Tasks -> TaskType] /\ touched \in [Tasks -> SUBSET Keys]
      /\ task \in TaskType
  BY DEF TInv, IInv, TypeOK
<1>2. CASE SwitchReads(t) \/ SwitchSets(t) \/ SwitchEnds(t)
  <2>1. task.mode = "switch"
    BY <1>1, <1>2 DEF SwitchReads, SwitchSets, SwitchEnds, TaskGoesOn, TaskInv, Shape
  <2>2. SwitchReads(t) => tasks'[t].mode = "switch"
    <3> SUFFICES ASSUME SwitchReads(t) PROVE tasks'[t].mode = "switch"
      OBVIOUS
    <3>1. PICK pc, todo :
             tasks' = [tasks EXCEPT ![t].pc = pc, ![t].todo = todo, ![t].mine = todo]
      BY DEF SwitchReads
    <3> QED
      BY <1>1, <2>1, <3>1 DEF TaskType
  <2>3. SwitchSets(t) => tasks'[t].mode = "switch"
    BY <1>1, <2>1 DEF SwitchSets, TaskType
  <2>4. SwitchEnds(t) => tasks'[t].mode = "switch"
    BY <1>1, <2>1 DEF SwitchEnds, TaskType
  <2> QED
    BY <1>2, <2>2, <2>3, <2>4 DEF ImportInv, ImportModes
<1>3. CASE ImportBegins(t)
  <2>1. PICK families \in SUBSET {AF_INET, AF_INET6} :
          tasks' = [tasks EXCEPT
             ![t].todo = IF tasks[t].mode = "restore" THEN Listed(families) ELSE {},
             ![t].trouble = /\ tasks[t].mode = "restore"
                            /\ Listed(families) # Present(sys),
             ![t].pc = "clearing"]
    BY <1>3 DEF ImportBegins
  <2> DEFINE todo == IF task.mode = "restore" THEN Listed(families) ELSE {}
             trouble == task.mode = "restore" /\ Listed(families) # Present(sys)
  <2>2. /\ tasks'[t] = [task EXCEPT !.todo = todo, !.trouble = trouble, !.pc = "clearing"]
        /\ sys' = sys /\ touched'[t] = {} /\ task.pc = "begin"
    BY <1>1, <1>3, <2>1 DEF ImportBegins, TaskGoesOn
  <2>3. task.mode = "restore" /\ ~trouble => todo = Present(sys)
    OBVIOUS
  <2> HIDE DEF todo, trouble
  <2>4. ImportInv([task EXCEPT !.todo = todo, !.trouble = trouble, !.pc = "clearing"], sys, {})
    BY <1>1, <2>2, <2>3, ImportStarts
  <2> QED
    BY <2>2, <2>4
<1>4. CASE ClearsOne(t)
  <2>1. PICK k \in task.todo, r \in Outcomes :
           /\ DeleteRoute(t, k, "mask", r)
           /\ tasks' = [tasks EXCEPT ![t].todo = @ \ {k}, ![t].trouble = @ \/ r = "fault"]
    BY <1>4 DEF ClearsOne
  <2> DEFINE trouble == task.trouble \/ r = "fault"
  <2>2. /\ tasks'[t] = [task EXCEPT !.todo = @ \ {k}, !.trouble = trouble]
        /\ k \in Keys /\ task.pc = "clearing" /\ trouble \in BOOLEAN
    <3>1. tasks'[t] = [task EXCEPT !.todo = @ \ {k}, !.trouble = trouble]
      BY <1>1, <2>1
    <3>2. k \in Keys /\ task.pc = "clearing"
      BY <1>1, <1>4 DEF ClearsOne, TaskGoesOn, TaskType
    <3>3. trouble \in BOOLEAN
      BY <1>1 DEF TaskType
    <3> QED
      BY <3>1, <3>2, <3>3
  <2>3. task.trouble => trouble
    OBVIOUS
  <2>4. trouble \/ sys'[k] = Absent
    BY <2>1, <2>2, OwnDelete
  <2>5. touched'[t] = touched[t] /\ \A j \in Keys : j # k => sys'[j] = sys[j]
    BY <2>1, <2>2, OwnDelete
  <2> HIDE DEF trouble
  <2>6. ImportInv([task EXCEPT !.todo = @ \ {k}, !.trouble = trouble], sys', touched[t])
    BY <1>1, <2>2, <2>3, <2>4, <2>5, ImportClears
  <2> QED
    BY <2>2, <2>5, <2>6
<1>5. CASE Cleared(t) \/ EntryRaises(t) \/ ImportEnds(t)
  <2>1. sys' = sys /\ touched' = touched
    BY <1>5 DEF Cleared, EntryRaises, ImportEnds
  <2>2. CASE Cleared(t)
    <3>1. tasks'[t] = [task EXCEPT !.pc = "entry"] /\ task.pc = "clearing" /\ task.todo = {}
      BY <1>1, <2>2 DEF Cleared, TaskGoesOn
    <3>2. "entry" \in TaskSteps
      BY DEF TaskSteps
    <3>3. ImportInv([task EXCEPT !.pc = "entry"], sys, touched[t])
      BY <1>1, <3>1, <3>2, ImportMoves
    <3> QED
      BY <2>1, <3>1, <3>3
  <2>3. CASE EntryRaises(t)
    <3>1. /\ tasks'[t] = [task EXCEPT !.pc = "raised"]
          /\ task.pc = "adding" /\ Current(task).flaw # "none"
      BY <1>1, <2>3 DEF EntryRaises, TaskGoesOn, Entry, Current
    <3>2. "raised" \in TaskSteps
      BY DEF TaskSteps
    <3>3. ImportInv([task EXCEPT !.pc = "raised"], sys, touched[t])
      BY <1>1, <3>1, <3>2, ImportMoves
    <3> QED
      BY <2>1, <3>1, <3>3
  <2>4. CASE ImportEnds(t)
    <3>1. /\ tasks'[t] = [task EXCEPT !.pc = "done"]
          /\ task.pc = "entry" /\ task.at > Len(task.file)
      BY <1>1, <2>4 DEF ImportEnds, TaskGoesOn
    <3>2. "done" \in TaskSteps
      BY DEF TaskSteps
    <3>3. ImportInv([task EXCEPT !.pc = "done"], sys, touched[t])
      BY <1>1, <3>1, <3>2, ImportMoves
    <3> QED
      BY <2>1, <3>1, <3>3
  <2> QED
    BY <1>5, <2>2, <2>3, <2>4
<1>6. CASE RejectsEntry(t)
  <2>1. /\ sys' = sys /\ touched' = touched /\ tasks'[t] = EntryFailed(task, FALSE)
        /\ task.pc = "entry" /\ task.at <= Len(task.file)
    BY <1>1, <1>6 DEF RejectsEntry, TaskGoesOn
  <2>2. ImportInv(EntryFailed(task, FALSE), sys, touched[t])
    BY <1>1, <2>1, ImportFails
  <2> QED
    BY <2>1, <2>2
<1>7. CASE ChecksEntry(t)
  <2>1. /\ sys' = sys /\ touched' = touched
        /\ task.pc = "entry" /\ task.at <= Len(task.file)
        /\ \/ task.mode = "skip" /\ tasks'[t] = NextEntry(task)
           \/ tasks'[t] = [task EXCEPT !.pc = "deleting"]
           \/ tasks'[t] = [task EXCEPT !.pc = "adding"]
    BY <1>1, <1>7 DEF ChecksEntry, TaskGoesOn
  <2>2. task.mode = "skip" => ImportInv(NextEntry(task), sys, touched[t])
    BY <1>1, <2>1, ImportSkips
  <2>3. ASSUME NEW pc \in {"deleting", "adding"}
        PROVE  ImportInv([task EXCEPT !.pc = pc], sys, touched[t])
    BY <1>1, <2>1, ImportMoves DEF TaskSteps
  <2> QED
    BY <2>1, <2>2, <2>3
<1>8. ASSUME DeletesEntry(t) \/ AddsEntry(t) \/ SetsEntryMetric(t) \/ LeavesEntryMetric(t)
      PROVE  /\ Entry(t) = Current(task) /\ Current(task) \in Entries
             /\ Current(task).key \in Keys /\ task.at <= Len(task.file)
  <2>1. task.at <= Len(task.file)
    BY <1>1, <1>8 DEF DeletesEntry, AddsEntry, SetsEntryMetric, LeavesEntryMetric,
       TaskGoesOn, TaskInv, Shape
  <2> QED
    BY <2>1, KeyIsKnown DEF Entry, Current, TInv
<1>9. CASE DeletesEntry(t)
  <2> DEFINE key == Current(task).key
  <2>1. PICK r \in Outcomes :
           /\ DeleteRoute(t, key, "mask", r)
           /\ tasks' = [tasks EXCEPT ![t].pc = "adding", ![t].trouble = @ \/ r = "fault"]
    BY <1>8, <1>9 DEF DeletesEntry
  <2> DEFINE trouble == task.trouble \/ r = "fault"
  <2>2. tasks'[t] = [task EXCEPT !.pc = "adding", !.trouble = trouble]
    BY <1>1, <2>1
  <2>3. key \in Keys /\ task.pc = "deleting"
    BY <1>8, <1>9 DEF DeletesEntry, TaskGoesOn
  <2>4. trouble \in BOOLEAN
    BY <1>1 DEF TaskType
  <2>5. task.trouble => trouble
    OBVIOUS
  <2>6. /\ touched'[t] = touched[t] /\ \A j \in Keys : j # key => sys'[j] = sys[j]
        /\ sys'[key] = Absent \/ sys'[key] = sys[key]
    BY <2>1, <2>3, OwnDelete
  <2> HIDE DEF trouble
  <2>7. ImportInv([task EXCEPT !.pc = "adding", !.trouble = trouble], sys', touched[t])
    BY <1>1, <2>3, <2>4, <2>5, <2>6, ImportDeletes
  <2> QED
    BY <2>2, <2>6, <2>7
<1>10. CASE AddsEntry(t)
  <2> DEFINE key == Current(task).key
  <2>1. PICK r \in Outcomes :
           /\ CreateRoute(t, key, "mask", r)
           /\ tasks' = [tasks EXCEPT ![t] =
                 IF r = "ok" THEN EntryAdded(task) ELSE EntryFailed(task, r = "fault")]
    BY <1>8, <1>10 DEF AddsEntry
  <2>2. /\ key \in Keys /\ task.pc = "adding" /\ Current(task).flaw = "none"
        /\ task.at <= Len(task.file)
    BY <1>8, <1>10 DEF AddsEntry, TaskGoesOn
  <2>3. CASE r = "ok"
    <3>1. /\ touched'[t] = touched[t] /\ \A j \in Keys : j # key => sys'[j] = sys[j]
          /\ sys'[key] = MetricCreated
      BY <2>1, <2>2, <2>3, OwnCreate
    <3>2. tasks'[t] = EntryAdded(task)
      BY <1>1, <2>1, <2>3
    <3>3. ImportInv(EntryAdded(task), sys', touched[t])
      BY <1>1, <2>2, <3>1, ImportAdds
    <3> QED
      BY <3>1, <3>2, <3>3
  <2>4. CASE r = "refused"
    <3>1. touched'[t] = touched[t] /\ sys' = sys /\ sys[key] # Absent
      BY <2>1, <2>2, <2>4, OwnCreate
    <3>2. tasks'[t] = EntryFailed(task, FALSE)
      BY <1>1, <2>1, <2>4
    <3>3. ImportInv(EntryFailed(task, FALSE), sys, touched[t])
      BY <1>1, <2>2, <3>1, ImportFails
    <3> QED
      BY <3>1, <3>2, <3>3
  <2>5. CASE r = "fault"
    <3>1. touched'[t] = touched[t] /\ sys' = sys
      BY <2>1, <2>2, <2>5, OwnCreate
    <3>2. tasks'[t] = EntryFailed(task, TRUE)
      BY <1>1, <2>1, <2>5
    <3>3. ImportInv(EntryFailed(task, TRUE), sys, touched[t])
      BY <1>1, <2>2, <3>1, ImportFails
    <3> QED
      BY <3>1, <3>2, <3>3
  <2> QED
    BY <2>3, <2>4, <2>5 DEF Outcomes
<1>11. ASSUME task.pc = "metric", Current(task).key \in Keys
       PROVE  /\ Current(task).key \in task.mine
              /\ \/ task.trouble \/ task.mode \notin ImportModes
                 \/ Current(task).key \in touched[t]
                 \/ sys[Current(task).key] = MetricCreated
  BY <1>1, <1>11 DEF TaskInv, Shape, ImportInv, JustAdded
<1>12. CASE SetsEntryMetric(t)
  <2> DEFINE key == Current(task).key
  <2>1. PICK r \in Outcomes :
           /\ SetMetric(t, key, Current(task).metric, "mask", r)
           /\ tasks' = [tasks EXCEPT ![t] =
                 [EntryDone(task) EXCEPT !.trouble = task.trouble \/ r = "fault"]]
    BY <1>8, <1>12 DEF SetsEntryMetric
  <2> DEFINE trouble == task.trouble \/ r = "fault"
  <2>2. tasks'[t] = [EntryDone(task) EXCEPT !.trouble = trouble]
    BY <1>1, <2>1
  <2>3. key \in Keys /\ task.pc = "metric" /\ HasMetric(Current(task))
    BY <1>8, <1>12 DEF SetsEntryMetric, TaskGoesOn
  <2>4. trouble \in BOOLEAN
    BY <1>1 DEF TaskType
  <2>5. task.trouble => trouble
    OBVIOUS
  <2>6. /\ touched'[t] = touched[t] /\ \A j \in Keys : j # key => sys'[j] = sys[j]
        /\ r = "ok" => sys'[key] = Current(task).metric
        /\ r = "refused" => sys[key] = Absent
    BY <2>1, <2>3, OwnMetric
  <2>7. task.mode \in ImportModes
    BY <1>1, <2>3 DEF TaskInv, Shape
  <2>8. trouble \/ sys'[key] = Wanted(Current(task)) \/ key \in touched[t]
    <3>1. CASE r = "ok"
      BY <2>3, <2>6, <3>1 DEF Wanted
    <3>2. CASE r = "refused"
      BY <1>11, <2>3, <2>6, <2>7, <3>2 DEF MetricCreated, Absent
    <3>3. CASE r = "fault"
      BY <3>3
    <3> QED
      BY <3>1, <3>2, <3>3 DEF Outcomes
  <2> HIDE DEF trouble
  <2>9. ImportInv([EntryDone(task) EXCEPT !.trouble = trouble], sys', touched[t])
    BY <1>1, <1>11, <2>3, <2>4, <2>5, <2>6, <2>8, ImportCounts
  <2> QED
    BY <2>2, <2>6, <2>9
<1>13. CASE LeavesEntryMetric(t)
  <2> DEFINE key == Current(task).key
  <2>1. /\ key \in Keys /\ task.pc = "metric" /\ ~HasMetric(Current(task))
        /\ sys' = sys /\ touched' = touched /\ tasks'[t] = EntryDone(task)
    BY <1>1, <1>8, <1>13 DEF LeavesEntryMetric, TaskGoesOn
  <2>2. task.mode \in ImportModes /\ Wanted(Current(task)) = MetricCreated
    BY <1>1, <2>1 DEF TaskInv, Shape, Wanted
  <2>3. task.trouble \/ sys[key] = Wanted(Current(task)) \/ key \in touched[t]
    BY <1>11, <2>1, <2>2
  <2>4. task.trouble \in BOOLEAN
    BY <1>1 DEF TaskType
  <2>5. ImportInv([EntryDone(task) EXCEPT !.trouble = task.trouble], sys, touched[t])
    BY <1>1, <1>11, <2>1, <2>3, <2>4, ImportCounts
  <2>6. [EntryDone(task) EXCEPT !.trouble = task.trouble] = EntryDone(task)
    BY <1>1 DEF EntryDone, NextEntry, TaskType
  <2> QED
    BY <2>1, <2>5, <2>6
<1> QED
  BY <1>2, <1>3, <1>4, <1>5, <1>6, <1>7, <1>9, <1>10, <1>12, <1>13 DEF TaskStep

LEMMA ImportStep == TInv /\ IInv /\ [Next]_vars => IInv'
<1> SUFFICES ASSUME TInv, IInv, [Next]_vars, NEW t \in Tasks
             PROVE  ImportInv(tasks'[t], sys', touched'[t])
  BY DEF IInv
<1>1. TInv'
  BY StepTyped
<1>2. CASE TaskStep(t)
  BY <1>2, ImportTaskStep
<1>3. CASE tasks'[t].pc \in {"unused", "begin"}
  BY <1>1, <1>3, FreshImport DEF TInv
<1>4. CASE ~TaskStep(t) /\ tasks'[t].pc \notin {"unused", "begin"}
  <2>1. Watched(t) /\ tasks'[t] = tasks[t]
    BY <1>4, OtherStepWatched
  <2>2. touched'[t] \in SUBSET Keys
    BY <1>1 DEF TInv, TypeOK
  <2>3. TaskInv(tasks[t]) /\ ImportInv(tasks[t], sys, touched[t])
    BY DEF TInv, IInv
  <2>4. ImportInv(tasks[t], sys', touched'[t])
    BY <1>4, <2>1, <2>2, <2>3, ImportUndisturbed DEF Watched
  <2> QED
    BY <2>1, <2>4
<1> QED
  BY <1>2, <1>3, <1>4

LEMMA ImportInductive == Spec => [](TInv /\ IInv)
<1>1. Init => IInv
  BY InitTyped, FreshImport DEF Init, IInv, TInv, Unused
<1> QED
  BY <1>1, InitTyped, StepTyped, ImportStep, PTL DEF Spec

(* An import, in any mode and also one that an exception cut short: a route *)
(* counted as a success is in the system with the metric of the last entry  *)
(* that asks for it, unless others touched it or a call failed.             *)
THEOREM SuccessIsInstalledHolds == Spec => []SuccessIsInstalled
<1>1. TInv /\ IInv => SuccessIsInstalled
  <2> SUFFICES ASSUME TInv, IInv, NEW t \in Imports,
                      tasks[t].pc \in {"done", "raised"}, ~tasks[t].trouble,
                      NEW i \in tasks[t].good
               PROVE  LET file == tasks[t].file
                          good == tasks[t].good
                      IN  \/ file[i].key \in touched[t]
                          \/ \E j \in good : j > i /\ file[j].key = file[i].key
                          \/ sys[file[i].key] = Wanted(file[i])
    BY DEF SuccessIsInstalled
  <2>1. /\ t \in Tasks /\ Installed(tasks[t], sys, touched[t]) /\ TaskInv(tasks[t])
    BY DEF Imports, IInv, ImportInv, TInv
  <2>2. Settled(tasks[t], sys, touched[t], i)
    BY <2>1 DEF Installed, UnderWay
  <2>3. \A j \in tasks[t].good : j \in Nat
    BY <2>1 DEF TaskInv, Typed, TaskType
  <2> QED
    BY <2>2, <2>3 DEF Settled
<1> QED
  BY <1>1, ImportInductive, PTL

(* A restore that reports no failure leaves the routes and metrics of its   *)
(* file and nothing else, save what others touched.                         *)
THEOREM RestoredExactlyHolds == Spec => []RestoredExactly
<1>1. TInv /\ IInv => RestoredExactly
  <2> SUFFICES ASSUME TInv, IInv, NEW t \in Imports, tasks[t].mode = "restore",
                      tasks[t].pc = "done", ~tasks[t].failures, ~tasks[t].trouble,
                      NEW k \in Keys \ touched[t]
               PROVE  LET file == tasks[t].file IN
                      IF k \in KeysOf(file)
                      THEN \E i \in 1..Len(file) : file[i].key = k /\ sys[k] = Wanted(file[i])
                      ELSE sys[k] = Absent
    BY DEF RestoredExactly
  <2> DEFINE task == tasks[t]
             file == task.file
  <2>1. /\ t \in Tasks /\ TaskInv(task) /\ Counted(task) /\ Installed(task, sys, touched[t])
        /\ NothingElse(task, sys, touched[t])
    BY DEF Imports, IInv, ImportInv, TInv
  <2>2. task.at \in Nat /\ Len(file) \in Nat /\ task.good \subseteq 1..Len(file)
    BY <2>1 DEF TaskInv, Typed, TaskType
  <2>3. 1..Len(file) \subseteq task.good
    BY <2>1, <2>2 DEF Counted
  <2>4. CASE k \in KeysOf(file)
    <3>1. PICK i \in 1..Len(file) : file[i].key = k
      BY <2>4 DEF KeysOf
    <3>2. Settled(task, sys, touched[t], i)
      BY <2>1, <2>3 DEF Installed, UnderWay
    <3>3. PICK j \in task.good : file[j].key = k /\ sys[k] = Wanted(file[j])
      BY <3>1, <3>2 DEF Settled
    <3> QED
      BY <2>2, <2>4, <3>3
  <2>5. CASE k \notin KeysOf(file)
    <3>1. k \notin task.mine /\ task.todo = {}
      BY <2>1, <2>5 DEF Counted, TaskInv, Progress, ImportModes
    <3>2. sys[k] = Absent
      BY <2>1, <3>1 DEF NothingElse
    <3> QED
      BY <2>5, <3>2
  <2> QED
    BY <2>4, <2>5
<1> QED
  BY <1>1, ImportInductive, PTL

-----------------------------------------------------------------------------
(* Switching the default route.  While the cache is valid, it agrees with   *)
(* the system on every key of which no write is known to be missing, and    *)
(* so a switch that nobody overtook works from the system's table.          *)
CacheInv == valid => \A k \in Keys \ (unseen \cup foreign) : cached[k] = sys[k]

LEMMA CallOutcome ==
    ASSUME TInv, NEW who, NEW k \in Keys, NEW m, NEW form, NEW r \in Outcomes,
           \/ CreateRoute(who, k, form, r)
           \/ DeleteRoute(who, k, form, r)
           \/ SetMetric(who, k, m, form, r)
    PROVE  /\ r # "ok" => sys' = sys
           /\ \A j \in Keys : j # k => sys'[j] = sys[j]
<1>1. sys \in [Keys -> Absent..MetricMax]
  BY DEF TInv, TypeOK, Tables
<1>2. (r = "ok" /\ \E n : Changes(k, n, who)) \/ sys' = sys
  BY DEF CreateRoute, DeleteRoute, SetMetric, Calls
<1>3. ASSUME NEW n, Changes(k, n, who)
      PROVE  \A j \in Keys : j # k => sys'[j] = sys[j]
  BY <1>1, <1>3 DEF Changes
<1> QED
  BY <1>2, <1>3 DEF CreateRoute, DeleteRoute, SetMetric, Calls

LEMMA CacheKept ==
    ASSUME TInv, CacheInv
    PROVE  /\ Reads /\ sys' = sys => CacheInv'
           /\ NoRead /\ sys' = sys => CacheInv'
           /\ Invalidates => CacheInv'
           /\ \A k \in Keys, r \in Outcomes :
                 /\ r # "ok" => sys' = sys
                 /\ \A j \in Keys : j # k => sys'[j] = sys[j]
                 => /\ InvalidatesIfOk(r) => CacheInv'
                    /\ Leaves(k, r) => CacheInv'
<1>1. Reads /\ sys' = sys => CacheInv'
  BY DEF CacheInv, Reads, Read
<1>2. NoRead /\ sys' = sys => CacheInv'
  BY DEF CacheInv, NoRead, cacheVars
<1>3. Invalidates => CacheInv'
  BY DEF CacheInv, Invalidates
<1>4. ASSUME NEW k \in Keys, NEW r \in Outcomes, r # "ok" => sys' = sys,
             \A j \in Keys : j # k => sys'[j] = sys[j], Leaves(k, r)
      PROVE  CacheInv'
  BY <1>4 DEF CacheInv, Leaves, cacheVars
<1> QED
  BY <1>1, <1>2, <1>3, <1>4 DEF InvalidatesIfOk

LEMMA CacheStep == TInv /\ CacheInv /\ [Next]_vars => CacheInv'
<1> SUFFICES ASSUME TInv, CacheInv, [Next]_vars PROVE CacheInv'
  OBVIOUS
<1>1. ((Reads \/ NoRead) /\ sys' = sys) \/ Invalidates => CacheInv'
  BY CacheKept
<1>2. ASSUME NEW who, NEW k \in Keys, NEW m, NEW form, NEW r \in Outcomes,
             InvalidatesIfOk(r) \/ Leaves(k, r),
             \/ CreateRoute(who, k, form, r)
             \/ DeleteRoute(who, k, form, r)
             \/ SetMetric(who, k, m, form, r)
      PROVE  CacheInv'
  BY <1>2, CallOutcome, CacheKept
<1>3. AddReplaces \/ AddConfirmed \/ AddSetsMetric => gui.key \in Keys
  BY DEF TInv, GuiHasKey, AddReplaces, AddConfirmed, AddSetsMetric
<1>4. ASSUME NEW k \in Keys, NEW m \in {Absent, MetricLow}, Add(k, m) PROVE CacheInv'
  BY <1>1, <1>4 DEF Add
<1>5. CASE AddReplaces \/ AddConfirmed \/ AddSetsMetric
  BY <1>2, <1>3, <1>5 DEF AddReplaces, AddConfirmed, AddSetsMetric
<1>6. CASE GivesUp \/ ModifyValidates \/ DialogCloses \/ DialogDismissed
  BY <1>1, <1>6 DEF GivesUp, ModifyValidates, DialogCloses, DialogDismissed
<1>7. ASSUME NEW k \in Keys, NEW form \in {"mask", "digits"}, Delete(k, form)
      PROVE  CacheInv'
  BY <1>2, <1>7 DEF Delete
<1>8. ASSUME NEW old \in Keys, NEW k \in Keys, NEW m \in {Absent, MetricLow},
             Modify(old, k, m)
      PROVE  CacheInv'
  BY <1>1, <1>2, <1>8 DEF Modify, InvalidatesIfOk
<1>9. ASSUME NEW t \in Tasks, NEW new, Submits(t, new) PROVE CacheInv'
  BY <1>1, <1>9 DEF Submits
<1>10. ASSUME NEW t \in Tasks, TaskStep(t) PROVE CacheInv'
  <2>1. \A k \in tasks[t].todo : k \in Keys
    BY DEF TInv, TypeOK, TaskType
  <2>2. ASSUME DeletesEntry(t) \/ AddsEntry(t) \/ SetsEntryMetric(t)
        PROVE  Entry(t).key \in Keys
    BY <2>2, KeyIsKnown DEF TInv, TaskInv, Shape, DeletesEntry, AddsEntry,
       SetsEntryMetric, TaskGoesOn
  <2>3. CASE SwitchSets(t) \/ ClearsOne(t)
    BY <1>2, <2>1, <2>3 DEF SwitchSets, ClearsOne
  <2>4. CASE DeletesEntry(t) \/ AddsEntry(t) \/ SetsEntryMetric(t)
    BY <1>2, <2>2, <2>4 DEF DeletesEntry, AddsEntry, SetsEntryMetric
  <2>5. CASE ((Reads \/ NoRead) /\ sys' = sys) \/ Invalidates
    BY <1>1, <2>5
  <2> QED
    BY <1>10, <2>3, <2>4, <2>5 DEF TaskStep, SwitchReads, SwitchEnds, ImportBegins,
       Cleared, RejectsEntry, ChecksEntry, EntryRaises, LeavesEntryMetric, ImportEnds
<1>11. ASSUME NEW k \in Keys, NEW m \in Choices, OthersChange(k, m) PROVE CacheInv'
  <2>1. \A j \in Keys : j # k => sys'[j] = sys[j]
    BY <1>11 DEF OthersChange, Changes, TInv, TypeOK, Tables
  <2> QED
    BY <1>11, <2>1 DEF OthersChange, CacheInv, cacheVars
<1>12. CASE Expires \/ Refreshes
  BY <1>1, <1>12 DEF Expires, Refreshes
<1>13. CASE UNCHANGED vars
  BY <1>13 DEF vars, cacheVars, CacheInv
<1> QED
  BY <1>4, <1>5, <1>6, <1>7, <1>8, <1>9, <1>10, <1>11, <1>12, <1>13
  DEF Next, Switch, Import

(* A switch knows all default routes of the system, and those that it is    *)
(* through with have their metric, unless it has failures to report.        *)
Aim(task, k) == IF k.iface = task.iface THEN MetricLow ELSE MetricHigh

SwitchInv(task, table, seen) ==
    task.mode = "switch" =>
        /\ task.pc = "done" => ~task.failures /\ task.todo = {}
        /\ task.pc \in {"setting", "done"} /\ seen = {} =>
              /\ Defaults(table, AF_INET) = task.mine
              /\ \A k \in task.mine \ task.todo :
                    task.failures \/ table[k] = Aim(task, k)

SInv == \A t \in Tasks : SwitchInv(tasks[t], sys, touched[t])

LEMMA SameDefaults ==
    ASSUME NEW a, NEW b, \A k \in Keys : a[k] = Absent <=> b[k] = Absent
    PROVE  Defaults(a, AF_INET) = Defaults(b, AF_INET)
  BY DEF Defaults, Present

LEMMA SwitchTaskStep ==
    ASSUME TInv, CacheInv, SInv, NEW t \in Tasks, TaskStep(t)
    PROVE  SwitchInv(tasks'[t], sys', touched'[t])
<1> DEFINE task == tasks[t]
<1>1. /\ TaskInv(task) /\ SwitchInv(task, sys, touched[t]) /\ task \in TaskType
      /\ tasks \in [Tasks -> TaskType] /\ touched \in [Tasks -> SUBSET Keys]
  BY DEF TInv, SInv, TypeOK
<1>2. CASE SwitchReads(t)
  <2> DEFINE defaults == Defaults(Read, AF_INET)
  <2>1. /\ sys' = sys /\ touched'[t] = unseen \cup foreign
        /\ tasks'[t] = [task EXCEPT !.pc = IF defaults = {} THEN "failed" ELSE "setting",
                                    !.todo = defaults, !.mine = defaults]
    BY <1>1, <1>2 DEF SwitchReads
  <2>2. unseen \cup foreign = {} => defaults = Defaults(sys, AF_INET)
    <3>1. unseen \cup foreign = {} => \A k \in Keys : Read[k] = sys[k]
      BY DEF CacheInv, Read
    <3> QED
      BY <3>1, SameDefaults
  <2> HIDE DEF defaults
  <2>3. tasks'[t].pc # "done" /\ tasks'[t].mine = defaults /\ tasks'[t].todo = defaults
    BY <1>1, <2>1 DEF TaskType
  <2> QED
    BY <2>1, <2>2, <2>3 DEF SwitchInv
<1>3. CASE SwitchSets(t)
  <2>1. PICK k \in task.todo, r \in Outcomes :
           /\ SetMetric(t, k, Aim(task, k), "mask", r)
           /\ tasks' = [tasks EXCEPT ![t].todo = @ \ {k}, ![t].failures = @ \/ r # "ok"]
    BY <1>3 DEF SwitchSets, Aim
  <2> DEFINE failures == task.failures \/ r # "ok"
             new == [task EXCEPT !.todo = @ \ {k}, !.failures = failures]
  <2>2. tasks'[t] = new /\ task.pc = "setting" /\ k \in Keys
    <3>1. tasks'[t] = new
      BY <1>1, <2>1
    <3>2. task.pc = "setting" /\ k \in Keys
      BY <1>1, <1>3 DEF SwitchSets, TaskGoesOn, TaskType
    <3> QED
      BY <3>1, <3>2
  <2>3. /\ new.pc = "setting" /\ new.mine = task.mine /\ new.todo = task.todo \ {k}
        /\ new.iface = task.iface /\ new.mode = task.mode
    BY <1>1, <2>2 DEF TaskType
  <2>4. new.failures <=> failures
    BY <1>1 DEF TaskType
  <2>5. /\ touched'[t] = touched[t] /\ \A j \in Keys : j # k => sys'[j] = sys[j]
        /\ r = "ok" => sys'[k] = Aim(task, k) /\ sys[k] # Absent
        /\ r # "ok" => sys' = sys
    BY <2>1, <2>2, OwnMetric
  <2>6. Aim(task, k) # Absent
    BY DEF Aim, MetricLow, MetricHigh, Absent
  <2>7. Defaults(sys', AF_INET) = Defaults(sys, AF_INET)
    <3>1. \A j \in Keys : sys'[j] = Absent <=> sys[j] = Absent
      BY <2>5, <2>6
    <3> QED
      BY <3>1, SameDefaults
  <2> HIDE DEF new
  <2>8. ASSUME task.mode = "switch", touched[t] = {}, NEW j \in new.mine \ new.todo,
               ~new.failures
        PROVE  sys'[j] = Aim(new, j)
    <3>1. ~task.failures /\ r = "ok" /\ Aim(new, j) = Aim(task, j) /\ task.mine \in SUBSET Keys
      BY <1>1, <2>3, <2>4, <2>8 DEF Aim, TaskType
    <3>2. CASE j = k
      BY <2>5, <3>1, <3>2
    <3>3. CASE j # k
      BY <1>1, <2>2, <2>3, <2>5, <2>8, <3>1, <3>3 DEF SwitchInv
    <3> QED
      BY <3>2, <3>3
  <2> QED
    BY <1>1, <2>2, <2>3, <2>5, <2>7, <2>8 DEF SwitchInv
<1>4. CASE SwitchEnds(t)
  <2> DEFINE pc == IF task.failures THEN "failed" ELSE "done"
             new == [task EXCEPT !.pc = pc]
  <2>1. /\ tasks'[t] = new /\ sys' = sys /\ touched' = touched
        /\ task.pc = "setting" /\ task.todo = {}
    BY <1>1, <1>4 DEF SwitchEnds, TaskGoesOn
  <2>2. /\ new.mine = task.mine /\ new.todo = task.todo /\ new.iface = task.iface
        /\ new.mode = task.mode /\ new.pc = pc /\ new.failures = task.failures
    BY <1>1 DEF TaskType
  <2>3. \A k : Aim(new, k) = Aim(task, k)
    BY <2>2 DEF Aim
  <2> HIDE DEF new
  <2> QED
    BY <1>1, <2>1, <2>2, <2>3 DEF SwitchInv
<1>5. CASE ~SwitchReads(t) /\ ~SwitchSets(t) /\ ~SwitchEnds(t)
  <2>1. task.mode \in ImportModes
    BY <1>1, <1>5 DEF TaskStep, ImportBegins, ClearsOne, Cleared, RejectsEntry,
       ChecksEntry, DeletesEntry, AddsEntry, EntryRaises, SetsEntryMetric,
       LeavesEntryMetric, ImportEnds, TaskGoesOn, TaskInv, Shape
  <2>2. /\ NextEntry(task).mode = task.mode /\ EntryDone(task).mode = task.mode
        /\ EntryAdded(task).mode = task.mode
        /\ EntryFailed(task, FALSE).mode = task.mode
        /\ \A f : EntryFailed(task, f).mode = task.mode
        /\ \A f : [EntryDone(task) EXCEPT !.trouble = f].mode = task.mode
    BY <1>1 DEF NextEntry, EntryDone, EntryAdded, EntryFailed, TaskType
  <2>3. ImportBegins(t) => tasks'[t].mode = task.mode
    BY <1>1 DEF ImportBegins, TaskType
  <2>4. ClearsOne(t) => tasks'[t].mode = task.mode
    BY <1>1 DEF ClearsOne, TaskType
  <2>5. DeletesEntry(t) => tasks'[t].mode = task.mode
    BY <1>1 DEF DeletesEntry, TaskType
  <2>6. Cleared(t) \/ EntryRaises(t) \/ ImportEnds(t) => tasks'[t].mode = task.mode
    BY <1>1 DEF Cleared, EntryRaises, ImportEnds, TaskType
  <2>7. RejectsEntry(t) => tasks'[t].mode = task.mode
    BY <1>1, <2>2 DEF RejectsEntry
  <2>8. ChecksEntry(t) => tasks'[t].mode = task.mode
    BY <1>1, <2>2 DEF ChecksEntry, TaskType
  <2>9. AddsEntry(t) => tasks'[t].mode = task.mode
    BY <1>1, <2>2 DEF AddsEntry
  <2>10. /\ SetsEntryMetric(t) => tasks'[t].mode = task.mode
         /\ LeavesEntryMetric(t) => tasks'[t].mode = task.mode
    <3>1. ASSUME NEW f, tasks' = [tasks EXCEPT ![t] = [EntryDone(task) EXCEPT !.trouble = f]]
          PROVE  tasks'[t].mode = task.mode
      BY <1>1, <2>2, <3>1
    <3>2. SetsEntryMetric(t) =>
             \E f : tasks' = [tasks EXCEPT ![t] = [EntryDone(task) EXCEPT !.trouble = f]]
      BY DEF SetsEntryMetric
    <3>3. LeavesEntryMetric(t) => tasks'[t].mode = task.mode
      BY <1>1, <2>2 DEF LeavesEntryMetric
    <3> QED
      BY <3>1, <3>2, <3>3
  <2>11. tasks'[t].mode # "switch"
    BY <1>5, <2>1, <2>3, <2>4, <2>5, <2>6, <2>7, <2>8, <2>9, <2>10
    DEF TaskStep, ImportModes
  <2> QED
    BY <2>11 DEF SwitchInv
<1> QED
  BY <1>2, <1>3, <1>4, <1>5

LEMMA SwitchStep == TInv /\ CacheInv /\ SInv /\ [Next]_vars => SInv'
<1> SUFFICES ASSUME TInv, CacheInv, SInv, [Next]_vars, NEW t \in Tasks
             PROVE  SwitchInv(tasks'[t], sys', touched'[t])
  BY DEF SInv
<1>1. CASE TaskStep(t)
  BY <1>1, SwitchTaskStep
<1>2. CASE tasks'[t].pc \in {"unused", "begin"}
  BY <1>2 DEF SwitchInv
<1>3. CASE ~TaskStep(t) /\ tasks'[t].pc \notin {"unused", "begin"}
  <2>1. Watched(t) /\ tasks'[t] = tasks[t] /\ SwitchInv(tasks[t], sys, touched[t])
    BY <1>3, OtherStepWatched DEF SInv
  <2>2. ASSUME touched'[t] = {}
        PROVE  touched[t] = {} /\ \A k \in Keys : sys'[k] = sys[k]
    BY <1>3, <2>1, <2>2 DEF Watched
  <2>3. touched'[t] = {} => Defaults(sys', AF_INET) = Defaults(sys, AF_INET)
    BY <2>2, SameDefaults
  <2>4. tasks[t].mine \in SUBSET Keys
    BY DEF TInv, TypeOK, TaskType
  <2> QED
    BY <2>1, <2>2, <2>3, <2>4 DEF SwitchInv
<1> QED
  BY <1>1, <1>2, <1>3

(* A switch that reports success, worked from a table that nobody overtook, *)
(* and found the interface in it, leaves it an IPv4 default route of the    *)
(* low metric and all other default routes at the high one.                 *)
THEOREM SwitchedDefaultHolds == Spec => []SwitchedDefault
<1>1. Init => CacheInv /\ SInv
  BY DEF Init, CacheInv, SInv, SwitchInv, Unused
<1>2. TInv /\ SInv => SwitchedDefault
  <2> SUFFICES ASSUME TInv, SInv, NEW t \in Tasks, tasks[t].mode = "switch",
                      tasks[t].pc = "done", touched[t] = {},
                      \E k \in tasks[t].mine : k.iface = tasks[t].iface
               PROVE  /\ \E k \in Defaults(sys, AF_INET) : k.iface = tasks[t].iface
                      /\ \A k \in Defaults(sys, AF_INET) :
                            sys[k] = IF k.iface = tasks[t].iface THEN MetricLow
                                     ELSE MetricHigh
    BY DEF SwitchedDefault
  <2>1. SwitchInv(tasks[t], sys, touched[t])
    BY DEF SInv
  <2> QED
    BY <2>1 DEF SwitchInv, Aim
<1> QED
  BY <1>1, <1>2, InitTyped, StepTyped, CacheStep, SwitchStep, PTL DEF Spec
===============================================================================
