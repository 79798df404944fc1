------------------------------- MODULE RouteOps -------------------------------
(***************************************************************************)
(* Changing the system's routes: the buttons of RouteTableTab              *)
(* (ui/main_window.py), the tasks that import a file and switch the        *)
(* default route (network/networking.py), and the cached table they work   *)
(* from.                                                                   *)
(*                                                                         *)
(* The main thread runs one operation at a time, but lets go of the event  *)
(* loop in each dialog; a task runs on a thread of the pool, one WinAPI    *)
(* call per step; other programs change routes at any time.  A call that   *)
(* ought to succeed may fail.  A task of which the user dismissed the      *)
(* waiting dialog goes on beside what the user does next.                  *)
(*                                                                         *)
(* A read of the cache and its refill are one step, as is a write through  *)
(* networking and its invalidation: CacheManager has the steps of both.    *)
(***************************************************************************)
EXTENDS RouteTable, Sequences

CONSTANTS
    InitialTables,  \* tables the system may start with
    Tasks,          \* pool tasks, each used once
    Files,          \* lists of entries [key, metric, flaw] to import
    MaxOps,         \* operations of the user
    MaxMishaps      \* changes by other programs, and WinAPI calls that fail
                    \* without a reason of ours

Gui == "gui"           \* the main thread
Nobody == "nobody"     \* no task, and whoever is no part of the program

Entries == [key : Keys, metric : Nat, flaw : {"none", "fields", "iface"}]

ASSUME FilesAssumption == Files \subseteq Seq(Entries)
ASSUME TablesAssumption == InitialTables \subseteq Tables
ASSUME NamesAssumption == Gui \notin Tasks /\ Nobody \notin Tasks
ASSUME BoundsAssumption == {MaxOps, MaxMishaps} \subseteq Nat

VARIABLES
    sys,       \* the system's table
    cached,    \* CacheEntry("routes").value
    valid,     \* that entry is neither expired nor invalidated
    unseen,    \* history: own writes that the valid entry lacks
    foreign,   \* history: writes of others that it lacks
    gui,       \* the operation of the main thread
    tasks,     \* the operations of the pool
    touched,   \* history: writes of others since a task read its table
    down,      \* an exception in a slot has ended the program
    ops, mishaps

cacheVars == <<cached, valid>>
vars == <<sys, cacheVars, unseen, foreign, gui, tasks, touched, down, ops,
          mishaps>>

NoKey == [family |-> 0, dest |-> "none", len |-> 0, gateway |-> "none",
          iface |-> "none"]

Free == [pc |-> "free", op |-> "none", key |-> NoKey, metric |-> Absent,
         task |-> Nobody]

Unused == [pc |-> "unused", mode |-> "none", file |-> <<>>, at |-> 1,
           iface |-> "none", todo |-> {}, mine |-> {}, good |-> {},
           failures |-> FALSE, trouble |-> FALSE]

DefaultIfaces == {k.iface : k \in {d \in Keys : IsDefault(d)}}

ImportModes == {"skip", "overwrite", "restore"}

TaskSteps == {"unused", "begin", "setting", "clearing", "entry", "deleting",
              "adding", "metric", "done", "failed", "raised"}

TaskType ==
    [pc : TaskSteps, mode : ImportModes \cup {"switch", "none"},
     file : Seq(Entries), at : Nat, iface : DefaultIfaces \cup {"none"},
     todo : SUBSET Keys, mine : SUBSET Keys, good : SUBSET Nat, failures : BOOLEAN, trouble : BOOLEAN]

GuiType ==
    [pc : {"free", "question", "validate", "confirm", "metric", "refused", "loading"},
     op : {"none", "add", "modify", "task"}, key : Keys \cup {NoKey},
     metric : Absent..MetricMax, task : Tasks \cup {Nobody}]

TypeOK ==
    /\ sys \in Tables /\ cached \in Tables
    /\ valid \in BOOLEAN
    /\ unseen \in SUBSET Keys /\ foreign \in SUBSET Keys
    /\ gui \in GuiType
    /\ gui.pc = "loading" => gui.task \in Tasks
    /\ gui.pc = "metric" => gui.key \in Keys /\ gui.metric # Absent
    /\ tasks \in [Tasks -> TaskType]
    /\ \A t \in Tasks : /\ tasks[t].good \subseteq 1..Len(tasks[t].file)
                        /\ tasks[t].at \in 1..(Len(tasks[t].file) + 1)
    /\ touched \in [Tasks -> SUBSET Keys]
    /\ down \in BOOLEAN
    /\ ops \in 0..MaxOps /\ mishaps \in 0..MaxMishaps

Init ==
    /\ sys \in InitialTables
    /\ cached = sys
    /\ valid = TRUE
    /\ unseen = {} /\ foreign = {}
    /\ gui = Free
    /\ tasks = [t \in Tasks |-> Unused]
    /\ touched = [t \in Tasks |-> {}]
    /\ down = FALSE
    /\ ops = 0 /\ mishaps = 0

-----------------------------------------------------------------------------
(* Reads go through the cache, which fetches when its entry is not valid.   *)
Read == IF valid THEN cached ELSE sys

Reads ==
    /\ cached' = Read
    /\ valid' = TRUE
    /\ UNCHANGED <<unseen, foreign>>

NoRead == UNCHANGED <<cacheVars, unseen, foreign>>

(* What an invalid entry keeps serves only a fetch that fails, which is     *)
(* CacheManager's concern: it is forgotten here.                            *)
Invalidates ==
    /\ valid' = FALSE
    /\ cached' = [k \in Keys |-> Absent]
    /\ unseen' = {} /\ foreign' = {}

(* The metric of k becomes m, by a task, by the main thread or by others.   *)
Changes(k, m, who) ==
    /\ sys' = [sys EXCEPT ![k] = m]
    /\ touched' = [t \in Tasks |->
          IF t = who \/ tasks[t].pc \in {"unused", "begin"} THEN touched[t]
          ELSE touched[t] \cup {k}]

(* One call of IP Helper, which sets the metric of k to m if the system     *)
(* accepts it.  Its outcome is "ok", "refused" or, of a call that ought to  *)
(* succeed, "fault".                                                        *)
Calls(who, k, m, accepted, outcome) ==
    \/ outcome = "ok" /\ accepted /\ Changes(k, m, who) /\ UNCHANGED mishaps
    \/ outcome = "refused" /\ ~accepted /\ UNCHANGED <<sys, touched, mishaps>>
    \/ /\ outcome = "fault" /\ accepted
       /\ mishaps < MaxMishaps
       /\ mishaps' = mishaps + 1
       /\ UNCHANGED <<sys, touched>>

Outcomes == {"ok", "refused", "fault"}

CreateRoute(who, k, form, outcome) ==
    Calls(who, k, MetricCreated, PrefixIsValid(k, form) /\ sys[k] = Absent, outcome)

DeleteRoute(who, k, form, outcome) ==
    Calls(who, k, Absent, PrefixIsValid(k, form) /\ sys[k] # Absent, outcome)

SetMetric(who, k, m, form, outcome) ==
    Calls(who, k, m, PrefixIsValid(k, form) /\ sys[k] # Absent, outcome)

(* The functions of networking invalidate the cache after a success; those  *)
(* that work on many routes do so at their end, if they get there.          *)
InvalidatesIfOk(outcome) == IF outcome = "ok" THEN Invalidates ELSE NoRead

Leaves(k, outcome) ==
    /\ unseen' = IF outcome = "ok" /\ valid THEN unseen \cup {k} ELSE unseen
    /\ UNCHANGED <<cacheVars, foreign>>

-----------------------------------------------------------------------------
(* The buttons.  The form's contents cannot change in a modal dialog.       *)
UserActs ==
    /\ ~down
    /\ gui.pc = "free"
    /\ ops < MaxOps
    /\ ops' = ops + 1
    /\ UNCHANGED down

GuiGoesOn == ~down /\ UNCHANGED <<down, ops, tasks>>

(* RouteTableTab.add(): the prefix was accepted, and has become a number.   *)
Add(k, m) ==
    /\ UserActs
    /\ gui' = [Free EXCEPT !.op = "add", !.key = k, !.metric = m,
                           !.pc = IF RouteExists(Read, k, "number")
                                  THEN "question" ELSE "confirm"]
    /\ Reads
    /\ UNCHANGED <<sys, tasks, touched, mishaps>>

(* "A route like this exists.  Replace it?"  The result is not looked at.   *)
AddReplaces ==
    /\ GuiGoesOn
    /\ gui.pc = "question"
    /\ \E r \in Outcomes : /\ DeleteRoute(Gui, gui.key, "number", r)
                           /\ InvalidatesIfOk(r)
    /\ gui' = [gui EXCEPT !.pc = "confirm"]

(* "No", a prefix or gateway that is invalid after all, "Cancel", or "OK".  *)
GivesUp ==
    /\ GuiGoesOn
    /\ gui.pc \in {"question", "validate", "confirm", "refused"}
    /\ gui' = Free
    /\ NoRead
    /\ UNCHANGED <<sys, touched, mishaps>>

AddConfirmed ==
    /\ GuiGoesOn
    /\ gui.pc = "confirm"
    /\ \E r \in Outcomes :
          /\ CreateRoute(Gui, gui.key, "number", r)
          /\ InvalidatesIfOk(r)
          /\ gui' = IF r = "ok" /\ gui.metric = Absent THEN Free
                    ELSE [gui EXCEPT !.pc = IF r = "ok" THEN "metric" ELSE "refused"]

AddSetsMetric ==
    /\ GuiGoesOn
    /\ gui.pc = "metric"
    /\ \E r \in Outcomes : /\ SetMetric(Gui, gui.key, gui.metric, "number", r)
                           /\ InvalidatesIfOk(r)
    /\ gui' = Free

(* RouteTableTab.delete() passes the text of the field: the mask of the     *)
(* selected row, or its length once the field was validated.                *)
Delete(k, form) ==
    /\ UserActs
    /\ \E r \in Outcomes : DeleteRoute(Gui, k, form, r) /\ InvalidatesIfOk(r)
    /\ UNCHANGED <<gui, tasks>>

(* RouteTableTab.modify(): the old route goes first.  Of an IPv6 route the  *)
(* flag is_ipv6 is passed as the prefix, and int(True) = 1.                 *)
DeletedByModify(old) ==
    IF old.family = AF_INET6 THEN [old EXCEPT !.len = 1] ELSE old

Modify(old, k, m) ==
    /\ UserActs
    /\ \E r \in Outcomes :
          /\ IF DeletedByModify(old) \in Keys
             THEN DeleteRoute(Gui, DeletedByModify(old), "mask", r)
             ELSE r = "refused" /\ UNCHANGED <<sys, touched, mishaps>>
          /\ InvalidatesIfOk(r)
          /\ gui' = IF r = "ok"
                    THEN [Free EXCEPT !.pc = "validate", !.op = "modify",
                                      !.key = k, !.metric = m]
                    ELSE Free
    /\ UNCHANGED tasks

ModifyValidates ==
    /\ GuiGoesOn
    /\ gui.pc = "validate"
    /\ gui' = [gui EXCEPT !.pc = "confirm"]
    /\ NoRead
    /\ UNCHANGED <<sys, touched, mishaps>>

(* A task is submitted, and its waiting dialog opened.                      *)
Submits(t, task) ==
    /\ UserActs
    /\ tasks[t].pc = "unused"
    /\ tasks' = [tasks EXCEPT ![t] = task]
    /\ gui' = [Free EXCEPT !.pc = "loading", !.op = "task", !.task = t]
    /\ NoRead
    /\ UNCHANGED <<sys, touched, mishaps>>

Switch(t, iface) ==
    Submits(t, [Unused EXCEPT !.pc = "begin", !.mode = "switch", !.iface = iface])

Import(t, mode, file) ==
    Submits(t, [Unused EXCEPT !.pc = "begin", !.mode = mode, !.file = file])

Ended(t) == tasks[t].pc \in {"unused", "done", "failed", "raised"}

(* The dialog closes with the task's signal.  The user may dismiss it, too: *)
(* a switch is then left to itself, and import_snapshot() subscripts a      *)
(* result that is None, which ends the program.                             *)
DialogCloses ==
    /\ GuiGoesOn
    /\ gui.pc = "loading" /\ Ended(gui.task)
    /\ gui' = Free
    /\ NoRead
    /\ UNCHANGED <<sys, touched, mishaps>>

DialogDismissed ==
    /\ ~down
    /\ gui.pc = "loading"
    /\ gui' = Free
    /\ down' = (tasks[gui.task].mode \in ImportModes)
    /\ NoRead
    /\ UNCHANGED <<sys, touched, tasks, ops, mishaps>>

-----------------------------------------------------------------------------
(* The pool: do_set_default_route().                                        *)
TaskGoesOn(t, pc) ==
    ~down /\ tasks[t].pc = pc /\ UNCHANGED <<gui, down, ops>>

SwitchReads(t) ==
    LET defaults == Defaults(Read, AF_INET) IN
    /\ TaskGoesOn(t, "begin")
    /\ tasks[t].mode = "switch"
    /\ Reads
    /\ touched' = [touched EXCEPT ![t] = unseen \cup foreign]
    /\ tasks' = [tasks EXCEPT ![t].pc = IF defaults = {} THEN "failed" ELSE "setting",
                              ![t].todo = defaults, ![t].mine = defaults]
    /\ UNCHANGED <<sys, mishaps>>

(* mutant: a metric that could not be set does not count                    *)
SwitchSetsUnchecked(t) ==
    /\ TaskGoesOn(t, "setting")
    /\ \E k \in tasks[t].todo, r \in Outcomes :
          /\ SetMetric(t, k, IF k.iface = tasks[t].iface THEN MetricLow ELSE MetricHigh,
                       "mask", r)
          /\ Leaves(k, r)
          /\ tasks' = [tasks EXCEPT ![t].todo = @ \ {k}]

SwitchSets(t) ==
    /\ TaskGoesOn(t, "setting")
    /\ \E k \in tasks[t].todo, r \in Outcomes :
          /\ SetMetric(t, k, IF k.iface = tasks[t].iface THEN MetricLow ELSE MetricHigh,
                       "mask", r)
          /\ Leaves(k, r)
          /\ tasks' = [tasks EXCEPT ![t].todo = @ \ {k},
                                    ![t].failures = @ \/ r # "ok"]

(* mutant: the exception comes before the invalidation                      *)
SwitchRaisesFirst(t) ==
    /\ TaskGoesOn(t, "setting")
    /\ tasks[t].todo = {}
    /\ IF tasks[t].failures THEN NoRead ELSE Invalidates
    /\ tasks' = [tasks EXCEPT ![t].pc = IF tasks[t].failures THEN "failed" ELSE "done"]
    /\ UNCHANGED <<sys, touched, mishaps>>

SwitchEnds(t) ==
    /\ TaskGoesOn(t, "setting")
    /\ tasks[t].todo = {}
    /\ Invalidates
    /\ tasks' = [tasks EXCEPT ![t].pc = IF tasks[t].failures THEN "failed" ELSE "done"]
    /\ UNCHANGED <<sys, touched, mishaps>>

-----------------------------------------------------------------------------
(* The pool: import_routes_from_dict().  A restore reads the system itself. *)
(* mutant: a restore deletes the routes of the cached table                 *)
ImportBeginsCached(t) ==
    /\ TaskGoesOn(t, "begin")
    /\ tasks[t].mode \in ImportModes
    /\ tasks' = [tasks EXCEPT
          ![t].todo = IF tasks[t].mode = "restore" THEN Present(Read) ELSE {},
          ![t].pc = "clearing"]
    /\ touched' = [touched EXCEPT ![t] = {}]
    /\ Reads
    /\ UNCHANGED <<sys, mishaps>>

(* Its read may fail for one family or both, which yields a shorter list    *)
(* and no error.                                                            *)
Listed(families) == {k \in Present(sys) : k.family \in families}

ImportBegins(t) ==
    /\ TaskGoesOn(t, "begin")
    /\ tasks[t].mode \in ImportModes
    /\ \E families \in SUBSET {AF_INET, AF_INET6} :
          tasks' = [tasks EXCEPT
             ![t].todo = IF tasks[t].mode = "restore" THEN Listed(families) ELSE {},
             ![t].trouble = /\ tasks[t].mode = "restore"
                            /\ Listed(families) # Present(sys),
             ![t].pc = "clearing"]
    /\ touched' = [touched EXCEPT ![t] = {}]
    /\ NoRead
    /\ UNCHANGED <<sys, mishaps>>

ClearsOne(t) ==
    /\ TaskGoesOn(t, "clearing")
    /\ \E k \in tasks[t].todo, r \in Outcomes :
          /\ DeleteRoute(t, k, "mask", r)
          /\ Leaves(k, r)
          /\ tasks' = [tasks EXCEPT ![t].todo = @ \ {k},
                                    ![t].trouble = @ \/ r = "fault"]

Cleared(t) ==
    /\ TaskGoesOn(t, "clearing")
    /\ tasks[t].todo = {}
    /\ tasks' = [tasks EXCEPT ![t].pc = "entry"]
    /\ NoRead
    /\ UNCHANGED <<sys, touched, mishaps>>

Entry(t) == tasks[t].file[tasks[t].at]
NextEntry(task) == [task EXCEPT !.pc = "entry", !.at = @ + 1]

EntryFailed(task, fault) ==
    [NextEntry(task) EXCEPT !.failures = TRUE, !.trouble = task.trouble \/ fault]

EntryAdded(task) ==
    [task EXCEPT !.pc = "metric", !.mine = @ \cup {task.file[task.at].key}]

(* An entry without a destination, an interface or a mask that mask_to_cidr *)
(* knows is counted as failed.                                              *)
RejectsEntry(t) ==
    /\ TaskGoesOn(t, "entry")
    /\ tasks[t].at <= Len(tasks[t].file)
    /\ Entry(t).flaw = "fields"
    /\ tasks' = [tasks EXCEPT ![t] = EntryFailed(@, FALSE)]
    /\ NoRead
    /\ UNCHANGED <<sys, touched, mishaps>>

(* An interface that is no number matches no route of the table.            *)
EntryExists(t) ==
    Entry(t).flaw = "none" /\ RouteExists(Read, Entry(t).key, "mask")

ChecksEntry(t) ==
    /\ TaskGoesOn(t, "entry")
    /\ tasks[t].at <= Len(tasks[t].file)
    /\ Entry(t).flaw # "fields"
    /\ tasks' = [tasks EXCEPT ![t] =
          IF tasks[t].mode = "skip" /\ EntryExists(t) THEN NextEntry(@)
          ELSE [@ EXCEPT !.pc = IF tasks[t].mode = "overwrite" /\ EntryExists(t)
                                THEN "deleting" ELSE "adding"]]
    /\ IF tasks[t].mode = "restore" THEN NoRead ELSE Reads
    /\ UNCHANGED <<sys, touched, mishaps>>

(* The gateway is the file's, which need not be that of the route found.    *)
DeletesEntry(t) ==
    /\ TaskGoesOn(t, "deleting")
    /\ \E r \in Outcomes :
          /\ DeleteRoute(t, Entry(t).key, "mask", r)
          /\ Leaves(Entry(t).key, r)
          /\ tasks' = [tasks EXCEPT ![t].pc = "adding",
                                    ![t].trouble = @ \/ r = "fault"]

(* mutant: a failed add does not end the entry                              *)
AddsEntryAnyway(t) ==
    /\ TaskGoesOn(t, "adding")
    /\ Entry(t).flaw = "none"
    /\ \E r \in Outcomes :
          /\ CreateRoute(t, Entry(t).key, "mask", r)
          /\ Leaves(Entry(t).key, r)
          /\ tasks' = [tasks EXCEPT ![t] =
                [EntryAdded(@) EXCEPT !.trouble = tasks[t].trouble \/ r = "fault",
                                      !.mine = IF r = "ok" THEN @ ELSE tasks[t].mine]]

(* mutant: a route that was there already counts as added                   *)
AddsEntryOrHasIt(t) ==
    /\ TaskGoesOn(t, "adding")
    /\ Entry(t).flaw = "none"
    /\ \E r \in Outcomes :
          /\ CreateRoute(t, Entry(t).key, "mask", r)
          /\ Leaves(Entry(t).key, r)
          /\ tasks' = [tasks EXCEPT ![t] =
                CASE r = "ok" -> EntryAdded(@)
                  [] r = "refused" -> [NextEntry(@) EXCEPT !.good = @ \cup {tasks[t].at}]
                  [] r = "fault" -> EntryFailed(@, TRUE)]

AddsEntry(t) ==
    /\ TaskGoesOn(t, "adding")
    /\ Entry(t).flaw = "none"
    /\ \E r \in Outcomes :
          /\ CreateRoute(t, Entry(t).key, "mask", r)
          /\ Leaves(Entry(t).key, r)
          /\ tasks' = [tasks EXCEPT ![t] =
                IF r = "ok" THEN EntryAdded(@) ELSE EntryFailed(@, r = "fault")]

(* int() of such an interface raises, and nothing catches it here: the rest *)
(* of the file and the invalidation at the end are left out.                *)
EntryRaises(t) ==
    /\ TaskGoesOn(t, "adding")
    /\ Entry(t).flaw = "iface"
    /\ tasks' = [tasks EXCEPT ![t].pc = "raised"]
    /\ NoRead
    /\ UNCHANGED <<sys, touched, mishaps>>

HasMetric(e) == e.metric \in MetricMin..MetricMax

EntryDone(task) == [NextEntry(task) EXCEPT !.good = @ \cup {task.at}]

SetsEntryMetric(t) ==
    /\ TaskGoesOn(t, "metric")
    /\ HasMetric(Entry(t))
    /\ \E r \in Outcomes :
          /\ SetMetric(t, Entry(t).key, Entry(t).metric, "mask", r)
          /\ Leaves(Entry(t).key, r)
          /\ tasks' = [tasks EXCEPT ![t] =
                [EntryDone(@) EXCEPT !.trouble = tasks[t].trouble \/ r = "fault"]]

LeavesEntryMetric(t) ==
    /\ TaskGoesOn(t, "metric")
    /\ ~HasMetric(Entry(t))
    /\ tasks' = [tasks EXCEPT ![t] = EntryDone(@)]
    /\ NoRead
    /\ UNCHANGED <<sys, touched, mishaps>>

ImportEnds(t) ==
    /\ TaskGoesOn(t, "entry")
    /\ tasks[t].at > Len(tasks[t].file)
    /\ Invalidates
    /\ tasks' = [tasks EXCEPT ![t].pc = "done"]
    /\ UNCHANGED <<sys, touched, mishaps>>

TaskStep(t) ==
    \/ SwitchReads(t) \/ SwitchSets(t) \/ SwitchEnds(t)
    \/ ImportBegins(t) \/ ClearsOne(t) \/ Cleared(t)
    \/ RejectsEntry(t) \/ ChecksEntry(t) \/ DeletesEntry(t) \/ AddsEntry(t)
    \/ EntryRaises(t) \/ SetsEntryMetric(t) \/ LeavesEntryMetric(t)
    \/ ImportEnds(t)

-----------------------------------------------------------------------------
(* Others: a program that changes a route, a ttl or the listener that makes *)
(* the entry invalid, a refresh that reads it.                              *)
OthersChange(k, m) ==
    /\ ~down
    /\ mishaps < MaxMishaps
    /\ mishaps' = mishaps + 1
    /\ sys[k] # m
    /\ Changes(k, m, Nobody)
    /\ foreign' = IF valid THEN foreign \cup {k} ELSE foreign
    /\ UNCHANGED <<cacheVars, unseen, gui, tasks, down, ops>>

Expires ==
    /\ ~down
    /\ valid
    /\ Invalidates
    /\ UNCHANGED <<sys, gui, tasks, touched, down, ops, mishaps>>

Refreshes ==
    /\ ~down
    /\ ~valid
    /\ Reads
    /\ UNCHANGED <<sys, gui, tasks, touched, down, ops, mishaps>>

Choices == {Absent, MetricCreated}

Next ==
    \/ \E k \in Keys, m \in {Absent, MetricLow} : Add(k, m)
    \/ AddReplaces \/ GivesUp \/ AddConfirmed \/ AddSetsMetric
    \/ \E k \in Keys, form \in {"mask", "digits"} : Delete(k, form)
    \/ \E old, k \in Keys, m \in {Absent, MetricLow} : Modify(old, k, m)
    \/ ModifyValidates
    \/ \E t \in Tasks, iface \in DefaultIfaces : Switch(t, iface)
    \/ \E t \in Tasks, mode \in ImportModes, file \in Files : Import(t, mode, file)
    \/ DialogCloses \/ DialogDismissed
    \/ \E t \in Tasks : TaskStep(t)
    \/ \E k \in Keys, m \in Choices : OthersChange(k, m)
    \/ Expires \/ Refreshes

Spec == Init /\ [][Next]_vars

-----------------------------------------------------------------------------
KeysOf(file) == {e.key : e \in {file[i] : i \in 1..Len(file)}}

Wanted(e) == IF HasMetric(e) THEN e.metric ELSE MetricCreated

Imports == {t \in Tasks : tasks[t].mode \in ImportModes}

(* Import, "skip" (ui_components.py:27): whatever the cached table says and *)
(* whoever interferes, it removes no route and changes the metric of none   *)
(* but those that it has created itself.                                    *)
SkipKeepsRoutes ==
    [][\A t \in Tasks : tasks[t].mode = "skip" /\ tasks'[t] # tasks[t] =>
          \A k \in Keys : sys'[k] # sys[k] => sys[k] = Absent \/ k \in tasks[t].mine]_vars

(* Import, "restore": if it reports no failed entry, and no call failed     *)
(* that it does not report, the system has the routes and the metrics of    *)
(* the file and nothing else, save what others changed meanwhile.           *)
RestoredExactly ==
    \A t \in Imports :
        LET file == tasks[t].file IN
        tasks[t].mode = "restore" /\ tasks[t].pc = "done"
            /\ ~tasks[t].failures /\ ~tasks[t].trouble
        => \A k \in Keys \ touched[t] :
              IF k \in KeysOf(file)
              THEN \E i \in 1..Len(file) : file[i].key = k /\ sys[k] = Wanted(file[i])
              ELSE sys[k] = Absent

(* Import, any mode, also one cut short by an exception: a route counted as *)
(* a success is in the system, with the metric of the last such entry.      *)
SuccessIsInstalled ==
    \A t \in Imports :
        LET file == tasks[t].file
            good == tasks[t].good
        IN  tasks[t].pc \in {"done", "raised"} /\ ~tasks[t].trouble
            => \A i \in good :
                  \/ file[i].key \in touched[t]
                  \/ \E j \in good : j > i /\ file[j].key = file[i].key
                  \/ sys[file[i].key] = Wanted(file[i])

(* Switching the default route: when it is reported as done, the interface  *)
(* has an IPv4 default route of the low metric and all other interfaces'    *)
(* are at the high one, as the message says (ui_components.py:185), unless  *)
(* others overtook the table that it worked from, a second switch among     *)
(* them.  That the interface was in that table with an IPv4 default route   *)
(* is a premise: the code does not ask for it (networking.py:221).          *)
SwitchedDefault ==
    \A t \in Tasks :
        /\ tasks[t].mode = "switch" /\ tasks[t].pc = "done"
        /\ touched[t] = {}
        /\ \E k \in tasks[t].mine : k.iface = tasks[t].iface
        => /\ \E k \in Defaults(sys, AF_INET) : k.iface = tasks[t].iface
           /\ \A k \in Defaults(sys, AF_INET) :
                 sys[k] = IF k.iface = tasks[t].iface THEN MetricLow ELSE MetricHigh

(* No operation leaves the program with a cached table that it takes for    *)
(* valid and that lacks one of its own writes, except an import that was    *)
(* cut short by an exception (networking.py:199 is skipped then).           *)
OwnWritesSeen ==
    valid /\ (\A t \in Tasks : Ended(t) /\ tasks[t].pc # "raised") => unseen = {}

(* "Modifying deletes the old entry first and then adds the new one"        *)
(* (main_window.py:559): with nobody interfering and every call that ought  *)
(* to succeed succeeding, a modification is not refused in its second half. *)
ModifyAddsNew ==
    gui.op = "modify" /\ gui.pc = "refused" => sys[gui.key] # Absent

===============================================================================
