------------------------------ MODULE WfpManager ------------------------------
(***************************************************************************)
(* The firewall tab and its manager.  The rules are kept twice: in the     *)
(* dictionary of the process, and in the Windows firewall, which outlives  *)
(* it and which other programs change as well.  Every change is a netsh    *)
(* command that may fail; a removal that fails by the rule's own name is   *)
(* tried once more by its display name, which other rules may have too.    *)
(*                                                                         *)
(* The main thread holds the lock through all netsh calls of a removal, so *)
(* that nothing of the tab runs in between; the rest of the world does.    *)
(***************************************************************************)
EXTENDS Naturals, FiniteSets

CONSTANTS Rules,        \* the keys (uuid4) of the rules that are ever added
          Foreign,      \* firewall rules of other programs
          Names,        \* display names
          RuleName,     \* the name of each foreign rule
          EveryName,    \* the display name by which netsh means all rules: "all"
          MaxProcesses  \* bound on the runs of the program

NoRule == "none"

ASSUME WfpAssumption ==
    /\ RuleName \in [Foreign -> Names] /\ EveryName \in Names
    /\ Rules \cap Foreign = {}
    /\ NoRule \notin Rules \cup Names
    /\ MaxProcesses \in Nat

VARIABLES firewall,   \* the rules netsh knows
          open,       \* _running
          hitTimer,   \* the periodic task of subscribe_net_events()
          kept,       \* _rules
          display,    \* rule.name
          listRows,   \* the widget's _rules, its rows
          job,        \* the removals under way: keys to do, the netsh call, what follows
          processes,
          \* History.
          failed,     \* a netsh delete failed though there was a rule to delete
          meddled,    \* another program removed a rule of this one
          taken,      \* foreign rules this program removed
          orphans     \* rules that were installed when their process ended

wfpVars == <<firewall, open, hitTimer, kept, display, listRows, job, processes,
             failed, meddled, taken, orphans>>

NoJob == [todo |-> {}, retried |-> NoRule, then |-> "idle"]

WfpInit ==
    /\ firewall = Foreign
    /\ open = FALSE /\ hitTimer = FALSE
    /\ kept = {} /\ listRows = {}
    /\ display = [r \in Rules |-> NoRule]
    /\ job = NoJob
    /\ processes = 1
    /\ failed = FALSE /\ meddled = FALSE
    /\ taken = {} /\ orphans = {}

Free == job = NoJob
wfpHistory == <<failed, meddled, taken, orphans>>

\* WfpWidget.start() and the engine button when the engine is closed.
OpenEngine ==
    /\ Free /\ ~open
    /\ open' = TRUE
    /\ hitTimer' = TRUE
    /\ UNCHANGED <<firewall, kept, display, listRows, job, processes, wfpHistory>>

\* The engine button when it is open: close() leaves rules and timer as they are.
CloseEngine ==
    /\ Free /\ open
    /\ open' = FALSE
    /\ UNCHANGED <<firewall, hitTimer, kept, display, listRows, job, processes, wfpHistory>>

\* mistake: a failed netsh call is recorded all the same.
AddRuleUnchecked(r, n) ==
    /\ Free /\ open
    /\ display[r] = NoRule
    /\ \E ok \in BOOLEAN : firewall' = IF ok THEN firewall \cup {r} ELSE firewall
    /\ kept' = kept \cup {r}
    /\ display' = [display EXCEPT ![r] = n]
    /\ listRows' = kept'
    /\ UNCHANGED <<open, hitTimer, job, processes, wfpHistory>>

\* add_rule() of the form or of a quick button, then _refresh_table().
AddRule(r, n) ==
    /\ Free /\ open
    /\ display[r] = NoRule
    /\ firewall' = firewall \cup {r}
    /\ kept' = kept \cup {r}
    /\ display' = [display EXCEPT ![r] = n]
    /\ listRows' = kept'
    /\ UNCHANGED <<open, hitTimer, job, processes, wfpHistory>>

\* netsh refuses: nothing is kept, the key is never used again.
AddFails(r, n) ==
    /\ Free /\ open
    /\ display[r] = NoRule
    /\ display' = [display EXCEPT ![r] = n]
    /\ UNCHANGED <<firewall, open, hitTimer, kept, listRows, job, processes, wfpHistory>>

\* The removals of a set of keys; those that are not in _rules are skipped.
Removing(keys, then) == [todo |-> keys \cap kept, retried |-> NoRule, then |-> then]

Removes(keys, then) ==
    /\ Free
    /\ job' = Removing(keys, then)
    /\ UNCHANGED <<firewall, open, hitTimer, kept, display, listRows, processes, wfpHistory>>

RemoveSelected(rows) == rows # {} /\ Removes(rows, "refresh")
ClearAll == kept # {} /\ Removes(kept, "refresh")
RemoveByName(n) == Removes({r \in kept : display[r] = n}, "none")

\* The refresh timer of the tab.
RefreshTable ==
    /\ Free /\ listRows # kept
    /\ listRows' = kept
    /\ UNCHANGED <<firewall, open, hitTimer, kept, display, job, processes, wfpHistory>>

\* cleanup() of the widget, from closeEvent(): shutdown() stops the timer, clears
\* the rules, and closes whatever came of it.
CleanUp ==
    /\ Free
    /\ hitTimer' = FALSE
    /\ job' = Removing(kept, "close")
    /\ UNCHANGED <<firewall, open, kept, display, listRows, processes, wfpHistory>>

Proceed(r) == job' = [job EXCEPT !.todo = @ \ {r}, !.retried = NoRule]

\* _cleanup_rule(), and on to the next key.
Forget(r) == kept' = kept \ {r} /\ Proceed(r)

\* netsh delete rule name=WfpMgr_<key>
DeleteByOwnName(r) ==
    /\ job.retried = NoRule /\ r \in job.todo
    /\ r \in firewall
    /\ firewall' = firewall \ {r}
    /\ Forget(r)
    /\ UNCHANGED <<open, hitTimer, display, listRows, processes, wfpHistory>>

\* ... fails: there is no such rule any more, or for no reason.
DeleteByOwnNameFails(r) ==
    /\ job.retried = NoRule /\ r \in job.todo
    /\ failed' = (failed \/ r \in firewall)
    /\ job' = [job EXCEPT !.retried = r]
    /\ UNCHANGED <<firewall, open, hitTimer, kept, display, listRows, processes,
                   meddled, taken, orphans>>

\* netsh delete rule name=<display name>: all rules of that name.  The rules of
\* this program have other names, but all are meant if the user chose "all".
Named(r) ==
    {f \in firewall : \/ f \in Foreign /\ RuleName[f] = display[r]
                      \/ display[r] = EveryName}

DeleteByDisplayName(r) ==
    /\ r = job.retried
    /\ Named(r) # {}
    /\ firewall' = firewall \ Named(r)
    /\ taken' = taken \cup (Foreign \cap Named(r))
    /\ Forget(r)
    /\ UNCHANGED <<open, hitTimer, display, listRows, processes, failed, meddled, orphans>>

\* mistake: the rule is dropped from the list though both commands failed.
DeleteByDisplayNameFailsForgets(r) ==
    /\ r = job.retried
    /\ Forget(r)
    /\ failed' = (failed \/ Named(r) # {})
    /\ UNCHANGED <<firewall, open, hitTimer, display, listRows, processes,
                   meddled, taken, orphans>>

DeleteByDisplayNameFails(r) ==
    /\ r = job.retried
    /\ Proceed(r)
    /\ failed' = (failed \/ Named(r) # {})
    /\ UNCHANGED <<firewall, open, hitTimer, kept, display, listRows, processes,
                   meddled, taken, orphans>>

RemovalEnds ==
    /\ ~Free /\ job.todo = {}
    /\ job' = NoJob
    /\ open' = (open /\ job.then # "close")
    /\ listRows' = IF job.then = "refresh" THEN kept ELSE listRows
    /\ UNCHANGED <<firewall, hitTimer, kept, display, processes, wfpHistory>>

\* Somebody else removes a rule, or adds one of a name of theirs again.
OthersRemove(f) ==
    /\ f \in firewall
    /\ firewall' = firewall \ {f}
    /\ meddled' = (meddled \/ f \in Rules)
    /\ UNCHANGED <<open, hitTimer, kept, display, listRows, job, processes,
                   failed, taken, orphans>>

OthersAdd(f) ==
    /\ f \in Foreign \ firewall
    /\ firewall' = firewall \cup {f}
    /\ UNCHANGED <<open, hitTimer, kept, display, listRows, job, processes, wfpHistory>>

\* The process ends, in good order or not, and another one starts: nothing reads
\* the rules back from the firewall.
ProcessEnds ==
    /\ processes < MaxProcesses
    /\ processes' = processes + 1
    /\ orphans' = orphans \cup (Rules \cap firewall)
    /\ open' = FALSE /\ hitTimer' = FALSE
    /\ kept' = {} /\ listRows' = {}
    /\ job' = NoJob
    /\ UNCHANGED <<firewall, display, failed, meddled, taken>>

WfpNext ==
    \/ OpenEngine \/ CloseEngine \/ ClearAll \/ RefreshTable \/ CleanUp \/ RemovalEnds \/ ProcessEnds
    \/ \E r \in Rules, n \in Names :
        AddRule(r, n) \/ AddFails(r, n)
    \/ \E rows \in SUBSET listRows : RemoveSelected(rows)
    \/ \E n \in Names : RemoveByName(n)
    \/ \E r \in Rules :
        \/ DeleteByOwnName(r) \/ DeleteByOwnNameFails(r)
        \/ DeleteByDisplayName(r) \/ DeleteByDisplayNameFails(r)
    \/ \E f \in Rules \cup Foreign : OthersRemove(f)
    \/ \E f \in Foreign : OthersAdd(f)
-------------------------------------------------------------------------------
(* Properties *)

\* As long as no netsh delete fails without a reason and nobody else removes
\* rules of this program, the list is the firewall, before and after every single
\* netsh call of a removal of many, but for the rules that an ended process left
\* behind; and no rule of another program is ever removed.
ListIsFirewall ==
    ~failed /\ ~meddled =>
        /\ Rules \cap firewall = kept \cup orphans
        /\ taken = {}

\* A rule of this program that the firewall enforces and the list does not show
\* was left by an ended process, or the second try of its removal took a rule
\* of another program of the same display name for it.
LostForAnother ==
    \A r \in (Rules \cap firewall) \ (kept \cup orphans) :
        \E f \in taken : RuleName[f] = display[r]

\* Both: what this program knows of the firewall, and what it does to others.
FirewallIsKnown == ListIsFirewall /\ LostForAnother
===============================================================================
