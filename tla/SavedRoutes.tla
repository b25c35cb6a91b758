----------------------------- MODULE SavedRoutes -----------------------------
(***************************************************************************)
(* frontend/src/lib/offlineStore.js and resultsStore.js, with the part of  *)
(* sw.js that shares their storage: the one saved set of routes, and the   *)
(* consent it is kept under.                                               *)
(*                                                                         *)
(* CacheStorage belongs to the origin: every tab, and the service worker   *)
(* of every installed build, reach the same names.  A task is one call, in *)
(* any tab (an agreement or a boot, if it is in both those sets); each     *)
(* await that reaches storage is a step of its own, and a tab closed in    *)
(* the middle ends its task there.  A bucket deleted by name is unlinked,  *)
(* and lives on for whoever holds its handle.                              *)
(*                                                                         *)
(* Deletions succeed; writes may fail (the quota).  What a saved set says, *)
(* and whether it answers a search, is left to the step that asks.         *)
(***************************************************************************)
EXTENDS Integers, FiniteSets, FiniteSetsExt

CONSTANTS Savers,    \* calls of saveRoutes
          Readers,   \* calls of readRoutes
          Agreers,   \* calls of setSaveResults(true)
          Refusers,  \* calls of setSaveResults(false)
          Boots,     \* calls of refreshOfflineSetting by main.jsx
          Versions   \* the builds: a worker and a shell for each

Clients == Savers \cup Readers
Pages == Clients \cup Agreers \cup Refusers \cup Boots
Tasks == Pages \cup Versions

ASSUME SavedAssumption ==
    /\ IsFiniteSet(Tasks) /\ Versions # {} /\ Versions \subseteq Nat \ {0}
    /\ Savers \cap Readers = {} /\ Refusers \cap (Agreers \cup Boots) = {}
    /\ Clients \cap (Agreers \cup Refusers \cup Boots) = {} /\ Pages \cap Versions = {}

VARIABLES flag,     \* the prefs bucket's one word: yes, no or absent
          shells,   \* the versions whose shell is installed
          linked,   \* per version: the results bucket of its name, or 0
          made,     \* buckets made so far, numbered from 1
          holds,    \* the buckets that hold an entry
          at,       \* per task: the await it stands at
          back,     \* per task: where its forgetResults() returns to
          listed,   \* per task: the names it is deleting
          target,   \* per client: the version it stores under, or 0
          handle,   \* per client: the bucket it has opened and will use, or 0
          handed,   \* the readers whose caller got the saved routes
          stuck,    \* history: a refusal could be neither written nor erased
          unswept   \* history: a tab died, and no boot has begun since

vars == <<flag, shells, linked, made, holds, at, back, listed, target, handle,
          handed, stuck, unswept>>
storage == <<flag, shells, linked, made, holds>>
history == <<handed, stuck, unswept>>

Goto(t, place) == at' = [at EXCEPT ![t] = place]
Call(t, place) == Goto(t, "listing") /\ back' = [back EXCEPT ![t] = place]
Drop(t) ==
    /\ target' = [u \in Clients |-> IF u = t THEN 0 ELSE target[u]]
    /\ handle' = [u \in Clients |-> IF u = t THEN 0 ELSE handle[u]]

(* The oldest shell is installed and active, or none yet; nothing is saved.*)
Init ==
    /\ flag \in {"yes", "no", "absent"}
    /\ shells \in {{}, {Min(Versions)}}
    /\ linked = [v \in Versions |-> 0] /\ made = 0 /\ holds = {}
    /\ at = [t \in Tasks |-> IF t \in shells THEN "ended" ELSE "idle"]
    /\ back = [t \in Tasks |-> "ended"] /\ listed = [t \in Tasks |-> {}]
    /\ target = [t \in Clients |-> 0] /\ handle = [t \in Clients |-> 0]
    /\ handed = {} /\ stuck = FALSE /\ unswept = FALSE

-----------------------------------------------------------------------------
(* forgetResults(): list the results buckets, then delete each by name.    *)
Shells == {"shell"} \X shells
Results == {"results"} \X {v \in Versions : linked[v] # 0}

List(t) ==
    /\ at[t] = "listing"
    /\ listed' = [listed EXCEPT ![t] = Results]
    /\ Goto(t, "deleting")
    /\ UNCHANGED <<storage, back, target, handle, history>>

Delete(t) ==
    /\ at[t] = "deleting"
    /\ \E name \in listed[t] :
          /\ listed' = [listed EXCEPT ![t] = @ \ {name}]
          /\ shells' = {v \in shells : name # <<"shell", v>>}
          /\ linked' = [v \in Versions |-> IF name = <<"results", v>> THEN 0 ELSE linked[v]]
    /\ UNCHANGED <<flag, made, holds, at, back, target, handle, history>>

Return(t) ==
    /\ at[t] = "deleting" /\ listed[t] = {}
    /\ Goto(t, back[t]) /\ back' = [back EXCEPT ![t] = "ended"]
    /\ UNCHANGED <<storage, listed, target, handle, history>>

-----------------------------------------------------------------------------
(* saveRoutes and readRoutes: the consent, then the bucket's name.         *)
ReadFlag(t) ==
    /\ t \in Clients /\ at[t] = "idle"
    /\ Goto(t, IF flag = "yes" THEN "naming" ELSE "ended")
    /\ UNCHANGED <<storage, back, listed, target, handle, history>>

(* The name is the first installed shell's; a save sweeps before it opens. *)
Shell == IF shells = {} THEN 0 ELSE Min(shells)

Name(t) ==
    /\ t \in Clients /\ at[t] = "naming"
    /\ target' = [target EXCEPT ![t] = Shell]
    /\ CASE Shell = 0   -> Goto(t, "ended") /\ UNCHANGED back
         [] t \in Savers /\ Shell # 0  -> Call(t, "opening")
         [] t \in Readers /\ Shell # 0 -> Goto(t, "opening") /\ UNCHANGED back
    /\ UNCHANGED <<storage, listed, handle, history>>

(* caches.open makes the bucket if no bucket has the name.                 *)
Open(t) ==
    /\ t \in Clients /\ at[t] = "opening"
    /\ LET v == target[t] IN
          /\ made' = IF linked[v] = 0 THEN made + 1 ELSE made
          /\ linked' = [linked EXCEPT ![v] = IF @ = 0 THEN made + 1 ELSE @]
    /\ handle' = [handle EXCEPT ![t] = linked'[target[t]]]
    /\ Goto(t, IF t \in Savers THEN "putting" ELSE "matching")
    /\ UNCHANGED <<flag, shells, holds, back, listed, target, history>>

(* saveRoutes: write, and look at the consent again.                       *)
Put(t) ==
    /\ at[t] = "putting"
    /\ \/ holds' = holds \cup {handle[t]} /\ Goto(t, "confirming") /\ UNCHANGED <<target, handle>>
       \/ holds' = holds /\ Goto(t, "ended") /\ Drop(t)  \* the quota; caught
    /\ UNCHANGED <<flag, shells, linked, made, back, listed, history>>

\* A slip: the consent read before the write is taken to stand.
ConfirmTrusting(t) ==
    /\ at[t] = "confirming"
    /\ Goto(t, "ended") /\ Drop(t)
    /\ UNCHANGED <<storage, back, listed, history>>

Confirm(t) ==
    /\ at[t] = "confirming"
    /\ \/ flag = "yes" /\ Goto(t, "ended") /\ Drop(t)
       \/ flag # "yes" /\ Goto(t, "undoing") /\ UNCHANGED <<target, handle>>
    /\ UNCHANGED <<storage, back, listed, history>>

(* The undo goes through the handle first: the bucket may be unlinked.     *)
Undo(t) ==
    /\ at[t] = "undoing"
    /\ holds' = holds \ {handle[t]}
    /\ Call(t, "ended") /\ Drop(t)
    /\ UNCHANGED <<flag, shells, linked, made, listed, history>>

(* readRoutes: an entry that answers the search, and the consent again.    *)
Match(t) ==
    /\ at[t] = "matching"
    /\ \/ handle[t] \in holds /\ Goto(t, "rereading")
       \/ Goto(t, "ended")
    /\ Drop(t)
    /\ UNCHANGED <<storage, back, listed, history>>

\* A slip, and readRoutes as it was: the first reading is enough.
HandTrusting(t) ==
    /\ at[t] = "rereading"
    /\ handed' = handed \cup {t}
    /\ Goto(t, "ended")
    /\ UNCHANGED <<storage, back, listed, target, handle, stuck, unswept>>

Hand(t) ==
    /\ at[t] = "rereading"
    /\ handed' = IF flag = "yes" THEN handed \cup {t} ELSE handed
    /\ Goto(t, "ended")
    /\ UNCHANGED <<storage, back, listed, target, handle, stuck, unswept>>

-----------------------------------------------------------------------------
(* setSaveResults(yes or no): write the flag, which may fail; a refusal    *)
(* forgets at once; then read back what will be done.                      *)
Answer(t) == IF t \in Agreers THEN "yes" ELSE "no"

Choose(t) ==
    /\ t \in Agreers \cup Refusers /\ at[t] = "idle"
    /\ flag' \in {flag, Answer(t)}
    /\ IF t \in Refusers THEN Call(t, "refreshing") ELSE Goto(t, "refreshing") /\ UNCHANGED back
    /\ UNCHANGED <<shells, linked, made, holds, listed, target, handle, history>>

(* main.jsx calls refreshOfflineSetting() as it boots.                     *)
Boot(t) ==
    /\ t \in Boots /\ at[t] = "idle"
    /\ Goto(t, "refreshing")
    /\ unswept' = FALSE
    /\ UNCHANGED <<storage, back, listed, target, handle, handed, stuck>>

\* A slip: a refusal does not look at what was read back.
RefreshTrusting(t) ==
    /\ at[t] = "refreshing"
    /\ IF flag = "yes" THEN Goto(t, "ended") /\ UNCHANGED back ELSE Call(t, "ended")
    /\ UNCHANGED <<storage, listed, target, handle, history>>

(* refreshOfflineSetting(): anything but yes sweeps.  A refusal that reads *)
(* yes could not be written, and goes on to erase the entry.               *)
Refresh(t) ==
    /\ at[t] = "refreshing"
    /\ CASE flag # "yes"                     -> Call(t, "ended")
         [] flag = "yes" /\ t \in Refusers    -> Goto(t, "erasing") /\ UNCHANGED back
         [] flag = "yes" /\ t \notin Refusers -> Goto(t, "ended") /\ UNCHANGED back
    /\ UNCHANGED <<storage, listed, target, handle, history>>

Erase(t) ==
    /\ at[t] = "erasing"
    /\ \/ flag' = "absent" /\ stuck' = stuck
       \/ flag' = flag /\ stuck' = TRUE  \* caught: nothing further to try
    /\ Call(t, "reconfirming")
    /\ UNCHANGED <<shells, linked, made, holds, listed, target, handle, handed, unswept>>

Reconfirm(t) ==
    /\ at[t] = "reconfirming"
    /\ IF flag = "yes" THEN Goto(t, "ended") /\ UNCHANGED back ELSE Call(t, "ended")
    /\ UNCHANGED <<storage, listed, target, handle, history>>

(* The tab is closed, or the device sleeps for good.                       *)
CloseTab(t) ==
    /\ t \in Pages /\ at[t] \notin {"idle", "ended", "dead"}
    /\ Goto(t, "dead")
    /\ back' = [back EXCEPT ![t] = "ended"] /\ listed' = [listed EXCEPT ![t] = {}]
    /\ Drop(t)
    /\ unswept' = TRUE
    /\ UNCHANGED <<storage, handed, stuck>>

-----------------------------------------------------------------------------
(* sw.js: install precaches the shell; activate deletes every other name.  *)
(* Builds come in the order they were deployed, so the oldest name is also *)
(* the first that caches.keys() lists.                                     *)
Install(v) ==
    /\ v \in Versions /\ \A w \in Versions : w >= v => at[w] = "idle"
    /\ shells' = shells \cup {v}
    /\ Goto(v, "activating")
    /\ UNCHANGED <<flag, linked, made, holds, back, listed, target, handle, history>>

Activate(v) ==
    /\ at[v] = "activating"
    /\ listed' = [listed EXCEPT ![v] = {name \in Shells \cup Results : name[2] # v}]
    /\ Goto(v, "deleting")
    /\ UNCHANGED <<storage, back, target, handle, history>>

Next ==
    \E t \in Tasks :
        \/ List(t) \/ Delete(t) \/ Return(t)
        \/ ReadFlag(t) \/ Name(t) \/ Open(t) \/ Put(t) \/ Confirm(t) \/ Undo(t)
        \/ Match(t) \/ Hand(t)
        \/ Choose(t) \/ Boot(t) \/ Refresh(t) \/ Erase(t) \/ Reconfirm(t)
        \/ CloseTab(t) \/ Install(t) \/ Activate(t)

Spec == Init /\ [][Next]_vars

-----------------------------------------------------------------------------
TypeOK ==
    /\ flag \in {"yes", "no", "absent"} /\ shells \subseteq Versions
    /\ made \in 0..Cardinality(Clients) /\ holds \subseteq 1..made
    /\ linked \in [Versions -> 0..made]
    /\ at \in [Tasks -> {"idle", "listing", "deleting", "naming", "opening", "putting",
                         "confirming", "undoing", "matching", "rereading", "refreshing",
                         "erasing", "reconfirming", "activating", "ended", "dead"}]
    /\ back \in [Tasks -> {"opening", "refreshing", "reconfirming", "ended"}]
    /\ listed \in [Tasks -> SUBSET ({"shell", "results"} \X Versions)]
    /\ target \in [Clients -> Versions \cup {0}] /\ handle \in [Clients -> 0..made]
    /\ \A t \in Clients : at[t] \in {"opening", "putting", "confirming", "undoing", "matching"}
             => target[t] # 0
    /\ handed \subseteq Readers /\ stuck \in BOOLEAN /\ unswept \in BOOLEAN

Quiet == \A t \in Pages : at[t] \in {"idle", "ended", "dead"}
Saved == {v \in Versions : linked[v] # 0 /\ linked[v] \in holds}

(* Once nothing is running, no saved route can be found without consent,   *)
(* however the saves, the answers and the readings interleaved; a tab that *)
(* died in the middle is made good by the next boot.                       *)
NothingKeptAfterNo ==
    /\ TypeOK
    /\ Quiet /\ flag # "yes" /\ ~unswept => Saved = {}

(* A refusal that ran to its end, with no agreement beside it, has taken,  *)
(* even when the "no" itself could not be written.                         *)
RefusalTakes ==
    /\ \E t \in Refusers : at[t] = "ended"
    /\ \A t \in Agreers : at[t] = "idle"
    /\ ~stuck
    => flag # "yes"

(* No reading outruns a withdrawal: routes are handed back only while the  *)
(* flag says yes.                                                          *)
ReplayedUnderConsent ==
    [][\A t \in Readers : t \in handed' \ handed => flag = "yes"]_vars

(* saveRoutes: deleting every results bucket before the put makes "exactly *)
(* one, ever" structural rather than dependent on the worker's lifecycle.  *)
ExactlyOneEver == Cardinality(Saved) <= 1

=============================================================================
