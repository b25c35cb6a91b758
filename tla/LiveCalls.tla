------------------------------ MODULE LiveCalls ------------------------------
(***************************************************************************)
(* backend/fixtures.py in record mode: fetch() and the LiveCallBudget it   *)
(* asks.  A request whose fixture can be read is answered from disk; one   *)
(* that cannot reserves its cost for the day, makes the call, and writes   *)
(* the fixture when the answer is good.                                    *)
(*                                                                         *)
(* Backends are processes that share the checkout: each keeps its counter  *)
(* in memory, loads it once as it starts, and saves all of it through one  *)
(* temporary file.  try_spend holds the process's lock and does not await, *)
(* so within a process nothing comes between its steps but a crash.        *)
(*                                                                         *)
(* One metered service; in live mode, and for a router of our own, nothing *)
(* here is asked or written.                                               *)
(***************************************************************************)
EXTENDS Integers, FiniteSets

CONSTANTS Procs,     \* backends
          Width,     \* fetches at once in a backend
          Sigs,      \* request signatures
          Cap,       \* cap_for(service)
          Costs,     \* what a request may cost
          MaxDay,    \* bound on the days
          MaxCrash   \* bound on the crashes

Tasks == Procs \X (1..Width)
Days == 0..MaxDay

VARIABLES today,
          up,       \* the backends running
          day,      \* per backend: _day
          used,     \* per backend: _state[service]
          file,     \* _budget.json: its day and its count
          tmp,      \* _budget.json.tmp: the same, or Absent
          at,       \* per task: idle, reserved, saved, calling, writing
          sig,      \* per task: its request
          cost,     \* per task: what it reserves
          fixture,  \* per signature: absent, torn or whole
          crashes,
          granted   \* history: per day, the cost of the calls allowed

vars == <<today, up, day, used, file, tmp, at, sig, cost, fixture, crashes, granted>>
budget == <<day, used, file, tmp>>
fetches == <<sig, cost>>

Absent == [day |-> 0 - 1, count |-> 0]

Init ==
    /\ today = 0 /\ up = {}
    /\ day = [p \in Procs |-> 0] /\ used = [p \in Procs |-> 0]
    /\ file = Absent /\ tmp = Absent
    /\ at = [t \in Tasks |-> "idle"]
    /\ sig \in [Tasks -> {CHOOSE s \in Sigs : TRUE}] /\ cost = [t \in Tasks |-> 0]
    /\ fixture = [s \in Sigs |-> "absent"]
    /\ crashes = 0 /\ granted = [d \in Days |-> 0]

-----------------------------------------------------------------------------
(* LiveCallBudget(): a file of another day is not loaded.                  *)
Loaded(d) == IF file.day = d THEN file.count ELSE 0

Begin(p) ==
    /\ p \notin up /\ up' = up \cup {p}
    /\ day' = [day EXCEPT ![p] = today]
    /\ used' = [used EXCEPT ![p] = Loaded(today)]
    /\ UNCHANGED <<today, file, tmp, at, fetches, fixture, crashes, granted>>

(* A crash ends the backend's fetches where they are; a fixture that was   *)
(* being written stays torn.                                               *)
Crash(p) ==
    /\ p \in up /\ up' = up \ {p}
    /\ crashes < MaxCrash /\ crashes' = crashes + 1
    /\ at' = [t \in Tasks |-> IF t[1] = p THEN "idle" ELSE at[t]]
    /\ UNCHANGED <<today, budget, fetches, fixture, granted>>

-----------------------------------------------------------------------------
(* fetch(): a fixture that can be read is the answer, and nothing changes; *)
(* else the counters roll if the day has, and the cost is reserved.        *)
Free(p) == \A t \in Tasks : t[1] = p => at[t] \notin {"reserved", "saved", "writing"}
RolledUsed(p) == IF day[p] = today THEN used[p] ELSE 0

Fits(p, c) == RolledUsed(p) + c <= Cap

Reserve(t, s, c) ==
    LET p == t[1] IN
    /\ p \in up /\ at[t] = "idle" /\ Free(p)
    /\ fixture[s] # "whole"
    /\ Fits(p, c)
    /\ day' = [day EXCEPT ![p] = today]
    /\ used' = [used EXCEPT ![p] = RolledUsed(p) + c]
    /\ at' = [at EXCEPT ![t] = "reserved"]
    /\ sig' = [sig EXCEPT ![t] = s] /\ cost' = [cost EXCEPT ![t] = c]
    /\ UNCHANGED <<today, up, file, tmp, fixture, crashes, granted>>

(* BudgetExhausted: skipped, not retried.                                  *)
Exhausted(t, s, c) ==
    LET p == t[1] IN
    /\ p \in up /\ at[t] = "idle" /\ Free(p)
    /\ fixture[s] # "whole"
    /\ ~Fits(p, c)
    /\ day' = [day EXCEPT ![p] = today]
    /\ used' = [used EXCEPT ![p] = RolledUsed(p)]
    /\ UNCHANGED <<today, up, file, tmp, at, fetches, fixture, crashes, granted>>

(* _save(): the temporary file, then its rename.  Either may raise, and    *)
(* then no call is made, though the counter keeps what it reserved.        *)
SaveTmp(t) ==
    /\ at[t] = "reserved"
    /\ \/ /\ tmp' = [day |-> day[t[1]], count |-> used[t[1]]]
          /\ at' = [at EXCEPT ![t] = "saved"]
       \/ tmp' = tmp /\ at' = [at EXCEPT ![t] = "idle"]
    /\ UNCHANGED <<today, up, day, used, file, fetches, fixture, crashes, granted>>

Allow(t) == granted' = [granted EXCEPT ![day[t[1]]] = @ + cost[t]]

\* A slip: the rename may fail, and the call is made all the same.
SaveRenameLax(t) ==
    /\ at[t] = "saved"
    /\ \/ file' = tmp /\ tmp' = Absent
       \/ file' = file /\ tmp' = tmp
    /\ at' = [at EXCEPT ![t] = "calling"] /\ Allow(t)
    /\ UNCHANGED <<today, up, day, used, fetches, fixture, crashes>>

SaveRename(t) ==
    /\ at[t] = "saved"
    /\ \/ /\ tmp # Absent
          /\ file' = tmp /\ tmp' = Absent
          /\ at' = [at EXCEPT ![t] = "calling"] /\ Allow(t)
       \/ UNCHANGED <<file, tmp, granted>> /\ at' = [at EXCEPT ![t] = "idle"]
    /\ UNCHANGED <<today, up, day, used, fetches, fixture, crashes>>

(* The call: an error, or a body too large, is not recorded.               *)
AnswerBad(t) ==
    /\ at[t] = "calling" /\ Free(t[1])
    /\ at' = [at EXCEPT ![t] = "idle"]
    /\ UNCHANGED <<today, up, budget, fetches, fixture, crashes, granted>>

AnswerGood(t) ==
    /\ at[t] = "calling" /\ Free(t[1])
    /\ at' = [at EXCEPT ![t] = "writing"]
    /\ fixture' = [fixture EXCEPT ![sig[t]] = "torn"]
    /\ UNCHANGED <<today, up, budget, fetches, crashes, granted>>

Written(t) ==
    /\ at[t] = "writing"
    /\ at' = [at EXCEPT ![t] = "idle"]
    /\ fixture' = [fixture EXCEPT ![sig[t]] = "whole"]
    /\ UNCHANGED <<today, up, budget, fetches, crashes, granted>>

Midnight ==
    /\ today < MaxDay /\ today' = today + 1
    /\ UNCHANGED <<up, budget, at, fetches, fixture, crashes, granted>>

Next ==
    \/ \E p \in Procs : Begin(p) \/ Crash(p)
    \/ \E t \in Tasks :
          \/ \E s \in Sigs, c \in Costs : Reserve(t, s, c) \/ Exhausted(t, s, c)
          \/ SaveTmp(t) \/ SaveRename(t)
          \/ AnswerBad(t) \/ AnswerGood(t) \/ Written(t)
    \/ Midnight

Spec == Init /\ [][Next]_vars

-----------------------------------------------------------------------------
Counts == [day : Days \cup {0 - 1}, count : 0..Cap]
TypeOK ==
    /\ today \in Days /\ up \subseteq Procs
    /\ day \in [Procs -> Days] /\ used \in [Procs -> 0..Cap]
    /\ file \in Counts /\ tmp \in Counts
    /\ at \in [Tasks -> {"idle", "reserved", "saved", "calling", "writing"}]
    /\ sig \in [Tasks -> Sigs] /\ cost \in [Tasks -> Costs \cup {0}]
    /\ \A t \in Tasks : at[t] # "idle" => t[1] \in up
    /\ fixture \in [Sigs -> {"absent", "torn", "whole"}]
    /\ crashes \in 0..MaxCrash /\ granted \in [Days -> Nat]

(* One backend spends no more than the cap in a day, however often it      *)
(* crashes and starts again and wherever midnight falls: what a call was   *)
(* allowed on is on disk before the call is made.                          *)
CapHolds == \A d \in Days : granted[d] <= Cap

(* Two backends sharing one checkout could overshoot slightly: each by its *)
(* own cap.                                                                *)
OvershootIsSlight == \A d \in Days : granted[d] <= Cap * Cardinality(Procs)

=============================================================================
