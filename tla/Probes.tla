------------------------------- MODULE Probes -------------------------------
(***************************************************************************)
(* backend/health.py and backend/coverage.py: a question put to the router *)
(* ("are you up", "what have you loaded"), answered from a cache while     *)
(* what it holds is young.  Both modules have this one shape: the clock is *)
(* read before the router is awaited, the verdict is stored under that     *)
(* reading, and callers overlap, for nothing keeps two probes from being   *)
(* under way at once.                                                      *)
(*                                                                         *)
(* /readyz asks the first, among its own checks; the preflight of a route  *)
(* asks the second, and may be cancelled by the deadline of its stream.    *)
(***************************************************************************)
EXTENDS Integers, FiniteSets

CONSTANTS Callers,    \* requests at once
          Verdicts,   \* what a router may say of itself
          Unknown,    \* "unreachable", or no extent: what a failed probe says
          Ttl,        \* PROBE_TTL_S or INFO_TTL_S, in ticks
          SelfHosted, \* graphhopper_is_self_hosted()
          MaxNow      \* bound on the clock

ASSUME ProbesAssumption ==
    Ttl \in Nat \ {0} /\ MaxNow \in Nat /\ SelfHosted \in BOOLEAN

VARIABLES now,
          router,  \* what the router would say
          cached,  \* _last, or _cached: a verdict and its time, or Empty
          probe,   \* per caller: its call
          served,  \* the last verdict returned to a caller
          told     \* history: per verdict, when a probe was last told it

vars == <<now, router, cached, probe, served, told>>

Never == 0 - 1
Times == 0..MaxNow
Says == Verdicts \cup {Unknown}
Empty == [verdict |-> Unknown, at |-> Never]
Idle == [step |-> "idle", began |-> 0, verdict |-> Unknown]
Nobody == [verdict |-> Unknown, at |-> 0, from |-> "nobody"]
Serve(verdict, from) == served' = [verdict |-> verdict, at |-> now, from |-> from]

Init ==
    /\ now = 0 /\ router = Unknown /\ cached = Empty
    /\ probe = [c \in Callers |-> Idle]
    /\ served = Nobody
    /\ told = [v \in Says |-> Never]

-----------------------------------------------------------------------------
Young == cached # Empty /\ now - cached.at < Ttl

AskCached == Young /\ Serve(cached.verdict, "cache") /\ UNCHANGED probe
AskRouter(c) ==
    /\ ~Young
    /\ probe' = [probe EXCEPT ![c] = [step |-> "asking", began |-> now, verdict |-> Unknown]]
    /\ UNCHANGED served

(* The hosted API is not asked: no claim is made about it.                 *)
Ask(c) ==
    /\ probe[c].step = "idle"
    /\ IF SelfHosted THEN AskCached \/ AskRouter(c)
                     ELSE Serve(Unknown, "not_probed") /\ UNCHANGED probe
    /\ UNCHANGED <<now, router, cached, told>>

(* The response, an error status, or a failure of the transport.           *)
Hear(c) ==
    /\ probe[c].step = "asking"
    /\ \E verdict \in {router, Unknown} :
          /\ probe' = [probe EXCEPT ![c].step = "told", ![c].verdict = verdict]
          /\ told' = [told EXCEPT ![verdict] = now]
    /\ UNCHANGED <<now, router, cached, served>>

\* A slip: the verdict is dated when it is stored.
KeptAsOfNow(c) == [verdict |-> probe[c].verdict, at |-> now]

Kept(c) == [verdict |-> probe[c].verdict, at |-> probe[c].began]

(* The client is closed, which awaits; then the verdict is stored, a       *)
(* failed one too, over whatever another probe stored meanwhile.           *)
Store(c) ==
    /\ probe[c].step = "told"
    /\ cached' = Kept(c)
    /\ Serve(probe[c].verdict, "router")
    /\ probe' = [probe EXCEPT ![c] = Idle]
    /\ UNCHANGED <<now, router, told>>

(* The deadline of a stream cancels its preflight where it waits.          *)
Cancel(c) ==
    /\ probe[c].step # "idle"
    /\ probe' = [probe EXCEPT ![c] = Idle]
    /\ UNCHANGED <<now, router, cached, served, told>>

(* The router goes down, comes back, or loads another map.                 *)
Change(v) ==
    /\ router # v /\ router' = v
    /\ UNCHANGED <<now, cached, probe, served, told>>

Tick ==
    /\ now < MaxNow /\ now' = now + 1
    /\ UNCHANGED <<router, cached, probe, served, told>>

Next ==
    \/ \E c \in Callers : Ask(c) \/ Hear(c) \/ Store(c) \/ Cancel(c)
    \/ \E v \in Says : Change(v)
    \/ Tick

Spec == Init /\ [][Next]_vars

-----------------------------------------------------------------------------
TypeOK ==
    /\ now \in Times /\ router \in Says
    /\ cached \in [verdict : Says, at : Times \cup {Never}]
    /\ cached # Empty => cached.at \in Times
    /\ probe \in [Callers -> [step : {"idle", "asking", "told"}, began : Times, verdict : Says]]
    /\ served \in [verdict : Says, at : Times,
                   from : {"nobody", "not_probed", "cache", "router"}]
    /\ told \in [Says -> Times \cup {Never}]

(* However probes overlap, fail, are cancelled and overwrite one another,  *)
(* a verdict served from memory is one that some probe was told less than  *)
(* the time to live ago: a router that has been up that long is not said   *)
(* to be down, and one that has been down that long is not said to be up.  *)
VerdictIsFresh ==
    served.from = "cache" =>
        /\ told[served.verdict] # Never
        /\ served.at - told[served.verdict] < Ttl

-----------------------------------------------------------------------------
(* What is remembered is the newest that was told: an older probe that     *)
(* ends later overwrites it.                                               *)
NewestIsKept ==
    \A c \in Callers : probe[c].step = "told" /\ cached # Empty => cached.at <= probe[c].began

=============================================================================
