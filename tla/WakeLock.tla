------------------------------ MODULE WakeLock ------------------------------
(***************************************************************************)
(* frontend/src/lib/followTracking.js: the screen wake lock of follow      *)
(* mode.  The hook asks for a sentinel when a walk starts and whenever the *)
(* page is shown again; the promise may be answered after Stop.            *)
(*                                                                         *)
(* The browser's side is external: it answers a request with a sentinel    *)
(* while the page is visible, or refuses it, and it releases every lock    *)
(* when the page is hidden.                                                *)
(***************************************************************************)
EXTENDS Integers, FiniteSets

CONSTANT MaxAcquires  \* bound on the calls of acquire()

ASSUME WakeLockAssumption == MaxAcquires \in Nat \ {0}

VARIABLES active,     \* a walk is followed: the effect has not been cleaned up
          visible,    \* ~document.hidden
          asked,      \* calls of acquire() so far, numbered from 1
          pending,    \* those whose promise is unanswered
          orphans,    \* those of a walk that was stopped: cancelled is TRUE
          held,       \* the sentinels not released
          lock,       \* the effect's variable: a sentinel, or 0 for null
          overlapped  \* history: a walk asked again while it was waiting

vars == <<active, visible, asked, pending, orphans, held, lock, overlapped>>

Init ==
    /\ active = FALSE /\ visible = TRUE
    /\ asked = 0 /\ pending = {} /\ orphans = {} /\ held = {} /\ lock = 0
    /\ overlapped = FALSE

(* acquire(), up to its await.                                             *)
Acquire ==
    /\ asked < MaxAcquires /\ asked' = asked + 1
    /\ pending' = pending \cup {asked'}
    /\ overlapped' = (overlapped \/ pending \ orphans # {})

Start ==
    /\ ~active /\ visible
    /\ active' = TRUE
    /\ Acquire
    /\ UNCHANGED <<visible, orphans, held, lock>>

(* onVisibility.                                                           *)
Show ==
    /\ ~visible /\ visible' = TRUE
    /\ IF active THEN Acquire ELSE UNCHANGED <<asked, pending, overlapped>>
    /\ UNCHANGED <<active, orphans, held, lock>>

Hide ==
    /\ visible /\ visible' = FALSE
    /\ held' = {}
    /\ UNCHANGED <<active, asked, pending, orphans, lock, overlapped>>

\* A slip, and acquire() as it was: the await is taken to change nothing.
GrantedUnchecked(a) ==
    /\ a \in pending /\ visible
    /\ pending' = pending \ {a} /\ orphans' = orphans \ {a}
    /\ held' = held \cup {a}
    /\ lock' = IF a \in orphans THEN lock ELSE a
    /\ UNCHANGED <<active, visible, asked, overlapped>>

(* The await returns a sentinel: kept by a walk that goes on, released by  *)
(* one that was stopped.                                                   *)
Granted(a) ==
    /\ a \in pending /\ visible
    /\ pending' = pending \ {a} /\ orphans' = orphans \ {a}
    /\ held' = IF a \in orphans THEN held ELSE held \cup {a}
    /\ lock' = IF a \in orphans THEN lock ELSE a
    /\ UNCHANGED <<active, visible, asked, overlapped>>

Refused(a) ==
    /\ a \in pending
    /\ pending' = pending \ {a} /\ orphans' = orphans \ {a}
    /\ lock' = IF a \in orphans THEN lock ELSE 0
    /\ UNCHANGED <<active, visible, asked, held, overlapped>>

(* The cleanup: cancelled, and the sentinel in hand released.              *)
Stop ==
    /\ active /\ active' = FALSE
    /\ orphans' = pending
    /\ held' = held \ {lock} /\ lock' = 0
    /\ UNCHANGED <<visible, asked, pending, overlapped>>

Next ==
    \/ Start \/ Stop \/ Show \/ Hide
    \/ \E a \in 1..MaxAcquires : Granted(a) \/ Refused(a)

Spec == Init /\ [][Next]_vars

-----------------------------------------------------------------------------
TypeOK ==
    /\ active \in BOOLEAN /\ visible \in BOOLEAN /\ overlapped \in BOOLEAN
    /\ asked \in 0..MaxAcquires /\ pending \subseteq 1..asked /\ orphans \subseteq pending
    /\ held \subseteq 1..asked /\ lock \in 0..asked
    /\ ~active => lock = 0
    /\ ~active => orphans = pending

(* A sentinel answered after Stop is released, in whatever order promises, *)
(* stops and starts come: the screen of a walk that is over may sleep.     *)
(* This is so when no walk asked again before it had its first answer.     *)
SleepsAfterStop == ~active /\ ~overlapped => held = {}

-----------------------------------------------------------------------------
(* Leaving follow mode has to leave nothing behind.                        *)
NothingLeftBehind == ~active => held = {}

=============================================================================
