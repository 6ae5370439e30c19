------------------------------- MODULE Alarm -------------------------------
(***************************************************************************)
(* What a timer wheel promises: a set of timers, each with the tick it is  *)
(* due at, and a clock that never passes a due timer.  A timer goes off    *)
(* exactly when the clock reaches its tick, never before and never after,  *)
(* and a handle that was used is never given out again.                    *)
(***************************************************************************)
EXTENDS Integers

CONSTANT Handles

VARIABLES
  now,     \* the clock
  due,     \* for each pending timer the tick it goes off at
  spent    \* the handles that were given out

alarm == <<now, due, spent>>

Pending == DOMAIN due

Init ==
  /\ now \in Nat
  /\ due = [h \in {} |-> 0]
  /\ spent = {}

Set(h, t) ==
  /\ h \notin spent
  /\ t >= now
  /\ due' = [x \in Pending \cup {h} |-> IF x = h THEN t ELSE due[x]]
  /\ spent' = spent \cup {h}
  /\ UNCHANGED now

Move(h, t) ==
  /\ h \in Pending
  /\ t >= now
  /\ due' = [due EXCEPT ![h] = t]
  /\ UNCHANGED <<now, spent>>

Cancel(h) ==
  /\ h \in Pending
  /\ due' = [x \in Pending \ {h} |-> due[x]]
  /\ UNCHANGED <<now, spent>>

(* The clock moves to t, and what is due at t goes off.                    *)
Elapse(t) ==
  /\ t >= now
  /\ \A h \in Pending : due[h] >= t
  /\ now' = t
  /\ due' = [x \in {h \in Pending : due[h] # t} |-> due[x]]
  /\ UNCHANGED spent

Next ==
  \/ \E h \in Handles : Cancel(h)
  \/ \E h \in Handles : \E t \in {due'[x] : x \in DOMAIN due'} : Set(h, t) \/ Move(h, t)
  \/ Elapse(now')

Spec == Init /\ [][Next]_alarm

=============================================================================
