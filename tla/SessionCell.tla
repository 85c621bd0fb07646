----------------------------- MODULE SessionCell -----------------------------
(***************************************************************************)
(* What a session is to its user: one cell that holds the key or does not. *)
(* A put fills it, for no longer than the absolute time, a use only starts *)
(* the idle time anew, it may be emptied at any moment, and after          *)
(* "Session stopped." it is empty until the next put.  SessionAgent        *)
(* implements it while clients and daemons keep out of each other's way.   *)
(***************************************************************************)
EXTENDS Naturals

CONSTANTS
  IdleTtl,   \* how long an unused key may stay
  Absolute   \* how long any key may stay

VARIABLES
  full,      \* the cell holds the key
  age,       \* ticks since it was put
  unused,    \* ticks since it was put or used
  stopped    \* "Session stopped." was said and no key has been put since

cell == <<full, age, unused, stopped>>

Init == full = FALSE /\ age = 0 /\ unused = 0 /\ stopped = FALSE

Empty == full' = FALSE /\ age' = 0 /\ unused' = 0

Put ==
  /\ full' = TRUE /\ age' = 0 /\ unused' = 0
  /\ stopped' = FALSE

Use ==
  /\ full
  /\ unused' = 0
  /\ UNCHANGED <<full, age, stopped>>

\* The idle time or the absolute time is over, the screen is locked, the process
\* that holds the key ends.
Forget == full /\ Empty /\ UNCHANGED stopped

\* The answer to a stop may get lost.
Stop == Empty /\ stopped' \in {stopped, TRUE}

Wait ==
  /\ full /\ age < Absolute /\ unused < IdleTtl
  /\ age' = age + 1 /\ unused' = unused + 1
  /\ UNCHANGED <<full, stopped>>

Next == Put \/ Use \/ Forget \/ Stop \/ Wait

Spec == Init /\ [][Next]_cell
=============================================================================
