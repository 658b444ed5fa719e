--------------------------- MODULE MotorInterlock ---------------------------
(***************************************************************************)
(* What the electrical installation needs of the valve driver, and nothing  *)
(* more: at most one coil is driven, and after a coil is released another   *)
(* one may be driven only when Dead time units have passed.                 *)
(* (water_valve.rs, module comment: energising both motor directions "is    *)
(* electrically unsafe"; SETTLE_MS is there "to debounce the relay".)       *)
(***************************************************************************)
EXTENDS Naturals

CONSTANTS Coils,   \* the coils that exclude each other
          Dead     \* time every other coil must have been released

VARIABLES clock,   \* real time
          driven,  \* the coils that are driven
          fellAt   \* when each coil was last released

Init ==
  /\ clock = 0
  /\ driven = {}
  /\ fellAt = [c \in Coils |-> 0]

Pass ==
  /\ clock' = clock + 1
  /\ UNCHANGED <<driven, fellAt>>

Energise(c) ==
  /\ driven = {}
  /\ \A d \in Coils \ {c} : clock >= fellAt[d] + Dead
  /\ driven' = {c}
  /\ UNCHANGED <<clock, fellAt>>

Release(c) ==
  /\ driven = {c}
  /\ driven' = {}
  /\ fellAt' = [fellAt EXCEPT ![c] = clock]
  /\ UNCHANGED clock

Next == Pass \/ \E c \in Coils : Energise(c) \/ Release(c)

Spec == Init /\ [][Next]_<<clock, driven, fellAt>>
=============================================================================
