----------------------------- MODULE MCSchedule -----------------------------
(***************************************************************************)
(* Schedule for TLC: hours of four minutes, days of three hours, and rules  *)
(* that share a minute, are days apart, or are disabled.                    *)
(***************************************************************************)
EXTENDS Schedule, SequencesExt

\* The loops of Selection compute what SelectSeq and FlattenSeq do.
SomeSeqs == UNION {[1 .. n -> 1 .. 3] : n \in 0 .. 3}

ASSUME LoopsCollect ==
  /\ \A s \in SomeSeqs, T \in SUBSET (1 .. 3) :
       SelectIn(s, T) = SelectSeq(s, LAMBDA x : x \in T)
  /\ \A n \in 0 .. 2 : \A ss \in [1 .. n -> SomeSeqs] : Joined(ss) = FlattenSeq(ss)

Sprinkler(h, m, d) ==
  [enabled |-> TRUE, hours |-> h, minutes |-> m, days_of_week |-> d,
   action |-> [kind |-> "switch"]]

WaterControl(on, h, m) ==
  [enabled |-> TRUE, hours |-> h, minutes |-> m, days_of_week |-> {},
   action |-> [kind |-> "water_control", on |-> on]]

SomeRules ==
  <<Sprinkler({0, 1}, {1}, {}),
    WaterControl(TRUE, {0}, {1}),
    [Sprinkler({0}, {2}, {}) EXCEPT !.enabled = FALSE],
    Sprinkler({0, 2}, {0, 3}, {1}),
    WaterControl(FALSE, {0, 2}, {3})>>
=============================================================================
