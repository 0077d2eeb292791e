----------------------------- MODULE MCProcessor -----------------------------
(* Small instances of Processor for TLC. *)
EXTENDS Processor

CONSTANTS a, b, r1, r2

E(f, r, p, o) == [folder |-> f, relativePath |-> r, priority |-> p, offset |-> o]

\* Nothing (a webhook without a path), one folder, two folders at once.
SafetyBatches == {<<>>, <<E(a, r1, 0, 0)>>, <<E(b, r1, 1, 0), E(a, r1, 1, 0)>>}

\* Both priorities and time-offsets; two files of one folder in one batch.
TimeBatches ==
  {<<E(a, r1, 0, 0)>>, <<E(b, r1, 1, 0)>>, <<E(b, r1, 0, 2)>>,
   <<E(a, r1, 1, 2), E(a, r2, 0, 0)>>}

LivenessBatches == {<<E(a, r1, 0, 0)>>, <<E(b, r1, 1, 0), E(a, r1, 0, 0)>>}

\* One file of one folder at a time: two triggers are enough to race.
RaceBatches == {<<E(a, r1, 0, 0)>>, <<E(a, r2, 0, 0)>>}
=============================================================================
