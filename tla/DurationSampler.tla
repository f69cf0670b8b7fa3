--------------------------- MODULE DurationSampler ---------------------------
(***************************************************************************)
(* The ring buffer of recent durations (utils/duration-sampler.ts), as     *)
(* operators on its three variables; its users keep the record.            *)
(***************************************************************************)
EXTENDS Integers

CONSTANT SampleCapacity  \* the number of durations kept

ASSUME SampleAssumption == SampleCapacity \in Nat \ {0}

Slots == 0 .. SampleCapacity - 1

\* A Float64Array starts with zeros.
EmptySampler ==
    [durations |-> [i \in Slots |-> 0], index |-> 0, count |-> 0]

\* Mutant of Record: the index stays at the end instead of wrapping.
RecordAtEnd(s, d) ==
    [durations |-> [s.durations EXCEPT ![s.index] = d],
     index     |-> IF s.index + 1 < SampleCapacity THEN s.index + 1 ELSE s.index,
     count     |-> IF s.count < SampleCapacity THEN s.count + 1 ELSE s.count]

Record(s, d) ==
    [durations |-> [s.durations EXCEPT ![s.index] = d],
     index     |-> (s.index + 1) % SampleCapacity,
     count     |-> IF s.count < SampleCapacity THEN s.count + 1 ELSE s.count]

\* The slots stats() reads.
Filled(s) == 0 .. s.count - 1

\* The slot that was written i records ago.
SlotAgo(s, i) == (s.index - 1 - i) % SampleCapacity
=============================================================================
