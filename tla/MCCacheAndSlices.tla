--------------------------- MODULE MCCacheAndSlices ---------------------------
(* What threads share, one machine at a time: the range cache, with small sets
   of calls, and the small pictures whose slices a worker reconstructs in
   batches. *)
EXTENDS RangeCache, SliceReconstruction, TLC

SomeSizes == {[width |-> 2, height |-> 2]}
SomeModes ==
  {[executor |-> "Serial", large |-> FALSE, entropy |-> "Cavlc", constrained |-> FALSE],
   [executor |-> "Serial", large |-> FALSE, entropy |-> "Cabac", constrained |-> FALSE],
   [executor |-> "Parallel", large |-> TRUE, entropy |-> "Cabac", constrained |-> TRUE],
   [executor |-> "Pipeline", large |-> FALSE, entropy |-> "Cabac", constrained |-> FALSE]}

CONSTANTS t1, t2

VARIABLE machine

Read(o, n) == [kind |-> "read", offset |-> o, length |-> n]
Prefetch(o, n) == [kind |-> "prefetch", offset |-> o, length |-> n]

\* Five bytes in blocks of two: the last block is short.  The calls cross
\* blocks, start inside one, ask beyond the end and lie outside the source.
SharedRequests == {Read(3, 9), Prefetch(1, 9), Read(5, 1)}

Symmetry == Permutations(Threads)

mcVars == <<machine, vars, sliceVars>>

MCInit ==
  /\ machine \in {"cache", "slices"}
  /\ Init /\ SliceInit
  /\ machine = "cache" => mode = CHOOSE m \in Modes : TRUE

MCNext ==
  \/ machine = "cache" /\ Next /\ UNCHANGED <<machine, sliceVars>>
  \/ machine = "slices" /\ SliceNext /\ UNCHANGED <<machine, vars>>

MCSpec == MCInit /\ [][MCNext]_mcVars
===============================================================================
