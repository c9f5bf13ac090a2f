-------------------------- MODULE MCEveryCallReturns --------------------------
(* The calls that wait for another thread, one machine at a time: reads of the
   range cache that wait for a fetch, calls of the H.264 decoder that wait for
   a worker of its pool, and slices that wait for a batch of rows.  Each must
   return, under the fairness that its module states. *)
EXTENDS MCH264Decoder

VARIABLES machine,
          (* of the cache *)
          blocks, next_recency, locked, ready, failed, discarded, clears,
          calls, pc, request, cursor, last, span, done, waiting, buffer, returned,
          (* of the slices *)
          size, mode, next_slice_id, first_slice_id, cavlc_slice_id, cells,
          completed, deblock, retained, image, slice, steps, pending, in_flight,
          reusable, pictures, errors_met

Read(o, n) == [kind |-> "read", offset |-> o, length |-> n]
Prefetch(o, n) == [kind |-> "prefetch", offset |-> o, length |-> n]

Readers == {1, 2}
Cache == INSTANCE RangeCache WITH
  Threads <- Readers, Length <- 3, BlockSize <- 1, MaxBlocks <- 2, MaxCalls <- 1, MaxClears <- 1,
  Requests <- {Read(0, 3), Read(1, 1), Prefetch(0, 3)}, result <- returned

cacheVars == <<blocks, next_recency, locked, ready, failed, discarded, clears,
               calls, pc, request, cursor, last, span, done, waiting, buffer, returned>>

\* Slices of several batches, with a worker and without.
Executed(executor) ==
  [executor |-> executor, large |-> TRUE, entropy |-> "Cabac", constrained |-> FALSE]
Slices == INSTANCE SliceReconstruction WITH
  Sizes <- {[width |-> 1, height |-> 3]}, Modes <- {Executed("Parallel"), Executed("Pipeline")},
  MaxSliceId <- 2, BatchRows <- 1, SeekBatchRows <- 2, MaxPictures <- 1, MaxFaults <- 1,
  todo <- steps, faults <- errors_met

sliceVars ==
  <<size, mode, next_slice_id, first_slice_id, cavlc_slice_id, cells, completed,
    deblock, retained, image, slice, steps, pending, in_flight, reusable, pictures,
    errors_met>>
mcVars == <<machine, vars, cacheVars, sliceVars>>

MCInit ==
  /\ machine \in {"cache", "decoder", "slices"}
  /\ Init /\ Cache!Init /\ Slices!SliceInit
  /\ machine # "decoder" => parallelism = Serial
  /\ machine # "slices" => mode = Executed("Parallel")

ReaderSteps(t) == machine = "cache" /\ Cache!Step(t) /\ UNCHANGED <<machine, vars, sliceVars>>
DecoderSteps == machine = "decoder" /\ Step /\ UNCHANGED <<machine, cacheVars, sliceVars>>
WorkerSteps ==
  machine = "decoder" /\ WorkerAnswers /\ UNCHANGED <<machine, cacheVars, sliceVars>>
SliceSteps ==
  /\ machine = "slices" /\ (Slices!Parse \/ Slices!SliceStep)
  /\ UNCHANGED <<machine, vars, cacheVars>>
BatchSteps == machine = "slices" /\ Slices!Worker /\ UNCHANGED <<machine, vars, cacheVars>>

MCNext ==
  \/ machine = "cache" /\ Cache!Next /\ UNCHANGED <<machine, vars, sliceVars>>
  \/ machine = "decoder" /\ Next /\ UNCHANGED <<machine, cacheVars, sliceVars>>
  \/ machine = "slices" /\ Slices!SliceNext /\ UNCHANGED <<machine, vars, cacheVars>>

\* The fairness of the FairSpecs of RangeCache, H264Decoder and SliceReconstruction.
MCFairSpec ==
  /\ MCInit /\ [][MCNext]_mcVars
  /\ \A t \in Readers : SF_mcVars(ReaderSteps(t))
  /\ WF_mcVars(DecoderSteps) /\ WF_mcVars(WorkerSteps)
  /\ WF_mcVars(SliceSteps) /\ WF_mcVars(BatchSteps)

\* No call waits for ever: a reader whose fetch, or whose neighbour's fetch, fails
\* wakes up (cache.rs:304-360), and no call waits for a worker that has nothing to
\* do (decoder.rs:1055-1066).
EveryCallComesBack == EveryCallReturns /\ Cache!EveryCallReturns

\* Every slice call returns, whether its batches succeed or fail.
EverySliceReturns == Slices!EverySliceReturns
===============================================================================
