----------------------------- MODULE RangeCache -----------------------------
(***************************************************************************)
(* The block cache of decv-network (src/crates/decv-network/src/cache.rs): *)
(* threads call read_at, prefetch and clear on one CachedRangeInput.  A    *)
(* missing block is inserted as a Loading entry under the cache mutex and  *)
(* fetched outside it; readers of a Loading entry wait on that entry.      *)
(*                                                                         *)
(* An entry (an Arc<BlockEntry>) is identified by the recency taken when   *)
(* it is inserted: next_recency only grows, so no two insertions share it. *)
(* The source never changes and its byte at position p is p itself.        *)
(* Its length is at least maximum_blocks * block_size below 2^64, so that  *)
(* the checked u64 arithmetic of the code never fails.                     *)
(***************************************************************************)
EXTENDS Integers, Sequences, FiniteSets

CONSTANTS Threads,     \* threads sharing the input
          Length,      \* known length of the source, in bytes
          BlockSize,   \* RangeCacheConfig.block_size
          MaxBlocks,   \* RangeCacheConfig.maximum_blocks
          Requests,    \* read_at and prefetch calls the threads may make
          MaxCalls,    \* bound: calls made by each thread
          MaxClears    \* bound: calls of clear

Request == [kind : {"read", "prefetch"}, offset : Nat, length : Nat]

ASSUME ConfigAssumption ==
  /\ BlockSize \in Nat \ {0}
  /\ MaxBlocks \in Nat \ {0}
  /\ Length \in Nat
  /\ Requests \subseteq Request
  /\ MaxCalls \in Nat
  /\ MaxClears \in Nat

VARIABLES
  blocks,        \* CacheState.blocks: block index -> [entry, last_used]
  next_recency,  \* CacheState.next_recency
  locked,        \* holders of the cache mutex (at most one thread)
  ready,         \* entries in state Ready -> their bytes
  failed,        \* entries in state Failed
  discarded,     \* history: entries dropped by clear
  clears,        \* history: number of clear calls
  calls,         \* history: calls made by each thread
  pc,            \* where each thread is in get_block_through
  request,       \* the call each thread is executing, or executed last
  cursor,        \* block_index passed to get_block_through
  last,          \* requested_last passed to get_block_through
  span,          \* entries reserved by the call, for cursor, cursor+1, ...
  done,          \* how many entries of span are completed or failed
  waiting,       \* the entry a thread waits on
  buffer,        \* bytes a read has copied so far
  result         \* outcome of the last call of each thread

cacheVars == <<blocks, next_recency>>
entryVars == <<ready, failed>>
boundVars == <<discarded, clears>>
callVars  == <<calls, request, last>>
vars == <<blocks, next_recency, locked, ready, failed, discarded, clears,
          calls, pc, request, cursor, last, span, done, waiting, buffer, result>>

PC == {"idle", "lookup", "reserve", "wait", "fetch", "complete", "trim",
       "remove", "fail"}

----------
(* Offsets, blocks and entries *)

Least(a, b) == IF a <= b THEN a ELSE b

\* clipped_length: how much of a requested range lies inside the source.
Clipped(req) ==
  IF req.offset >= Length THEN 0 ELSE Least(Length - req.offset, req.length)

\* prefetch also clips to the blocks the cache can hold from the first one on.
\* Mutant: the window is measured from the offset, not from its first block.
WindowEndUnaligned(req) == req.offset + MaxBlocks * BlockSize

WindowEnd(req) == ((req.offset \div BlockSize) + MaxBlocks) * BlockSize

Requested(req) ==
  IF req.kind = "read" THEN Clipped(req)
  ELSE Least(Clipped(req), Least(WindowEnd(req), Length) - req.offset)

LastBlock(req) == (req.offset + Requested(req) - 1) \div BlockSize

\* The bytes of the source from lo up to but excluding hi.
SourceBytes(lo, hi) == [i \in 1 .. hi - lo |-> lo + i - 1]

BlockEnd(b) == Least((b + 1) * BlockSize, Length)

Settled == DOMAIN ready \cup failed

\* Mutant: eviction takes the oldest block even while it is being fetched.
OldestOfAll(b) ==
  /\ b \in DOMAIN blocks
  /\ \A c \in DOMAIN blocks : blocks[b].last_used <= blocks[c].last_used

\* The settled block evict_for_insert and trim_after_fetch pick first.
OldestSettled(b) ==
  /\ b \in DOMAIN blocks
  /\ blocks[b].entry \in Settled
  /\ \A c \in DOMAIN blocks :
       blocks[c].entry \in Settled => blocks[b].last_used <= blocks[c].last_used

Full == Cardinality(DOMAIN blocks) >= MaxBlocks
\* Mutant: trimming stops one block too early.
OverfullByTwo == Cardinality(DOMAIN blocks) > MaxBlocks + 1

Overfull == Cardinality(DOMAIN blocks) > MaxBlocks

WithoutBlocks(S) == [b \in DOMAIN blocks \ S |-> blocks[b]]

Through(t) == cursor[t] + Len(span[t]) - 1

----------
Init ==
  /\ blocks = [b \in {} |-> 0]
  /\ next_recency = 0
  /\ locked = {}
  /\ ready = [e \in {} |-> << >>]
  /\ failed = {}
  /\ discarded = {}
  /\ clears = 0
  /\ calls = [t \in Threads |-> 0]
  /\ pc = [t \in Threads |-> "idle"]
  /\ request = [t \in Threads |-> [kind |-> "read", offset |-> 0, length |-> 0]]
  /\ cursor = [t \in Threads |-> 0]
  /\ last = [t \in Threads |-> 0]
  /\ span = [t \in Threads |-> << >>]
  /\ done = [t \in Threads |-> 0]
  /\ waiting = [t \in Threads |-> 0]
  /\ buffer = [t \in Threads |-> << >>]
  /\ result = [t \in Threads |-> "none"]

----------
(* Calls *)

Starts(t, req) ==
  /\ pc[t] = "idle"
  /\ calls[t] < MaxCalls
  /\ calls' = [calls EXCEPT ![t] = @ + 1]
  /\ request' = [request EXCEPT ![t] = req]
  /\ buffer' = [buffer EXCEPT ![t] = << >>]
  /\ UNCHANGED <<cacheVars, locked, entryVars, boundVars, span, done, waiting>>

\* read_at and prefetch return at once when the clipped range is empty.
CallNothing(t, req) ==
  /\ Starts(t, req)
  /\ Clipped(req) = 0
  /\ result' = [result EXCEPT ![t] = "ok"]
  /\ UNCHANGED <<pc, cursor, last>>

Begin(t, req) ==
  /\ Starts(t, req)
  /\ Clipped(req) > 0
  /\ pc' = [pc EXCEPT ![t] = "lookup"]
  /\ cursor' = [cursor EXCEPT ![t] = req.offset \div BlockSize]
  /\ last' = [last EXCEPT ![t] = LastBlock(req)]
  /\ result' = [result EXCEPT ![t] = "none"]

\* clear: forgets every block, the ones being fetched included.
Clear ==
  /\ clears < MaxClears
  /\ locked = {}
  /\ blocks' = WithoutBlocks(DOMAIN blocks)
  /\ clears' = clears + 1
  /\ discarded' = discarded \cup {blocks[b].entry : b \in DOMAIN blocks}
  /\ UNCHANGED <<next_recency, locked, entryVars, callVars, pc, cursor, span,
                 done, waiting, buffer, result>>

----------
(* get_block_through, under the cache mutex *)

\* Mutant: a hit marks the block with a recency it does not take.
LookupHitUntaken(t) ==
  /\ pc[t] = "lookup"
  /\ locked = {}
  /\ cursor[t] \in DOMAIN blocks
  /\ blocks' = [blocks EXCEPT ![cursor[t]].last_used = next_recency]
  /\ waiting' = [waiting EXCEPT ![t] = blocks[cursor[t]].entry]
  /\ pc' = [pc EXCEPT ![t] = "wait"]
  /\ UNCHANGED <<next_recency, locked, entryVars, boundVars, callVars, cursor,
                 span, done, buffer, result>>

LookupHit(t) ==
  /\ pc[t] = "lookup"
  /\ locked = {}
  /\ cursor[t] \in DOMAIN blocks
  /\ blocks' = [blocks EXCEPT ![cursor[t]].last_used = next_recency]
  /\ next_recency' = next_recency + 1
  /\ waiting' = [waiting EXCEPT ![t] = blocks[cursor[t]].entry]
  /\ pc' = [pc EXCEPT ![t] = "wait"]
  /\ UNCHANGED <<locked, entryVars, boundVars, callVars, cursor, span, done,
                 buffer, result>>

\* A miss keeps the mutex while the span is reserved, one block after another.
LookupMiss(t) ==
  /\ pc[t] = "lookup"
  /\ locked = {}
  /\ cursor[t] \notin DOMAIN blocks
  /\ locked' = {t}
  /\ pc' = [pc EXCEPT ![t] = "reserve"]
  /\ span' = [span EXCEPT ![t] = << >>]
  /\ done' = [done EXCEPT ![t] = 0]
  /\ UNCHANGED <<cacheVars, entryVars, boundVars, callVars, cursor, waiting,
                 buffer, result>>

\* The next block of the span: below its end and not cached yet.
Reserving(t) ==
  /\ pc[t] = "reserve"
  /\ Len(span[t]) < MaxBlocks
  /\ Through(t) + 1 <= last[t]
  /\ Through(t) + 1 \notin DOMAIN blocks

\* evict_for_insert drops one settled block, the least recently used.
EvictForInsert(t) ==
  /\ Reserving(t)
  /\ Full
  /\ \E b \in DOMAIN blocks :
       /\ OldestSettled(b)
       /\ blocks' = WithoutBlocks({b})
  /\ UNCHANGED <<next_recency, locked, entryVars, boundVars, callVars, pc,
                 cursor, span, done, waiting, buffer, result>>

\* With every block in flight the cache overflows for a while.
Insert(t) ==
  /\ Reserving(t)
  /\ Full => ~ \E b \in DOMAIN blocks : OldestSettled(b)
  /\ blocks' = [b \in DOMAIN blocks \cup {Through(t) + 1} |->
                  IF b = Through(t) + 1
                  THEN [entry |-> next_recency, last_used |-> next_recency]
                  ELSE blocks[b]]
  /\ span' = [span EXCEPT ![t] = Append(@, next_recency)]
  /\ next_recency' = next_recency + 1
  /\ UNCHANGED <<locked, entryVars, boundVars, callVars, pc, cursor, done,
                 waiting, buffer, result>>

EndReserve(t) ==
  /\ pc[t] = "reserve"
  /\ \/ Len(span[t]) = MaxBlocks
     \/ Through(t) + 1 > last[t]
     \/ Through(t) + 1 \in DOMAIN blocks
  /\ locked' = {}
  /\ pc' = [pc EXCEPT ![t] = "fetch"]
  /\ UNCHANGED <<cacheVars, entryVars, boundVars, callVars, cursor, span, done,
                 waiting, buffer, result>>

----------
(* What read_at and prefetch do with the block get_block_through returns *)

Position(t) == request[t].offset + Len(buffer[t])

Count(t, bytes) ==
  Least(Len(bytes) - (Position(t) % BlockSize),
        Requested(request[t]) - Len(buffer[t]))

Copied(t, bytes) ==
  LET within == Position(t) % BlockSize
  IN  buffer[t] \o SubSeq(bytes, within + 1, within + Count(t, bytes))

\* read_at copies and goes on at the new position.
DeliverRead(t, bytes) ==
  /\ request[t].kind = "read"
  /\ buffer' = [buffer EXCEPT ![t] = Copied(t, bytes)]
  /\ cursor' = [cursor EXCEPT ![t] =
                  (Position(t) + Count(t, bytes)) \div BlockSize]
  /\ IF Len(buffer[t]) + Count(t, bytes) < Requested(request[t])
     THEN /\ pc' = [pc EXCEPT ![t] = "lookup"]
          /\ UNCHANGED result
     ELSE /\ pc' = [pc EXCEPT ![t] = "idle"]
          /\ result' = [result EXCEPT ![t] = "ok"]

\* prefetch goes on after the blocks this access has fetched.
DeliverPrefetch(t, fetched_through) ==
  /\ request[t].kind = "prefetch"
  /\ UNCHANGED buffer
  /\ IF fetched_through < last[t]
     THEN /\ cursor' = [cursor EXCEPT ![t] = fetched_through + 1]
          /\ pc' = [pc EXCEPT ![t] = "lookup"]
          /\ UNCHANGED result
     ELSE /\ pc' = [pc EXCEPT ![t] = "idle"]
          /\ result' = [result EXCEPT ![t] = "ok"]
          /\ UNCHANGED cursor

Deliver(t, bytes, fetched_through) ==
  DeliverRead(t, bytes) \/ DeliverPrefetch(t, fetched_through)

Fails(t) ==
  /\ pc' = [pc EXCEPT ![t] = "idle"]
  /\ result' = [result EXCEPT ![t] = "error"]
  /\ UNCHANGED <<buffer, cursor>>

\* BlockEntry::wait returns the entry's bytes or its error.
WaitReady(t) ==
  /\ pc[t] = "wait"
  /\ waiting[t] \in DOMAIN ready
  /\ Deliver(t, ready[waiting[t]], cursor[t])
  /\ UNCHANGED <<cacheVars, locked, entryVars, boundVars, callVars, span, done,
                 waiting>>

WaitFailed(t) ==
  /\ pc[t] = "wait"
  /\ waiting[t] \in failed
  /\ Fails(t)
  /\ UNCHANGED <<cacheVars, locked, entryVars, boundVars, callVars, span, done,
                 waiting>>

----------
(* fetch_blocks, outside the mutex except where it removes or trims *)

FetchOk(t) ==
  /\ pc[t] = "fetch"
  /\ pc' = [pc EXCEPT ![t] = "complete"]
  /\ UNCHANGED <<cacheVars, locked, entryVars, boundVars, callVars, cursor,
                 span, done, waiting, buffer, result>>

\* The fetcher fails or returns the wrong number of bytes.
FetchError(t) ==
  /\ pc[t] = "fetch"
  /\ pc' = [pc EXCEPT ![t] = "remove"]
  /\ UNCHANGED <<cacheVars, locked, entryVars, boundVars, callVars, cursor,
                 span, done, waiting, buffer, result>>

\* Mutant: every block of the span gets the first block of the response.
BlockBytesFirst(t, i) ==
  LET start == cursor[t] * BlockSize
  IN  SubSeq(SourceBytes(start, BlockEnd(Through(t))), 1,
             BlockEnd(cursor[t] + i - 1) - (cursor[t] + i - 1) * BlockSize)

\* The slice of the response that becomes the i-th block of the span.
BlockBytes(t, i) ==
  LET start    == cursor[t] * BlockSize
      response == SourceBytes(start, BlockEnd(Through(t)))
      b        == cursor[t] + i - 1
  IN  SubSeq(response, b * BlockSize - start + 1, BlockEnd(b) - start)

\* Each entry is completed in turn, which wakes its readers.
CompleteEntry(t) ==
  /\ pc[t] = "complete"
  /\ LET i == done[t] + 1 IN
       /\ ready' = [e \in DOMAIN ready \cup {span[t][i]} |->
                      IF e = span[t][i] THEN BlockBytes(t, i) ELSE ready[e]]
       /\ done' = [done EXCEPT ![t] = i]
       /\ pc' = [pc EXCEPT ![t] = IF i = Len(span[t]) THEN "trim" ELSE "complete"]
  /\ UNCHANGED <<cacheVars, locked, failed, boundVars, callVars, cursor, span,
                 waiting, buffer, result>>

Trimmable == Overfull /\ \E b \in DOMAIN blocks : OldestSettled(b)

\* trim_after_fetch holds the mutex from its first eviction to its last.
TrimEvict(t) ==
  /\ pc[t] = "trim"
  /\ locked \subseteq {t}
  /\ Overfull
  /\ \E b \in DOMAIN blocks :
       /\ OldestSettled(b)
       /\ blocks' = WithoutBlocks({b})
  /\ locked' = {t}
  /\ UNCHANGED <<next_recency, entryVars, boundVars, callVars, pc, cursor, span,
                 done, waiting, buffer, result>>

TrimDone(t) ==
  /\ pc[t] = "trim"
  /\ locked \subseteq {t}
  /\ ~ Trimmable
  /\ locked' = {}
  /\ Deliver(t, ready[span[t][1]], Through(t))
  /\ UNCHANGED <<cacheVars, entryVars, boundVars, callVars, span, done, waiting>>

\* Mutant: only the block asked for is removed, not the rest of the span.
RemoveFirstFailed(t) ==
  /\ pc[t] = "remove"
  /\ locked = {}
  /\ blocks' = WithoutBlocks({b \in {cursor[t]} \cap DOMAIN blocks :
                                blocks[b].entry = span[t][1]})
  /\ pc' = [pc EXCEPT ![t] = "fail"]
  /\ UNCHANGED <<next_recency, locked, entryVars, boundVars, callVars, cursor,
                 span, done, waiting, buffer, result>>

\* fail_blocks first removes the blocks that still hold this call's entries ...
RemoveFailed(t) ==
  /\ pc[t] = "remove"
  /\ locked = {}
  /\ blocks' = WithoutBlocks({b \in (cursor[t] .. Through(t)) \cap DOMAIN blocks :
                                blocks[b].entry = span[t][b - cursor[t] + 1]})
  /\ pc' = [pc EXCEPT ![t] = "fail"]
  /\ UNCHANGED <<next_recency, locked, entryVars, boundVars, callVars, cursor,
                 span, done, waiting, buffer, result>>

\* Mutant: the error returns after the first entry is failed.
FailFirstEntry(t) ==
  /\ pc[t] = "fail"
  /\ failed' = failed \cup {span[t][1]}
  /\ done' = [done EXCEPT ![t] = 1]
  /\ Fails(t)
  /\ UNCHANGED <<cacheVars, locked, ready, boundVars, callVars, span, waiting>>

\* ... then fails each entry in turn, which wakes its readers with the error.
FailEntry(t) ==
  /\ pc[t] = "fail"
  /\ failed' = failed \cup {span[t][done[t] + 1]}
  /\ done' = [done EXCEPT ![t] = @ + 1]
  /\ IF done[t] + 1 = Len(span[t]) THEN Fails(t)
     ELSE UNCHANGED <<pc, result, buffer, cursor>>
  /\ UNCHANGED <<cacheVars, locked, ready, boundVars, callVars, span, waiting>>

----------
Call(t) ==
  \E req \in Requests :
    CallNothing(t, req) \/ Begin(t, req)

Step(t) ==
  \/ LookupHit(t) \/ LookupMiss(t)
  \/ EvictForInsert(t) \/ Insert(t) \/ EndReserve(t)
  \/ WaitReady(t) \/ WaitFailed(t)
  \/ FetchOk(t) \/ FetchError(t)
  \/ CompleteEntry(t) \/ TrimEvict(t) \/ TrimDone(t)
  \/ RemoveFailed(t) \/ FailEntry(t)

Next == Clear \/ \E t \in Threads : Call(t) \/ Step(t)

Spec == Init /\ [][Next]_vars

\* A thread inside a call keeps running and a fetch eventually answers; when a
\* caller makes its next call, or clears the cache, is up to the application.
\* The mutex is fair: a thread that can take it again and again takes it.
FairSpec == Spec /\ \A t \in Threads : SF_vars(Step(t))

----------
(* Properties *)

EntryIds == 0 .. next_recency - 1

\* Type invariant: every variable has its type.
TypeOK ==
  /\ next_recency \in Nat
  /\ IsFiniteSet(DOMAIN blocks)
  /\ DOMAIN blocks \subseteq Nat
  /\ blocks \in [DOMAIN blocks -> [entry : EntryIds, last_used : EntryIds]]
  /\ locked \in SUBSET Threads
  /\ DOMAIN ready \subseteq EntryIds
  /\ ready \in [DOMAIN ready -> Seq(Nat)]
  /\ failed \subseteq EntryIds
  /\ discarded \subseteq EntryIds
  /\ clears \in Nat
  /\ calls \in [Threads -> Nat]
  /\ pc \in [Threads -> PC]
  /\ request \in [Threads -> Request]
  /\ cursor \in [Threads -> Nat]
  /\ last \in [Threads -> Nat]
  /\ span \in [Threads -> Seq(EntryIds)]
  /\ done \in [Threads -> Nat]
  /\ waiting \in [Threads -> Nat]
  /\ buffer \in [Threads -> Seq(Nat)]
  /\ result \in [Threads -> {"none", "ok", "error"}]

\* t reserved e and has not completed or failed it yet.
Owns(t, e) ==
  /\ pc[t] \in {"reserve", "fetch", "complete", "remove", "fail"}
  /\ \E i \in done[t] + 1 .. Len(span[t]) : span[t][i] = e

\* A block somebody waits on, or would wait on when asking for it, is either
\* answered already or being fetched by a thread that will answer it.  Nobody
\* is left sleeping on the condition variable of an entry without a request.
AwaitedBlockIsRequested ==
  /\ \A t \in Threads :
       pc[t] = "wait" /\ waiting[t] \notin Settled
         => \E u \in Threads \ {t} : Owns(u, waiting[t])
  /\ \A b \in DOMAIN blocks :
       blocks[b].entry \notin Settled
         => \E u \in Threads : Owns(u, blocks[b].entry)

\* "Concurrent reads for the same missing block share one fetch": the entry of
\* a block being fetched stays where the next reader finds it, whatever the
\* other threads insert, evict, trim or fail; only clear takes it out.
InFlightIsShared ==
  \A t \in Threads :
    pc[t] \in {"reserve", "fetch", "complete"} =>
      \A i \in done[t] + 1 .. Len(span[t]) :
        LET b == cursor[t] + i - 1 IN
          \/ span[t][i] \in discarded
          \/ b \in DOMAIN blocks /\ blocks[b].entry = span[t][i]

\* A failed fetch is not remembered: a failed entry is never found in the
\* cache, so the next read of the block asks the source again.
FailuresAreNotCached ==
  \A b \in DOMAIN blocks : blocks[b].entry \notin failed

\* Temporary overflow is temporary: with no fetch under way the cache holds at
\* most maximum_blocks blocks, in whatever order the fetches ended.
QuiescentCapacity ==
  (\A t \in Threads : pc[t] \in {"idle", "lookup", "wait"})
    => Cardinality(DOMAIN blocks) <= MaxBlocks

\* What read_at has copied so far are the bytes of the source from the offset
\* asked for, across block borders and spans, and all of them when it is ok.
ReadsAreExact ==
  \A t \in Threads : request[t].kind = "read" =>
    LET offset == request[t].offset IN
      /\ buffer[t] = SourceBytes(offset, offset + Len(buffer[t]))
      /\ result[t] = "ok" => Len(buffer[t]) = Clipped(request[t])

\* Left alone, a prefetch that returns ok leaves every block of its window in
\* the cache: its tail does not evict its start, nor what it found cached.
PrefetchKeepsWindow ==
  \A t \in Threads :
    LET alone == clears = 0 /\ \A u \in Threads \ {t} : calls[u] = 0
        done_prefetching == /\ request[t].kind = "prefetch"
                            /\ result[t] = "ok"
                            /\ Clipped(request[t]) > 0
    IN  alone /\ done_prefetching
          => (request[t].offset \div BlockSize) .. LastBlock(request[t])
               \subseteq DOMAIN blocks

\* Every call returns: no reader waits for ever on a fetch, a failed one or one
\* whose block was cleared meanwhile included.
EveryCallReturns == \A t \in Threads : pc[t] # "idle" ~> pc[t] = "idle"

=============================================================================
