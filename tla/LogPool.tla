------------------------------ MODULE LogPool -------------------------------
(***************************************************************************)
(* The worker pool of src/tefstd/log.c: the list of open loggers, workers  *)
(* that walk it, claim a logger, drain its queue through a private batch   *)
(* buffer and write the batch to the logger's file, and the owner of each  *)
(* logger that opens, writes, flushes and closes it.                       *)
(*                                                                         *)
(* The queue of a logger is the bounded queue LogQueue that LogRing is     *)
(* shown to implement.  A message is <<logger, n>> for the n-th message    *)
(* the queue accepted.  g_pool.lock protects only the short list           *)
(* operations, each of which is one action here.                           *)
(***************************************************************************)
EXTENDS Integers, Sequences, FiniteSets, SequencesExt, Stripping

CONSTANTS Loggers,     \* tefstd_logger_t objects
          FileLoggers, \* those with a path; the others write to the console
          Rotating,    \* file loggers with rotate_max_bytes > 0
          Workers,     \* threads the pool can have (TL_POOL_MAX_WORKERS)
          Cap,         \* slots of a queue
          Batch,       \* batch_size of every logger
          BufMax,      \* messages that fit into a worker's batch buffer
          MaxWrites,   \* bound on the number of writes
          Nil

ASSUME PoolAssumption ==
  /\ Rotating \subseteq FileLoggers /\ FileLoggers \subseteq Loggers /\ IsFiniteSet(Loggers)
  /\ Cap \in Nat /\ Cap >= 2 /\ Batch \in Nat \ {0} /\ BufMax \in Nat \ {0}
  /\ MaxWrites \in Nat /\ Nil \notin Loggers

VARIABLES
  phead, pnext,      \* g_pool.head and every logger's pool_next
  active, busy, fp,  \* logger flags; fp: is its FILE open
  queue, accepted, dropped,   \* logger's queue, messages it took, lost
  written, flushed,  \* file contents; how much of it reached the disk
  owner,             \* what the owner of the logger is doing
  started,           \* running workers
  pendingSpawn,      \* g_pool.pending_spawn
  wpc, wlg,          \* worker: next step, logger it points to (lg)
  batch, drained,    \* worker: batch buffer, messages drained of wlg
  didWork,           \* worker: did_work
  corrupt            \* freed memory was accessed: behaviour is undefined

listVars   == <<phead, pnext, active, owner>>
queueVars  == <<queue, accepted, dropped>>
fileVars   == <<fp, written, flushed>>
poolVars   == <<started, pendingSpawn>>
workerVars == <<wpc, wlg, batch, drained, didWork>>
vars == <<listVars, busy, queueVars, fileVars, poolVars, workerVars, corrupt>>

OwnerPC  == {"none", "opening", "open", "flushing", "unlinked", "waiting",
             "draining", "freed"}
WorkerPC == {"top", "check", "claim", "drain", "flush", "release",
             "next", "backlog"}
Message  == Loggers \X (1..MaxWrites)

Init ==
  /\ phead = Nil /\ pnext = [l \in Loggers |-> Nil]
  /\ active = [l \in Loggers |-> 0] /\ busy = [l \in Loggers |-> 0]
  /\ fp = [l \in Loggers |-> l \in FileLoggers]
  /\ queue = [l \in Loggers |-> <<>>]
  /\ accepted = [l \in Loggers |-> 0] /\ dropped = [l \in Loggers |-> 0]
  /\ written = [l \in Loggers |-> <<>>] /\ flushed = [l \in Loggers |-> 0]
  /\ owner = [l \in Loggers |-> "none"]
  /\ started = {} /\ pendingSpawn = 0
  /\ wpc = [w \in Workers |-> "top"] /\ wlg = [w \in Workers |-> Nil]
  /\ batch = [w \in Workers |-> <<>>] /\ drained = [w \in Workers |-> 0]
  /\ didWork = [w \in Workers |-> FALSE]
  /\ corrupt = FALSE
-----------------------------------------------------------------------------
(* The owner of a logger.                                                  *)

\* tefstd_log_open up to the insertion: tl_pool_ensure_started starts the
\* first worker, then the logger becomes active and the head of the list.
Open(l) ==
  /\ ~corrupt /\ owner[l] = "none"
  /\ IF started = {} THEN \E w \in Workers : started' = {w} ELSE UNCHANGED started
  /\ active' = [active EXCEPT ![l] = 1]
  /\ pnext'  = [pnext EXCEPT ![l] = phead]
  /\ phead'  = l
  /\ owner'  = [owner EXCEPT ![l] = "opening"]
  /\ UNCHANGED <<busy, queueVars, fileVars, pendingSpawn, workerVars, corrupt>>

\* tl_pool_maybe_grow; thrd_create may fail.
Grow(l) ==
  /\ ~corrupt /\ owner[l] = "opening"
  /\ owner' = [owner EXCEPT ![l] = "open"]
  /\ pendingSpawn' = 0
  /\ \/ pendingSpawn = 1 /\ \E w \in Workers \ started : started' = started \union {w}
     \/ UNCHANGED started
  /\ UNCHANGED <<phead, pnext, active, busy, queueVars, fileVars, workerVars, corrupt>>

Writes == FoldFunction(+, 0, accepted) + FoldFunction(+, 0, dropped)

\* tefstd_log_write: tl_enqueue with its hint for another worker.  Other
\* threads write while the owner flushes.
Write(l) ==
  /\ ~corrupt /\ owner[l] \in {"open", "flushing"} /\ Writes < MaxWrites
  /\ \/ /\ Len(queue[l]) < Cap
        /\ accepted' = [accepted EXCEPT ![l] = @ + 1]
        /\ queue' = [queue EXCEPT ![l] = Append(@, <<l, accepted[l] + 1>>)]
        /\ pendingSpawn' = IF Len(queue[l]) + 1 > Cap \div 2 THEN 1 ELSE pendingSpawn
        /\ UNCHANGED dropped
     \/ /\ Len(queue[l]) = Cap
        /\ dropped' = [dropped EXCEPT ![l] = @ + 1]
        /\ UNCHANGED <<accepted, queue, pendingSpawn>>
  /\ UNCHANGED <<listVars, busy, fileVars, started, workerVars, corrupt>>

FlushBegin(l) ==
  /\ ~corrupt /\ owner[l] = "open"
  /\ owner' = [owner EXCEPT ![l] = "flushing"]
  /\ UNCHANGED <<phead, pnext, active, busy, queueVars, fileVars, poolVars,
                 workerVars, corrupt>>

\* The loop of tefstd_log_flush ends at tail == head.
FlushEnd(l) ==
  /\ ~corrupt /\ owner[l] = "flushing" /\ queue[l] = <<>>
  /\ owner' = [owner EXCEPT ![l] = "open"]
  /\ flushed' = [flushed EXCEPT ![l] = IF fp[l] THEN Len(written[l]) ELSE @]
  /\ UNCHANGED <<phead, pnext, active, busy, queueVars, fp, written, poolVars,
                 workerVars, corrupt>>

\* Mutant: only the head of the list is ever unlinked.
Unlink_HeadOnly(l) ==
  /\ ~corrupt /\ owner[l] = "open"
  /\ owner' = [owner EXCEPT ![l] = "unlinked"]
  /\ phead' = IF phead = l THEN pnext[l] ELSE phead
  /\ UNCHANGED <<pnext, active, busy, queueVars, fileVars, poolVars, workerVars, corrupt>>

\* tefstd_log_close, first critical section: unlink l wherever it is.
Unlink(l) ==
  /\ ~corrupt /\ owner[l] = "open"
  /\ owner' = [owner EXCEPT ![l] = "unlinked"]
  /\ IF phead = l
     THEN phead' = pnext[l] /\ UNCHANGED pnext
     ELSE /\ pnext' = [m \in Loggers |-> IF pnext[m] = l /\ owner[m] \in {"opening", "open", "flushing"}
                                         THEN pnext[l] ELSE pnext[m]]
          /\ UNCHANGED phead
  /\ UNCHANGED <<active, busy, queueVars, fileVars, poolVars, workerVars, corrupt>>

Deactivate(l) ==
  /\ ~corrupt /\ owner[l] = "unlinked"
  /\ owner'  = [owner EXCEPT ![l] = "waiting"]
  /\ active' = [active EXCEPT ![l] = 0]
  /\ UNCHANGED <<phead, pnext, busy, queueVars, fileVars, poolVars, workerVars, corrupt>>

\* The spin on busy ends; the closing thread now drains by itself.
AwaitIdle(l) ==
  /\ ~corrupt /\ owner[l] = "waiting" /\ busy[l] = 0
  /\ owner' = [owner EXCEPT ![l] = "draining"]
  /\ UNCHANGED <<phead, pnext, active, busy, queueVars, fileVars, poolVars,
                 workerVars, corrupt>>

\* One call of tl_drain_logger (final), fclose and free.
DrainAndFree(l) ==
  LET n == IF Len(queue[l]) < Batch THEN Len(queue[l]) ELSE Batch
      done == IF fp[l] THEN written[l] \o SubSeq(queue[l], 1, n) ELSE written[l]
  IN /\ ~corrupt /\ owner[l] = "draining"
     /\ owner' = [owner EXCEPT ![l] = "freed"]
     /\ queue' = [queue EXCEPT ![l] = SubSeq(@, n + 1, Len(@))]
     /\ written' = [written EXCEPT ![l] = done]
     /\ flushed' = [flushed EXCEPT ![l] = IF fp[l] THEN Len(done) ELSE @]
     /\ fp' = [fp EXCEPT ![l] = FALSE]
     /\ UNCHANGED <<phead, pnext, active, busy, accepted, dropped, poolVars,
                    workerVars, corrupt>>
-----------------------------------------------------------------------------
(* tl_worker_main.                                                         *)

Lg(w) == wlg[w]
At(w, label) == ~corrupt /\ w \in started /\ wpc[w] = label
Goto(w, label) == wpc' = [wpc EXCEPT ![w] = label]
InList(w) == w \in started /\ wlg[w] # Nil         \* w dereferences wlg[w]
Sound(w) == InList(w) /\ owner[Lg(w)] # "freed"

\* Start of a pass: read the head of the list.
StartPass(w) ==
  /\ At(w, "top")
  /\ wlg' = [wlg EXCEPT ![w] = phead]
  /\ didWork' = [didWork EXCEPT ![w] = FALSE]
  /\ Goto(w, IF phead = Nil THEN "backlog" ELSE "check")
  /\ UNCHANGED <<listVars, busy, queueVars, fileVars, poolVars, batch, drained, corrupt>>

CheckActive(w) ==
  /\ At(w, "check") /\ Sound(w)
  /\ Goto(w, IF active[Lg(w)] = 1 THEN "claim" ELSE "next")
  /\ UNCHANGED <<listVars, busy, queueVars, fileVars, poolVars, wlg, batch,
                 drained, didWork, corrupt>>

\* Mutant: the claim sets busy without looking at it.
TryClaim_Blind(w) ==
  /\ At(w, "claim") /\ Sound(w)
  /\ busy' = [busy EXCEPT ![Lg(w)] = 1]
  /\ Goto(w, "drain")
  /\ UNCHANGED <<listVars, queueVars, fileVars, poolVars, wlg, batch, drained,
                 didWork, corrupt>>

TryClaim(w) ==
  /\ At(w, "claim") /\ Sound(w)
  /\ IF busy[Lg(w)] = 0
     THEN /\ busy' = [busy EXCEPT ![Lg(w)] = 1]
          /\ Goto(w, "drain")
     ELSE Goto(w, "next") /\ UNCHANGED busy
  /\ UNCHANGED <<listVars, queueVars, fileVars, poolVars, wlg, batch, drained,
                 didWork, corrupt>>

\* One round of the loop of tl_drain_logger: the message goes to the batch
\* buffer and leaves the queue.  When the buffer is full it is written out
\* first and the message after it; without a FILE the buffer stays full.
\* A CRITICAL message with sync_on_critical takes the buffer to the disk.
DrainOne(w) ==
  LET l == Lg(w)
      m == Head(queue[l])
      fits   == Len(batch[w]) < BufMax
      file   == IF fits \/ ~fp[l] THEN written[l] ELSE Append(written[l] \o batch[w], m)
      buffer == IF fits THEN Append(batch[w], m) ELSE IF fp[l] THEN <<>> ELSE batch[w]
  IN /\ At(w, "drain") /\ Sound(w) /\ drained[w] < Batch /\ queue[l] # <<>>
     /\ queue' = [queue EXCEPT ![l] = Tail(@)]
     /\ drained' = [drained EXCEPT ![w] = @ + 1]
     /\ \/ /\ written' = [written EXCEPT ![l] = file]
           /\ batch' = [batch EXCEPT ![w] = buffer]
           /\ UNCHANGED flushed
        \/ /\ fp[l]
           /\ written' = [written EXCEPT ![l] = file \o buffer]
           /\ batch' = [batch EXCEPT ![w] = <<>>]
           /\ flushed' = [flushed EXCEPT ![l] = Len(file \o buffer)]
     /\ UNCHANGED <<listVars, busy, accepted, dropped, fp, poolVars, wpc, wlg, didWork, corrupt>>

\* Mutant: used_io is not reset after the write.
WriteBatch_KeepBuffer(w) ==
  /\ At(w, "drain") /\ Sound(w) /\ (drained[w] = Batch \/ queue[Lg(w)] = <<>>)
  /\ written' = [written EXCEPT ![Lg(w)] = IF fp[Lg(w)] THEN @ \o batch[w] ELSE @]
  /\ didWork' = [didWork EXCEPT ![w] = @ \/ drained[w] > 0]
  /\ Goto(w, IF drained[w] > 0 THEN "flush" ELSE "release")
  /\ UNCHANGED <<listVars, busy, queueVars, fp, flushed, poolVars, wlg, batch, drained, corrupt>>

\* Mutant: only a full batch is followed by fflush.
WriteBatch_FlushFull(w) ==
  /\ At(w, "drain") /\ Sound(w) /\ (drained[w] = Batch \/ queue[Lg(w)] = <<>>)
  /\ IF fp[Lg(w)]
     THEN /\ written' = [written EXCEPT ![Lg(w)] = @ \o batch[w]]
          /\ batch' = [batch EXCEPT ![w] = <<>>]
     ELSE UNCHANGED <<written, batch>>
  /\ didWork' = [didWork EXCEPT ![w] = @ \/ drained[w] > 0]
  /\ Goto(w, IF drained[w] = Batch THEN "flush" ELSE "release")
  /\ UNCHANGED <<listVars, busy, queueVars, fp, flushed, poolVars, wlg, drained, corrupt>>

\* Mutant: a worker that found nothing goes on without releasing the logger.
WriteBatch_NoRelease(w) ==
  /\ At(w, "drain") /\ Sound(w) /\ (drained[w] = Batch \/ queue[Lg(w)] = <<>>)
  /\ IF fp[Lg(w)]
     THEN /\ written' = [written EXCEPT ![Lg(w)] = @ \o batch[w]]
          /\ batch' = [batch EXCEPT ![w] = <<>>]
     ELSE UNCHANGED <<written, batch>>
  /\ didWork' = [didWork EXCEPT ![w] = @ \/ drained[w] > 0]
  /\ Goto(w, IF drained[w] > 0 THEN "flush" ELSE "next")
  /\ UNCHANGED <<listVars, busy, queueVars, fp, flushed, poolVars, wlg, drained, corrupt>>

\* The loop of tl_drain_logger ends: it writes out whatever the buffer holds.
WriteBatch(w) ==
  /\ At(w, "drain") /\ Sound(w) /\ (drained[w] = Batch \/ queue[Lg(w)] = <<>>)
  /\ IF fp[Lg(w)]
     THEN /\ written' = [written EXCEPT ![Lg(w)] = @ \o batch[w]]
          /\ batch' = [batch EXCEPT ![w] = <<>>]
     ELSE UNCHANGED <<written, batch>>
  /\ didWork' = [didWork EXCEPT ![w] = @ \/ drained[w] > 0]
  /\ Goto(w, IF drained[w] > 0 THEN "flush" ELSE "release")
  /\ UNCHANGED <<listVars, busy, queueVars, fp, flushed, poolVars, wlg, drained, corrupt>>

\* fflush, then tl_rotate, whose fopen of the new file may fail.
FlushFile(w) ==
  LET l == Lg(w)
  IN /\ At(w, "flush") /\ Sound(w)
     /\ flushed' = [flushed EXCEPT ![l] = IF fp[l] THEN Len(written[l]) ELSE @]
     /\ \/ UNCHANGED fp
        \/ l \in Rotating /\ fp' = [fp EXCEPT ![l] = FALSE]
     /\ Goto(w, "release")
     /\ UNCHANGED <<listVars, busy, queueVars, written, poolVars, wlg, batch,
                    drained, didWork, corrupt>>

\* Mutant: busy stays set.
Release_KeepBusy(w) ==
  /\ At(w, "release") /\ Sound(w)
  /\ drained' = [drained EXCEPT ![w] = 0]
  /\ Goto(w, "next")
  /\ UNCHANGED <<listVars, busy, queueVars, fileVars, poolVars, wlg, batch, didWork, corrupt>>

Release(w) ==
  /\ At(w, "release") /\ Sound(w)
  /\ busy' = [busy EXCEPT ![Lg(w)] = 0]
  /\ drained' = [drained EXCEPT ![w] = 0]
  /\ Goto(w, "next")
  /\ UNCHANGED <<listVars, queueVars, fileVars, poolVars, wlg, batch, didWork, corrupt>>

FollowNext(w) ==
  /\ At(w, "next") /\ Sound(w)
  /\ wlg' = [wlg EXCEPT ![w] = pnext[Lg(w)]]
  /\ Goto(w, IF pnext[Lg(w)] # Nil THEN "check"
             ELSE IF didWork[w] THEN "top" ELSE "backlog")
  /\ UNCHANGED <<listVars, busy, queueVars, fileVars, poolVars, batch, drained,
                 didWork, corrupt>>

Listed == {l \in Loggers : owner[l] \in {"opening", "open", "flushing"}}

\* A pass without work: ask for one more worker if messages wait, and sleep.
CheckBacklog(w) ==
  /\ At(w, "backlog")
  /\ pendingSpawn' = IF /\ \E l \in Listed : active[l] = 1 /\ queue[l] # <<>>
                        /\ started # Workers
                     THEN 1 ELSE pendingSpawn
  /\ Goto(w, "top")
  /\ UNCHANGED <<listVars, busy, queueVars, fileVars, started, wlg, batch,
                 drained, didWork, corrupt>>

\* The worker reads or writes the memory of a logger that was freed.
UseAfterFree(w) ==
  /\ ~corrupt /\ InList(w) /\ wpc[w] \notin {"top", "backlog"}
  /\ owner[Lg(w)] = "freed"
  /\ corrupt' = TRUE
  /\ UNCHANGED <<listVars, busy, queueVars, fileVars, poolVars, workerVars>>
-----------------------------------------------------------------------------
OwnerStep(l) == \/ Grow(l) \/ FlushEnd(l) \/ Deactivate(l) \/ AwaitIdle(l)
                \/ DrainAndFree(l)

WorkerStep(w) == \/ StartPass(w) \/ CheckActive(w) \/ TryClaim(w) \/ DrainOne(w)
                 \/ WriteBatch(w) \/ FlushFile(w) \/ Release(w)
                 \/ FollowNext(w) \/ CheckBacklog(w) \/ UseAfterFree(w)

\* Nothing is known of a process after an access to freed memory: no action
\* is enabled once corrupt is set.
Next == \/ \E l \in Loggers : \/ Open(l) \/ Write(l) \/ FlushBegin(l)
                              \/ Unlink(l) \/ OwnerStep(l)
        \/ \E w \in Workers : WorkerStep(w)

Spec == Init /\ [][Next]_vars

\* A thread inside an API call keeps running, and workers poll for ever.
Fairness == /\ \A l \in Loggers : WF_vars(OwnerStep(l))
            /\ \A w \in Workers : WF_vars(WorkerStep(w))

FairSpec == Spec /\ Fairness
-----------------------------------------------------------------------------
TypeOK ==
  /\ phead \in Loggers \union {Nil} /\ pnext \in [Loggers -> Loggers \union {Nil}]
  /\ active \in [Loggers -> {0, 1}] /\ busy \in [Loggers -> {0, 1}]
  /\ fp \in [Loggers -> BOOLEAN]
  /\ queue \in [Loggers -> Seq(Message)] /\ written \in [Loggers -> Seq(Message)]
  /\ accepted \in [Loggers -> 0..MaxWrites] /\ dropped \in [Loggers -> 0..MaxWrites]
  /\ flushed \in [Loggers -> Nat]
  /\ owner \in [Loggers -> OwnerPC]
  /\ started \subseteq Workers /\ pendingSpawn \in {0, 1}
  /\ wpc \in [Workers -> WorkerPC] /\ wlg \in [Workers -> Loggers \union {Nil}]
  /\ batch \in [Workers -> Seq(Message)] /\ drained \in [Workers -> 0..Batch]
  /\ didWork \in [Workers -> BOOLEAN]
  /\ corrupt \in BOOLEAN

Draining(w) == wpc[w] \in {"drain", "flush", "release"}
Own(l, s) == Strip(s, (Loggers \ {l}) \X Nat)

\* Two workers never drain the same logger.
OneDrainer ==
  \A v, w \in Workers : Draining(v) /\ Draining(w) /\ v # w => wlg[v] # wlg[w]

\* The loggers a walk from g_pool.head meets.
Walk == LET at[n \in 0..Cardinality(Loggers)] ==
              IF n = 0 THEN phead
              ELSE IF at[n - 1] = Nil THEN Nil ELSE pnext[at[n - 1]]
        IN  {at[n] : n \in 0..Cardinality(Loggers)} \ {Nil}
\* The list holds exactly the loggers that are open: unlinking a logger in
\* any position, while others open and close, neither loses nor keeps one.
ListHoldsOpen == Walk = Listed

\* Until its owner closes it, every message a file logger accepted is in its
\* file, in the batch of the one worker that drains it, or still queued, in
\* that order, once: workers that take turns on a logger never lose, repeat
\* or reorder a message, whichever logger they drained before.
NothingLost ==
  \A l \in FileLoggers \ Rotating :
    owner[l] \in {"open", "flushing"} =>
      LET inBatch == {w \in Workers : Own(l, batch[w]) # <<>>}
      IN /\ Cardinality(inBatch) <= 1
         /\ \A w \in inBatch : Draining(w) /\ wlg[w] = l
         /\ Own(l, written[l])
              \o (IF inBatch = {} THEN <<>>
                  ELSE Own(l, batch[CHOOSE w \in inBatch : TRUE]))
              \o queue[l]
            = [n \in 1..accepted[l] |-> <<l, n>>]

\* Closing always ends: the spin on busy cannot be kept up by the workers.
CloseEnds ==
  \A l \in Loggers : owner[l] = "unlinked" ~> (owner[l] = "freed" \/ corrupt)

\* What an open file logger accepted reaches the disk without being flushed
\* by anybody, although workers may be few and one of them may skip a logger
\* that another has claimed.
EventuallyOnDisk ==
  \A l \in FileLoggers \ Rotating : \A n \in 1..MaxWrites :
    accepted[l] >= n ~> \/ corrupt \/ owner[l] \notin {"open", "opening", "flushing"}
                        \/ <<l, n>> \in ToSet(SubSeq(written[l], 1, flushed[l]))

\* A flush returns once nobody writes to the logger any more: its queue is
\* emptied by workers that do not know of the flush, in batches, although it
\* was full and they are busy with other loggers.
FlushReturns ==
  \A l \in Loggers : owner[l] = "flushing" ~> (owner[l] # "flushing" \/ corrupt)

\* log.c:586: the closing thread drains "while no worker touches" the logger.
CloserAlone ==
  \A l \in Loggers : owner[l] = "draining" =>
    \A w \in Workers : ~(wlg[w] = l /\ Draining(w))
=============================================================================
