----------------------------- MODULE KernelLog ------------------------------
(***************************************************************************)
(* The kernel's own log, src/log.c: any thread calls tefkernel_log_write,  *)
(* which queues the message under a mutex; one log thread takes the whole  *)
(* queue, formats it through a batch buffer into a FILE and decides when   *)
(* to flush; the kernel opens and closes the log with tefkernel_log_init   *)
(* and tefkernel_log_cleanup, and may do so again.                         *)
(*                                                                         *)
(* Each critical section of the queue mutex is one action.  A thread that  *)
(* sleeps in pthread_cond_timedwait is at "waiting"; a signal moves it to  *)
(* "lock", where it competes for the mutex.  volatile running is read      *)
(* outside the mutex by the writers and by the thread's outer loop.        *)
(***************************************************************************)
EXTENDS Integers, Sequences, SequencesExt

CONSTANTS Writers,    \* threads that log
          QueueCap,   \* queue->capacity
          BufMax,     \* lines that fit into batch_buffer
          MaxLines,   \* bound on the messages each writer sends
          MaxInits    \* bound on the calls of tefkernel_log_init

ASSUME KernelLogAssumption ==
  /\ QueueCap \in Nat \ {0} /\ BufMax \in Nat \ {0}
  /\ MaxLines \in Nat /\ MaxInits \in Nat /\ "kernel" \notin Writers

VARIABLES
  running, fileOpen,      \* g_log_ctx.running, log_file # NULL
  queueLives,             \* mutex and condition variable are initialised
  queue,
  accepted, stopAt,       \* what push took; how much before running = 0
  file, synced,           \* content of log_file, length that was flushed
  tpc, list, buf, dirty, hasCritical,   \* the log thread and its locals
  kpc, inits,             \* the kernel thread
  wpc, wlevel, sentBy,    \* writers: next step, level of the message, count
  lost,                   \* accepted messages freed by log_queue_clear
  undefined               \* the destroyed mutex was locked; the model goes on
                          \* as if that push had been refused

queueVars  == <<queue, accepted>>
threadVars == <<tpc, list, buf, dirty, hasCritical>>
writerVars == <<wpc, wlevel, sentBy>>
kernelVars == <<kpc, inits, running, queueLives, stopAt>>
kernelLogVars == <<queueVars, fileOpen, file, synced, threadVars, writerVars,
                   kernelVars, lost, undefined>>

LogLine == [by : Writers \union {"kernel"}, n : Nat, error : BOOLEAN]

KernelInit ==
  /\ running = FALSE /\ fileOpen = FALSE /\ queueLives = FALSE
  /\ queue = <<>> /\ accepted = <<>> /\ stopAt = 0
  /\ file = <<>> /\ synced = 0
  /\ tpc = "none" /\ list = <<>> /\ buf = <<>> /\ dirty = FALSE
  /\ hasCritical = FALSE
  /\ kpc = "down" /\ inits = 0
  /\ wpc = [w \in Writers |-> "idle"] /\ wlevel = [w \in Writers |-> FALSE]
  /\ sentBy = [w \in Writers |-> 0]
  /\ lost = <<>> /\ undefined = FALSE
-----------------------------------------------------------------------------
\* Mutant: the message is queued without a signal.
Push_NoSignal(m) ==
  \/ /\ Len(queue) < QueueCap
     /\ queue' = Append(queue, m) /\ accepted' = Append(accepted, m)
     /\ UNCHANGED tpc
  \/ UNCHANGED <<queueVars, tpc>>

\* log_queue_push, the mutex held: refused when full or when malloc fails;
\* otherwise append and signal the log thread if it sleeps.
Push(m) ==
  \/ /\ Len(queue) < QueueCap
     /\ queue' = Append(queue, m) /\ accepted' = Append(accepted, m)
     /\ tpc' = IF tpc = "waiting" THEN "lock" ELSE tpc
  \/ UNCHANGED <<queueVars, tpc>>

(* tefkernel_log_write: look at running, then push.                        *)
Check(w) ==
  /\ wpc[w] = "idle" /\ sentBy[w] < MaxLines
  /\ sentBy' = [sentBy EXCEPT ![w] = @ + 1]
  /\ \E error \in BOOLEAN : wlevel' = [wlevel EXCEPT ![w] = error]
  /\ wpc' = [wpc EXCEPT ![w] = IF running THEN "push" ELSE "idle"]
  /\ UNCHANGED <<queueVars, fileOpen, file, synced, threadVars, kernelVars,
                 lost, undefined>>

Enqueue(w) ==
  /\ wpc[w] = "push"
  /\ wpc' = [wpc EXCEPT ![w] = "idle"]
  /\ IF queueLives
     THEN Push([by |-> w, n |-> sentBy[w], error |-> wlevel[w]]) /\ UNCHANGED undefined
     ELSE undefined' = TRUE /\ UNCHANGED <<queueVars, tpc>>
  /\ UNCHANGED <<fileOpen, file, synced, list, buf, dirty, hasCritical,
                 wlevel, sentBy, kernelVars, lost>>
-----------------------------------------------------------------------------
(* The log thread.                                                         *)

\* while (ctx->running)
TestRunning ==
  /\ tpc = "top"
  /\ tpc' = IF running THEN "lock" ELSE "final"
  /\ UNCHANGED <<queueVars, fileOpen, file, synced, list, buf, dirty,
                 hasCritical, writerVars, kernelVars, lost, undefined>>

\* The end of log_queue_pop_all_wait: take the whole list.
TakeAll ==
  /\ list' = queue /\ queue' = <<>>
  /\ hasCritical' = FALSE
  /\ tpc' = IF queue = <<>> THEN "idle" ELSE "batch"

\* log_queue_pop_all_wait, the mutex held: sleep or take.
WaitOrTake ==
  /\ tpc = "lock"
  /\ IF running /\ queue = <<>>
     THEN tpc' = "waiting" /\ UNCHANGED <<list, queue, hasCritical>>
     ELSE TakeAll
  /\ UNCHANGED <<accepted, fileOpen, file, synced, buf, dirty, writerVars,
                 kernelVars, lost, undefined>>

\* The wait ends after two seconds: break out of the loop and take the list.
TimeOut ==
  /\ tpc = "waiting"
  /\ TakeAll
  /\ UNCHANGED <<accepted, fileOpen, file, synced, buf, dirty, writerVars,
                 kernelVars, lost, undefined>>

\* Nothing to write: flush what an earlier batch left in the FILE.
IdleFlush ==
  /\ tpc = "idle"
  /\ tpc' = "top"
  /\ IF fileOpen /\ dirty THEN synced' = Len(file) /\ dirty' = FALSE
                          ELSE UNCHANGED <<synced, dirty>>
  /\ UNCHANGED <<queueVars, fileOpen, file, list, buf, hasCritical, writerVars,
                 kernelVars, lost, undefined>>

\* Mutant: a line that does not fit goes to the file ahead of the buffer.
FormatNode_Overtake ==
  /\ tpc = "batch" /\ list # <<>>
  /\ list' = Tail(list)
  /\ hasCritical' = (hasCritical \/ Head(list).error)
  /\ IF fileOpen
     THEN /\ dirty' = TRUE
          /\ IF Len(buf) < BufMax
             THEN buf' = Append(buf, Head(list)) /\ UNCHANGED file
             ELSE file' = Append(file, Head(list)) /\ UNCHANGED buf
     ELSE UNCHANGED <<buf, dirty, file>>
  /\ UNCHANGED <<queueVars, fileOpen, synced, tpc, writerVars, kernelVars,
                 lost, undefined>>

\* One node: append its line to batch_buffer, which is written out first
\* when the line does not fit.
FormatNode ==
  /\ tpc = "batch" /\ list # <<>>
  /\ list' = Tail(list)
  /\ hasCritical' = (hasCritical \/ Head(list).error)
  /\ IF fileOpen
     THEN /\ dirty' = TRUE
          /\ IF Len(buf) < BufMax
             THEN buf' = Append(buf, Head(list)) /\ UNCHANGED file
             ELSE file' = file \o buf /\ buf' = <<Head(list)>>
     ELSE UNCHANGED <<buf, dirty, file>>
  /\ UNCHANGED <<queueVars, fileOpen, synced, tpc, writerVars, kernelVars,
                 lost, undefined>>

\* Mutant: an error no longer forces a flush.
EndBatch_NoFlush ==
  /\ tpc = "batch" /\ list = <<>>
  /\ file' = IF fileOpen THEN file \o buf ELSE file
  /\ buf' = IF fileOpen THEN <<>> ELSE buf
  /\ tpc' = "top"
  /\ UNCHANGED <<queueVars, fileOpen, list, synced, dirty, hasCritical, writerVars,
                 kernelVars, lost, undefined>>

\* The end of a batch: write out the buffer, flush after an error.
EndBatch ==
  /\ tpc = "batch" /\ list = <<>>
  /\ file' = IF fileOpen THEN file \o buf ELSE file
  /\ buf' = IF fileOpen THEN <<>> ELSE buf
  /\ IF fileOpen /\ dirty /\ hasCritical
     THEN synced' = Len(file') /\ dirty' = FALSE
     ELSE UNCHANGED <<synced, dirty>>
  /\ tpc' = "top"
  /\ UNCHANGED <<queueVars, fileOpen, list, hasCritical, writerVars, kernelVars,
                 lost, undefined>>

\* Mutant: the thread returns without a last look at the queue.
FinalDrain_Skip ==
  /\ tpc = "final"
  /\ synced' = IF fileOpen THEN Len(file) ELSE synced
  /\ tpc' = "exited"
  /\ UNCHANGED <<queueVars, file, fileOpen, list, buf, dirty, hasCritical, writerVars,
                 kernelVars, lost, undefined>>

\* After the loop: log_queue_pop_all, write, flush, return.
FinalDrain ==
  /\ tpc = "final"
  /\ queue' = <<>>
  /\ IF fileOpen THEN file' = file \o queue /\ synced' = Len(file')
                 ELSE UNCHANGED <<file, synced>>
  /\ tpc' = "exited"
  /\ UNCHANGED <<accepted, fileOpen, list, buf, dirty, hasCritical, writerVars,
                 kernelVars, lost, undefined>>

ThreadStep == \/ TestRunning \/ WaitOrTake \/ IdleFlush \/ FormatNode
              \/ EndBatch \/ FinalDrain
-----------------------------------------------------------------------------
(* The kernel thread: tefkernel_log_init and tefkernel_log_cleanup.        *)

\* tefkernel_log_init up to running = 1; fopen may fail (console only).
Start ==
  /\ kpc = "down" /\ inits < MaxInits
  /\ inits' = inits + 1
  /\ queueLives' = TRUE /\ queue' = <<>> /\ accepted' = <<>> /\ stopAt' = 0
  /\ fileOpen' \in BOOLEAN /\ file' = <<>> /\ synced' = 0
  /\ running' = TRUE
  /\ kpc' = "starting"
  /\ UNCHANGED <<threadVars, writerVars, lost, undefined>>

\* pthread_create; the new thread has fresh locals.
CreateThread ==
  /\ kpc = "starting"
  /\ tpc' = "top" /\ list' = <<>> /\ buf' = <<>>
  /\ dirty' = FALSE /\ hasCritical' = FALSE
  /\ kpc' = "started"
  /\ UNCHANGED <<queueVars, fileOpen, file, synced, writerVars, inits, running,
                 queueLives, stopAt, lost, undefined>>

\* pthread_create fails: undo everything.
CreateFails ==
  /\ kpc = "starting"
  /\ running' = FALSE
  /\ fileOpen' = FALSE
  /\ queueLives' = FALSE
  /\ kpc' = "down"
  /\ UNCHANGED <<queueVars, file, synced, threadVars, writerVars, inits, stopAt,
                 lost, undefined>>

\* The message with which tefkernel_log_init ends, and the one with which
\* tefkernel_log_cleanup begins.
Announce(from, to) ==
  /\ kpc = from
  /\ Push([by |-> "kernel", n |-> inits, error |-> FALSE])
  /\ kpc' = to
  /\ UNCHANGED <<fileOpen, file, synced, list, buf, dirty, hasCritical, writerVars,
                 inits, running, queueLives, stopAt, lost, undefined>>

\* Mutant: running is cleared without waking the log thread.
Stop_NoBroadcast ==
  /\ kpc = "stopping"
  /\ running' = FALSE /\ stopAt' = Len(accepted)
  /\ kpc' = "joining"
  /\ UNCHANGED <<queueVars, fileOpen, file, synced, threadVars, writerVars, inits,
                 queueLives, lost, undefined>>

\* The critical section of cleanup: running = 0 and broadcast.
Stop ==
  /\ kpc = "stopping"
  /\ running' = FALSE /\ stopAt' = Len(accepted)
  /\ tpc' = IF tpc = "waiting" THEN "lock" ELSE tpc
  /\ kpc' = "joining"
  /\ UNCHANGED <<queueVars, fileOpen, file, synced, list, buf, dirty, hasCritical,
                 writerVars, inits, queueLives, lost, undefined>>

\* pthread_join, then fclose, which flushes.
JoinAndClose ==
  /\ kpc = "joining" /\ tpc = "exited"
  /\ tpc' = "none"
  /\ fileOpen' = FALSE
  /\ synced' = IF fileOpen THEN Len(file) ELSE synced
  /\ kpc' = "clearing"
  /\ UNCHANGED <<queueVars, file, list, buf, dirty, hasCritical, writerVars, inits,
                 running, queueLives, stopAt, lost, undefined>>

\* log_queue_clear, then log_queue_destroy.
ClearQueue ==
  /\ kpc = "clearing"
  /\ lost' = lost \o queue
  /\ queue' = <<>>
  /\ kpc' = "destroying"
  /\ UNCHANGED <<accepted, fileOpen, file, synced, threadVars, writerVars, inits,
                 running, queueLives, stopAt, undefined>>

DestroyQueue ==
  /\ kpc = "destroying"
  /\ queueLives' = FALSE
  /\ kpc' = "down"
  /\ UNCHANGED <<queueVars, fileOpen, file, synced, threadVars, writerVars, inits,
                 running, stopAt, lost, undefined>>

KernelStep == \/ CreateThread \/ CreateFails \/ Announce("started", "up")
              \/ Stop \/ JoinAndClose \/ ClearQueue \/ DestroyQueue

KernelNext == \/ \E w \in Writers : Check(w) \/ Enqueue(w)
              \/ ThreadStep \/ TimeOut
              \/ Start \/ Announce("up", "stopping") \/ KernelStep

KernelSpec == KernelInit /\ [][KernelNext]_kernelLogVars

\* Threads that can run do run.  Nothing is assumed of the timeout, of new
\* messages, or of the decision to open or close the log.
KernelFairSpec ==
  /\ KernelSpec
  /\ WF_kernelLogVars(ThreadStep)
  /\ WF_kernelLogVars(KernelStep)
  /\ \A w \in Writers : WF_kernelLogVars(Enqueue(w))
-----------------------------------------------------------------------------
ThreadRuns == tpc \notin {"none", "exited"}

KernelTypeOK ==
  /\ running \in BOOLEAN /\ fileOpen \in BOOLEAN /\ queueLives \in BOOLEAN
  /\ queue \in Seq(LogLine) /\ Len(queue) <= QueueCap
  /\ accepted \in Seq(LogLine) /\ stopAt \in 0..Len(accepted)
  /\ file \in Seq(LogLine) /\ synced \in 0..Len(file)
  /\ tpc \in {"none", "top", "lock", "waiting", "idle", "batch", "final", "exited"}
  /\ list \in Seq(LogLine) /\ buf \in Seq(LogLine) /\ Len(buf) <= BufMax
  /\ dirty \in BOOLEAN /\ hasCritical \in BOOLEAN
  /\ kpc \in {"down", "starting", "started", "up", "stopping", "joining",
              "clearing", "destroying"}
  /\ inits \in 0..MaxInits
  /\ wpc \in [Writers -> {"idle", "push"}] /\ wlevel \in [Writers -> BOOLEAN]
  /\ sentBy \in [Writers -> 0..MaxLines]
  /\ lost \in Seq(LogLine) /\ undefined \in BOOLEAN

\* While the log thread runs, file, buffer, taken list and queue together are
\* exactly what push accepted, in that order: batching, the buffer's overflow
\* and the final drain neither lose, repeat nor reorder a line.
InOrder ==
  ThreadRuns /\ fileOpen => file \o buf \o list \o queue = accepted

\* log.c:476: errors are on disk before the thread looks for more work, so a
\* crash while it sleeps never costs the line that explains the crash.
ErrorsOnDisk ==
  tpc \in {"top", "lock", "waiting", "idle"} /\ fileOpen =>
    \A i \in 1..Len(file) : file[i].error => i <= synced

\* Whatever was accepted before cleanup set running = 0 is in the file, and
\* flushed, when cleanup gives the queue up.
StoppedIsWritten ==
  [][kpc = "joining" /\ kpc' = "clearing" /\ fileOpen =>
       /\ IsPrefix(SubSeq(accepted, 1, stopAt), file)
       /\ stopAt <= synced']_kernelLogVars

\* The wake-up is never lost: a thread that sleeps has nothing to take and
\* has not been told to stop.
NoLostWakeup == tpc = "waiting" => running /\ queue = <<>>

\* tefkernel_log_cleanup returns, even if no wait ever times out.
CleanupEnds == kpc = "joining" ~> kpc = "down"

\* An error accepted while the log is up reaches the disk although the
\* periodic flush never happens.
ErrorReachesDisk ==
  \A w \in Writers : \A n \in 1..MaxLines :
    (\E i \in 1..Len(queue) :
        /\ queue[i] = [by |-> w, n |-> n, error |-> TRUE]
        /\ running /\ fileOpen /\ tpc # "none")
    ~> \E i \in 1..synced : file[i] = [by |-> w, n |-> n, error |-> TRUE]

\* log.c:484: the thread handles the messages that remain in the queue, so
\* none is left for log_queue_clear to free.
CleanupLosesNothing == lost = <<>>
=============================================================================
