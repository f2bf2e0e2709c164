--------------------------- MODULE LogPoolProofs ----------------------------
(***************************************************************************)
(* Theorems about LogPool, for any loggers, workers, capacities and bounds.*)
(*                                                                         *)
(* That a worker has its logger to itself comes from busy.  That nothing   *)
(* is lost needs more: what a worker's batch holds of a file logger was    *)
(* taken in this very round, so that it is gone before the next claim.     *)
(* That the list holds the open loggers is proved from the list as a       *)
(* sequence of distinct loggers, each leading to the next (LinkedList).    *)
(***************************************************************************)
EXTENDS LogPool, InductionProofs, FiniteSetTheorems

\* The loggers whose file is open until they are closed.
Kept == FileLoggers \ Rotating
Messages == Loggers \X Nat

PoolTypes ==
  /\ phead \in Loggers \union {Nil} /\ pnext \in [Loggers -> Loggers \union {Nil}]
  /\ busy \in [Loggers -> {0, 1}] /\ fp \in [Loggers -> BOOLEAN]
  /\ queue \in [Loggers -> Seq(Messages)] /\ written \in [Loggers -> Seq(Messages)]
  /\ accepted \in [Loggers -> Nat] /\ owner \in [Loggers -> OwnerPC]
  /\ wpc \in [Workers -> WorkerPC] /\ wlg \in [Workers -> Loggers \union {Nil}]
  /\ batch \in [Workers -> Seq(Messages)]
  /\ \A l \in Loggers : queue[l] \in Seq({l} \X Nat)

\* A worker that drains a logger has set its busy flag, and is the only one.
Claims ==
  /\ \A w \in Workers : Draining(w) => wlg[w] \in Loggers /\ busy[wlg[w]] = 1
  /\ OneDrainer

DrainsOf(w, l) == wpc[w] = "drain" /\ wlg[w] = l
Want(l) == [n \in 1..accepted[l] |-> <<l, n>>]

\* What is known of a file logger that does not rotate.
Orderly(l) ==
  /\ \A w \in Workers : Own(l, batch[w]) # <<>> => DrainsOf(w, l)
  /\ owner[l] # "freed" =>
       /\ fp[l]
       /\ \A w \in Workers : DrainsOf(w, l) =>
            (Own(l, written[l]) \o Own(l, batch[w])) \o queue[l] = Want(l)
       /\ (\A w \in Workers : ~DrainsOf(w, l)) => Own(l, written[l]) \o queue[l] = Want(l)

PoolInv == PoolTypes /\ Claims /\ \A l \in Kept : Orderly(l)

-----------------------------------------------------------------------------
LEMMA OwnFacts ==
  ASSUME NEW l \in Loggers, NEW s \in Seq(Messages)
  PROVE  /\ Own(l, s) \in Seq(Messages)
         /\ \A t \in Seq(Messages) : Own(l, s \o t) = Own(l, s) \o Own(l, t)
         /\ \A m \in Messages : Own(l, Append(s, m)) =
              IF m[1] = l THEN Append(Own(l, s), m) ELSE Own(l, s)
<1> DEFINE gone == (Loggers \ {l}) \X Nat
<1>1. \A u : Own(l, u) = Strip(u, gone) BY DEF Own
<1>2. \A m \in Messages : m \in gone <=> m[1] # l BY DEF Messages
<1> HIDE DEF gone
<1>3. Strip(s, gone) \in Seq(Messages) BY StripType
<1>4. \A t \in Seq(Messages) : Strip(s \o t, gone) = Strip(s, gone) \o Strip(t, gone) BY StripConcat
<1>5. \A m \in Messages : Strip(Append(s, m), gone) =
              IF m \in gone THEN Strip(s, gone) ELSE Append(Strip(s, gone), m)
  BY StripAppend
<1> QED BY <1>1, <1>2, <1>3, <1>4, <1>5

LEMMA OwnOfNothing == ASSUME NEW l PROVE Own(l, <<>>) = <<>>
BY StripEmpty DEF Own

\* One message more is wanted.
LEMMA WantGrows ==
  ASSUME NEW l \in Loggers, NEW a \in Nat
  PROVE  /\ [n \in 1..a |-> <<l, n>>] \in Seq(Messages)
         /\ Append([n \in 1..a |-> <<l, n>>], <<l, a + 1>>) = [n \in 1..(a+1) |-> <<l, n>>]
<1> DEFINE s == [n \in 1..a |-> <<l, n>>]  t == [n \in 1..(a+1) |-> <<l, n>>]  m == <<l, a+1>>
<1>1. m \in Messages /\ a + 1 \in Nat BY DEF Messages
<1>2. s \in [1..a -> Messages] /\ t \in [1..(a+1) -> Messages] BY DEF Messages
<1>3. s \in Seq(Messages) /\ Len(s) = a /\ t \in Seq(Messages) /\ Len(t) = a + 1
  BY <1>1, <1>2
<1>4. /\ Append(s, m) \in Seq(Messages) /\ Len(Append(s, m)) = a + 1 /\ Append(s, m)[a+1] = m
      /\ \A k \in 1..a : Append(s, m)[k] = s[k]
  BY <1>1, <1>3, AppendProperties
<1>5. \A k \in 1..(a+1) : Append(s, m)[k] = t[k]
  <2> SUFFICES ASSUME NEW k \in 1..(a+1) PROVE Append(s, m)[k] = t[k] OBVIOUS
  <2>1. CASE k = a + 1 BY <2>1, <1>4
  <2>2. CASE k # a + 1
    <3>1. k \in 1..a BY <2>2
    <3> QED BY <3>1, <1>4
  <2> QED BY <2>1, <2>2
<1> HIDE DEF s, t, m
<1>6. Append(s, m) = t BY <1>3, <1>4, <1>5, SeqEqual
<1> QED BY <1>3, <1>6 DEF s, t, m

LEMMA PoolInvInit == Init => PoolInv
<1> SUFFICES ASSUME Init PROVE PoolInv OBVIOUS
<1>1. PoolTypes
  <2>1. <<>> \in Seq(Messages) /\ \A l \in Loggers : <<>> \in Seq({l} \X Nat) BY EmptySeq
  <2> QED BY <2>1 DEF Init, PoolTypes, OwnerPC, WorkerPC
<1>2. Claims BY DEF Init, Claims, Draining, OneDrainer
<1>3. ASSUME NEW l \in Kept PROVE Orderly(l)
  <2>1. l \in Loggers /\ l \in FileLoggers BY PoolAssumption DEF Kept
  <2>2. queue[l] = <<>> /\ written[l] = <<>> /\ accepted[l] = 0 /\ fp[l]
        /\ \A w \in Workers : batch[w] = <<>> /\ wpc[w] = "top"
    BY <2>1 DEF Init
  <2>3. <<>> \in Seq(Messages) BY EmptySeq
  <2>4. Want(l) = <<>>
    <3>1. 1..0 = {} OBVIOUS
    <3> QED BY <2>2, <3>1 DEF Want
  <2>5. <<>> \o <<>> = <<>> BY <2>3, ConcatEmptySeq
  <2> QED BY <2>2, <2>3, <2>4, <2>5, OwnOfNothing DEF Orderly, DrainsOf
<1> QED BY <1>1, <1>2, <1>3 DEF PoolInv

-----------------------------------------------------------------------------
\* Steps that move no message and let nobody begin or stop to drain.
LEMMA QuietStep ==
  ASSUME PoolInv, PoolTypes',
         UNCHANGED <<queue, accepted, written, batch>>,
         \A l \in Loggers : owner'[l] # "freed" => owner[l] # "freed",
         \A l \in Kept : fp[l] => fp'[l],
         \A w \in Workers : Draining(w)' =>
           Draining(w) /\ wlg'[w] = wlg[w] /\ busy'[wlg[w]] = 1,
         \A w \in Workers : wpc'[w] = "drain" <=> wpc[w] = "drain"
  PROVE  PoolInv'
<1>1. Claims' BY DEF PoolInv, Claims, OneDrainer
<1>2. ASSUME NEW l \in Kept PROVE Orderly(l)'
  <2>1. l \in Loggers BY PoolAssumption DEF Kept
  <2>2. \A w \in Workers : DrainsOf(w, l)' <=> DrainsOf(w, l)
    BY DEF DrainsOf, Draining
  <2>3. \A s : Own(l, s)' = Own(l, s) BY DEF Own
  <2>4. Want(l)' = Want(l) BY DEF Want
  <2> QED BY <2>1, <2>2, <2>4 DEF PoolInv, Orderly
<1> QED BY <1>1, <1>2 DEF PoolInv

LEMMA OwnerQuiet ==
  ASSUME PoolInv, NEW l \in Loggers,
         \/ Open(l) \/ Grow(l) \/ FlushBegin(l) \/ FlushEnd(l) \/ Unlink(l)
         \/ Deactivate(l) \/ AwaitIdle(l)
  PROVE  PoolInv'
<1>1. /\ UNCHANGED <<queue, accepted, written, batch, fp, busy, wpc, wlg>>
      /\ owner[l] # "freed" /\ \E p \in OwnerPC : owner' = [owner EXCEPT ![l] = p]
  BY DEF Open, Grow, FlushBegin, FlushEnd, Unlink, Deactivate, AwaitIdle, OwnerPC, listVars,
         queueVars, fileVars, poolVars, workerVars
<1>2. phead' \in Loggers \union {Nil} /\ pnext' \in [Loggers -> Loggers \union {Nil}]
  <2>1. phead \in Loggers \union {Nil} /\ pnext \in [Loggers -> Loggers \union {Nil}]
    BY DEF PoolInv, PoolTypes
  <2>2. CASE Open(l) BY <2>1, <2>2 DEF Open
  <2>3. CASE Unlink(l) BY <2>1, <2>3 DEF Unlink
  <2>4. CASE Grow(l) \/ FlushBegin(l) \/ FlushEnd(l) \/ Deactivate(l) \/ AwaitIdle(l)
    BY <2>1, <2>4 DEF Grow, FlushBegin, FlushEnd, Deactivate, AwaitIdle, listVars
  <2> QED BY <2>2, <2>3, <2>4
<1>3. PoolTypes' BY <1>1, <1>2 DEF PoolInv, PoolTypes
<1>4. \A k \in Loggers : owner'[k] # "freed" => owner[k] # "freed" BY <1>1 DEF PoolInv, PoolTypes
<1>5. \A w \in Workers : Draining(w)' => Draining(w) /\ wlg'[w] = wlg[w] /\ busy'[wlg[w]] = 1
  BY <1>1 DEF PoolInv, Claims, Draining
<1> QED BY <1>1, <1>3, <1>4, <1>5, QuietStep

\* The worker steps that are quiet, Release among them: no other worker drains
\* the logger whose flag it clears.
LEMMA WorkerQuiet ==
  ASSUME PoolInv, NEW w \in Workers,
         \/ StartPass(w) \/ CheckActive(w) \/ FlushFile(w) \/ Release(w) \/ FollowNext(w)
         \/ CheckBacklog(w) \/ UseAfterFree(w) \/ (TryClaim(w) /\ busy[Lg(w)] # 0)
  PROVE  PoolInv'
<1>0. PoolTypes /\ Claims BY DEF PoolInv
<1>1. UNCHANGED <<phead, pnext, owner, queue, accepted, written, batch>>
  BY DEF StartPass, CheckActive, FlushFile, Release, FollowNext, CheckBacklog, UseAfterFree, TryClaim,
         listVars, queueVars, fileVars, poolVars, workerVars
<1>2. /\ wpc' \in [Workers -> WorkerPC] /\ wlg' \in [Workers -> Loggers \union {Nil}]
      /\ \A v \in Workers : v # w => wpc'[v] = wpc[v] /\ wlg'[v] = wlg[v]
      /\ wpc[w] = "drain" <=> wpc'[w] = "drain"
      /\ Draining(w)' => Draining(w) /\ wlg'[w] = wlg[w] /\ busy' = busy
      /\ busy' \in [Loggers -> {0, 1}] /\ fp' \in [Loggers -> BOOLEAN]
      /\ \A l \in Kept : fp'[l] = fp[l]
  <2>1. CASE StartPass(w)
    BY <1>0, <2>1 DEF StartPass, PoolTypes, At, Goto, WorkerPC, Draining, fileVars
  <2>2. CASE CheckActive(w)
    BY <1>0, <2>2 DEF CheckActive, PoolTypes, At, Goto, WorkerPC, Draining, fileVars
  <2>3. CASE FlushFile(w)
    <3>1. /\ wpc[w] = "flush" /\ wpc' = [wpc EXCEPT ![w] = "release"]
          /\ UNCHANGED <<busy, wlg>> /\ Lg(w) \in Loggers
          /\ fp' = fp \/ (Lg(w) \in Rotating /\ fp' = [fp EXCEPT ![Lg(w)] = FALSE])
      BY <1>0, <2>3 DEF FlushFile, Sound, InList, Lg, PoolTypes, At, Goto
    <3>2. fp' \in [Loggers -> BOOLEAN] BY <1>0, <3>1 DEF PoolTypes
    <3>3. \A l \in Kept : fp'[l] = fp[l] BY <1>0, <3>1, PoolAssumption DEF PoolTypes, Kept
    <3> QED BY <1>0, <3>1, <3>2, <3>3 DEF PoolTypes, WorkerPC, Draining
  <2>4. CASE Release(w)
    BY <1>0, <2>4 DEF Release, PoolTypes, At, Goto, WorkerPC, Draining, fileVars
  <2>5. CASE FollowNext(w)
    <3>1. Lg(w) \in Loggers BY <1>0, <2>5 DEF FollowNext, Sound, InList, Lg, PoolTypes
    <3>2. pnext[Lg(w)] \in Loggers \union {Nil} BY <1>0, <3>1 DEF PoolTypes
    <3> QED BY <1>0, <2>5, <3>2 DEF FollowNext, PoolTypes, At, Goto, WorkerPC, Draining, fileVars
  <2>6. CASE CheckBacklog(w)
    BY <1>0, <2>6 DEF CheckBacklog, PoolTypes, At, Goto, WorkerPC, Draining, fileVars
  <2>7. CASE UseAfterFree(w)
    BY <1>0, <2>7 DEF UseAfterFree, PoolTypes, Draining, fileVars, workerVars
  <2>8. CASE TryClaim(w) /\ busy[Lg(w)] # 0
    BY <1>0, <2>8 DEF TryClaim, PoolTypes, At, Goto, WorkerPC, Draining, fileVars
  <2> QED BY <2>1, <2>2, <2>3, <2>4, <2>5, <2>6, <2>7, <2>8
<1>3. \A v \in Workers : v # w /\ Draining(v) => busy'[wlg[v]] = 1
  <2>1. CASE Release(w)
    <3>1. wpc[w] = "release" /\ busy' = [busy EXCEPT ![wlg[w]] = 0] BY <2>1 DEF Release, At, Lg
    <3>2. Draining(w) BY <3>1 DEF Draining
    <3> QED BY <1>0, <3>1, <3>2 DEF Claims, OneDrainer, PoolTypes
  <2>2. CASE ~Release(w)
    <3>1. busy' = busy
      BY <2>2 DEF StartPass, CheckActive, FlushFile, FollowNext, CheckBacklog, UseAfterFree, TryClaim
    <3> QED BY <1>0, <3>1 DEF Claims
  <2> QED BY <2>1, <2>2
<1>4. PoolTypes' BY <1>0, <1>1, <1>2 DEF PoolTypes
<1>5. \A v \in Workers : Draining(v)' => Draining(v) /\ wlg'[v] = wlg[v] /\ busy'[wlg[v]] = 1
  BY <1>0, <1>2, <1>3 DEF Draining, Claims
<1> QED BY <1>1, <1>2, <1>4, <1>5, QuietStep

-----------------------------------------------------------------------------
\* A message more is wanted, and it stands at the end of the queue.
LEMMA WriteKeeps ==
  ASSUME PoolInv, NEW l \in Loggers, Write(l)
  PROVE  PoolInv'
<1>0. PoolTypes /\ Claims BY DEF PoolInv
<1>1. UNCHANGED <<phead, pnext, owner, written, batch, wpc, wlg, busy, fp>>
  BY DEF Write, listVars, fileVars, workerVars
<1>2. CASE accepted' = accepted /\ queue' = queue
  <2>1. PoolTypes' BY <1>0, <1>1, <1>2 DEF PoolTypes
  <2> QED BY <1>0, <1>1, <1>2, <2>1, QuietStep DEF Draining, Claims
<1>3. CASE /\ accepted' = [accepted EXCEPT ![l] = @ + 1]
           /\ queue' = [queue EXCEPT ![l] = Append(@, <<l, accepted[l] + 1>>)]
  <2> DEFINE m == <<l, accepted[l] + 1>>
  <2>1. accepted[l] \in Nat /\ m \in Messages /\ m \in {l} \X Nat BY <1>0 DEF PoolTypes, Messages
  <2> HIDE DEF m
  <2>2. /\ accepted' = [accepted EXCEPT ![l] = @ + 1] /\ queue' = [queue EXCEPT ![l] = Append(@, m)]
    BY <1>3 DEF m
  <2>3. queue[l] \in Seq(Messages) BY <1>0 DEF PoolTypes
  <2>4. Append(queue[l], m) \in Seq(Messages) BY <2>1, <2>3, AppendProperties
  <2>5. queue[l] \in Seq({l} \X Nat) BY <1>0 DEF PoolTypes
  <2>6. queue'[l] = Append(queue[l], m) /\ Append(queue[l], m) \in Seq({l} \X Nat)
    BY <1>0, <2>1, <2>2, <2>5, AppendProperties DEF PoolTypes
  <2>7. PoolTypes' BY <1>0, <1>1, <2>1, <2>2, <2>4, <2>6, SMTT(60) DEF PoolTypes
  <2>8. Claims' BY <1>0, <1>1 DEF Claims, OneDrainer, Draining
  <2>9. ASSUME NEW k \in Kept PROVE Orderly(k)'
    <3>1. k \in Loggers /\ Orderly(k) BY PoolAssumption DEF Kept, PoolInv
    <3>2. CASE k # l
      <4>1. queue'[k] = queue[k] /\ Want(k)' = Want(k) BY <1>0, <2>2, <3>1, <3>2 DEF PoolTypes, Want
      <4> QED BY <1>1, <3>1, <4>1 DEF Orderly, DrainsOf
    <3>3. CASE k = l
      <4>1. Want(l) \in Seq(Messages) /\ Want(l)' = Append(Want(l), m)
        <5>1. accepted'[l] = accepted[l] + 1 BY <1>0, <2>2 DEF PoolTypes
        <5> QED BY <2>1, <5>1, WantGrows DEF Want, m
      <4>2. ASSUME NEW s \in Seq(Messages), s \o queue[l] = Want(l)
            PROVE  s \o queue'[l] = Want(l)'
        <5>1. <<m>> \in Seq(Messages) BY <2>1
        <5>2. s \o Append(queue[l], m) = s \o (queue[l] \o <<m>>) BY <2>1, <2>3, AppendIsConcat
        <5>3. s \o (queue[l] \o <<m>>) = (s \o queue[l]) \o <<m>>
          <6> DEFINE q == queue[l]  e == <<m>>
          <6>1. q \in Seq(Messages) /\ e \in Seq(Messages) BY <2>3, <5>1
          <6> HIDE DEF q, e
          <6>2. (s \o q) \o e = s \o (q \o e) BY <6>1, ConcatAssociative
          <6> QED BY <6>2 DEF q, e
        <5>4. Want(l) \o <<m>> = Append(Want(l), m) BY <2>1, <4>1, AppendIsConcat
        <5> QED BY <2>6, <4>1, <4>2, <5>2, <5>3, <5>4
      <4>3. written[l] \in Seq(Messages) /\ Own(l, written[l]) \in Seq(Messages)
        BY <1>0, OwnFacts DEF PoolTypes
      <4>4. \A w \in Workers : Own(l, written[l]) \o Own(l, batch[w]) \in Seq(Messages)
        BY <1>0, <4>3, OwnFacts, ConcatProperties DEF PoolTypes
      <4>5. owner'[l] # "freed" =>
              /\ fp'[l]
              /\ \A w \in Workers : DrainsOf(w, l)' =>
                   (Own(l, written'[l]) \o Own(l, batch'[w])) \o queue'[l] = Want(l)'
              /\ (\A w \in Workers : ~DrainsOf(w, l)') => Own(l, written'[l]) \o queue'[l] = Want(l)'
        <5> SUFFICES ASSUME owner[l] # "freed" PROVE
              /\ fp[l]
              /\ \A w \in Workers : DrainsOf(w, l) =>
                   (Own(l, written[l]) \o Own(l, batch[w])) \o queue'[l] = Want(l)'
              /\ (\A w \in Workers : ~DrainsOf(w, l)) => Own(l, written[l]) \o queue'[l] = Want(l)'
          BY <1>1 DEF DrainsOf
        <5> QED BY <3>1, <3>3, <4>2, <4>3, <4>4 DEF Orderly
      <4> QED BY <1>1, <3>1, <3>3, <4>5 DEF Orderly, DrainsOf
    <3> QED BY <3>2, <3>3
  <2> QED BY <2>7, <2>8, <2>9 DEF PoolInv
<1> QED BY <1>2, <1>3 DEF Write

\* Of the logger that is freed nothing more is known; its leftovers are gone.
LEMMA DrainAndFreeKeeps ==
  ASSUME PoolInv, NEW l \in Loggers, DrainAndFree(l)
  PROVE  PoolInv'
<1>0. PoolTypes /\ Claims BY DEF PoolInv
<1> DEFINE n == IF Len(queue[l]) < Batch THEN Len(queue[l]) ELSE Batch
           done == IF fp[l] THEN written[l] \o SubSeq(queue[l], 1, n) ELSE written[l]
           rest == SubSeq(queue[l], n + 1, Len(queue[l]))
<1>1. /\ owner' = [owner EXCEPT ![l] = "freed"]
      /\ queue' = [queue EXCEPT ![l] = rest]
      /\ written' = [written EXCEPT ![l] = done] /\ fp' = [fp EXCEPT ![l] = FALSE]
      /\ UNCHANGED <<phead, pnext, busy, accepted, wpc, wlg, batch>>
  BY DEF DrainAndFree, workerVars
<1>2. \A S : queue[l] \in Seq(S) => rest \in Seq(S) /\ SubSeq(queue[l], 1, n) \in Seq(S)
  <2> SUFFICES ASSUME NEW S, queue[l] \in Seq(S)
               PROVE  rest \in Seq(S) /\ SubSeq(queue[l], 1, n) \in Seq(S) OBVIOUS
  <2>1. Len(queue[l]) \in Nat /\ n \in 0..Len(queue[l]) BY PoolAssumption, LenProperties
  <2>2. \A i \in 1..Len(queue[l]) : queue[l][i] \in S BY ElementOfSeq
  <2> HIDE DEF n
  <2>3. /\ 1 \in Int /\ n \in Int /\ n + 1 \in Int /\ Len(queue[l]) \in Int
        /\ \A i \in 1..n : queue[l][i] \in S
        /\ \A i \in (n+1)..Len(queue[l]) : queue[l][i] \in S
    BY <2>1, <2>2
  <2> QED BY <2>3, SubSeqProperties
<1>3. rest \in Seq(Messages) /\ done \in Seq(Messages)
  <2>1. queue[l] \in Seq(Messages) /\ written[l] \in Seq(Messages) BY <1>0 DEF PoolTypes
  <2>2. rest \in Seq(Messages) /\ SubSeq(queue[l], 1, n) \in Seq(Messages) BY <1>2, <2>1
  <2> QED BY <2>1, <2>2, ConcatProperties
<1> HIDE DEF n, done, rest
<1>4. PoolTypes'
  <2>1. rest \in Seq({l} \X Nat) BY <1>0, <1>2 DEF PoolTypes
  <2> QED BY <1>0, <1>1, <1>3, <2>1 DEF PoolTypes, OwnerPC
<1>5. Claims' BY <1>0, <1>1 DEF Claims, OneDrainer, Draining
<1>6. ASSUME NEW k \in Kept PROVE Orderly(k)'
  <2>1. k \in Loggers /\ Orderly(k) BY PoolAssumption DEF Kept, PoolInv
  <2>2. CASE k # l
    <3>1. queue'[k] = queue[k] /\ written'[k] = written[k] /\ fp'[k] = fp[k] /\ owner'[k] = owner[k]
          /\ Want(k)' = Want(k)
      BY <1>0, <1>1, <2>1, <2>2 DEF PoolTypes, Want
    <3> QED BY <1>1, <2>1, <3>1 DEF Orderly, DrainsOf
  <2>3. CASE k = l
    <3>1. owner'[l] = "freed" BY <1>0, <1>1 DEF PoolTypes
    <3> QED BY <1>1, <2>1, <2>3, <3>1 DEF Orderly, DrainsOf
  <2> QED BY <2>2, <2>3
<1> QED BY <1>4, <1>5, <1>6 DEF PoolInv

-----------------------------------------------------------------------------
\* The flag was clear: nobody drains the logger, and no batch has its messages.
LEMMA ClaimKeeps ==
  ASSUME PoolInv, NEW w \in Workers, TryClaim(w), busy[Lg(w)] = 0
  PROVE  PoolInv'
<1>0. PoolTypes /\ Claims BY DEF PoolInv
<1> DEFINE l == wlg[w]
<1>1. /\ wpc[w] = "claim" /\ wlg[w] # Nil /\ busy[l] = 0
      /\ busy' = [busy EXCEPT ![l] = 1] /\ wpc' = [wpc EXCEPT ![w] = "drain"]
      /\ UNCHANGED <<phead, pnext, owner, queue, accepted, fp, written, batch, wlg>>
  BY DEF TryClaim, At, Sound, InList, Goto, Lg, listVars, queueVars, fileVars
<1>2. l \in Loggers BY <1>0, <1>1 DEF PoolTypes
<1>3. PoolTypes' BY <1>0, <1>1, <1>2 DEF PoolTypes, WorkerPC
<1>4. \A v \in Workers : Draining(v) => wlg[v] # l BY <1>0, <1>1 DEF Claims
<1>5. \A v \in Workers : v # w => (Draining(v)' <=> Draining(v))
  BY <1>0, <1>1 DEF PoolTypes, Draining
<1>6. Claims'
  <2>1. \A v \in Workers : Draining(v)' => wlg'[v] \in Loggers /\ busy'[wlg'[v]] = 1
    BY <1>0, <1>1, <1>2, <1>5 DEF PoolTypes, Claims
  <2>2. OneDrainer' BY <1>0, <1>1, <1>4, <1>5 DEF Claims, OneDrainer
  <2> QED BY <2>1, <2>2 DEF Claims
<1>7. ASSUME NEW k \in Kept PROVE Orderly(k)'
  <2>1. k \in Loggers /\ Orderly(k) BY PoolAssumption DEF Kept, PoolInv
  <2>2. Want(k)' = Want(k) BY <1>1 DEF Want
  <2>3. \A v \in Workers : v # w => (DrainsOf(v, k)' <=> DrainsOf(v, k))
    BY <1>0, <1>1 DEF PoolTypes, DrainsOf
  <2>4. ~DrainsOf(w, k) BY <1>1 DEF DrainsOf
  <2>5. CASE k # l
    <3>1. ~DrainsOf(w, k)' BY <1>1, <2>5 DEF DrainsOf
    <3> QED BY <1>1, <2>1, <2>2, <2>3, <2>4, <3>1 DEF Orderly
  <2>6. CASE k = l
    <3>1. DrainsOf(w, k)' BY <1>0, <1>1, <2>6 DEF DrainsOf, PoolTypes
    <3>2. \A v \in Workers : ~DrainsOf(v, k) BY <1>4, <2>4, <2>6 DEF DrainsOf, Draining
    <3>3. Own(k, batch[w]) = <<>> BY <2>1, <3>2 DEF Orderly
    <3>4. Own(k, written[k]) \o <<>> = Own(k, written[k])
      <4>1. Own(k, written[k]) \in Seq(Messages) BY <1>0, <2>1, OwnFacts DEF PoolTypes
      <4> QED BY <4>1, ConcatEmptySeq
    <3>5. \A v \in Workers : DrainsOf(v, k)' => v = w BY <2>3, <3>2
    <3> QED BY <1>1, <2>1, <2>2, <3>1, <3>2, <3>3, <3>4, <3>5 DEF Orderly
  <2> QED BY <2>5, <2>6
<1> QED BY <1>3, <1>6, <1>7 DEF PoolInv

\* Moving the first message of the queue to the end of what precedes the queue.
LEMMA MoveFirst ==
  ASSUME NEW s \in Seq(Messages), NEW q \in Seq(Messages), q # <<>>
  PROVE  Append(s, Head(q)) \o Tail(q) = s \o q
<1> DEFINE h == Head(q)  t == Tail(q)  e == <<h>>
<1>1. h \in Messages /\ t \in Seq(Messages) BY HeadTailProperties
<1>2. e \in Seq(Messages) BY <1>1
<1>3. e \o t = q
  <2>1. Len(q) \in Nat /\ Len(t) = Len(q) - 1 /\ \A i \in 1..Len(t) : t[i] = q[i+1]
    BY LenProperties, HeadTailProperties
  <2>2. h = q[1] /\ Len(e) = 1 /\ e[1] = h OBVIOUS
  <2> HIDE DEF h, t, e
  <2>3. /\ e \o t \in Seq(Messages) /\ Len(e \o t) = Len(e) + Len(t)
        /\ \A i \in 1..(Len(e) + Len(t)) : (e \o t)[i] = IF i <= Len(e) THEN e[i] ELSE t[i - Len(e)]
    BY <1>1, <1>2, ConcatProperties
  <2>4. Len(e \o t) = Len(q) BY <2>1, <2>2, <2>3
  <2>5. \A i \in 1..Len(q) : (e \o t)[i] = q[i]
    <3> SUFFICES ASSUME NEW i \in 1..Len(q) PROVE (e \o t)[i] = q[i] OBVIOUS
    <3>1. (e \o t)[i] = IF i <= 1 THEN e[i] ELSE t[i - 1] BY <2>1, <2>2, <2>3
    <3>2. CASE i = 1 BY <2>2, <3>1, <3>2
    <3>3. CASE i # 1
      <4>1. i - 1 \in 1..Len(t) /\ (i - 1) + 1 = i /\ ~(i <= 1) BY <2>1, <3>3
      <4>2. t[i - 1] = q[(i - 1) + 1] BY <2>1, <4>1
      <4> QED BY <3>1, <4>1, <4>2
    <3> QED BY <3>2, <3>3
  <2> QED BY <2>3, <2>4, <2>5, SeqEqual
<1>4. Append(s, h) = s \o e BY <1>1, AppendIsConcat
<1> HIDE DEF h, t, e
<1>5. (s \o e) \o t = s \o (e \o t) BY <1>1, <1>2, ConcatAssociative
<1> QED BY <1>3, <1>4, <1>5 DEF h, t

\* Appending to the second of two sequences appends to both together.
LEMMA ConcatAppend ==
  ASSUME NEW s \in Seq(Messages), NEW q \in Seq(Messages), NEW m \in Messages
  PROVE  s \o Append(q, m) = Append(s \o q, m)
<1> DEFINE e == <<m>>
<1>1. e \in Seq(Messages) /\ s \o q \in Seq(Messages) BY ConcatProperties
<1>2. Append(q, m) = q \o e /\ Append(s \o q, m) = (s \o q) \o e BY <1>1, AppendIsConcat
<1> HIDE DEF e
<1>3. (s \o q) \o e = s \o (q \o e) BY <1>1, ConcatAssociative
<1> QED BY <1>2, <1>3

LEMMA DrainOneKeeps ==
  ASSUME PoolInv, NEW w \in Workers, DrainOne(w)
  PROVE  PoolInv'
<1>0. PoolTypes /\ Claims BY DEF PoolInv
<1> DEFINE l == wlg[w]  q == queue[l]  m == Head(q)  b == batch[w]
<1>1. /\ wpc[w] = "drain" /\ l # Nil /\ owner[l] # "freed" /\ q # <<>>
      /\ queue' = [queue EXCEPT ![l] = Tail(@)]
      /\ UNCHANGED <<phead, pnext, owner, busy, accepted, fp, wpc, wlg>>
  BY DEF DrainOne, At, Sound, InList, Lg, listVars
<1>3. /\ l \in Loggers /\ q \in Seq(Messages) /\ b \in Seq(Messages) /\ written[l] \in Seq(Messages)
  BY <1>0, <1>1 DEF PoolTypes
<1> HIDE DEF q, b
<1>4. m \in Messages /\ Tail(q) \in Seq(Messages) /\ m[1] = l /\ Tail(q) \in Seq({l} \X Nat)
  <2>1. q \in Seq({l} \X Nat) /\ q # <<>> BY <1>0, <1>1, <1>3 DEF PoolTypes, q
  <2>2. m \in {l} \X Nat /\ Tail(q) \in Seq({l} \X Nat) BY <2>1, HeadTailProperties
  <2> QED BY <1>1, <1>3, <2>1, <2>2, HeadTailProperties DEF q
<1> HIDE DEF m
<1>5. /\ Append(b, m) \in Seq(Messages) /\ written[l] \o b \in Seq(Messages) /\ <<>> \in Seq(Messages)
      /\ Append(written[l] \o b, m) \in Seq(Messages)
  BY <1>3, <1>4, AppendProperties, ConcatProperties, EmptySeq
<1>2. \/ batch' = [batch EXCEPT ![w] = Append(b, m)] /\ written' = written
      \/ /\ fp[l] /\ written' = [written EXCEPT ![l] = Append(@ \o b, m)]
         /\ batch' = [batch EXCEPT ![w] = <<>>]
      \/ ~fp[l] /\ batch' = batch /\ written' = written
  <2> DEFINE x == Append(written[l] \o b, m)
  <2>1. written[l] \o Append(b, m) = x /\ x \o <<>> = x
    BY <1>3, <1>4, <1>5, ConcatAppend, ConcatEmptySeq
  <2>2. [written EXCEPT ![l] = written[l]] = written /\ [batch EXCEPT ![w] = batch[w]] = batch
    BY <1>0 DEF PoolTypes
  <2>3. DrainOne(w) /\ queue[l] = q /\ batch[w] = b BY DEF q, b
  <2> HIDE DEF x
  <2>4. CASE Len(batch[w]) < BufMax
    <3>1. \/ written' = [written EXCEPT ![l] = written[l]] /\ batch' = [batch EXCEPT ![w] = Append(b, m)]
          \/ /\ fp[l] /\ written' = [written EXCEPT ![l] = written[l] \o Append(b, m)]
             /\ batch' = [batch EXCEPT ![w] = <<>>]
      BY <2>3, <2>4 DEF DrainOne, Lg, m
    <3> QED BY <2>1, <2>2, <3>1 DEF x
  <2>5. CASE ~(Len(batch[w]) < BufMax) /\ fp[l]
    <3>1. /\ batch' = [batch EXCEPT ![w] = <<>>]
          /\ \/ written' = [written EXCEPT ![l] = x]
             \/ written' = [written EXCEPT ![l] = x \o <<>>]
      BY <2>3, <2>5 DEF DrainOne, Lg, m, x
    <3> QED BY <2>1, <2>5, <3>1 DEF x
  <2>6. CASE ~(Len(batch[w]) < BufMax) /\ ~fp[l]
    <3>1. written' = [written EXCEPT ![l] = written[l]] /\ batch' = [batch EXCEPT ![w] = batch[w]]
      BY <2>3, <2>6 DEF DrainOne, Lg
    <3> QED BY <2>2, <2>6, <3>1
  <2> QED BY <2>4, <2>5, <2>6
<1>6. /\ queue'[l] = Tail(q) /\ \A k \in Loggers : k # l => queue'[k] = queue[k] /\ written'[k] = written[k]
      /\ \A v \in Workers : v # w => batch'[v] = batch[v]
  BY <1>0, <1>1, <1>2, <1>3 DEF PoolTypes, q
<1>7. PoolTypes'
  <2>1. queue' \in [Loggers -> Seq(Messages)] /\ \A k \in Loggers : queue'[k] \in Seq({k} \X Nat)
    BY <1>0, <1>1, <1>3, <1>4 DEF PoolTypes, q
  <2>2. batch' \in [Workers -> Seq(Messages)]
    <3>1. \E c \in Seq(Messages) : batch' = [batch EXCEPT ![w] = c] \/ batch' = batch BY <1>2, <1>5
    <3> QED BY <1>0, <3>1 DEF PoolTypes
  <2>3. written' \in [Loggers -> Seq(Messages)]
    <3>1. written[l] \o b = written[l] \o batch[w] BY DEF b
    <3>2. \E c \in Seq(Messages) : written' = [written EXCEPT ![l] = c] \/ written' = written
      <4>1. CASE written' = written BY <1>5, <4>1
      <4>2. CASE written' = [written EXCEPT ![l] = Append(@ \o b, m)]
        <5>1. written' = [written EXCEPT ![l] = Append(written[l] \o b, m)] BY <1>0, <1>3, <4>2 DEF PoolTypes
        <5> QED BY <1>5, <5>1
      <4> QED BY <1>2, <4>1, <4>2
    <3> QED BY <1>0, <3>2 DEF PoolTypes
  <2> QED BY <1>0, <1>1, <2>1, <2>2, <2>3 DEF PoolTypes
<1>8. Claims' BY <1>0, <1>1 DEF Claims, OneDrainer, Draining
<1>9. ASSUME NEW k \in Kept PROVE Orderly(k)'
  <2>1. k \in Loggers /\ Orderly(k) BY PoolAssumption DEF Kept, PoolInv
  <2>2. Want(k)' = Want(k) BY <1>1 DEF Want
  <2>3. \A v \in Workers : DrainsOf(v, k)' <=> DrainsOf(v, k) BY <1>1 DEF DrainsOf
  <2>4. CASE k # l
    <3>1. queue'[k] = queue[k] /\ written'[k] = written[k] BY <1>6, <2>1, <2>4
    <3>2. ~DrainsOf(w, k) BY <2>4 DEF DrainsOf
    <3>3. Own(k, b) = <<>> BY <2>1, <3>2 DEF Orderly, b
    <3>4. Own(k, batch'[w]) = <<>>
      <4>1. Own(k, Append(b, m)) = <<>> BY <1>3, <1>4, <2>1, <2>4, <3>3, OwnFacts, ZenonT(60)
      <4>2. batch'[w] \in {Append(b, m), <<>>, b} BY <1>0, <1>2 DEF PoolTypes, b
      <4> QED BY <3>3, <4>1, <4>2, OwnOfNothing
    <3> QED BY <1>1, <1>6, <2>1, <2>2, <2>3, <3>1, <3>2, <3>4 DEF Orderly
  <2>5. CASE k = l
    <3>1. DrainsOf(w, l) BY <1>1 DEF DrainsOf
    <3>2. \A v \in Workers : DrainsOf(v, l) => v = w
      BY <1>0, <1>1 DEF Claims, OneDrainer, DrainsOf, Draining
    <3>3. fp[l] /\ (Own(l, written[l]) \o Own(l, b)) \o q = Want(l)
      BY <1>1, <2>1, <2>5, <3>1 DEF Orderly, b, q
    <3> DEFINE f == Own(l, written[l])  o == Own(l, b)
    <3>4. f \in Seq(Messages) /\ o \in Seq(Messages) BY <1>3, OwnFacts
    <3>5. Own(l, written'[l]) \o Own(l, batch'[w]) = Append(f \o o, m)
      <4>1. CASE batch' = [batch EXCEPT ![w] = Append(b, m)] /\ written' = written
        <5>1. batch'[w] = Append(b, m) BY <1>0, <4>1 DEF PoolTypes
        <5>2. Own(l, Append(b, m)) = Append(o, m) BY <1>3, <1>4, OwnFacts
        <5> HIDE DEF f, o
        <5>3. f \o Append(o, m) = Append(f \o o, m) BY <1>4, <3>4, ConcatAppend
        <5> QED BY <4>1, <5>1, <5>2, <5>3 DEF f
      <4>2. CASE /\ written' = [written EXCEPT ![l] = Append(@ \o b, m)]
                 /\ batch' = [batch EXCEPT ![w] = <<>>]
        <5>1. batch'[w] = <<>> /\ written'[l] = Append(written[l] \o b, m)
          BY <1>0, <1>3, <4>2 DEF PoolTypes
        <5>2. Own(l, written[l] \o b) = f \o o BY <1>3, OwnFacts
        <5>3. Own(l, Append(written[l] \o b, m)) = Append(f \o o, m)
          <6> DEFINE x == written[l] \o b
          <6>1. x \in Seq(Messages) /\ Own(l, x) = f \o o BY <1>5, <5>2
          <6> HIDE DEF x, f, o
          <6>2. Own(l, Append(x, m)) = Append(Own(l, x), m) BY <1>3, <1>4, <6>1, OwnFacts
          <6> QED BY <6>1, <6>2 DEF x
        <5> HIDE DEF f, o
        <5>4. f \o o \in Seq(Messages) BY <3>4, ConcatProperties
        <5>5. Append(f \o o, m) \in Seq(Messages) BY <1>4, <5>4, AppendProperties
        <5>6. Append(f \o o, m) \o <<>> = Append(f \o o, m) BY <5>5, ConcatEmptySeq
        <5> QED BY <5>1, <5>3, <5>6, OwnOfNothing
      <4> QED BY <1>2, <3>3, <4>1, <4>2
    <3> HIDE DEF f, o
    <3>6. f \o o \in Seq(Messages) BY <3>4, ConcatProperties
    <3>7. Append(f \o o, m) \o Tail(q) = (f \o o) \o q BY <1>1, <1>3, <3>6, MoveFirst DEF m, q
    <3>8. (f \o o) \o q = Want(l) BY <3>3 DEF f, o
    <3>9. (Own(l, written'[l]) \o Own(l, batch'[w])) \o queue'[l] = Want(l)
      BY <1>6, <3>5, <3>7, <3>8
    <3>10. \A v \in Workers : Own(l, batch'[v]) # <<>> => DrainsOf(v, l)
      BY <1>6, <2>1, <2>5, <3>1 DEF Orderly
    <3> QED BY <1>1, <2>2, <2>3, <2>5, <3>1, <3>2, <3>3, <3>9, <3>10 DEF Orderly
  <2> QED BY <2>4, <2>5
<1> QED BY <1>7, <1>8, <1>9 DEF PoolInv

\* The batch of the logger's only drainer goes behind what the file has.
LEMMA WriteBatchKeeps ==
  ASSUME PoolInv, NEW w \in Workers, WriteBatch(w)
  PROVE  PoolInv'
<1>0. PoolTypes /\ Claims BY DEF PoolInv
<1> DEFINE l == wlg[w]  b == batch[w]
<1>1. /\ wpc[w] = "drain" /\ l # Nil /\ owner[l] # "freed"
      /\ wpc' \in {[wpc EXCEPT ![w] = "flush"], [wpc EXCEPT ![w] = "release"]}
      /\ UNCHANGED <<phead, pnext, owner, busy, queue, accepted, fp, wlg>>
  BY DEF WriteBatch, At, Goto, Sound, InList, Lg, listVars, queueVars
<1>2. \/ /\ fp[l] /\ written' = [written EXCEPT ![l] = @ \o b]
         /\ batch' = [batch EXCEPT ![w] = <<>>]
      \/ ~fp[l] /\ batch' = batch /\ written' = written
  BY DEF WriteBatch, Lg
<1>3. l \in Loggers /\ b \in Seq(Messages) /\ written[l] \in Seq(Messages) /\ queue[l] \in Seq(Messages)
  BY <1>0, <1>1 DEF PoolTypes
<1>4. written[l] \o b \in Seq(Messages) /\ <<>> \in Seq(Messages) BY <1>3, ConcatProperties, EmptySeq
<1>5. /\ ~DrainsOf(w, l)' /\ \A v \in Workers : v # w => wpc'[v] = wpc[v] /\ batch'[v] = batch[v]
      /\ \A k \in Loggers : k # l => written'[k] = written[k]
      /\ wpc'[w] # "drain"
  BY <1>0, <1>1, <1>2 DEF PoolTypes, DrainsOf
<1>6. PoolTypes'
  <2>1. wpc' \in [Workers -> WorkerPC] BY <1>0, <1>1 DEF PoolTypes, WorkerPC
  <2>2. batch' \in [Workers -> Seq(Messages)] BY <1>0, <1>2, <1>4 DEF PoolTypes
  <2>3. written' \in [Loggers -> Seq(Messages)]
    <3>1. CASE written' = written BY <1>0, <3>1 DEF PoolTypes
    <3>2. CASE written' = [written EXCEPT ![l] = @ \o b]
      <4>1. written' = [written EXCEPT ![l] = written[l] \o b] BY <1>0, <1>3, <3>2 DEF PoolTypes
      <4> QED BY <1>0, <1>4, <4>1 DEF PoolTypes
    <3> QED BY <1>2, <3>1, <3>2
  <2> QED BY <1>0, <1>1, <2>1, <2>2, <2>3 DEF PoolTypes
<1>7. Claims'
  <2>1. \A v \in Workers : Draining(v)' => Draining(v) BY <1>0, <1>1, <1>5 DEF Draining
  <2> QED BY <1>0, <1>1, <2>1 DEF Claims, OneDrainer
<1>8. ASSUME NEW k \in Kept PROVE Orderly(k)'
  <2>1. k \in Loggers /\ Orderly(k) BY PoolAssumption DEF Kept, PoolInv
  <2>2. Want(k)' = Want(k) BY <1>1 DEF Want
  <2>3. \A v \in Workers : v # w => (DrainsOf(v, k)' <=> DrainsOf(v, k)) BY <1>1, <1>5 DEF DrainsOf
  <2>4. ~DrainsOf(w, k)' BY <1>5 DEF DrainsOf
  <2>5. CASE k # l
    <3>1. ~DrainsOf(w, k) BY <2>5 DEF DrainsOf
    <3>2. Own(k, b) = <<>> BY <2>1, <3>1 DEF Orderly
    <3>3. batch'[w] \in {<<>>, b} BY <1>0, <1>2 DEF PoolTypes
    <3>4. Own(k, batch'[w]) = <<>> BY <3>2, <3>3, OwnOfNothing
    <3> QED BY <1>1, <1>5, <2>1, <2>2, <2>3, <2>4, <2>5, <3>1, <3>4 DEF Orderly
  <2>6. CASE k = l
    <3>1. DrainsOf(w, l) BY <1>1 DEF DrainsOf
    <3>2. \A v \in Workers : DrainsOf(v, l) => v = w
      BY <1>0, <1>1 DEF Claims, OneDrainer, DrainsOf, Draining
    <3>3. fp[l] /\ (Own(l, written[l]) \o Own(l, b)) \o queue[l] = Want(l)
      BY <1>1, <2>1, <2>6, <3>1 DEF Orderly
    <3>4. batch'[w] = <<>> /\ written'[l] = written[l] \o b BY <1>0, <1>2, <1>3, <3>3 DEF PoolTypes
    <3>5. Own(l, written'[l]) = Own(l, written[l]) \o Own(l, b)
      <4>1. Own(l, written[l] \o b) = Own(l, written[l]) \o Own(l, b) BY <1>3, OwnFacts
      <4> QED BY <3>4, <4>1
    <3>6. Own(l, written'[l]) \o queue'[l] = Want(l) BY <1>1, <3>3, <3>5
    <3>7. \A v \in Workers : ~DrainsOf(v, k)'
      <4>1. \A v \in Workers : v # w => ~DrainsOf(v, k) BY <2>6, <3>2
      <4> QED BY <2>3, <2>4, <4>1
    <3>8. \A v \in Workers : Own(l, batch'[v]) = <<>>
      BY <1>5, <2>1, <2>6, <3>2, <3>4, OwnOfNothing DEF Orderly
    <3> QED BY <1>1, <2>2, <2>6, <3>3, <3>6, <3>7, <3>8 DEF Orderly
  <2> QED BY <2>5, <2>6
<1> QED BY <1>6, <1>7, <1>8 DEF PoolInv

-----------------------------------------------------------------------------
LEMMA PoolInvStep == PoolInv /\ [Next]_vars => PoolInv'
<1> SUFFICES ASSUME PoolInv, [Next]_vars PROVE PoolInv' OBVIOUS
<1>1. CASE UNCHANGED vars
  <2>1. /\ UNCHANGED <<phead, pnext, owner, busy, queue, accepted, written, batch, fp, wpc, wlg>>
    BY <1>1 DEF vars, listVars, queueVars, fileVars, workerVars
  <2>2. PoolTypes' BY <2>1 DEF PoolInv, PoolTypes
  <2> QED BY <2>1, <2>2, QuietStep DEF PoolInv, Claims, Draining
<1>2. ASSUME NEW l \in Loggers,
             \/ Open(l) \/ Write(l) \/ FlushBegin(l) \/ Unlink(l) \/ OwnerStep(l)
      PROVE  PoolInv'
  BY <1>2, OwnerQuiet, WriteKeeps, DrainAndFreeKeeps DEF OwnerStep
<1>3. ASSUME NEW w \in Workers, WorkerStep(w) PROVE PoolInv'
  <2>1. CASE TryClaim(w)
    <3>1. CASE busy[Lg(w)] = 0 BY <2>1, <3>1, ClaimKeeps
    <3>2. CASE busy[Lg(w)] # 0 BY <2>1, <3>2, WorkerQuiet
    <3> QED BY <3>1, <3>2
  <2>2. CASE DrainOne(w) BY <2>2, DrainOneKeeps
  <2>3. CASE WriteBatch(w) BY <2>3, WriteBatchKeeps
  <2>4. CASE \/ StartPass(w) \/ CheckActive(w) \/ FlushFile(w) \/ Release(w) \/ FollowNext(w)
             \/ CheckBacklog(w) \/ UseAfterFree(w)
    BY <2>4, WorkerQuiet
  <2> QED BY <1>3, <2>1, <2>2, <2>3, <2>4 DEF WorkerStep
<1> QED BY <1>1, <1>2, <1>3 DEF Next

LEMMA PoolSafe == Spec => []PoolInv
BY PoolInvInit, PoolInvStep, PTL DEF Spec

\* Two workers never drain the same logger (the exchange of busy in
\* tl_worker_main).
THEOREM PoolOneDrainer == Spec => []OneDrainer
<1>1. PoolInv => OneDrainer BY DEF PoolInv, Claims
<1> QED BY <1>1, PoolSafe, PTL

\* Until its owner closes it, what a file logger accepted is in its file, in
\* the batch of the one worker that drains it, or queued, in that order, once.
THEOREM PoolNothingLost == Spec => []NothingLost
<1>1. PoolInv => NothingLost
  <2> SUFFICES ASSUME PoolInv, NEW l \in Kept, owner[l] \in {"open", "flushing"}
      PROVE LET inBatch == {w \in Workers : Own(l, batch[w]) # <<>>}
            IN /\ Cardinality(inBatch) <= 1
               /\ \A w \in inBatch : Draining(w) /\ wlg[w] = l
               /\ Own(l, written[l])
                    \o (IF inBatch = {} THEN <<>>
                        ELSE Own(l, batch[CHOOSE w \in inBatch : TRUE]))
                    \o queue[l]
                  = [n \in 1..accepted[l] |-> <<l, n>>]
    BY DEF NothingLost, Kept
  <2>1. l \in Loggers /\ Orderly(l) /\ owner[l] # "freed" BY PoolAssumption DEF Kept, PoolInv
  <2> DEFINE inBatch == {w \in Workers : Own(l, batch[w]) # <<>>}
             held == IF inBatch = {} THEN <<>> ELSE Own(l, batch[CHOOSE w \in inBatch : TRUE])
  <2>2. \A w \in inBatch : Draining(w) /\ wlg[w] = l /\ DrainsOf(w, l)
    BY <2>1 DEF Orderly, DrainsOf, Draining
  <2>3. \A v, w \in Workers : DrainsOf(v, l) /\ DrainsOf(w, l) => v = w
    BY DEF PoolInv, Claims, OneDrainer, DrainsOf, Draining
  <2>4. Cardinality(inBatch) <= 1
    <3>1. inBatch = {} \/ \E w \in Workers : inBatch = {w} BY <2>2, <2>3
    <3> HIDE DEF inBatch
    <3>2. Cardinality({}) = 0 /\ \A w : Cardinality({w}) = 1 BY FS_EmptySet, FS_Singleton
    <3>3. Cardinality(inBatch) \in {0, 1} BY <3>1, <3>2
    <3> QED BY <3>3
  <2>5. \A w \in Workers : DrainsOf(w, l) => held = Own(l, batch[w])
    <3> SUFFICES ASSUME NEW w \in Workers, DrainsOf(w, l) PROVE held = Own(l, batch[w]) OBVIOUS
    <3>1. inBatch \subseteq {w} BY <2>2, <2>3
    <3>2. CASE inBatch = {} BY <3>2
    <3>3. CASE inBatch # {}
      <4>1. inBatch = {w} BY <3>1, <3>3
      <4>2. (CHOOSE v \in inBatch : TRUE) = w BY <4>1
      <4> QED BY <3>3, <4>2
    <3> QED BY <3>2, <3>3
  <2>6. (\A w \in Workers : ~DrainsOf(w, l)) => held = <<>> BY <2>2
  <2>7. (Own(l, written[l]) \o held) \o queue[l] = Want(l)
    <3>1. CASE \E w \in Workers : DrainsOf(w, l)
      <4>1. PICK w \in Workers : DrainsOf(w, l) BY <3>1
      <4> QED BY <2>1, <2>5, <4>1 DEF Orderly
    <3>2. CASE \A w \in Workers : ~DrainsOf(w, l)
      <4>1. Own(l, written[l]) \in Seq(Messages) BY <2>1, OwnFacts DEF PoolInv, PoolTypes
      <4>2. Own(l, written[l]) \o <<>> = Own(l, written[l]) BY <4>1, ConcatEmptySeq
      <4> QED BY <2>1, <2>6, <3>2, <4>2 DEF Orderly
    <3> QED BY <3>1, <3>2
  <2> QED BY <2>2, <2>4, <2>7 DEF Want
<1> QED BY <1>1, PoolSafe, PTL

-----------------------------------------------------------------------------
(* The list.                                                                *)

\* The i-th of the n loggers of s, or Nil behind the last.
Nth(s, n, i) == IF i \in 1..n THEN s[i] ELSE Nil

\* s is the list that begins at head: the loggers of L, each once, each with a
\* pool_next that leads to the one behind it.
Chain(s, n, head, next, L) ==
  /\ \A i, j \in 1..n : s[i] = s[j] => i = j
  /\ {s[i] : i \in 1..n} = L
  /\ head = Nth(s, n, 1)
  /\ \A i \in 1..n : next[s[i]] = Nth(s, n, i + 1)

LinkedList(head, next, L) ==
  \E n \in Nat : \E s \in [1..n -> Loggers] : Chain(s, n, head, next, L)

ListInv == LinkedList(phead, pnext, Listed)

LEMMA ChainPush ==
  ASSUME NEW head, NEW next, NEW L, LinkedList(head, next, L),
         NEW l \in Loggers, l \notin L, NEW nxt,
         nxt[l] = head, \A m \in L : nxt[m] = next[m]
  PROVE  LinkedList(l, nxt, L \union {l})
<1>0. PICK n \in Nat : \E s \in [1..n -> Loggers] : Chain(s, n, head, next, L) BY DEF LinkedList
<1>1. PICK s \in [1..n -> Loggers] : Chain(s, n, head, next, L) BY <1>0
<1>2. /\ \A i, j \in 1..n : s[i] = s[j] => i = j
      /\ {s[i] : i \in 1..n} = L
      /\ head = Nth(s, n, 1)
      /\ \A i \in 1..n : next[s[i]] = Nth(s, n, i + 1)
  BY <1>1 DEF Chain
<1> DEFINE t == [i \in 1..(n+1) |-> IF i = 1 THEN l ELSE s[i-1]]
<1>3. \A i \in 1..(n+1) : i # 1 => i - 1 \in 1..n OBVIOUS
<1>4. t \in [1..(n+1) -> Loggers] BY <1>3
<1>5. t[1] = l /\ \A i \in 1..(n+1) : i # 1 => t[i] = s[i-1] OBVIOUS
<1>6. \A i \in 1..n : i + 1 \in 1..(n+1) /\ i + 1 # 1 /\ t[i+1] = s[i] BY <1>5
<1> HIDE DEF t
<1>7. \A i \in 1..n : s[i] \in L /\ s[i] # l BY <1>2
<1>8. ASSUME NEW i \in 1..(n+1), NEW j \in 1..(n+1), t[i] = t[j] PROVE i = j
  <2>1. CASE i = 1 /\ j = 1 BY <2>1
  <2>2. CASE i # 1 /\ j = 1 BY <1>3, <1>5, <1>7, <1>8, <2>2
  <2>3. CASE i = 1 /\ j # 1 BY <1>3, <1>5, <1>7, <1>8, <2>3
  <2>4. CASE i # 1 /\ j # 1
    <3>1. i - 1 \in 1..n /\ j - 1 \in 1..n /\ s[i-1] = s[j-1] BY <1>3, <1>5, <1>8, <2>4
    <3>2. i - 1 = j - 1 BY <1>2, <3>1
    <3> QED BY <3>2
  <2> QED BY <2>1, <2>2, <2>3, <2>4
<1>9. {t[i] : i \in 1..(n+1)} = L \union {l}
  <2>1. ASSUME NEW i \in 1..(n+1) PROVE t[i] \in L \union {l} BY <1>3, <1>5, <1>7
  <2>2. ASSUME NEW m \in L PROVE \E i \in 1..(n+1) : t[i] = m
    <3>1. PICK i \in 1..n : s[i] = m BY <1>2
    <3> QED BY <1>6, <3>1
  <2>3. 1 \in 1..(n+1) OBVIOUS
  <2> QED BY <1>5, <2>1, <2>2, <2>3
<1>10. l = Nth(t, n + 1, 1) BY <1>5 DEF Nth
<1>11. ASSUME NEW i \in 1..(n+1) PROVE nxt[t[i]] = Nth(t, n + 1, i + 1)
  <2>1. CASE i = 1
    <3>1. nxt[t[i]] = Nth(s, n, 1) BY <1>2, <1>5, <2>1
    <3>2. CASE n = 0 BY <2>1, <3>1, <3>2 DEF Nth
    <3>3. CASE n # 0
      <4>1. 1 \in 1..n BY <3>3
      <4>2. t[1+1] = s[1] /\ 1 + 1 \in 1..(n+1) BY <1>6, <4>1
      <4> QED BY <2>1, <3>1, <4>1, <4>2 DEF Nth
    <3> QED BY <3>2, <3>3
  <2>2. CASE i # 1
    <3>1. i - 1 \in 1..n /\ t[i] = s[i-1] BY <1>3, <1>5, <2>2
    <3>2. nxt[t[i]] = Nth(s, n, (i - 1) + 1) BY <1>2, <1>7, <3>1
    <3>3. (i - 1) + 1 = i OBVIOUS
    <3>4. i \in 1..n <=> i + 1 \in 1..(n+1) BY <3>1
    <3>5. i \in 1..n => t[i+1] = s[i] BY <1>6
    <3> QED BY <3>2, <3>3, <3>4, <3>5 DEF Nth
  <2> QED BY <2>1, <2>2
<1>12. Chain(t, n + 1, l, nxt, L \union {l}) BY <1>8, <1>9, <1>10, <1>11 DEF Chain
<1>13. n + 1 \in Nat OBVIOUS
<1> QED BY <1>4, <1>12, <1>13 DEF LinkedList

LEMMA ChainCut ==
  ASSUME NEW head, NEW next, NEW L, LinkedList(head, next, L), NEW l \in L,
         NEW nxt, L \subseteq Loggers,
         head = l => nxt = next,
         head # l => \A m \in L : nxt[m] = IF next[m] = l THEN next[l] ELSE next[m]
  PROVE  LinkedList(IF head = l THEN next[l] ELSE head, nxt, L \ {l})
<1>0. PICK n \in Nat : \E s \in [1..n -> Loggers] : Chain(s, n, head, next, L) BY DEF LinkedList
<1>1. PICK s \in [1..n -> Loggers] : Chain(s, n, head, next, L) BY <1>0
<1>2. /\ \A i, j \in 1..n : s[i] = s[j] => i = j
      /\ {s[i] : i \in 1..n} = L
      /\ head = Nth(s, n, 1)
      /\ \A i \in 1..n : next[s[i]] = Nth(s, n, i + 1)
  BY <1>1 DEF Chain
<1>3. PICK k \in 1..n : s[k] = l BY <1>2
<1>4. head = s[1] /\ (head = l <=> k = 1)
  <2>1. 1 \in 1..n OBVIOUS
  <2> QED BY <1>2, <1>3, <2>1 DEF Nth
<1>5. l # Nil BY PoolAssumption
<1> DEFINE up(i) == IF i < k THEN i ELSE i + 1
           t == [i \in 1..(n-1) |-> s[up(i)]]
<1>6. /\ \A i \in 1..(n-1) : up(i) \in 1..n /\ up(i) # k
      /\ \A i, j \in 1..(n-1) : up(i) = up(j) => i = j
      /\ \A j \in 1..n : j # k => \E i \in 1..(n-1) : up(i) = j
  <2>1. ASSUME NEW j \in 1..n, j # k PROVE \E i \in 1..(n-1) : up(i) = j
    <3>1. CASE j < k
      <4>1. j \in 1..(n-1) BY <3>1
      <4>2. up(j) = j BY <3>1
      <4> QED BY <4>1, <4>2
    <3>2. CASE ~(j < k)
      <4>1. j - 1 \in 1..(n-1) /\ ~(j - 1 < k) /\ (j - 1) + 1 = j BY <2>1, <3>2
      <4>2. up(j-1) = j BY <4>1
      <4> QED BY <4>1, <4>2
    <3> QED BY <3>1, <3>2
  <2>2. \A i \in 1..(n-1) : up(i) \in 1..n /\ up(i) # k OBVIOUS
  <2>3. \A i, j \in 1..(n-1) : up(i) = up(j) => i = j OBVIOUS
  <2> HIDE DEF up
  <2> QED BY <2>1, <2>2, <2>3
<1>7. t \in [1..(n-1) -> Loggers] /\ \A i \in 1..(n-1) : t[i] = s[up(i)]
  <2> HIDE DEF up
  <2> QED BY <1>6
<1> HIDE DEF t
<1>8. \A i, j \in 1..(n-1) : t[i] = t[j] => i = j
  <2> HIDE DEF up
  <2> QED BY <1>2, <1>6, <1>7
<1>9. {t[i] : i \in 1..(n-1)} = L \ {l}
  <2> HIDE DEF up
  <2>1. ASSUME NEW i \in 1..(n-1) PROVE t[i] \in L \ {l} BY <1>2, <1>3, <1>6, <1>7
  <2>2. ASSUME NEW m \in L \ {l} PROVE \E i \in 1..(n-1) : t[i] = m
    <3>1. PICK j \in 1..n : s[j] = m BY <1>2
    <3>2. j # k BY <1>3, <3>1
    <3> QED BY <1>6, <1>7, <3>1, <3>2
  <2> QED BY <2>1, <2>2
<1>10. (IF head = l THEN next[l] ELSE head) = Nth(t, n - 1, 1)
  <2>1. CASE k = 1
    <3>1. next[l] = Nth(s, n, 2) BY <1>2, <1>3, <2>1
    <3>2. 2 \in 1..n <=> 1 \in 1..(n-1) OBVIOUS
    <3>3. 1 \in 1..(n-1) => t[1] = s[2] BY <1>7, <2>1
    <3> QED BY <1>4, <2>1, <3>1, <3>2, <3>3 DEF Nth
  <2>2. CASE k # 1
    <3>1. 1 \in 1..(n-1) /\ 1 < k BY <2>2
    <3>2. t[1] = s[1] BY <1>7, <3>1
    <3> QED BY <1>4, <2>2, <3>1, <3>2 DEF Nth
  <2> QED BY <2>1, <2>2
<1>11. ASSUME NEW i \in 1..(n-1) PROVE nxt[t[i]] = Nth(t, n - 1, i + 1)
  <2>1. t[i] \in L /\ t[i] = s[up(i)] /\ up(i) \in 1..n BY <1>2, <1>6, <1>7
  <2>2. next[t[i]] = Nth(s, n, up(i) + 1) BY <1>2, <2>1
  <2>3. CASE i + 1 < k
    <3>1. up(i) = i /\ i + 1 \in 1..n /\ i + 1 \in 1..(n-1) /\ up(i+1) = i + 1 BY <2>3
    <3>2. next[t[i]] = s[i+1] /\ Nth(t, n - 1, i + 1) = s[i+1] BY <1>7, <2>2, <3>1 DEF Nth
    <3>3. s[i+1] # l BY <1>2, <1>3, <2>3, <3>1
    <3> QED BY <2>1, <3>2, <3>3
  <2>4. CASE i + 1 = k
    <3>1. up(i) = i /\ k # 1 BY <2>4
    <3>2. next[t[i]] = l BY <1>3, <2>2, <2>4, <3>1 DEF Nth
    <3>3. next[l] = Nth(s, n, k + 1) BY <1>2, <1>3
    <3>4. nxt[t[i]] = Nth(s, n, k + 1) BY <1>4, <2>1, <3>1, <3>2, <3>3
    <3>5. k + 1 \in 1..n <=> k \in 1..(n-1) OBVIOUS
    <3>6. k \in 1..(n-1) => t[k] = s[k+1] BY <1>7
    <3> QED BY <2>4, <3>4, <3>5, <3>6 DEF Nth
  <2>5. CASE i + 1 > k
    <3>1. up(i) = i + 1 BY <2>5
    <3>2. next[t[i]] = Nth(s, n, i + 1 + 1) BY <2>2, <3>1
    <3>3. i + 1 + 1 \in 1..n <=> i + 1 \in 1..(n-1) OBVIOUS
    <3>4. i + 1 \in 1..(n-1) => t[i+1] = s[i+1+1] BY <1>7, <2>5
    <3>5. Nth(s, n, i + 1 + 1) = Nth(t, n - 1, i + 1) BY <3>3, <3>4 DEF Nth
    <3>6. next[t[i]] # l
      <4>1. CASE i + 1 + 1 \in 1..n BY <1>2, <1>3, <2>5, <3>2, <4>1 DEF Nth
      <4>2. CASE i + 1 + 1 \notin 1..n BY <1>5, <3>2, <4>2 DEF Nth
      <4> QED BY <4>1, <4>2
    <3> QED BY <2>1, <3>2, <3>5, <3>6
  <2> QED BY <2>3, <2>4, <2>5
<1>12. Chain(t, n - 1, IF head = l THEN next[l] ELSE head, nxt, L \ {l})
  BY <1>8, <1>9, <1>10, <1>11 DEF Chain
<1>13. n - 1 \in Nat OBVIOUS
<1> QED BY <1>7, <1>12, <1>13 DEF LinkedList

LEMMA ListInvInit == Init => ListInv
<1> SUFFICES ASSUME Init PROVE ListInv OBVIOUS
<1>1. phead = Nil /\ Listed = {} BY DEF Init, Listed
<1>2. 0 \in Nat /\ 1..0 = {} OBVIOUS
<1> DEFINE s == [i \in 1..0 |-> phead]
<1>3. s \in [1..0 -> Loggers] BY <1>2
<1> HIDE DEF s
<1>4. Chain(s, 0, phead, pnext, {}) BY <1>1, <1>2 DEF Chain, Nth
<1> QED BY <1>1, <1>2, <1>3, <1>4 DEF ListInv, LinkedList

\* Of all the steps, opening puts a logger at the head of the list, and closing
\* takes one out; the others leave the list and its loggers alone.
LEMMA ListInvStep == PoolInv /\ ListInv /\ [Next]_vars => ListInv'
<1> SUFFICES ASSUME PoolInv, ListInv, [Next]_vars PROVE ListInv' OBVIOUS
<1>0. /\ phead \in Loggers \union {Nil} /\ pnext \in [Loggers -> Loggers \union {Nil}]
      /\ owner \in [Loggers -> OwnerPC]
  BY DEF PoolInv, PoolTypes
<1>1. ASSUME UNCHANGED <<phead, pnext>>, Listed' = Listed PROVE ListInv' BY <1>1 DEF ListInv
<1>2. ASSUME NEW l \in Loggers, Open(l) PROVE ListInv'
  <2>1. /\ owner[l] = "none" /\ owner' = [owner EXCEPT ![l] = "opening"]
        /\ pnext' = [pnext EXCEPT ![l] = phead] /\ phead' = l
    BY <1>2 DEF Open
  <2>2. l \notin Listed /\ Listed' = Listed \union {l} BY <1>0, <2>1 DEF Listed
  <2>3. pnext'[l] = phead /\ \A m \in Listed : pnext'[m] = pnext[m] BY <1>0, <2>1, <2>2 DEF Listed
  <2> QED BY <2>1, <2>2, <2>3, ChainPush DEF ListInv
<1>3. ASSUME NEW l \in Loggers, Unlink(l) PROVE ListInv'
  <2>1. /\ owner[l] = "open" /\ owner' = [owner EXCEPT ![l] = "unlinked"]
        /\ IF phead = l THEN phead' = pnext[l] /\ pnext' = pnext
           ELSE /\ pnext' = [m \in Loggers |-> IF pnext[m] = l /\ owner[m] \in {"opening", "open", "flushing"}
                                               THEN pnext[l] ELSE pnext[m]]
                /\ phead' = phead
    BY <1>3 DEF Unlink
  <2>2. l \in Listed /\ Listed \subseteq Loggers /\ Listed' = Listed \ {l} BY <1>0, <2>1 DEF Listed
  <2>3. phead # l => \A m \in Listed : pnext'[m] = IF pnext[m] = l THEN pnext[l] ELSE pnext[m]
    BY <2>1 DEF Listed
  <2>4. phead' = IF phead = l THEN pnext[l] ELSE phead BY <2>1
  <2>5. LinkedList(IF phead = l THEN pnext[l] ELSE phead, pnext', Listed \ {l})
    BY <2>1, <2>2, <2>3, ChainCut DEF ListInv
  <2> QED BY <2>2, <2>4, <2>5 DEF ListInv
<1>4. ASSUME NEW l \in Loggers,
             Grow(l) \/ FlushBegin(l) \/ FlushEnd(l) \/ Deactivate(l) \/ AwaitIdle(l) \/ DrainAndFree(l)
      PROVE  ListInv'
  <2>1. /\ UNCHANGED <<phead, pnext>>
        /\ \/ /\ owner[l] \in {"opening", "open", "flushing"}
              /\ owner' \in {[owner EXCEPT ![l] = "open"], [owner EXCEPT ![l] = "flushing"]}
           \/ /\ owner[l] \in {"unlinked", "waiting", "draining"}
              /\ owner' \in {[owner EXCEPT ![l] = "waiting"], [owner EXCEPT ![l] = "draining"],
                             [owner EXCEPT ![l] = "freed"]}
    BY <1>4 DEF Grow, FlushBegin, FlushEnd, Deactivate, AwaitIdle, DrainAndFree
  <2>2. Listed' = Listed BY <1>0, <2>1 DEF Listed
  <2> QED BY <1>1, <2>1, <2>2
<1>5. ASSUME \/ \E l \in Loggers : Write(l)
             \/ \E w \in Workers : WorkerStep(w)
             \/ UNCHANGED vars
      PROVE  ListInv'
  <2>1. UNCHANGED listVars
    BY <1>5 DEF Write, WorkerStep, StartPass, CheckActive, TryClaim, DrainOne, WriteBatch, FlushFile,
                Release, FollowNext, CheckBacklog, UseAfterFree, vars
  <2>2. UNCHANGED <<phead, pnext>> /\ Listed' = Listed BY <2>1 DEF listVars, Listed
  <2> QED BY <1>1, <2>2
<1> QED BY <1>2, <1>3, <1>4, <1>5 DEF Next, OwnerStep

\* The walk along such a list meets its loggers.
LEMMA WalkMeets == ASSUME PoolInv, ListInv PROVE Walk = Listed
<1>0. /\ phead \in Loggers \union {Nil} /\ pnext \in [Loggers -> Loggers \union {Nil}] /\ Nil \notin Loggers
  BY PoolAssumption DEF PoolInv, PoolTypes
<1> DEFINE N == Cardinality(Loggers)
           D == Loggers \union {Nil}
           Body(f) == [n \in 0..N |-> IF n = 0 THEN phead
                                      ELSE IF f[n-1] = Nil THEN Nil ELSE pnext[f[n-1]]]
           at == CHOOSE f : f = Body(f)
           step == [x \in (1..N) \X D |-> IF x[2] = Nil THEN Nil ELSE pnext[x[2]]]
<1>1. N \in Nat BY PoolAssumption, FS_CardinalityType
<1>2. Walk = {at[n] : n \in 0..N} \ {Nil} BY DEF Walk
<1> HIDE DEF N
<1>3. step \in [(1..N) \X D -> D] BY <1>0
<1>4. at = Body(at)
  <2> HIDE DEF step, D
  <2>1. phead \in D BY <1>0 DEF D
  <2>2. PICK f \in [0..N -> D] : Solves(f, N, phead, step) BY <1>1, <1>3, <2>1, Recursion
  <2>3. \A n \in 0..N : n # 0 => step[<<n, f[n-1]>>] = IF f[n-1] = Nil THEN Nil ELSE pnext[f[n-1]]
    <3> SUFFICES ASSUME NEW n \in 0..N, n # 0
                 PROVE  step[<<n, f[n-1]>>] = IF f[n-1] = Nil THEN Nil ELSE pnext[f[n-1]]
      OBVIOUS
    <3>1. n \in 1..N /\ n - 1 \in 0..N BY <1>1
    <3>2. <<n, f[n-1]>> \in (1..N) \X D BY <2>2, <3>1
    <3> QED BY <3>2 DEF step
  <2>4. f = Body(f) BY <2>2, <2>3 DEF Solves
  <2> HIDE DEF Body
  <2> QED BY <2>4
<1>5. \A n \in 0..N : at[n] = IF n = 0 THEN phead ELSE IF at[n-1] = Nil THEN Nil ELSE pnext[at[n-1]]
  <2> HIDE DEF at
  <2> QED BY <1>4
<1> HIDE DEF at
<1>6. PICK k \in Nat : \E s \in [1..k -> Loggers] : Chain(s, k, phead, pnext, Listed)
  BY DEF ListInv, LinkedList
<1>7. PICK s \in [1..k -> Loggers] : Chain(s, k, phead, pnext, Listed) BY <1>6
<1>8. /\ \A i, j \in 1..k : s[i] = s[j] => i = j
      /\ {s[i] : i \in 1..k} = Listed
      /\ phead = Nth(s, k, 1)
      /\ \A i \in 1..k : pnext[s[i]] = Nth(s, k, i + 1)
  BY <1>7 DEF Chain
<1>9. k <= N
  <2>1. s \in Injection(1..k, Loggers) BY <1>8 DEF Injection, IsInjective
  <2>2. Cardinality(1..k) <= Cardinality(Loggers) BY <2>1, PoolAssumption, FS_Injection
  <2>3. Cardinality(1..k) = k
    <3>1. 1 \in Int /\ k \in Int /\ 1 <= k + 1 OBVIOUS
    <3>2. Cardinality(1..k) = IF 1 > k THEN 0 ELSE k - 1 + 1 BY <3>1, FS_Interval
    <3> QED BY <3>2
  <2> QED BY <2>2, <2>3 DEF N
<1> DEFINE P == {n \in 0..N : at[n] = Nth(s, k, n + 1)}
<1>10. 0 \in P BY <1>1, <1>5, <1>8
<1>11. ASSUME NEW n \in 0..N, n # N, n \in P PROVE n + 1 \in P
  <2>1. n + 1 \in 0..N /\ n + 1 # 0 /\ (n + 1) - 1 = n BY <1>1, <1>11
  <2>2. at[n+1] = IF at[n] = Nil THEN Nil ELSE pnext[at[n]] BY <1>5, <2>1
  <2>3. at[n] = Nth(s, k, n + 1) BY <1>11
  <2>4. CASE n + 1 \in 1..k
    <3>1. at[n] = s[n+1] /\ s[n+1] \in Loggers BY <2>3, <2>4 DEF Nth
    <3> QED BY <1>0, <1>8, <2>1, <2>2, <2>4, <3>1
  <2>5. CASE n + 1 \notin 1..k
    <3>1. n + 1 + 1 \notin 1..k BY <1>1, <2>5
    <3> QED BY <2>1, <2>2, <2>3, <2>5, <3>1 DEF Nth
  <2> QED BY <2>4, <2>5
<1>12. \A n \in 0..N : n \in P
  <2> HIDE DEF P
  <2> QED BY <1>1, <1>10, <1>11, Climb
<1>13. \A n \in 0..N : at[n] = Nth(s, k, n + 1) BY <1>12
<1>14. ASSUME NEW n \in 0..N, at[n] # Nil PROVE at[n] \in Listed BY <1>8, <1>13, <1>14 DEF Nth
<1>15. ASSUME NEW l \in Listed PROVE l # Nil /\ \E n \in 0..N : at[n] = l
  <2>1. PICK i \in 1..k : s[i] = l BY <1>8
  <2>2. i - 1 \in 0..N /\ (i - 1) + 1 = i BY <1>1, <1>9
  <2>3. at[i-1] = l BY <1>13, <2>1, <2>2 DEF Nth
  <2>4. l # Nil BY <1>0, <2>1
  <2> QED BY <2>2, <2>3, <2>4
<1> QED BY <1>2, <1>14, <1>15

\* The list of the pool holds exactly the loggers that are open, although
\* loggers are closed in any order, at any place of the list.
THEOREM PoolListHoldsOpen == Spec => []ListHoldsOpen
<1>1. Init => ListInv BY ListInvInit
<1>2. PoolInv /\ ListInv /\ [Next]_vars => ListInv' BY ListInvStep
<1>3. PoolInv /\ ListInv => ListHoldsOpen BY WalkMeets DEF ListHoldsOpen
<1> QED BY <1>1, <1>2, <1>3, PoolSafe, PTL DEF Spec
=============================================================================
