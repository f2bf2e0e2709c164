------------------------------ MODULE LogRing -------------------------------
(***************************************************************************)
(* The lock-free ring of one logger, src/tefstd/log.c: many producers      *)
(* (tefstd_log_write), and pool workers that take turns as its only        *)
(* consumer through the logger's busy flag.  One action per atomic access  *)
(* (TL_ATOMIC_U32_LOAD / STORE / CAS) or plain copy of a slot.             *)
(*                                                                         *)
(* Positions are natural numbers.  The code keeps them modulo 2^32 and     *)
(* compares them as int32_t differences, which agree with the ones used    *)
(* here as long as less than 2^31 positions separate two threads.          *)
(***************************************************************************)
EXTENDS Integers, Sequences, FiniteSets

CONSTANTS Producers,  \* threads that call tefstd_log_write
          Consumers,  \* pool workers
          Cap,        \* slots in the ring (tl_round_pow2)
          Batch,      \* batch_size: messages drained under one claim
          MaxWrites   \* bound on the writes of each producer

\* tl_round_pow2 never returns less than 2: with one slot the published
\* mark of a position would be the free mark of the next.
ASSUME CapAssumption == Cap \in Nat /\ Cap >= 2
ASSUME BatchAssumption == Batch \in Nat /\ Batch >= 1
ASSUME WritesAssumption == MaxWrites \in Nat

VARIABLES
  head, tail,  \* the ring's two cursors
  seq,         \* slot -> tl_slot_hdr_t.seq
  data,        \* slot -> the message stored in it
  dropped,     \* tefstd_logger_t.dropped
  ppc, ppos,   \* producer: next access, position it works on
  sent,        \* producer -> number of writes begun
  busy,        \* tefstd_logger_t.busy
  cpc, cpos,   \* consumer: next access, position it works on
  cmsg,        \* consumer -> the message it copied out of the slot
  drained,     \* consumer -> messages drained under this claim
  log, out     \* history: reserved messages in order, consumed messages

ringVars     == <<head, tail, seq, data, dropped>>
producerVars == <<ppc, ppos, sent>>
consumerVars == <<busy, cpc, cpos, cmsg, drained>>
histVars     == <<log, out>>
vars         == <<ringVars, producerVars, consumerVars, histVars>>

Slots      == 0..(Cap - 1)
Message    == Producers \X (1..MaxWrites)     \* <<writer, its n-th write>>
NoMessage  == <<>>
ProducerPC == {"idle", "seq", "load", "cas", "copy", "publish"}
ConsumerPC == {"idle", "tail", "peek", "read", "free", "advance", "release"}

SlotOf(pos) == pos % Cap                          \* pos & r->mask

Init ==
  /\ head = 0 /\ tail = 0 /\ dropped = 0
  /\ seq  = [s \in Slots |-> s]
  /\ data = [s \in Slots |-> NoMessage]
  /\ ppc  = [p \in Producers |-> "idle"]
  /\ ppos = [p \in Producers |-> 0]
  /\ sent = [p \in Producers |-> 0]
  /\ busy = 0
  /\ cpc  = [c \in Consumers |-> "idle"]
  /\ cpos = [c \in Consumers |-> 0]
  /\ cmsg = [c \in Consumers |-> NoMessage]
  /\ drained = [c \in Consumers |-> 0]
  /\ log = <<>> /\ out = <<>>
-----------------------------------------------------------------------------
(* Producers: tl_ring_reserve, the copy in tl_enqueue, tl_ring_publish.    *)

BeginWrite(p) ==
  /\ ppc[p] = "idle" /\ sent[p] < MaxWrites
  /\ sent' = [sent EXCEPT ![p] = @ + 1]
  /\ ppos' = [ppos EXCEPT ![p] = head]
  /\ ppc'  = [ppc EXCEPT ![p] = "seq"]
  /\ UNCHANGED <<ringVars, consumerVars, histVars>>

Diff(p) == seq[SlotOf(ppos[p])] - ppos[p]

SlotIsFree(p) ==
  /\ ppc[p] = "seq" /\ Diff(p) = 0
  /\ ppc' = [ppc EXCEPT ![p] = "cas"]
  /\ UNCHANGED <<ringVars, ppos, sent, consumerVars, histVars>>

DropMessage(p) ==                          \* the ring is full
  /\ ppc[p] = "seq" /\ Diff(p) < 0
  /\ ppc' = [ppc EXCEPT ![p] = "idle"]
  /\ dropped' = dropped + 1
  /\ UNCHANGED <<head, tail, seq, data, ppos, sent, consumerVars, histVars>>

SlotIsTaken(p) ==                          \* another producer was faster
  /\ ppc[p] = "seq" /\ Diff(p) > 0
  /\ ppc' = [ppc EXCEPT ![p] = "load"]
  /\ UNCHANGED <<ringVars, ppos, sent, consumerVars, histVars>>

ReloadHead(p) ==
  /\ ppc[p] = "load"
  /\ ppos' = [ppos EXCEPT ![p] = head]
  /\ ppc'  = [ppc EXCEPT ![p] = "seq"]
  /\ UNCHANGED <<ringVars, sent, consumerVars, histVars>>

\* Mutant: head is stored, not compared and swapped.
CasSucceeds_Store(p) ==
  /\ ppc[p] = "cas"
  /\ head' = ppos[p] + 1
  /\ log'  = Append(log, <<p, sent[p]>>)
  /\ ppc'  = [ppc EXCEPT ![p] = "copy"]
  /\ UNCHANGED <<tail, seq, data, dropped, ppos, sent, consumerVars, out>>

CasSucceeds(p) ==
  /\ ppc[p] = "cas" /\ head = ppos[p]
  /\ head' = head + 1
  /\ log'  = Append(log, <<p, sent[p]>>)
  /\ ppc'  = [ppc EXCEPT ![p] = "copy"]
  /\ UNCHANGED <<tail, seq, data, dropped, ppos, sent, consumerVars, out>>

CasFails(p) ==
  /\ ppc[p] = "cas" /\ head # ppos[p]
  /\ ppos' = [ppos EXCEPT ![p] = head]
  /\ ppc'  = [ppc EXCEPT ![p] = "seq"]
  /\ UNCHANGED <<ringVars, sent, consumerVars, histVars>>

CopyMessage(p) ==
  /\ ppc[p] = "copy"
  /\ data' = [data EXCEPT ![SlotOf(ppos[p])] = <<p, sent[p]>>]
  /\ ppc'  = [ppc EXCEPT ![p] = "publish"]
  /\ UNCHANGED <<head, tail, seq, dropped, ppos, sent, consumerVars, histVars>>

Publish(p) ==
  /\ ppc[p] = "publish"
  /\ seq' = [seq EXCEPT ![SlotOf(ppos[p])] = ppos[p] + 1]
  /\ ppc' = [ppc EXCEPT ![p] = "idle"]
  /\ UNCHANGED <<head, tail, data, dropped, ppos, sent, consumerVars, histVars>>
-----------------------------------------------------------------------------
(* Consumers: tl_try_claim, the loop of tl_drain_logger over tl_ring_peek  *)
(* and tl_ring_consume, tl_release.                                        *)

Claim(c) ==
  /\ cpc[c] = "idle" /\ busy = 0
  /\ busy' = 1
  /\ drained' = [drained EXCEPT ![c] = 0]
  /\ cpc' = [cpc EXCEPT ![c] = "tail"]
  /\ UNCHANGED <<ringVars, producerVars, cpos, cmsg, histVars>>

LoadTail(c) ==
  /\ cpc[c] = "tail"
  /\ cpos' = [cpos EXCEPT ![c] = tail]
  /\ cpc'  = [cpc EXCEPT ![c] = "peek"]
  /\ UNCHANGED <<ringVars, producerVars, busy, cmsg, drained, histVars>>

PeekSeq(c) ==
  /\ cpc[c] = "peek"
  /\ cpc' = [cpc EXCEPT ![c] = IF seq[SlotOf(cpos[c])] = cpos[c] + 1
                               THEN "read" ELSE "release"]
  /\ UNCHANGED <<ringVars, producerVars, busy, cpos, cmsg, drained, histVars>>

\* Mutant: tail moves before the slot is freed.
ReadMessage_TailFirst(c) ==
  /\ cpc[c] = "read"
  /\ cmsg' = [cmsg EXCEPT ![c] = data[SlotOf(cpos[c])]]
  /\ cpc'  = [cpc EXCEPT ![c] = "free"]
  /\ tail' = cpos[c] + 1
  /\ UNCHANGED <<head, seq, data, dropped, producerVars, busy, cpos, drained, histVars>>

ReadMessage(c) ==
  /\ cpc[c] = "read"
  /\ cmsg' = [cmsg EXCEPT ![c] = data[SlotOf(cpos[c])]]
  /\ cpc'  = [cpc EXCEPT ![c] = "free"]
  /\ UNCHANGED <<ringVars, producerVars, busy, cpos, drained, histVars>>

FreeSlot(c) ==
  /\ cpc[c] = "free"
  /\ seq' = [seq EXCEPT ![SlotOf(cpos[c])] = cpos[c] + Cap]
  /\ out' = Append(out, cmsg[c])
  /\ cpc' = [cpc EXCEPT ![c] = "advance"]
  /\ UNCHANGED <<head, tail, data, dropped, producerVars,
                 busy, cpos, cmsg, drained, log>>

AdvanceTail(c) ==
  /\ cpc[c] = "advance"
  /\ tail' = cpos[c] + 1
  /\ drained' = [drained EXCEPT ![c] = @ + 1]
  /\ cpc' = [cpc EXCEPT ![c] = IF drained[c] + 1 < Batch
                               THEN "tail" ELSE "release"]
  /\ UNCHANGED <<head, seq, data, dropped, producerVars, busy, cpos, cmsg, histVars>>

\* Mutant: the claim is never given back.
Release_KeepBusy(c) ==
  /\ cpc[c] = "release"
  /\ cpc'  = [cpc EXCEPT ![c] = "idle"]
  /\ UNCHANGED <<ringVars, producerVars, busy, cpos, cmsg, drained, histVars>>

Release(c) ==
  /\ cpc[c] = "release"
  /\ busy' = 0
  /\ cpc'  = [cpc EXCEPT ![c] = "idle"]
  /\ UNCHANGED <<ringVars, producerVars, cpos, cmsg, drained, histVars>>
-----------------------------------------------------------------------------
ProducerStep(p) == \/ SlotIsFree(p) \/ DropMessage(p) \/ SlotIsTaken(p)
                   \/ ReloadHead(p) \/ CasSucceeds(p) \/ CasFails(p)
                   \/ CopyMessage(p) \/ Publish(p)

ConsumerStep(c) == \/ Claim(c) \/ LoadTail(c) \/ PeekSeq(c) \/ ReadMessage(c)
                   \/ FreeSlot(c) \/ AdvanceTail(c) \/ Release(c)

Next == \/ \E p \in Producers : BeginWrite(p) \/ ProducerStep(p)
        \/ \E c \in Consumers : ConsumerStep(c)

Spec == Init /\ [][Next]_vars

\* A thread inside tefstd_log_write keeps running, and tl_worker_main loops
\* for as long as the process lives.  No thread has to start a write.
Fairness == /\ \A p \in Producers : WF_vars(ProducerStep(p))
            /\ \A c \in Consumers : WF_vars(ConsumerStep(c))

FairSpec == Spec /\ Fairness
-----------------------------------------------------------------------------
TypeOK ==
  /\ head \in Nat /\ tail \in Nat /\ dropped \in Nat
  /\ seq  \in [Slots -> Nat]
  /\ data \in [Slots -> Message \union {NoMessage}]
  /\ ppc  \in [Producers -> ProducerPC]
  /\ ppos \in [Producers -> Nat]
  /\ sent \in [Producers -> 0..MaxWrites]
  /\ busy \in {0, 1}
  /\ cpc  \in [Consumers -> ConsumerPC]
  /\ cpos \in [Consumers -> Nat]
  /\ cmsg \in [Consumers -> Message \union {NoMessage}]
  /\ drained \in [Consumers -> Nat]
  /\ log \in Seq(Message)
  /\ out \in Seq(Message \union {NoMessage})

Filling(p) == ppc[p] \in {"copy", "publish"}   \* p owns a reserved slot
Emptying(c) == cpc[c] \in {"read", "free"}     \* c may read a slot

\* No slot is ever touched by two threads at once: two producers never fill
\* the same slot, two workers never drain together, and a producer never
\* overwrites the slot a worker is still reading.
NoSlotRace ==
  /\ \A p, q \in Producers :
       p # q /\ Filling(p) /\ Filling(q) => SlotOf(ppos[p]) # SlotOf(ppos[q])
  /\ \A c, d \in Consumers :
       cpc[c] # "idle" /\ cpc[d] # "idle" => c = d
  /\ \A p \in Producers, c \in Consumers :
       Filling(p) /\ Emptying(c) => SlotOf(ppos[p]) # SlotOf(cpos[c])

\* What the workers hand to the file is, message for message, what the
\* producers reserved places for, in that order: nothing is skipped,
\* repeated, reordered or torn, however many producers race for the head.
DeliveredInOrder ==
  /\ Len(out) <= Len(log)
  /\ \A i \in 1..Len(out) : out[i] = log[i]

\* The messages of one thread keep their order.
ProducerOrder ==
  \A i, j \in 1..Len(out) :
    i < j /\ out[i][1] = out[j][1] => out[i][2] < out[j][2]

\* A message is dropped only at a moment when Cap places really are taken:
\* a stale head or seq read by a slow producer never loses a message.
DropOnlyWhenFull ==
  [][dropped' # dropped => Len(log) - Len(out) = Cap]_vars

\* Every message that got a place is eventually handed to the file, although
\* a slow producer holds back the messages behind its own, and workers
\* compete for the claim.
EventuallyDelivered ==
  \A n \in 1..(Cardinality(Producers) * MaxWrites) :
    Len(log) >= n ~> Len(out) >= n

\* The places of the queue whose message is published: place i is position
\* i - 1 of the ring.
Ready == {i \in (Len(out) + 1)..Len(log) : seq[SlotOf(i - 1)] = i}

\* The ring implements the bounded queue of LogQueue: places are taken in
\* one total order, completed in any order, left in the total order, and a
\* message is lost only when all Cap places are taken.
Queue == INSTANCE LogQueue WITH
           Messages <- Message, lost <- dropped, ready <- Ready
ImplementsQueue == Queue!Spec
-----------------------------------------------------------------------------
(* The inductive invariant behind the safety properties above.             *)

\* One worker at a time is between tl_try_claim and tl_release.
ClaimInv ==
  /\ \A c \in Consumers : cpc[c] # "idle" => busy = 1
  /\ \A c, d \in Consumers : cpc[c] # "idle" /\ cpc[d] # "idle" => c = d

\* Only the claiming worker moves tail, one step behind the slot it freed.
TailInv ==
  /\ (\A c \in Consumers : cpc[c] # "advance") => tail = Len(out)
  /\ \A c \in Consumers :
       /\ cpc[c] = "advance" => cpos[c] = tail /\ Len(out) = tail + 1
       /\ cpc[c] \in {"peek", "read", "free"} => cpos[c] = tail

\* At most Cap positions are between the last freed one and head.
WindowInv ==
  /\ head = Len(log)
  /\ Len(out) <= head
  /\ head <= Len(out) + Cap

\* The slot of each position of that window is free, reserved, or published
\* with the message that reserved it.
SlotInv ==
  \A i \in Len(out)..(Len(out) + Cap - 1) :
    \/ seq[SlotOf(i)] = i
    \/ seq[SlotOf(i)] = i + 1 /\ i < head /\ data[SlotOf(i)] = log[i + 1]

\* The slot a worker reads stays published until the worker frees it.
DrainInv ==
  \A c \in Consumers :
    /\ Emptying(c) => seq[SlotOf(cpos[c])] = cpos[c] + 1
    /\ cpc[c] = "free" => cmsg[c] = log[cpos[c] + 1]

\* What a producer knows of the position it works on.
ProducerInv ==
  \A p \in Producers :
    /\ ppc[p] # "idle" => sent[p] >= 1
    /\ ppc[p] \in {"seq", "cas"} => ppos[p] <= head
    /\ ppc[p] = "cas" => ppos[p] < Len(out) + Cap
    /\ Filling(p) => /\ Len(out) <= ppos[p] /\ ppos[p] < head
                     /\ seq[SlotOf(ppos[p])] = ppos[p]
                     /\ log[ppos[p] + 1] = <<p, sent[p]>>
    /\ ppc[p] = "publish" => data[SlotOf(ppos[p])] = <<p, sent[p]>>

\* No two producers hold the same position.
PlaceInv ==
  \A p, q \in Producers :
    p # q /\ Filling(p) /\ Filling(q) => ppos[p] # ppos[q]

\* Reservations of one producer are in the order of its writes.
LogOrderInv ==
  /\ \A i \in 1..Len(log) : log[i][2] <= sent[log[i][1]]
  /\ \A p \in Producers, i \in 1..Len(log) :
       ppc[p] \in {"seq", "load", "cas"} /\ log[i][1] = p => log[i][2] < sent[p]
  /\ \A i, j \in 1..Len(log) :
       i < j /\ log[i][1] = log[j][1] => log[i][2] < log[j][2]

IInv == /\ TypeOK /\ ClaimInv /\ TailInv /\ WindowInv /\ SlotInv /\ DrainInv
        /\ ProducerInv /\ PlaceInv /\ DeliveredInOrder /\ LogOrderInv
=============================================================================
