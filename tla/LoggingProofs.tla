---------------------------- MODULE LoggingProofs ---------------------------
(***************************************************************************)
(* Theorems about the two logs.  The first part is about LogRing, for      *)
(* every number of producers, workers, slots, batch sizes and writes.  The *)
(* second is about KernelLog, for any number of writers, messages and      *)
(* restarts and any sizes of the queue and of the batch buffer: its        *)
(* invariant says which stages of init and cleanup go with which stages of *)
(* the thread (Phases), that nothing is half-way outside a batch (Moved),  *)
(* and what is flushed when (Flushed).  Writers that saw running too early *)
(* push at any of these stages.                                            *)
(***************************************************************************)
EXTENDS LogRing, KernelLog, SequenceTheorems, TLAPS

-----------------------------------------------------------------------------
(* Positions and slots.                                                     *)

\* Quotient and remainder by the number of slots.
LEMMA DivMod == \A i \in Int : /\ i = Cap * (i \div Cap) + (i % Cap)
                               /\ i % Cap \in Slots
                               /\ i \div Cap \in Int
  BY CapAssumption DEF Slots

\* The remainder of a position given by its lap and its slot.
LEMMA ModOfLap == ASSUME NEW q \in Int, NEW s \in Slots
                  PROVE  (Cap * q + s) % Cap = s
  BY CapAssumption DEF Slots

LEMMA SlotType == \A i \in Int : SlotOf(i) \in Slots
  BY DivMod DEF SlotOf

\* Two positions of one window of Cap positions have different slots.
LEMMA WindowInjective ==
  ASSUME NEW f \in Int, NEW i \in f..(f + Cap - 1), NEW j \in f..(f + Cap - 1),
         SlotOf(i) = SlotOf(j)
  PROVE  i = j
<1> DEFINE a == i \div Cap
           b == j \div Cap
<1>1. /\ i = Cap * a + (i % Cap) /\ j = Cap * b + (j % Cap)
      /\ a \in Int /\ b \in Int /\ i % Cap \in Int /\ i % Cap = j % Cap
  BY DivMod DEF SlotOf, Slots
<1>2. i - j = Cap * (a - b) /\ i - j < Cap /\ j - i < Cap
  <2> HIDE DEF a, b
  <2> QED BY <1>1, CapAssumption
<1> HIDE DEF a, b
<1>3. CASE a >= b + 1  BY <1>1, <1>2, <1>3, CapAssumption
<1>4. CASE b >= a + 1  BY <1>1, <1>2, <1>4, CapAssumption
<1>5. CASE a = b       BY <1>1, <1>2, <1>5, CapAssumption
<1> QED BY <1>1, <1>3, <1>4, <1>5

\* One lap further is the same slot again.
LEMMA NextLap == \A i \in Int : SlotOf(i + Cap) = SlotOf(i)
<1> SUFFICES ASSUME NEW i \in Int PROVE SlotOf(i + Cap) = SlotOf(i)
  OBVIOUS
<1> DEFINE q == i \div Cap
           s == i % Cap
<1>1. i = Cap * q + s /\ s \in Slots /\ q \in Int
  BY DivMod
<1> HIDE DEF q, s
<1>2. i + Cap = Cap * (q + 1) + s
  BY <1>1, CapAssumption DEF Slots
<1>3. (Cap * (q + 1) + s) % Cap = s /\ (Cap * q + s) % Cap = s
  BY <1>1, ModOfLap
<1> QED BY <1>1, <1>2, <1>3 DEF SlotOf

\* Every slot belongs to some position of a window.
LEMMA WindowCovers ==
  ASSUME NEW f \in Int, NEW s \in Slots
  PROVE  \E i \in f..(f + Cap - 1) : SlotOf(i) = s
<1> DEFINE q == f \div Cap
           r == f % Cap
<1>1. f = Cap * q + r /\ r \in Slots /\ q \in Int
  BY DivMod
<1> HIDE DEF q, r
<1>2. CASE s >= r
  <2>1. Cap * q + s \in f..(f + Cap - 1)
    BY <1>1, <1>2, CapAssumption DEF Slots
  <2> QED BY <2>1, <1>1, ModOfLap DEF SlotOf
<1>3. CASE s < r
  <2>1. Cap * (q + 1) + s \in f..(f + Cap - 1)
    BY <1>1, <1>3, CapAssumption DEF Slots
  <2>2. (Cap * (q + 1) + s) % Cap = s
    BY <1>1, ModOfLap
  <2> QED BY <2>1, <2>2 DEF SlotOf
<1> QED BY <1>1, <1>2, <1>3 DEF Slots
-----------------------------------------------------------------------------
(* The invariant holds initially.                                           *)

LEMMA InitIInv == Init => IInv
<1> SUFFICES ASSUME Init PROVE IInv
  OBVIOUS
<1> USE DEF Init
<1>1. TypeOK
  BY CapAssumption, WritesAssumption
     DEF TypeOK, Slots, ProducerPC, ConsumerPC, NoMessage
<1>2. ClaimInv /\ TailInv /\ WindowInv /\ DrainInv
  BY CapAssumption DEF ClaimInv, TailInv, WindowInv, DrainInv, Emptying
<1>3. SlotInv
  <2> SUFFICES ASSUME NEW i \in 0..(Cap - 1) PROVE seq[SlotOf(i)] = i
    BY CapAssumption DEF SlotInv
  <2>1. SlotOf(i) \in Slots /\ SlotOf(i) = i
    <3>1. (Cap * 0 + i) % Cap = i
      BY ModOfLap DEF Slots
    <3> QED BY <3>1, CapAssumption DEF SlotOf, Slots
  <2> QED BY <2>1
<1>4. ProducerInv /\ PlaceInv /\ DeliveredInOrder /\ LogOrderInv
  BY DEF ProducerInv, PlaceInv, DeliveredInOrder, LogOrderInv, Filling
<1> QED BY <1>1, <1>2, <1>3, <1>4 DEF IInv
-----------------------------------------------------------------------------
(* Steps of a producer that change neither the ring nor the history.        *)

Looks(p) == \/ BeginWrite(p) \/ SlotIsFree(p) \/ DropMessage(p)
            \/ SlotIsTaken(p) \/ ReloadHead(p) \/ CasFails(p)

ringAndConsumers == <<head, tail, seq, data, busy, cpc, cpos, cmsg, log, out>>

LEMMA LooksFrame ==
  ASSUME NEW p \in Producers, Looks(p) PROVE UNCHANGED <<ringAndConsumers, drained>>
  BY DEF Looks, BeginWrite, SlotIsFree, DropMessage, SlotIsTaken, ReloadHead,
         CasFails, ringVars, consumerVars, histVars, ringAndConsumers

\* The parts of the invariant that do not mention the producers.
LEMMA RingPartsKept ==
  ASSUME IInv, UNCHANGED ringAndConsumers
  PROVE  (ClaimInv /\ TailInv /\ WindowInv /\ SlotInv /\ DrainInv /\ DeliveredInOrder)'
<1>1. (ClaimInv /\ TailInv /\ WindowInv)'
  BY DEF IInv, ringAndConsumers, ClaimInv, TailInv, WindowInv
<1>2. (SlotInv /\ DrainInv /\ DeliveredInOrder)'
  BY DEF IInv, ringAndConsumers, SlotInv, DrainInv, DeliveredInOrder, Emptying, SlotOf
<1> QED BY <1>1, <1>2

\* A producer that found its slot free works on a position of the window: the
\* only other position it could have, Len(out) + Cap, shares the slot of
\* position Len(out), whose mark is at most Len(out) + 1.
LEMMA FreeSlotInWindow ==
  ASSUME IInv, NEW p \in Producers, ppc[p] = "seq", Diff(p) = 0
  PROVE  ppos[p] < Len(out) + Cap
<1>1. /\ ppos[p] \in Nat /\ Len(out) \in Nat
      /\ ppos[p] <= head /\ head <= Len(out) + Cap /\ head \in Nat
      /\ seq[SlotOf(Len(out))] \in {Len(out), Len(out) + 1}
  <2>1. TypeOK /\ ProducerInv /\ WindowInv /\ SlotInv
    BY DEF IInv
  <2>2. ppos[p] \in Nat /\ Len(out) \in Nat /\ head \in Nat
    BY <2>1 DEF TypeOK
  <2>3. ppos[p] <= head /\ head <= Len(out) + Cap
    BY <2>1 DEF ProducerInv, WindowInv
  <2>4. Len(out) \in Len(out)..(Len(out) + Cap - 1)
    BY <2>2, CapAssumption
  <2> QED BY <2>1, <2>2, <2>3, <2>4 DEF SlotInv
<1>2. CASE ppos[p] = Len(out) + Cap
  <2>1. SlotOf(ppos[p]) = SlotOf(Len(out))
    BY <1>1, <1>2, NextLap
  <2>2. seq[SlotOf(ppos[p])] \in Int
    BY <1>1, SlotType DEF IInv, TypeOK
  <2> QED BY <1>1, <1>2, <2>1, <2>2, CapAssumption DEF Diff
<1> QED BY <1>1, <1>2, CapAssumption

LEMMA LooksKeepsType ==
  ASSUME TypeOK, NEW p \in Producers, Looks(p) PROVE TypeOK'
<1> USE DEF TypeOK, ProducerPC
<1>0. TypeOK' <=> /\ dropped' \in Nat
                  /\ ppc' \in [Producers -> ProducerPC]
                  /\ ppos' \in [Producers -> Nat]
                  /\ sent' \in [Producers -> 0..MaxWrites]
  BY LooksFrame DEF ringAndConsumers
<1>1. CASE BeginWrite(p)
  <2>1. sent[p] + 1 \in 0..MaxWrites
    BY <1>1, WritesAssumption DEF BeginWrite
  <2> QED BY <1>0, <1>1, <2>1 DEF BeginWrite, ringVars
<1>2. CASE SlotIsFree(p)   BY <1>0, <1>2 DEF SlotIsFree, ringVars
<1>3. CASE DropMessage(p)  BY <1>0, <1>3 DEF DropMessage
<1>4. CASE SlotIsTaken(p)  BY <1>0, <1>4 DEF SlotIsTaken, ringVars
<1>5. CASE ReloadHead(p)   BY <1>0, <1>5 DEF ReloadHead, ringVars
<1>6. CASE CasFails(p)     BY <1>0, <1>6 DEF CasFails, ringVars
<1> QED BY <1>1, <1>2, <1>3, <1>4, <1>5, <1>6 DEF Looks

LEMMA LooksKeepsIInv ==
  ASSUME IInv, NEW p \in Producers, Looks(p) PROVE IInv'
<1>1. TypeOK /\ ProducerInv /\ PlaceInv /\ LogOrderInv /\ WindowInv
  BY DEF IInv
<1>0. TypeOK'
  BY <1>1, LooksKeepsType
<1>2. UNCHANGED <<head, seq, data, log, out>>
  BY LooksFrame DEF ringAndConsumers
<1>3. /\ \A q \in Producers : q # p => /\ ppc'[q] = ppc[q] /\ ppos'[q] = ppos[q]
                                       /\ sent'[q] = sent[q]
      /\ ~Filling(p) /\ ~Filling(p)'
      /\ sent'[p] >= sent[p]
      /\ ppc'[p] # "idle" => sent'[p] >= 1
      /\ ppc'[p] \in {"seq", "cas"} => ppos'[p] <= head
      /\ ppc'[p] = "cas" => ppos'[p] < Len(out) + Cap
      /\ ppc'[p] \in {"seq", "load", "cas"} =>
           sent'[p] > sent[p] \/ (ppc[p] \in {"seq", "load", "cas"} /\ sent'[p] = sent[p])
  <2> USE <1>1 DEF TypeOK, ProducerPC, Filling, ProducerInv, WindowInv
  <2>1. CASE BeginWrite(p)   BY <2>1 DEF BeginWrite
  <2>2. CASE SlotIsFree(p)   BY <2>2, FreeSlotInWindow DEF SlotIsFree
  <2>3. CASE DropMessage(p)  BY <2>3 DEF DropMessage
  <2>4. CASE SlotIsTaken(p)  BY <2>4 DEF SlotIsTaken
  <2>5. CASE ReloadHead(p)   BY <2>5 DEF ReloadHead
  <2>6. CASE CasFails(p)     BY <2>6 DEF CasFails
  <2> QED BY <2>1, <2>2, <2>3, <2>4, <2>5, <2>6 DEF Looks
<1>4. ProducerInv'
  <2> SUFFICES ASSUME NEW q \in Producers
               PROVE  /\ ppc'[q] # "idle" => sent'[q] >= 1
                      /\ ppc'[q] \in {"seq", "cas"} => ppos'[q] <= head'
                      /\ ppc'[q] = "cas" => ppos'[q] < Len(out)' + Cap
                      /\ Filling(q)' => /\ Len(out)' <= ppos'[q] /\ ppos'[q] < head'
                                        /\ seq'[SlotOf(ppos'[q])] = ppos'[q]
                                        /\ log'[ppos'[q] + 1] = <<q, sent'[q]>>
                      /\ ppc'[q] = "publish" => data'[SlotOf(ppos'[q])] = <<q, sent'[q]>>
    BY DEF ProducerInv, SlotOf
  <2>1. CASE q = p  BY <1>2, <1>3, <2>1 DEF Filling
  <2>2. CASE q # p  BY <1>1, <1>2, <1>3, <2>2 DEF Filling, ProducerInv, SlotOf
  <2> QED BY <2>1, <2>2
<1>5. PlaceInv'
  BY <1>1, <1>2, <1>3 DEF PlaceInv, Filling
<1>6. LogOrderInv'
  <2>1. \A i \in 1..Len(log) : log[i][1] \in Producers /\ log[i][2] \in Nat
    BY <1>1, SMTT(60) DEF TypeOK, Message
  <2>2. \A q \in Producers : sent[q] \in Nat /\ sent'[q] \in Nat
    BY <1>1, <1>0 DEF TypeOK
  <2>3. \A q \in Producers : sent'[q] >= sent[q]
    BY <1>3, <2>2
  <2>4. \A i \in 1..Len(log) : log[i][2] <= sent'[log[i][1]]
    BY <1>1, <2>1, <2>2, <2>3 DEF LogOrderInv
  <2>5. ASSUME NEW q \in Producers, NEW i \in 1..Len(log),
               ppc'[q] \in {"seq", "load", "cas"}, log[i][1] = q
        PROVE  log[i][2] < sent'[q]
    <3>1. CASE q = p
      BY <1>1, <1>3, <2>1, <2>2, <2>5, <3>1 DEF LogOrderInv
    <3>2. CASE q # p
      BY <1>1, <1>3, <2>5, <3>2 DEF LogOrderInv
    <3> QED BY <3>1, <3>2
  <2> QED BY <1>1, <1>2, <2>4, <2>5 DEF LogOrderInv
<1> QED BY <1>4, <1>5, <1>6, <1>0, LooksFrame, RingPartsKept DEF IInv
-----------------------------------------------------------------------------
(* Steps of a producer that reserve, fill and publish a slot.               *)

\* What Append does to a sequence, position by position.
LEMMA AppendFacts ==
  ASSUME NEW S, NEW s \in Seq(S), NEW e \in S
  PROVE  /\ Append(s, e) \in Seq(S) /\ Len(Append(s, e)) = Len(s) + 1
         /\ \A i \in 1..Len(s) : Append(s, e)[i] = s[i]
         /\ Append(s, e)[Len(s) + 1] = e
  OBVIOUS

\* The worker that reads a slot is at the oldest position, which is published.
LEMMA EmptyingPosition ==
  ASSUME IInv, NEW c \in Consumers, Emptying(c)
  PROVE  /\ cpos[c] = Len(out) /\ tail = Len(out) /\ Len(out) < head
         /\ data[SlotOf(Len(out))] = log[Len(out) + 1]
<1>1. TypeOK /\ ClaimInv /\ TailInv /\ SlotInv /\ DrainInv
  BY DEF IInv
<1>2. \A d \in Consumers : cpc[d] # "advance"
  BY <1>1 DEF ClaimInv, Emptying
<1>3. cpos[c] = tail /\ tail = Len(out)
  BY <1>1, <1>2 DEF TailInv, Emptying
<1>4. seq[SlotOf(Len(out))] = Len(out) + 1
  BY <1>1, <1>3 DEF DrainInv
<1>5. Len(out) \in Nat /\ Len(out) \in Len(out)..(Len(out) + Cap - 1)
  BY <1>1, CapAssumption DEF TypeOK
<1> QED BY <1>1, <1>3, <1>4, <1>5 DEF SlotInv

LEMMA CasKeepsIInv ==
  ASSUME IInv, NEW p \in Producers, CasSucceeds(p) PROVE IInv'
<1> DEFINE m == <<p, sent[p]>>
<1>1. /\ TypeOK /\ ClaimInv /\ TailInv /\ WindowInv /\ SlotInv /\ DrainInv
      /\ ProducerInv /\ PlaceInv /\ DeliveredInOrder /\ LogOrderInv
  BY DEF IInv
<1>2. /\ ppc[p] = "cas" /\ head = ppos[p] /\ head' = head + 1 /\ log' = Append(log, m)
      /\ ppc' = [ppc EXCEPT ![p] = "copy"]
      /\ UNCHANGED <<tail, seq, data, dropped, ppos, sent, busy, cpc, cpos, cmsg,
                     drained, out>>
  BY DEF CasSucceeds, consumerVars
<1>3. /\ head \in Nat /\ Len(out) \in Nat /\ Len(log) = head
      /\ Len(out) <= head /\ head < Len(out) + Cap
  BY <1>1, <1>2 DEF TypeOK, WindowInv, ProducerInv
<1>4. m \in Message
  BY <1>1, <1>2, WritesAssumption DEF TypeOK, ProducerInv, Message
<1>5. /\ log \in Seq(Message) /\ log' \in Seq(Message) /\ Len(log') = head + 1
      /\ \A i \in 1..head : log'[i] = log[i]
      /\ log'[head + 1] = m
  BY <1>1, <1>2, <1>3, <1>4, AppendFacts DEF TypeOK
<1> HIDE DEF m
<1>6. TypeOK'
  BY <1>1, <1>2, <1>3, <1>5 DEF TypeOK, ProducerPC
<1>7. (ClaimInv /\ TailInv)'
  BY <1>1, <1>2 DEF ClaimInv, TailInv
<1>8. WindowInv'
  BY <1>2, <1>3, <1>5, CapAssumption DEF WindowInv
<1>9. SlotInv'
  BY <1>1, <1>2, <1>3, <1>5, CapAssumption DEF SlotInv, SlotOf
<1>10. DrainInv'
  BY <1>1, <1>2, <1>3, <1>5, EmptyingPosition DEF DrainInv, Emptying, SlotOf
<1>11. seq[SlotOf(head)] = head
  <2>1. head \in Len(out)..(Len(out) + Cap - 1)
    BY <1>3, CapAssumption
  <2> QED BY <1>1, <1>3, <2>1 DEF SlotInv
<1>12. ProducerInv'
  <2> SUFFICES ASSUME NEW q \in Producers
               PROVE  /\ ppc'[q] # "idle" => sent'[q] >= 1
                      /\ ppc'[q] \in {"seq", "cas"} => ppos'[q] <= head'
                      /\ ppc'[q] = "cas" => ppos'[q] < Len(out)' + Cap
                      /\ Filling(q)' => /\ Len(out)' <= ppos'[q] /\ ppos'[q] < head'
                                        /\ seq'[SlotOf(ppos'[q])] = ppos'[q]
                                        /\ log'[ppos'[q] + 1] = <<q, sent'[q]>>
                      /\ ppc'[q] = "publish" => data'[SlotOf(ppos'[q])] = <<q, sent'[q]>>
    BY DEF ProducerInv, SlotOf
  <2>1. CASE q = p
    BY <1>1, <1>2, <1>3, <1>5, <1>11, <2>1 DEF Filling, ProducerInv, TypeOK, m
  <2>2. CASE q # p
    BY <1>1, <1>2, <1>3, <1>5, <2>2 DEF Filling, ProducerInv, TypeOK
  <2> QED BY <2>1, <2>2
<1>13. PlaceInv'
  BY <1>1, <1>2, <1>3 DEF PlaceInv, ProducerInv, Filling, TypeOK
<1>14. DeliveredInOrder'
  BY <1>1, <1>2, <1>3, <1>5 DEF DeliveredInOrder
<1>15. LogOrderInv'
  <2>1. \A i \in 1..head : log[i][1] \in Producers /\ log[i][2] \in Nat
    BY <1>1, <1>3 DEF TypeOK, Message
  <2>2. m[1] = p /\ m[2] = sent[p] /\ sent[p] \in Nat
    BY <1>1 DEF m, TypeOK
  <2>3. \A i \in 1..head : log[i][1] = p => log[i][2] < sent[p]
    BY <1>1, <1>2, <1>3 DEF LogOrderInv
  <2>4. \A i \in 1..Len(log') : i \in 1..head \/ i = head + 1
    BY <1>3, <1>5
  <2>5. \A i \in 1..Len(log') : log'[i][2] <= sent'[log'[i][1]]
    BY <1>1, <1>2, <1>3, <1>5, <2>1, <2>2, <2>4 DEF LogOrderInv
  <2>6. ASSUME NEW q \in Producers, NEW i \in 1..Len(log'),
               ppc'[q] \in {"seq", "load", "cas"}, log'[i][1] = q
        PROVE  log'[i][2] < sent'[q]
    BY <1>1, <1>2, <1>3, <1>5, <2>2, <2>4, <2>6 DEF LogOrderInv, TypeOK
  <2>7. ASSUME NEW i \in 1..Len(log'), NEW j \in 1..Len(log'),
               i < j, log'[i][1] = log'[j][1]
        PROVE  log'[i][2] < log'[j][2]
    BY <1>1, <1>3, <1>5, <2>2, <2>3, <2>4, <2>7 DEF LogOrderInv
  <2> QED BY <2>5, <2>6, <2>7 DEF LogOrderInv
<1> QED BY <1>6, <1>7, <1>8, <1>9, <1>10, <1>12, <1>13, <1>14, <1>15 DEF IInv

\* The slot of a reserved position is not the slot of any other position of
\* the window.
LEMMA FillingPosition ==
  ASSUME IInv, NEW p \in Producers, Filling(p)
  PROVE  /\ ppos[p] \in Len(out)..(Len(out) + Cap - 1) /\ ppos[p] < head
         /\ seq[SlotOf(ppos[p])] = ppos[p]
         /\ SlotOf(ppos[p]) \in Slots
         /\ \A i \in Len(out)..(Len(out) + Cap - 1) :
              SlotOf(i) \in Slots /\ (SlotOf(i) = SlotOf(ppos[p]) => i = ppos[p])
<1>1. TypeOK /\ WindowInv /\ ProducerInv
  BY DEF IInv
<1>2. Len(out) \in Nat /\ ppos[p] \in Nat /\ head \in Nat
  BY <1>1 DEF TypeOK
<1>3. /\ ppos[p] \in Len(out)..(Len(out) + Cap - 1) /\ ppos[p] < head
      /\ seq[SlotOf(ppos[p])] = ppos[p]
  BY <1>1, <1>2, CapAssumption DEF WindowInv, ProducerInv
<1> QED BY <1>2, <1>3, SlotType, WindowInjective, CapAssumption

LEMMA CopyKeepsIInv ==
  ASSUME IInv, NEW p \in Producers, CopyMessage(p) PROVE IInv'
<1>1. /\ TypeOK /\ ClaimInv /\ TailInv /\ WindowInv /\ SlotInv /\ DrainInv
      /\ ProducerInv /\ PlaceInv /\ DeliveredInOrder /\ LogOrderInv
  BY DEF IInv
<1>2. /\ ppc[p] = "copy" /\ Filling(p)
      /\ data' = [data EXCEPT ![SlotOf(ppos[p])] = <<p, sent[p]>>]
      /\ ppc' = [ppc EXCEPT ![p] = "publish"]
      /\ UNCHANGED <<head, tail, seq, dropped, ppos, sent, busy, cpc, cpos, cmsg,
                     drained, log, out>>
  BY DEF CopyMessage, consumerVars, histVars, Filling
<1>3. <<p, sent[p]>> \in Message
  BY <1>1, <1>2, WritesAssumption DEF TypeOK, ProducerInv, Message
<1>4. TypeOK'
  BY <1>1, <1>2, <1>3 DEF TypeOK, ProducerPC
<1>5. (ClaimInv /\ TailInv /\ WindowInv /\ DeliveredInOrder)'
  BY <1>1, <1>2 DEF ClaimInv, TailInv, WindowInv, DeliveredInOrder
<1>6. SlotInv'
  <2> SUFFICES ASSUME NEW i \in Len(out)..(Len(out) + Cap - 1)
               PROVE  \/ seq[SlotOf(i)] = i
                      \/ seq[SlotOf(i)] = i + 1 /\ i < head /\ data'[SlotOf(i)] = log[i + 1]
    BY <1>2 DEF SlotInv, SlotOf
  <2>1. CASE i = ppos[p]
    BY <1>2, <2>1, FillingPosition
  <2>2. CASE i # ppos[p]
    BY <1>1, <1>2, <2>2, FillingPosition DEF SlotInv, TypeOK
  <2> QED BY <2>1, <2>2
<1>7. DrainInv'
  BY <1>1, <1>2 DEF DrainInv, Emptying, SlotOf
<1>8. PlaceInv'
  BY <1>1, <1>2 DEF PlaceInv, Filling, TypeOK
<1>9. ProducerInv'
  <2>1. \A q \in Producers : ppc[q] = "publish" => SlotOf(ppos[q]) # SlotOf(ppos[p])
    <3> SUFFICES ASSUME NEW q \in Producers, ppc[q] = "publish",
                        SlotOf(ppos[q]) = SlotOf(ppos[p])
                 PROVE  FALSE
      OBVIOUS
    <3>1. Filling(q) /\ q # p
      BY <1>2 DEF Filling
    <3>2. ppos[q] = ppos[p]
      BY <1>2, <3>1, FillingPosition
    <3> QED BY <1>1, <1>2, <3>1, <3>2 DEF PlaceInv
  <2>2. \A q \in Producers : ppc[q] = "publish" => SlotOf(ppos[q]) \in Slots
    BY FillingPosition DEF Filling
  <2>3. data'[SlotOf(ppos[p])] = <<p, sent[p]>>
    BY <1>1, <1>2, FillingPosition DEF TypeOK
  <2> QED BY <1>1, <1>2, <2>1, <2>2, <2>3 DEF ProducerInv, Filling, TypeOK, SlotOf
<1>10. LogOrderInv'
  BY <1>1, <1>2 DEF LogOrderInv, TypeOK, Message
<1> QED BY <1>4, <1>5, <1>6, <1>7, <1>8, <1>9, <1>10 DEF IInv

LEMMA PublishKeepsIInv ==
  ASSUME IInv, NEW p \in Producers, Publish(p) PROVE IInv'
<1>1. /\ TypeOK /\ ClaimInv /\ TailInv /\ WindowInv /\ SlotInv /\ DrainInv
      /\ ProducerInv /\ PlaceInv /\ DeliveredInOrder /\ LogOrderInv
  BY DEF IInv
<1>2. /\ ppc[p] = "publish" /\ Filling(p)
      /\ seq' = [seq EXCEPT ![SlotOf(ppos[p])] = ppos[p] + 1]
      /\ ppc' = [ppc EXCEPT ![p] = "idle"]
      /\ UNCHANGED <<head, tail, data, dropped, ppos, sent, busy, cpc, cpos, cmsg,
                     drained, log, out>>
  BY DEF Publish, consumerVars, histVars, Filling
<1>3. TypeOK'
  <2>1. seq' \in [Slots -> Nat]
    <3>1. seq \in [Slots -> Nat] /\ ppos[p] + 1 \in Nat
      BY <1>1 DEF TypeOK
    <3> QED BY <1>2, <3>1
  <2>2. ppc' \in [Producers -> ProducerPC]
    BY <1>1, <1>2 DEF TypeOK, ProducerPC
  <2> QED BY <1>1, <1>2, <2>1, <2>2 DEF TypeOK
<1>4. (ClaimInv /\ TailInv /\ WindowInv /\ DeliveredInOrder)'
  BY <1>1, <1>2 DEF ClaimInv, TailInv, WindowInv, DeliveredInOrder
<1>5. SlotInv'
  <2> SUFFICES ASSUME NEW i \in Len(out)..(Len(out) + Cap - 1)
               PROVE  \/ seq'[SlotOf(i)] = i
                      \/ seq'[SlotOf(i)] = i + 1 /\ i < head /\ data[SlotOf(i)] = log[i + 1]
    BY <1>2 DEF SlotInv, SlotOf
  <2>1. CASE i = ppos[p]
    BY <1>1, <1>2, <2>1, FillingPosition DEF ProducerInv, TypeOK
  <2>2. CASE i # ppos[p]
    BY <1>1, <1>2, <2>2, FillingPosition DEF SlotInv, TypeOK
  <2> QED BY <2>1, <2>2
<1>6. DrainInv'
  <2> SUFFICES ASSUME NEW c \in Consumers, Emptying(c)
               PROVE  seq'[SlotOf(cpos[c])] = cpos[c] + 1
    BY <1>1, <1>2 DEF DrainInv, Emptying, SlotOf
  <2>1. cpos[c] \in Len(out)..(Len(out) + Cap - 1)
    BY <1>1, EmptyingPosition, CapAssumption DEF TypeOK
  <2>2. seq[SlotOf(cpos[c])] = cpos[c] + 1
    BY <1>1 DEF DrainInv
  <2>3. CASE cpos[c] = ppos[p]
    BY <1>1, <1>2, <2>3, FillingPosition DEF TypeOK
  <2>4. CASE cpos[c] # ppos[p]
    BY <1>1, <1>2, <2>1, <2>2, <2>4, FillingPosition DEF TypeOK
  <2> QED BY <2>3, <2>4
<1>7. PlaceInv'
  BY <1>1, <1>2 DEF PlaceInv, Filling, TypeOK
<1>8. ProducerInv'
  <2>1. \A q \in Producers : q # p /\ Filling(q) => SlotOf(ppos[q]) # SlotOf(ppos[p])
    BY <1>1, <1>2, FillingPosition DEF PlaceInv
  <2>2. \A q \in Producers : q # p /\ Filling(q) => seq'[SlotOf(ppos[q])] = seq[SlotOf(ppos[q])]
    BY <1>1, <1>2, <2>1, FillingPosition DEF TypeOK
  <2> QED BY <1>1, <1>2, <2>2 DEF ProducerInv, Filling, TypeOK, SlotOf
<1>9. LogOrderInv'
  BY <1>1, <1>2 DEF LogOrderInv, TypeOK, Message
<1> QED BY <1>3, <1>4, <1>5, <1>6, <1>7, <1>8, <1>9 DEF IInv
-----------------------------------------------------------------------------
(* Steps of a consumer that leave the slots as they are.                    *)

Drains(c) == \/ Claim(c) \/ LoadTail(c) \/ PeekSeq(c) \/ ReadMessage(c)
             \/ AdvanceTail(c) \/ Release(c)

LEMMA DrainsFrame ==
  ASSUME NEW c \in Consumers, Drains(c)
  PROVE  UNCHANGED <<head, seq, data, dropped, ppc, ppos, sent, log, out>>
  BY DEF Drains, Claim, LoadTail, PeekSeq, ReadMessage, AdvanceTail, Release,
         ringVars, producerVars, histVars

LEMMA DrainsKeepsType ==
  ASSUME TypeOK, NEW c \in Consumers, Drains(c) PROVE TypeOK'
<1> USE DEF TypeOK
<1>0. TypeOK' <=> /\ tail' \in Nat
                  /\ busy' \in {0, 1}
                  /\ cpc' \in [Consumers -> ConsumerPC]
                  /\ cpos' \in [Consumers -> Nat]
                  /\ cmsg' \in [Consumers -> Message \union {NoMessage}]
                  /\ drained' \in [Consumers -> Nat]
  BY DrainsFrame
<1>1. CASE Claim(c)
  BY <1>0, <1>1 DEF Claim, ringVars, ConsumerPC
<1>2. CASE LoadTail(c)
  BY <1>0, <1>2 DEF LoadTail, ringVars, ConsumerPC
<1>3. CASE PeekSeq(c)
  BY <1>0, <1>3 DEF PeekSeq, ringVars, ConsumerPC
<1>4. CASE ReadMessage(c)
  <2>1. data[SlotOf(cpos[c])] \in Message \union {NoMessage}
    BY SlotType
  <2>2. cmsg' \in [Consumers -> Message \union {NoMessage}]
    BY <1>4, <2>1 DEF ReadMessage
  <2>3. cpc' \in [Consumers -> ConsumerPC]
    BY <1>4 DEF ReadMessage, ConsumerPC
  <2> QED BY <1>0, <1>4, <2>2, <2>3 DEF ReadMessage, ringVars
<1>5. CASE AdvanceTail(c)
  BY <1>0, <1>5 DEF AdvanceTail, ConsumerPC
<1>6. CASE Release(c)
  BY <1>0, <1>6 DEF Release, ringVars, ConsumerPC
<1> QED BY <1>1, <1>2, <1>3, <1>4, <1>5, <1>6 DEF Drains

LEMMA DrainsKeepsIInv ==
  ASSUME IInv, NEW c \in Consumers, Drains(c) PROVE IInv'
<1>1. /\ TypeOK /\ ClaimInv /\ TailInv /\ WindowInv /\ SlotInv /\ DrainInv
      /\ ProducerInv /\ PlaceInv /\ DeliveredInOrder /\ LogOrderInv
  BY DEF IInv
<1>2. UNCHANGED <<head, seq, data, dropped, ppc, ppos, sent, log, out>>
  BY DrainsFrame
<1>3. TypeOK'
  BY <1>1, DrainsKeepsType
<1>4. (WindowInv /\ SlotInv /\ DeliveredInOrder /\ LogOrderInv)'
  BY <1>1, <1>2 DEF WindowInv, SlotInv, DeliveredInOrder, LogOrderInv, SlotOf
<1>5. (ProducerInv /\ PlaceInv)'
  BY <1>1, <1>2 DEF ProducerInv, PlaceInv, Filling, SlotOf
<1>6. (ClaimInv /\ TailInv /\ DrainInv)'
  <2>1. CASE Claim(c)
    BY <1>1, <1>2, <2>1
       DEF Claim, ringVars, TypeOK, ClaimInv, TailInv, DrainInv, Emptying, SlotOf
  <2>2. CASE LoadTail(c)
    BY <1>1, <1>2, <2>2
       DEF LoadTail, ringVars, TypeOK, ClaimInv, TailInv, DrainInv, Emptying, SlotOf
  <2>3. CASE PeekSeq(c)
    BY <1>1, <1>2, <2>3
       DEF PeekSeq, ringVars, TypeOK, ClaimInv, TailInv, DrainInv, Emptying, SlotOf
  <2>4. CASE ReadMessage(c)
    <3>1. Emptying(c) /\ cpc[c] = "read"
      BY <2>4 DEF ReadMessage, Emptying
    <3>2. data[SlotOf(cpos[c])] = log[cpos[c] + 1]
      BY <3>1, EmptyingPosition
    <3> QED BY <1>1, <1>2, <2>4, <3>1, <3>2
            DEF ReadMessage, ringVars, TypeOK, ClaimInv, TailInv, DrainInv, Emptying, SlotOf
  <2>5. CASE AdvanceTail(c)
    BY <1>1, <1>2, <2>5
       DEF AdvanceTail, TypeOK, ClaimInv, TailInv, DrainInv, Emptying, SlotOf
  <2>6. CASE Release(c)
    BY <1>1, <1>2, <2>6
       DEF Release, ringVars, TypeOK, ClaimInv, TailInv, DrainInv, Emptying, SlotOf
  <2> QED BY <2>1, <2>2, <2>3, <2>4, <2>5, <2>6 DEF Drains
<1> QED BY <1>1, <1>3, <1>4, <1>5, <1>6 DEF IInv
-----------------------------------------------------------------------------
(* Freeing a slot: the window moves up by one position.                     *)

LEMMA FreeSlotKeepsIInv ==
  ASSUME IInv, NEW c \in Consumers, FreeSlot(c) PROVE IInv'
<1> DEFINE f == Len(out)
<1>1. /\ TypeOK /\ ClaimInv /\ TailInv /\ WindowInv /\ SlotInv /\ DrainInv
      /\ ProducerInv /\ PlaceInv /\ DeliveredInOrder /\ LogOrderInv
  BY DEF IInv
<1>2. /\ cpc[c] = "free" /\ Emptying(c)
      /\ seq' = [seq EXCEPT ![SlotOf(cpos[c])] = cpos[c] + Cap]
      /\ out' = Append(out, cmsg[c])
      /\ cpc' = [cpc EXCEPT ![c] = "advance"]
      /\ UNCHANGED <<head, tail, data, dropped, ppc, ppos, sent, busy, cpos, cmsg,
                     drained, log>>
  BY DEF FreeSlot, producerVars, Emptying
<1>3. cpos[c] = f /\ tail = f /\ f < head /\ f \in Nat /\ f \in f..(f + Cap - 1)
  BY <1>1, <1>2, EmptyingPosition, CapAssumption DEF TypeOK
<1>4. cmsg[c] = log[f + 1] /\ seq[SlotOf(f)] = f + 1 /\ SlotOf(f) \in Slots
  BY <1>1, <1>2, <1>3, SlotType DEF DrainInv
<1>5. /\ Len(out') = f + 1 /\ out' \in Seq(Message \union {NoMessage})
      /\ \A i \in 1..f : out'[i] = out[i]
      /\ out'[f + 1] = cmsg[c]
  BY <1>1, <1>2, AppendFacts DEF TypeOK
<1>6. \A i \in f..(f + Cap - 1) : /\ SlotOf(i) \in Slots
                                  /\ SlotOf(i) = SlotOf(f) => i = f
                                  /\ i # f => seq'[SlotOf(i)] = seq[SlotOf(i)]
  <2>1. \A i \in f..(f + Cap - 1) : SlotOf(i) \in Slots /\ (SlotOf(i) = SlotOf(f) => i = f)
    BY <1>3, SlotType, WindowInjective
  <2> QED BY <1>1, <1>2, <1>3, <2>1 DEF TypeOK
<1>7. seq'[SlotOf(f)] = f + Cap
  BY <1>1, <1>2, <1>3, <1>4 DEF TypeOK
<1> HIDE DEF f
<1>8. TypeOK'
  <2>1. seq' \in [Slots -> Nat]
    <3>1. seq \in [Slots -> Nat] /\ cpos[c] + Cap \in Nat
      BY <1>1, CapAssumption DEF TypeOK
    <3> QED BY <1>2, <3>1
  <2>2. cpc' \in [Consumers -> ConsumerPC]
    BY <1>1, <1>2 DEF TypeOK, ConsumerPC
  <2> QED BY <1>1, <1>2, <1>5, <2>1, <2>2 DEF TypeOK
<1>9. ClaimInv'
  BY <1>1, <1>2 DEF ClaimInv, TypeOK
<1>10. TailInv'
  BY <1>1, <1>2, <1>3, <1>5 DEF TailInv, ClaimInv, TypeOK
<1>11. WindowInv'
  BY <1>1, <1>2, <1>3, <1>5, CapAssumption DEF WindowInv, TypeOK, f
<1>12. SlotInv'
  <2> SUFFICES ASSUME NEW i \in (f + 1)..(f + Cap)
               PROVE  \/ seq'[SlotOf(i)] = i
                      \/ seq'[SlotOf(i)] = i + 1 /\ i < head /\ data[SlotOf(i)] = log[i + 1]
    <3>1. Len(out')..(Len(out') + Cap - 1) = (f + 1)..(f + Cap) BY <1>3, <1>5, CapAssumption
    <3>2. head' = head /\ data' = data /\ log' = log BY <1>2
    <3> QED BY <3>1, <3>2 DEF SlotInv, SlotOf
  <2>1. CASE i = f + Cap
    BY <1>3, <1>7, <2>1, NextLap
  <2>2. CASE i # f + Cap
    <3>1. i \in f..(f + Cap - 1) /\ i # f
      BY <1>3, <2>2, CapAssumption
    <3> QED BY <1>1, <1>6, <3>1 DEF SlotInv, f
  <2> QED BY <2>1, <2>2
<1>13. DrainInv'
  BY <1>1, <1>2 DEF DrainInv, Emptying, ClaimInv, TypeOK
<1>14. ProducerInv'
  <2>1. \A q \in Producers : Filling(q) => /\ ppos[q] \in f..(f + Cap - 1)
                                           /\ seq[SlotOf(ppos[q])] = ppos[q]
    BY <1>1, FillingPosition DEF f
  <2>2. \A q \in Producers : Filling(q) => ppos[q] # f
    BY <1>3, <1>4, <2>1
  <2>3. \A q \in Producers : Filling(q) => /\ f + 1 <= ppos[q]
                                           /\ seq'[SlotOf(ppos[q])] = ppos[q]
    BY <1>3, <1>6, <2>1, <2>2
  <2> QED BY <1>1, <1>2, <1>3, <1>5, <2>3, CapAssumption
          DEF ProducerInv, Filling, TypeOK, SlotOf, f
<1>15. PlaceInv'
  BY <1>1, <1>2 DEF PlaceInv, Filling
<1>16. DeliveredInOrder'
  <2>1. \A i \in 1..Len(out') : i \in 1..f \/ i = f + 1
    BY <1>3, <1>5
  <2> QED BY <1>1, <1>2, <1>3, <1>4, <1>5, <2>1 DEF DeliveredInOrder, WindowInv, f, TypeOK
<1>17. LogOrderInv'
  BY <1>1, <1>2 DEF LogOrderInv
<1> QED BY <1>8, <1>9, <1>10, <1>11, <1>12, <1>13, <1>14, <1>15, <1>16, <1>17 DEF IInv
-----------------------------------------------------------------------------
(* The theorems.                                                            *)

LEMMA NextKeepsIInv == IInv /\ [Next]_vars => IInv'
<1> SUFFICES ASSUME IInv, [Next]_vars PROVE IInv'
  OBVIOUS
<1>1. ASSUME NEW p \in Producers, BeginWrite(p) \/ ProducerStep(p) PROVE IInv'
  BY <1>1, LooksKeepsIInv, CasKeepsIInv, CopyKeepsIInv, PublishKeepsIInv
     DEF ProducerStep, Looks
<1>2. ASSUME NEW c \in Consumers, ConsumerStep(c) PROVE IInv'
  BY <1>2, DrainsKeepsIInv, FreeSlotKeepsIInv DEF ConsumerStep, Drains
<1>3. CASE UNCHANGED vars
  BY <1>3 DEF vars, ringVars, producerVars, consumerVars, histVars, IInv, TypeOK,
     ClaimInv, TailInv, WindowInv, SlotInv, DrainInv, ProducerInv, PlaceInv,
     DeliveredInOrder, LogOrderInv, Filling, Emptying, SlotOf
<1> QED BY <1>1, <1>2, <1>3 DEF Next

\* Every reachable state satisfies the inductive invariant.
THEOREM RingInvariant == Spec => []IInv
  BY InitIInv, NextKeepsIInv, PTL DEF Spec

\* The variables keep their types.
THEOREM RingTypeOK == Spec => []TypeOK
  BY RingInvariant, PTL DEF IInv

\* No slot is touched by two threads at once.
THEOREM RingNoSlotRace == Spec => []NoSlotRace
<1>1. IInv => NoSlotRace
  <2> SUFFICES ASSUME IInv PROVE NoSlotRace
    OBVIOUS
  <2>1. ASSUME NEW p \in Producers, NEW q \in Producers, p # q, Filling(p), Filling(q)
        PROVE  SlotOf(ppos[p]) # SlotOf(ppos[q])
    BY <2>1, FillingPosition DEF IInv, PlaceInv
  <2>2. ASSUME NEW c \in Consumers, NEW d \in Consumers, cpc[c] # "idle", cpc[d] # "idle"
        PROVE  c = d
    BY <2>2 DEF IInv, ClaimInv
  <2>3. ASSUME NEW p \in Producers, NEW c \in Consumers, Filling(p), Emptying(c)
        PROVE  SlotOf(ppos[p]) # SlotOf(cpos[c])
    <3>1. seq[SlotOf(ppos[p])] = ppos[p] /\ ppos[p] \in Nat
      BY <2>3, FillingPosition DEF IInv, TypeOK
    <3>2. seq[SlotOf(cpos[c])] = cpos[c] + 1 /\ cpos[c] \in Nat
      BY <2>3 DEF IInv, DrainInv, TypeOK
    <3>3. cpos[c] \in Len(out)..(Len(out) + Cap - 1)
      BY <2>3, EmptyingPosition, CapAssumption DEF IInv, TypeOK
    <3>4. SlotOf(ppos[p]) = SlotOf(cpos[c]) => ppos[p] = cpos[c]
      BY <2>3, <3>3, FillingPosition
    <3> QED BY <3>1, <3>2, <3>4
  <2> QED BY <2>1, <2>2, <2>3 DEF NoSlotRace
<1> QED BY <1>1, RingInvariant, PTL

\* The workers hand on exactly the reserved messages, in their order.
THEOREM RingDeliveredInOrder == Spec => []DeliveredInOrder
  BY RingInvariant, PTL DEF IInv

\* The messages of one producer keep their order.
THEOREM RingProducerOrder == Spec => []ProducerOrder
<1>1. IInv => ProducerOrder
  <2> SUFFICES ASSUME IInv, NEW i \in 1..Len(out), NEW j \in 1..Len(out),
                      i < j, out[i][1] = out[j][1]
               PROVE  out[i][2] < out[j][2]
    BY DEF ProducerOrder
  <2>1. Len(out) \in Nat /\ Len(log) \in Nat /\ Len(out) <= Len(log)
    BY DEF IInv, TypeOK, DeliveredInOrder
  <2>2. i \in 1..Len(log) /\ j \in 1..Len(log) /\ out[i] = log[i] /\ out[j] = log[j]
    BY <2>1 DEF IInv, DeliveredInOrder
  <2> QED BY <2>2 DEF IInv, LogOrderInv
<1> QED BY <1>1, RingInvariant, PTL

\* A slot whose mark lies behind a producer's position is the slot of a full
\* ring: all Cap positions are taken.
LEMMA MarkBehindMeansFull ==
  ASSUME IInv, NEW p \in Producers, ppc[p] = "seq", Diff(p) < 0
  PROVE  Len(log) - Len(out) = Cap
<1> DEFINE f == Len(out)
           s == SlotOf(ppos[p])
<1>1. /\ ppos[p] \in Nat /\ head \in Nat /\ f \in Nat /\ head = Len(log)
      /\ ppos[p] <= head /\ head <= f + Cap /\ s \in Slots
  BY SlotType DEF IInv, TypeOK, ProducerInv, WindowInv
<1>2. PICK i \in f..(f + Cap - 1) : SlotOf(i) = s
  BY <1>1, WindowCovers
<1>3. seq[s] \in {i, i + 1}
  BY <1>2 DEF IInv, SlotInv
<1>4. seq[s] < ppos[p]
  <2>1. seq[s] \in Nat /\ seq[s] - ppos[p] < 0
    BY <1>1 DEF Diff, IInv, TypeOK
  <2> QED BY <1>1, <2>1
<1> HIDE DEF s
<1>5. i < ppos[p]
  BY <1>1, <1>2, <1>3, <1>4
<1>6. CASE ppos[p] <= f + Cap - 1
  <2>1. ppos[p] \in f..(f + Cap - 1)
    BY <1>1, <1>2, <1>5, <1>6
  <2> QED BY <1>2, <1>5, <2>1, <1>1, WindowInjective DEF s
<1>7. CASE ppos[p] >= f + Cap
  BY <1>1, <1>7, CapAssumption
<1> QED BY <1>1, <1>6, <1>7, CapAssumption

\* No message is dropped while a place is free.
THEOREM RingDropOnlyWhenFull == Spec => DropOnlyWhenFull
<1>1. IInv /\ [Next]_vars => [dropped' # dropped => Len(log) - Len(out) = Cap]_vars
  <2> SUFFICES ASSUME IInv, Next, dropped' # dropped
               PROVE  Len(log) - Len(out) = Cap
    OBVIOUS
  <2>1. ASSUME NEW p \in Producers, BeginWrite(p) \/ ProducerStep(p), ~DropMessage(p)
        PROVE  dropped' = dropped
    BY <2>1 DEF ProducerStep, BeginWrite, SlotIsFree, SlotIsTaken, ReloadHead,
       CasSucceeds, CasFails, CopyMessage, Publish, ringVars
  <2>2. ASSUME NEW c \in Consumers, ConsumerStep(c) PROVE dropped' = dropped
    BY <2>2, DrainsFrame DEF ConsumerStep, Drains, FreeSlot
  <2>3. PICK p \in Producers : DropMessage(p)
    BY <2>1, <2>2 DEF Next
  <2> QED BY <2>3, MarkBehindMeansFull DEF DropMessage
<1> QED BY <1>1, RingInvariant, PTL DEF Spec, DropOnlyWhenFull
-----------------------------------------------------------------------------
(* Refinement: publishing a slot marks its place ready, freeing a slot is   *)
(* leaving the queue, winning the CAS is taking a place.                    *)

\* As long as the marks of the window's slots stay, so do the ready places.
LEMMA ReadyKept ==
  ASSUME IInv, UNCHANGED <<seq, log, out>> PROVE Ready' = Ready
  BY DEF Ready, SlotOf

LEMMA CasTakesPlace ==
  ASSUME IInv, NEW p \in Producers, CasSucceeds(p)
  PROVE  Queue!TakePlace(<<p, sent[p]>>) /\ <<p, sent[p]>> \in Message
<1>1. /\ ppc[p] = "cas" /\ head = ppos[p] /\ log' = Append(log, <<p, sent[p]>>)
      /\ UNCHANGED <<seq, out, dropped>>
  BY DEF CasSucceeds
<1>2. /\ log \in Seq(Message) /\ head = Len(log) /\ head \in Nat /\ Len(out) \in Nat
      /\ Len(out) <= head /\ head < Len(out) + Cap
  BY <1>1 DEF IInv, TypeOK, ProducerInv, WindowInv
<1>3. <<p, sent[p]>> \in Message
  BY <1>1, WritesAssumption DEF IInv, TypeOK, ProducerInv, Message
<1>4. Len(log') = head + 1
  BY <1>1, <1>2, <1>3, AppendFacts
<1>5. seq[SlotOf(head)] = head
  <2>1. head \in Len(out)..(Len(out) + Cap - 1)
    BY <1>2, CapAssumption
  <2> QED BY <1>2, <2>1 DEF IInv, SlotInv
<1>6. Ready' = Ready
  <2>1. \A i \in (Len(out) + 1)..(head + 1) :
          i \in (Len(out) + 1)..head \/ (i = head + 1 /\ i - 1 = head)
    BY <1>2
  <2> QED BY <1>1, <1>2, <1>4, <1>5, <2>1 DEF Ready, SlotOf
<1>7. Len(log) - Len(out) < Cap
  BY <1>2, CapAssumption
<1> QED BY <1>1, <1>3, <1>6, <1>7 DEF Queue!TakePlace, Queue!Pending

LEMMA PublishMarksReady ==
  ASSUME IInv, NEW p \in Producers, Publish(p)
  PROVE  ppos[p] + 1 \in 1..Len(log) /\ Queue!MarkReady(ppos[p] + 1)
<1>1. /\ Filling(p)
      /\ seq' = [seq EXCEPT ![SlotOf(ppos[p])] = ppos[p] + 1]
      /\ UNCHANGED <<log, out, dropped>>
  BY DEF Publish, histVars, Filling
<1>2. /\ seq \in [Slots -> Nat] /\ head = Len(log) /\ head \in Nat /\ Len(out) \in Nat
      /\ ppos[p] \in Nat /\ head <= Len(out) + Cap
  BY DEF IInv, TypeOK, WindowInv
<1>3. /\ ppos[p] \in Len(out)..(head - 1) /\ seq[SlotOf(ppos[p])] = ppos[p]
      /\ SlotOf(ppos[p]) \in Slots
      /\ \A i \in Len(out)..(head - 1) :
           SlotOf(i) \in Slots /\ (SlotOf(i) = SlotOf(ppos[p]) => i = ppos[p])
  BY <1>1, <1>2, FillingPosition, CapAssumption
<1>4. \A i \in (Len(out) + 1)..head :
        /\ i - 1 \in Len(out)..(head - 1)
        /\ i = ppos[p] + 1 => seq'[SlotOf(i - 1)] = i /\ seq[SlotOf(i - 1)] # i
        /\ i # ppos[p] + 1 => seq'[SlotOf(i - 1)] = seq[SlotOf(i - 1)]
  BY <1>1, <1>2, <1>3, SMTT(60)
<1>5. ppos[p] + 1 \in (Len(out) + 1)..head
  BY <1>2, <1>3
<1>6. Ready' = Ready \union {ppos[p] + 1} /\ ppos[p] + 1 \notin Ready
  BY <1>1, <1>2, <1>4, <1>5 DEF Ready, SlotOf
<1>7. ppos[p] + 1 \in 1..Len(log)
  BY <1>2, <1>5
<1> QED BY <1>1, <1>2, <1>5, <1>6, <1>7 DEF Queue!MarkReady

LEMMA FreeLeaves ==
  ASSUME IInv, NEW c \in Consumers, FreeSlot(c) PROVE Queue!Leave
<1> DEFINE f == Len(out)
<1>1. /\ cpc[c] = "free" /\ Emptying(c)
      /\ seq' = [seq EXCEPT ![SlotOf(cpos[c])] = cpos[c] + Cap]
      /\ out' = Append(out, cmsg[c])
      /\ UNCHANGED <<log, dropped>>
  BY DEF FreeSlot, Emptying
<1>2. /\ seq \in [Slots -> Nat] /\ head = Len(log) /\ head \in Nat /\ f \in Nat
      /\ cpos[c] = f /\ f < head /\ head <= f + Cap
      /\ cmsg[c] = log[f + 1] /\ seq[SlotOf(f)] = f + 1
  BY <1>1, EmptyingPosition DEF IInv, TypeOK, WindowInv, DrainInv
<1>3. Len(out') = f + 1
  BY <1>1, AppendFacts DEF IInv, TypeOK
<1> HIDE DEF f
<1>4. \A i \in f..(head - 1) : SlotOf(i) \in Slots /\ (SlotOf(i) = SlotOf(f) => i = f)
  <2>1. \A i \in f..(head - 1) : i \in f..(f + Cap - 1) /\ i \in Int
    BY <1>2, CapAssumption
  <2>2. f \in f..(f + Cap - 1) /\ f \in Int
    BY <1>2, CapAssumption
  <2> QED BY <2>1, <2>2, SlotType, WindowInjective
<1>5. \A i \in (f + 2)..head : i - 1 \in f..(head - 1) /\ seq'[SlotOf(i - 1)] = seq[SlotOf(i - 1)]
  BY <1>1, <1>2, <1>4
<1>6. f + 1 \in Ready
  BY <1>2 DEF Ready, f
<1>7. Ready' = Ready \ {f + 1}
  <2>1. Ready' = {i \in (f + 2)..head : seq[SlotOf(i - 1)] = i}
    BY <1>1, <1>2, <1>3, <1>5 DEF Ready, SlotOf
  <2>2. Ready \ {f + 1} = {i \in (f + 2)..head : seq[SlotOf(i - 1)] = i}
    BY <1>2 DEF Ready, f
  <2> QED BY <2>1, <2>2
<1> QED BY <1>1, <1>2, <1>6, <1>7 DEF Queue!Leave, f

LEMMA StepImplements == IInv /\ [Next]_vars => [Queue!Next]_(Queue!vars)
<1> SUFFICES ASSUME IInv, [Next]_vars PROVE Queue!Next \/ UNCHANGED Queue!vars
  OBVIOUS
<1> USE DEF Queue!vars
<1>1. ASSUME NEW p \in Producers, BeginWrite(p) \/ ProducerStep(p)
      PROVE  Queue!Next \/ UNCHANGED Queue!vars
  <2>1. CASE DropMessage(p)
    <3>1. dropped' = dropped + 1 /\ UNCHANGED <<seq, log, out>>
      BY <2>1 DEF DropMessage, histVars
    <3>2. Len(log) - Len(out) = Cap
      BY <2>1, MarkBehindMeansFull DEF DropMessage
    <3> QED BY <3>1, <3>2, ReadyKept DEF Queue!Next, Queue!Lose, Queue!Pending
  <2>2. CASE CasSucceeds(p)
    BY <2>2, CasTakesPlace DEF Queue!Next
  <2>3. CASE Publish(p)
    BY <2>3, PublishMarksReady DEF Queue!Next
  <2>4. CASE BeginWrite(p) \/ SlotIsFree(p) \/ SlotIsTaken(p) \/ ReloadHead(p)
             \/ CasFails(p) \/ CopyMessage(p)
    <3>1. UNCHANGED <<seq, log, out, dropped>>
      BY <2>4 DEF BeginWrite, SlotIsFree, SlotIsTaken, ReloadHead, CasFails,
                  CopyMessage, ringVars, histVars
    <3> QED BY <3>1, ReadyKept
  <2> QED BY <1>1, <2>1, <2>2, <2>3, <2>4 DEF ProducerStep
<1>2. ASSUME NEW c \in Consumers, ConsumerStep(c)
      PROVE  Queue!Next \/ UNCHANGED Queue!vars
  <2>1. CASE FreeSlot(c)
    BY <2>1, FreeLeaves DEF Queue!Next
  <2>2. CASE Drains(c)
    BY <2>2, DrainsFrame, ReadyKept
  <2> QED BY <1>2, <2>1, <2>2 DEF ConsumerStep, Drains
<1>3. CASE UNCHANGED vars
  <2>1. UNCHANGED <<seq, log, out, dropped>>
    BY <1>3 DEF vars, ringVars, histVars
  <2> QED BY <2>1, ReadyKept
<1> QED BY <1>1, <1>2, <1>3 DEF Next

\* The ring is a bounded queue that loses messages only when it is full.
THEOREM RingImplementsQueue == Spec => ImplementsQueue
<1>1. Init => Queue!Init
  BY DEF Init, Queue!Init, Ready
<1> QED BY <1>1, RingInvariant, StepImplements, PTL
        DEF Spec, ImplementsQueue, Queue!Spec

-----------------------------------------------------------------------------
Phases ==
  /\ running <=> kpc \in {"starting", "started", "up", "stopping"}
  /\ queueLives <=> kpc # "down"
  /\ tpc = "none" <=> kpc \in {"down", "starting", "clearing", "destroying"}
  /\ kpc \in {"down", "clearing", "destroying"} => ~fileOpen
  /\ tpc \in {"final", "exited"} => kpc = "joining"

Resting == tpc \in {"top", "lock", "waiting", "idle", "final", "exited"}

Moved ==
  /\ kpc = "starting" => file = <<>> /\ queue = accepted
  /\ Resting => list = <<>> /\ (fileOpen => buf = <<>>)
  /\ tpc # "none" /\ fileOpen => file \o buf \o list \o queue = accepted

NoErrorAfter(s, n) == \A i \in 1..Len(s) : s[i].error => i <= n

Flushed ==
  /\ kpc = "starting" => synced = 0
  /\ tpc \in {"top", "lock", "waiting", "idle"} /\ fileOpen => NoErrorAfter(file, synced)
  /\ tpc = "batch" /\ fileOpen /\ ~hasCritical => NoErrorAfter(file, synced) /\ NoErrorAfter(buf, 0)
  /\ tpc = "batch" /\ fileOpen /\ hasCritical => dirty
  /\ tpc = "exited" /\ fileOpen => stopAt <= Len(file) /\ synced = Len(file)

KernelIInv == KernelTypeOK /\ Phases /\ Moved /\ Flushed /\ NoLostWakeup

-----------------------------------------------------------------------------
(* Sequences. *)
LEMMA HeadFirst ==
  ASSUME NEW S, NEW s \in Seq(S), s # <<>>
  PROVE  Head(s) \in S /\ Tail(s) \in Seq(S) /\ <<Head(s)>> \o Tail(s) = s
<1>1. Head(s) \in S /\ Tail(s) \in Seq(S) /\ Len(Tail(s)) = Len(s) - 1 /\ \A i \in 1..Len(Tail(s)) : Tail(s)[i] = s[i+1]
  BY HeadTailProperties
<1>2. Len(s) \in Nat \ {0} BY EmptySeq
<1>3. <<Head(s)>> \in Seq(S) /\ Len(<<Head(s)>>) = 1 /\ <<Head(s)>>[1] = Head(s) BY <1>1
<1>4. /\ <<Head(s)>> \o Tail(s) \in Seq(S) /\ Len(<<Head(s)>> \o Tail(s)) = Len(s)
      /\ \A i \in 1..Len(s) : (<<Head(s)>> \o Tail(s))[i] = IF i <= 1 THEN <<Head(s)>>[i] ELSE Tail(s)[i - 1]
  BY <1>1, <1>2, <1>3, ConcatProperties
<1>5. \A i \in 1..Len(s) : (<<Head(s)>> \o Tail(s))[i] = s[i]
  <2>1. Head(s) = s[1] BY <1>2
  <2> QED BY <1>1, <1>2, <1>3, <1>4, <2>1
<1> QED BY <1>1, <1>4, <1>5, SeqEqual

LEMMA Associative == ASSUME NEW S PROVE \A f, x, t \in Seq(S) : f \o x \o t = f \o (x \o t)
<1> SUFFICES ASSUME NEW f \in Seq(S), NEW x \in Seq(S), NEW t \in Seq(S) PROVE f \o x \o t = f \o (x \o t) OBVIOUS
<1> QED BY ConcatAssociative

\* The next line of the list goes to the buffer.
LEMMA NextLine ==
  ASSUME NEW S, NEW b \in Seq(S), NEW l \in Seq(S), l # <<>>
  PROVE  Append(b, Head(l)) \in Seq(S) /\ Append(b, Head(l)) \o Tail(l) = b \o l
<1>1. Head(l) \in S /\ Tail(l) \in Seq(S) /\ <<Head(l)>> \o Tail(l) = l BY HeadFirst
<1>2. <<Head(l)>> \in Seq(S) BY <1>1
<1>3. Append(b, Head(l)) = b \o <<Head(l)>> BY <1>1, AppendIsConcat
<1>4. (b \o <<Head(l)>>) \o Tail(l) = b \o (<<Head(l)>> \o Tail(l)) BY <1>1, <1>2, ConcatAssociative
<1> QED BY <1>1, <1>3, <1>4, AppendProperties

\* The same behind what is in the file already; and when the buffer was written out first.
LEMMA LineMoves ==
  \A f, b, l \in Seq(LogLine) : l # <<>> =>
    /\ f \o Append(b, Head(l)) \o Tail(l) = f \o b \o l
    /\ f \o b \o <<Head(l)>> \o Tail(l) = f \o b \o l
<1> SUFFICES ASSUME NEW f \in Seq(LogLine), NEW b \in Seq(LogLine), NEW l \in Seq(LogLine), l # <<>>
             PROVE  /\ f \o Append(b, Head(l)) \o Tail(l) = f \o b \o l
                    /\ f \o b \o <<Head(l)>> \o Tail(l) = f \o b \o l
  BY Zenon
<1> DEFINE one == <<Head(l)>>
           more == Append(b, Head(l))
           rest == Tail(l)
<1>1. one \in Seq(LogLine) /\ rest \in Seq(LogLine) /\ one \o rest = l BY HeadFirst
<1>2. more \in Seq(LogLine) /\ more \o rest = b \o l BY NextLine
<1>3. f \o b \in Seq(LogLine) BY ConcatProperties
<1> HIDE DEF one, more, rest
<1>0. \A s, u, v \in Seq(LogLine) : s \o u \o v = s \o (u \o v) BY ONLY Associative, SMTT(30)
<1>4. f \o more \o rest = f \o (more \o rest) BY <1>0, <1>1, <1>2, ZenonT(60)
<1>7. f \o b \o l = f \o (b \o l) BY <1>0, ZenonT(60)
<1>5. f \o b \o one \o rest = f \o b \o (one \o rest) BY <1>0, <1>1, <1>3, ZenonT(60)
<1>6. f \o more \o rest = f \o b \o l /\ f \o b \o one \o rest = f \o b \o l BY <1>1, <1>2, <1>4, <1>5, <1>7
<1> QED BY ONLY <1>6, Zenon DEF one, more, rest

LEMMA AppendAfter ==
  ASSUME NEW S, NEW a \in Seq(S), NEW b \in Seq(S), NEW m \in S
  PROVE  a \o Append(b, m) = Append(a \o b, m)
<1>1. <<m>> \in Seq(S) /\ a \o b \in Seq(S) BY ConcatProperties
<1>2. a \o (b \o <<m>>) = (a \o b) \o <<m>> BY <1>1, ConcatAssociative
<1> QED BY <1>1, <1>2, AppendIsConcat

LEMMA NoErrorInConcat ==
  ASSUME NEW a \in Seq(LogLine), NEW b \in Seq(LogLine), NEW n \in Nat, NoErrorAfter(a, n), NoErrorAfter(b, 0)
  PROVE  NoErrorAfter(a \o b, n)
<1>1. /\ Len(a) \in Nat /\ Len(b) \in Nat /\ Len(a \o b) = Len(a) + Len(b)
      /\ \A i \in 1..(Len(a) + Len(b)) : (a \o b)[i] = IF i <= Len(a) THEN a[i] ELSE b[i - Len(a)]
  BY ConcatProperties, LenProperties
<1> SUFFICES ASSUME NEW i \in 1..(Len(a) + Len(b)), (a \o b)[i].error PROVE i <= n
  BY <1>1 DEF NoErrorAfter
<1>2. CASE i <= Len(a) BY <1>1, <1>2 DEF NoErrorAfter
<1>3. CASE ~(i <= Len(a))
  <2>1. i - Len(a) \in 1..Len(b) /\ b[i - Len(a)].error /\ ~(i - Len(a) <= 0) BY <1>1, <1>3
  <2> QED BY <2>1 DEF NoErrorAfter
<1> QED BY <1>2, <1>3

LEMMA NoErrorInAppend ==
  ASSUME NEW b \in Seq(LogLine), NEW m \in LogLine, NoErrorAfter(b, 0), ~m.error
  PROVE  NoErrorAfter(Append(b, m), 0)
<1>1. /\ Len(b) \in Nat /\ Len(Append(b, m)) = Len(b) + 1
      /\ \A i \in 1..Len(b) : Append(b, m)[i] = b[i]
      /\ Append(b, m)[Len(b) + 1] = m
  BY AppendProperties, LenProperties
<1> SUFFICES ASSUME NEW i \in 1..(Len(b) + 1), Append(b, m)[i].error PROVE i <= 0
  BY <1>1 DEF NoErrorAfter
<1>2. CASE i = Len(b) + 1 BY <1>1, <1>2
<1>3. CASE i # Len(b) + 1
  <2>1. i \in 1..Len(b) /\ b[i].error BY <1>1, <1>3
  <2> QED BY <2>1 DEF NoErrorAfter
<1> QED BY <1>2, <1>3

-----------------------------------------------------------------------------
LEMMA KernelInitInv == KernelInit => KernelIInv
<1> SUFFICES ASSUME KernelInit PROVE KernelIInv OBVIOUS
<1> USE DEF KernelInit
<1>1. <<>> \in Seq(LogLine) /\ Len(<<>>) = 0 BY EmptySeq
<1>2. KernelTypeOK
  <2>1. 0 \in 0..MaxInits /\ 0 \in 0..MaxLines /\ 0 <= QueueCap /\ 0 <= BufMax
    BY KernelLogAssumption DEF KernelLogAssumption
  <2>2. wpc \in [Writers -> {"idle", "push"}] /\ wlevel \in [Writers -> BOOLEAN] /\ sentBy \in [Writers -> 0..MaxLines]
    BY <2>1
  <2>3. Len(accepted) = 0 /\ Len(file) = 0 /\ Len(queue) = 0 /\ Len(buf) = 0 BY <1>1
  <2>4. stopAt \in 0..Len(accepted) /\ synced \in 0..Len(file) BY <2>3
  <2>5. Len(queue) <= QueueCap /\ Len(buf) <= BufMax BY <2>1, <2>3
  <2>6. /\ queue \in Seq(LogLine) /\ accepted \in Seq(LogLine) /\ file \in Seq(LogLine)
        /\ list \in Seq(LogLine) /\ buf \in Seq(LogLine) /\ lost \in Seq(LogLine)
    BY <1>1
  <2> QED BY <2>1, <2>2, <2>4, <2>5, <2>6 DEF KernelTypeOK
<1>3. Phases BY DEF Phases
<1>4. Moved /\ Flushed /\ NoLostWakeup BY DEF Moved, Resting, Flushed, NoLostWakeup
<1> QED BY <1>2, <1>3, <1>4 DEF KernelIInv

(* A push, by whomever, at whatever stage. *)
PushKept == UNCHANGED <<fileOpen, file, synced, list, buf, dirty, hasCritical, inits, running, queueLives, stopAt, lost, undefined>>

LEMMA PushPreserves ==
  ASSUME KernelIInv, NEW m \in LogLine, Push(m), PushKept,
         kpc' \in {"down", "starting", "started", "up", "stopping", "joining", "clearing", "destroying"},
         kpc' = kpc \/ {kpc, kpc'} \subseteq {"started", "up", "stopping"},
         wpc' \in [Writers -> {"idle", "push"}], wlevel' \in [Writers -> BOOLEAN], sentBy' \in [Writers -> 0..MaxLines]
  PROVE  KernelIInv'
<1> USE DEF KernelIInv, PushKept
<1>1. Len(queue) \in Nat /\ Len(accepted) \in Nat /\ stopAt \in 0..Len(accepted) /\ QueueCap \in Nat
  BY LenProperties, KernelLogAssumption DEF KernelTypeOK, KernelLogAssumption
<1>2. CASE /\ Len(queue) < QueueCap
           /\ queue' = Append(queue, m) /\ accepted' = Append(accepted, m)
           /\ tpc' = IF tpc = "waiting" THEN "lock" ELSE tpc
  <2>1. /\ queue' \in Seq(LogLine) /\ Len(queue') = Len(queue) + 1
        /\ accepted' \in Seq(LogLine) /\ Len(accepted') = Len(accepted) + 1
    BY <1>2, AppendProperties DEF KernelTypeOK
  <2>2. Len(queue') <= QueueCap /\ stopAt' \in 0..Len(accepted') BY <1>1, <1>2, <2>1
  <2>3. tpc' \in {"none", "top", "lock", "waiting", "idle", "batch", "final", "exited"} BY <1>2 DEF KernelTypeOK
  <2>4. KernelTypeOK' BY <2>1, <2>2, <2>3 DEF KernelTypeOK
  <2>5. Phases' BY <1>2 DEF Phases
  <2>6. ASSUME tpc' # "none", fileOpen PROVE file \o buf \o list \o queue' = accepted'
    <3>1. file \o buf \o list \o queue = accepted BY <1>2, <2>6 DEF Moved
    <3>2. file \o buf \o list \in Seq(LogLine) BY ConcatProperties DEF KernelTypeOK
    <3>3. queue \in Seq(LogLine) BY DEF KernelTypeOK
    <3>4. (file \o buf \o list) \o Append(queue, m) = Append((file \o buf \o list) \o queue, m)
      BY <3>2, <3>3, AppendAfter
    <3> QED BY <1>2, <3>1, <3>4
  <2>7. Moved' BY <1>2, <2>6 DEF Moved, Resting
  <2>8. Flushed' BY <1>2 DEF Flushed
  <2>9. NoLostWakeup' BY <1>2 DEF NoLostWakeup
  <2> QED BY <2>4, <2>5, <2>7, <2>8, <2>9
<1>3. CASE UNCHANGED <<queueVars, tpc>>
  <2> USE <1>3 DEF queueVars
  <2>1. KernelTypeOK' BY DEF KernelTypeOK
  <2>2. Phases' BY DEF Phases
  <2>3. Moved' BY DEF Moved, Resting
  <2>4. Flushed' BY DEF Flushed
  <2>5. NoLostWakeup' BY DEF NoLostWakeup
  <2> QED BY <2>1, <2>2, <2>3, <2>4, <2>5
<1> QED BY <1>2, <1>3 DEF Push

\* Taking the list, which is empty, from the queue.
LEMMA TakeAllPreserves ==
  ASSUME KernelIInv, TakeAll, tpc \in {"lock", "waiting"},
         UNCHANGED <<accepted, fileOpen, file, synced, buf, dirty, writerVars, kernelVars, lost, undefined>>
  PROVE  KernelIInv'
<1> USE DEF KernelIInv, writerVars, kernelVars
<1>1. <<>> \in Seq(LogLine) /\ Len(<<>>) = 0 BY EmptySeq
<1>2. Len(queue) \in Nat /\ 0 <= QueueCap BY LenProperties, KernelLogAssumption DEF KernelTypeOK, KernelLogAssumption
<1>3. KernelTypeOK' BY <1>1, <1>2 DEF TakeAll, KernelTypeOK
<1>4. Phases' BY DEF TakeAll, Phases
<1>5. ASSUME fileOpen PROVE file \o buf \o list' \o queue' = accepted'
  <2>1. file \o buf \o list \o queue = accepted /\ list = <<>> BY <1>5 DEF Moved, Resting
  <2>2. file \in Seq(LogLine) /\ buf \in Seq(LogLine) /\ queue \in Seq(LogLine) BY DEF KernelTypeOK
  <2>3. file \o buf \in Seq(LogLine) BY <2>2, ConcatProperties
  <2>4. file \o buf \o list = file \o buf BY <2>1, <2>3, ConcatEmptySeq
  <2>5. file \o buf \o queue \in Seq(LogLine) BY <2>2, <2>3, ConcatProperties
  <2>6. file \o buf \o queue \o <<>> = file \o buf \o queue BY <2>5, ConcatEmptySeq
  <2> QED BY <2>1, <2>4, <2>6 DEF TakeAll
<1>6. Moved' BY <1>5 DEF TakeAll, Moved, Resting, Phases
<1>7. fileOpen => NoErrorAfter(file, synced) /\ NoErrorAfter(buf, 0)
  BY <1>1 DEF Flushed, Moved, Resting, NoErrorAfter
<1>8. Flushed' BY <1>7 DEF TakeAll, Flushed, Phases
<1>9. NoLostWakeup' BY DEF TakeAll, NoLostWakeup
<1> QED BY <1>3, <1>4, <1>6, <1>8, <1>9

LEMMA FormatPreserves == KernelIInv /\ FormatNode => KernelIInv'
<1> SUFFICES ASSUME KernelIInv, FormatNode PROVE KernelIInv' OBVIOUS
<1> USE DEF KernelIInv, FormatNode, writerVars, kernelVars, queueVars
<1>1. /\ file \in Seq(LogLine) /\ buf \in Seq(LogLine) /\ list \in Seq(LogLine) /\ queue \in Seq(LogLine) /\ list # <<>>
      /\ synced \in 0..Len(file) /\ Len(file) \in Nat /\ Len(buf) \in Nat /\ Len(buf) <= BufMax /\ BufMax \in Nat \ {0}
  BY LenProperties, KernelLogAssumption DEF KernelTypeOK, KernelLogAssumption
<1>2. Head(list) \in LogLine /\ Tail(list) \in Seq(LogLine) /\ <<Head(list)>> \o Tail(list) = list
  BY <1>1, HeadFirst
<1>3. /\ Append(buf, Head(list)) \in Seq(LogLine) /\ Len(Append(buf, Head(list))) = Len(buf) + 1
      /\ Append(buf, Head(list)) \o Tail(list) = buf \o list
  BY <1>1, <1>2, NextLine, AppendProperties
<1>4. <<Head(list)>> \in Seq(LogLine) /\ Len(<<Head(list)>>) = 1 BY <1>2
<1>5. file \o buf \in Seq(LogLine) /\ Len(file \o buf) = Len(file) + Len(buf) BY <1>1, ConcatProperties
<1>6. hasCritical' \in BOOLEAN BY <1>2 DEF KernelTypeOK, LogLine
<1>7. KernelTypeOK'
  <2>1. list' \in Seq(LogLine) BY <1>2
  <2>2. /\ file' \in Seq(LogLine) /\ synced \in 0..Len(file')
        /\ buf' \in Seq(LogLine) /\ Len(buf') <= BufMax
    <3>1. CASE fileOpen /\ Len(buf) < BufMax
      <4>1. file' = file /\ buf' = Append(buf, Head(list)) BY <3>1
      <4>2. Len(Append(buf, Head(list))) <= BufMax BY ONLY <1>1, <1>3, <3>1
      <4> QED BY ONLY <1>1, <1>3, <4>1, <4>2, Zenon
    <3>2. CASE fileOpen /\ ~(Len(buf) < BufMax)
      <4>1. file' = file \o buf /\ buf' = <<Head(list)>> BY <3>2
      <4>2. synced \in 0..Len(file \o buf) BY ONLY <1>1, <1>5
      <4>3. Len(<<Head(list)>>) <= BufMax BY ONLY <1>1, <1>4
      <4> QED BY ONLY <1>4, <1>5, <4>1, <4>2, <4>3, Zenon
    <3>3. CASE ~fileOpen
      <4>1. file' = file /\ buf' = buf BY <3>3
      <4> QED BY ONLY <1>1, <4>1, Zenon
    <3> QED BY <3>1, <3>2, <3>3
  <2> QED BY <1>6, <2>1, <2>2 DEF KernelTypeOK
<1>8. Phases' BY DEF Phases
<1>9. ASSUME fileOpen PROVE file' \o buf' \o list' = file \o buf \o list
  <2>1. /\ file \o Append(buf, Head(list)) \o Tail(list) = file \o buf \o list
        /\ file \o buf \o <<Head(list)>> \o Tail(list) = file \o buf \o list
    BY <1>1, LineMoves, ZenonT(60)
  <2>2. CASE Len(buf) < BufMax BY <1>9, <2>1, <2>2
  <2>3. CASE ~(Len(buf) < BufMax) BY <1>9, <2>1, <2>3
  <2> QED BY <2>2, <2>3
<1>10. Moved' BY <1>9 DEF Moved, Resting, Phases
<1>11. ASSUME fileOpen PROVE /\ ~hasCritical' => NoErrorAfter(file', synced) /\ NoErrorAfter(buf', 0)
                             /\ dirty'
  <2>1. dirty' BY <1>11
  <2>2. ASSUME ~hasCritical' PROVE NoErrorAfter(file', synced) /\ NoErrorAfter(buf', 0)
    <3>1. ~hasCritical /\ ~Head(list).error BY <2>2
    <3>2. NoErrorAfter(file, synced) /\ NoErrorAfter(buf, 0) BY <1>11, <3>1 DEF Flushed
    <3>3. CASE Len(buf) < BufMax BY <1>1, <1>2, <1>11, <3>1, <3>2, <3>3, NoErrorInAppend
    <3>4. CASE ~(Len(buf) < BufMax)
      <4>1. NoErrorAfter(file \o buf, synced) BY <1>1, <3>2, NoErrorInConcat
      <4>2. NoErrorAfter(<<Head(list)>>, 0) BY <1>4, <3>1 DEF NoErrorAfter
      <4> QED BY <1>11, <3>4, <4>1, <4>2
    <3> QED BY <3>3, <3>4
  <2> QED BY <2>1, <2>2
<1>12. Flushed' BY <1>11 DEF Flushed, Phases
<1>13. NoLostWakeup' BY DEF NoLostWakeup
<1> QED BY <1>7, <1>8, <1>10, <1>12, <1>13

LEMMA EndBatchPreserves == KernelIInv /\ EndBatch => KernelIInv'
<1> SUFFICES ASSUME KernelIInv, EndBatch PROVE KernelIInv' OBVIOUS
<1> USE DEF KernelIInv, EndBatch, writerVars, kernelVars, queueVars
<1>1. /\ file \in Seq(LogLine) /\ buf \in Seq(LogLine) /\ list = <<>> /\ queue \in Seq(LogLine)
      /\ synced \in 0..Len(file) /\ Len(file) \in Nat /\ Len(buf) \in Nat /\ BufMax \in Nat \ {0}
  BY LenProperties, KernelLogAssumption DEF KernelTypeOK, KernelLogAssumption
<1>2. file \o buf \in Seq(LogLine) /\ Len(file \o buf) = Len(file) + Len(buf) BY <1>1, ConcatProperties
<1>3. <<>> \in Seq(LogLine) /\ Len(<<>>) = 0 BY EmptySeq
<1>4. file' \in Seq(LogLine) /\ Len(file') \in Nat /\ Len(file) <= Len(file') BY <1>1, <1>2
<1>5. KernelTypeOK'
  <2>1. buf' \in Seq(LogLine) /\ Len(buf') <= BufMax BY <1>1, <1>3 DEF KernelTypeOK
  <2>2. synced' \in 0..Len(file') BY <1>1, <1>4
  <2> QED BY <1>4, <2>1, <2>2 DEF KernelTypeOK
<1>6. Phases' BY DEF Phases
<1>7. ASSUME fileOpen PROVE file' \o buf' \o list' = file \o buf \o list
  BY <1>1, <1>2, <1>7, ConcatEmptySeq
<1>8. Moved' BY <1>7 DEF Moved, Resting, Phases
<1>9. ASSUME fileOpen PROVE NoErrorAfter(file', synced')
  <2>1. CASE hasCritical BY <1>4, <1>9, <2>1 DEF Flushed, NoErrorAfter
  <2>2. CASE ~hasCritical
    <3>1. NoErrorAfter(file, synced) /\ NoErrorAfter(buf, 0) BY <1>9, <2>2 DEF Flushed
    <3>2. NoErrorAfter(file \o buf, synced) BY <1>1, <3>1, NoErrorInConcat
    <3> QED BY <1>9, <2>2, <3>2
  <2> QED BY <2>1, <2>2
<1>10. Flushed' BY <1>9 DEF Flushed, Phases
<1>11. NoLostWakeup' BY DEF NoLostWakeup
<1> QED BY <1>5, <1>6, <1>8, <1>10, <1>11

LEMMA FinalDrainPreserves == KernelIInv /\ FinalDrain => KernelIInv'
<1> SUFFICES ASSUME KernelIInv, FinalDrain PROVE KernelIInv' OBVIOUS
<1> USE DEF KernelIInv, FinalDrain, writerVars, kernelVars
<1>1. /\ file \in Seq(LogLine) /\ queue \in Seq(LogLine) /\ 0 <= QueueCap
      /\ synced \in 0..Len(file) /\ Len(file) \in Nat /\ Len(queue) \in Nat
  BY LenProperties, KernelLogAssumption DEF KernelTypeOK, KernelLogAssumption
<1>2. file \o queue \in Seq(LogLine) /\ Len(file \o queue) = Len(file) + Len(queue) BY <1>1, ConcatProperties
<1>3. <<>> \in Seq(LogLine) /\ Len(<<>>) = 0 BY EmptySeq
<1>4. KernelTypeOK'
  <2>1. file' \in Seq(LogLine) /\ synced' \in 0..Len(file')
    <3>1. \/ file' = file \o queue /\ synced' = Len(file')
          \/ file' = file /\ synced' = synced
      OBVIOUS
    <3>2. synced \in 0..Len(file) /\ Len(file \o queue) \in 0..Len(file \o queue) BY ONLY <1>1, <1>2
    <3> QED BY ONLY <1>1, <1>2, <3>1, <3>2, Zenon
  <2>2. queue' \in Seq(LogLine) /\ Len(queue') <= QueueCap BY <1>1, <1>3
  <2> QED BY <2>1, <2>2 DEF KernelTypeOK
<1>5. Phases' BY DEF Phases
<1>6. ASSUME fileOpen
      PROVE  file' \o buf \o list \o queue' = accepted /\ file' = accepted /\ list = <<>> /\ buf = <<>>
  <2>1. list = <<>> /\ buf = <<>> /\ file \o buf \o list \o queue = accepted BY <1>6 DEF Moved, Resting
  <2>2. file \o <<>> = file BY <1>1, ConcatEmptySeq
  <2>3. file \o queue \o <<>> = file \o queue BY <1>2, ConcatEmptySeq
  <2>4. file \o queue = accepted BY <2>1, <2>2
  <2> QED BY <1>6, <2>1, <2>3, <2>4
<1>7. Moved' BY <1>6 DEF Moved, Resting, Phases
<1>8. Flushed' BY <1>6 DEF Flushed, Phases, KernelTypeOK
<1>9. NoLostWakeup' BY DEF NoLostWakeup
<1> QED BY <1>4, <1>5, <1>7, <1>8, <1>9

(* init and cleanup. *)
LEMMA StartPreserves == KernelIInv /\ (Start \/ CreateThread \/ CreateFails) => KernelIInv'
<1> SUFFICES ASSUME KernelIInv, Start \/ CreateThread \/ CreateFails PROVE KernelIInv' OBVIOUS
<1> USE DEF KernelIInv, writerVars, threadVars, queueVars
<1>1. <<>> \in Seq(LogLine) /\ Len(<<>>) = 0 BY EmptySeq
<1>2. QueueCap \in Nat \ {0} /\ BufMax \in Nat \ {0} /\ MaxInits \in Nat BY KernelLogAssumption DEF KernelLogAssumption
<1>3. CASE Start
  <2> USE <1>3 DEF Start
  <2>1. stopAt' \in 0..Len(accepted') /\ synced' \in 0..Len(file') /\ Len(queue') <= QueueCap BY <1>1, <1>2
  <2>2. inits' \in 0..MaxInits BY <1>2 DEF KernelTypeOK
  <2>3. KernelTypeOK' BY <1>1, <2>1, <2>2 DEF KernelTypeOK
  <2>4. Phases' BY DEF Phases
  <2>5. Moved' /\ Flushed' /\ NoLostWakeup' BY DEF Moved, Resting, Flushed, NoLostWakeup, Phases
  <2> QED BY <2>3, <2>4, <2>5
<1>4. CASE CreateThread
  <2> USE <1>4 DEF CreateThread
  <2>1. KernelTypeOK'
    <3>1. list' \in Seq(LogLine) /\ buf' \in Seq(LogLine) /\ Len(buf') <= BufMax BY <1>1, <1>2
    <3> QED BY <3>1 DEF KernelTypeOK
  <2>2. Phases' BY DEF Phases
  <2>3. file' \o buf' \o list' \o queue' = accepted'
    <3>1. file = <<>> /\ queue = accepted /\ queue \in Seq(LogLine) BY DEF Moved, KernelTypeOK
    <3>2. <<>> \o <<>> = <<>> /\ <<>> \o queue = queue BY <1>1, <3>1, ConcatEmptySeq
    <3> QED BY <3>1, <3>2
  <2>4. Moved' BY <2>3 DEF Moved
  <2>5. NoErrorAfter(file, synced) BY <1>1 DEF Moved, NoErrorAfter
  <2>6. Flushed' /\ NoLostWakeup' BY <2>5 DEF Flushed, NoLostWakeup
  <2> QED BY <2>1, <2>2, <2>4, <2>6
<1>5. CASE CreateFails
  <2> USE <1>5 DEF CreateFails
  <2>1. KernelTypeOK' BY DEF KernelTypeOK
  <2>2. Phases' BY DEF Phases
  <2>3. Moved' /\ Flushed' /\ NoLostWakeup' BY DEF Moved, Resting, Flushed, NoLostWakeup, Phases
  <2> QED BY <2>1, <2>2, <2>3
<1> QED BY <1>3, <1>4, <1>5

LEMMA CleanupPreserves == KernelIInv /\ (Stop \/ JoinAndClose \/ ClearQueue \/ DestroyQueue) => KernelIInv'
<1> SUFFICES ASSUME KernelIInv, Stop \/ JoinAndClose \/ ClearQueue \/ DestroyQueue PROVE KernelIInv' OBVIOUS
<1> USE DEF KernelIInv, writerVars, threadVars, queueVars
<1>1. <<>> \in Seq(LogLine) /\ Len(<<>>) = 0 BY EmptySeq
<1>2. Len(accepted) \in Nat /\ Len(file) \in Nat /\ 0 <= QueueCap
  BY LenProperties, KernelLogAssumption DEF KernelTypeOK, KernelLogAssumption
<1>3. CASE Stop
  <2> USE <1>3 DEF Stop
  <2>1. KernelTypeOK'
    <3>1. stopAt' \in 0..Len(accepted') BY <1>2
    <3> QED BY <3>1 DEF KernelTypeOK
  <2>2. Phases' BY DEF Phases
  <2>3. Moved' BY DEF Moved, Resting
  <2>4. Flushed' /\ NoLostWakeup' BY DEF Flushed, NoLostWakeup, Phases
  <2> QED BY <2>1, <2>2, <2>3, <2>4
<1>4. CASE JoinAndClose
  <2> USE <1>4 DEF JoinAndClose
  <2>1. KernelTypeOK'
    <3>1. synced' \in 0..Len(file') BY <1>2 DEF KernelTypeOK
    <3> QED BY <3>1 DEF KernelTypeOK
  <2>2. Phases' BY DEF Phases
  <2>3. Moved' /\ Flushed' /\ NoLostWakeup' BY DEF Moved, Resting, Flushed, NoLostWakeup
  <2> QED BY <2>1, <2>2, <2>3
<1>5. CASE ClearQueue
  <2> USE <1>5 DEF ClearQueue
  <2>1. lost' \in Seq(LogLine) BY ConcatProperties DEF KernelTypeOK
  <2>2. KernelTypeOK' BY <1>1, <1>2, <2>1 DEF KernelTypeOK
  <2>3. Phases' BY DEF Phases
  <2>4. Moved' /\ Flushed' /\ NoLostWakeup' BY DEF Moved, Resting, Flushed, NoLostWakeup, Phases
  <2> QED BY <2>2, <2>3, <2>4
<1>6. CASE DestroyQueue
  <2> USE <1>6 DEF DestroyQueue
  <2>1. KernelTypeOK' BY DEF KernelTypeOK
  <2>2. Phases' BY DEF Phases
  <2>3. Moved' /\ Flushed' /\ NoLostWakeup' BY DEF Moved, Resting, Flushed, NoLostWakeup, Phases
  <2> QED BY <2>1, <2>2, <2>3
<1> QED BY <1>3, <1>4, <1>5, <1>6

LEMMA KernelStepInv == KernelIInv /\ [KernelNext]_kernelLogVars => KernelIInv'
<1> SUFFICES ASSUME KernelIInv, [KernelNext]_kernelLogVars PROVE KernelIInv' OBVIOUS
<1> USE DEF KernelIInv
<1>1. CASE UNCHANGED kernelLogVars
  BY <1>1, SMTT(60) DEF kernelLogVars, queueVars, threadVars, writerVars, kernelVars, KernelTypeOK, Phases, Moved, Resting, Flushed,
              NoLostWakeup
<1>2. ASSUME NEW w \in Writers, Check(w) PROVE KernelIInv'
  <2> USE <1>2 DEF Check, queueVars, threadVars, kernelVars
  <2>1. sentBy' \in [Writers -> 0..MaxLines] BY KernelLogAssumption DEF KernelTypeOK, KernelLogAssumption
  <2>2. KernelTypeOK' BY <2>1 DEF KernelTypeOK
  <2> QED BY <2>2 DEF Phases, Moved, Resting, Flushed, NoLostWakeup
<1>3. ASSUME NEW w \in Writers, Enqueue(w) PROVE KernelIInv'
  <2>1. wpc' \in [Writers -> {"idle", "push"}] BY <1>3 DEF Enqueue, KernelTypeOK
  <2>2. CASE queueLives
    <3> DEFINE m == [by |-> w, n |-> sentBy[w], error |-> wlevel[w]]
    <3>1. m \in LogLine BY KernelLogAssumption DEF KernelTypeOK, LogLine, KernelLogAssumption
    <3>2. Push(m) /\ PushKept /\ UNCHANGED <<kpc, wlevel, sentBy>>
      BY <1>3, <2>2 DEF Enqueue, PushKept, kernelVars
    <3> HIDE DEF m
    <3>3. kpc' = kpc /\ kpc' \in {"down", "starting", "started", "up", "stopping", "joining", "clearing", "destroying"}
          /\ wlevel' \in [Writers -> BOOLEAN] /\ sentBy' \in [Writers -> 0..MaxLines]
      BY <3>2 DEF KernelTypeOK
    <3> QED BY <2>1, <3>1, <3>2, <3>3, PushPreserves
  <2>3. CASE ~queueLives
    <3> USE <1>3, <2>3 DEF Enqueue, queueVars, kernelVars
    <3>1. KernelTypeOK' BY <2>1 DEF KernelTypeOK
    <3> QED BY <3>1 DEF Phases, Moved, Resting, Flushed, NoLostWakeup
  <2> QED BY <2>2, <2>3
<1>4. CASE TestRunning
  <2> USE <1>4 DEF TestRunning, queueVars, writerVars, kernelVars
  <2>1. KernelTypeOK' BY DEF KernelTypeOK
  <2>2. Phases' BY DEF Phases, KernelTypeOK
  <2>3. Moved' BY DEF Moved, Resting
  <2> QED BY <2>1, <2>2, <2>3 DEF Flushed, NoLostWakeup
<1>5. CASE WaitOrTake
  <2>1. CASE running /\ queue = <<>> /\ tpc' = "waiting" /\ UNCHANGED <<list, queue, hasCritical>>
    <3> USE <1>5, <2>1 DEF WaitOrTake, writerVars, kernelVars
    <3>1. KernelTypeOK' BY DEF KernelTypeOK
    <3> QED BY <3>1 DEF Phases, Moved, Resting, Flushed, NoLostWakeup
  <2>2. CASE TakeAll BY <1>5, <2>2, TakeAllPreserves DEF WaitOrTake
  <2> QED BY <1>5, <2>1, <2>2 DEF WaitOrTake
<1>6. CASE TimeOut BY <1>6, TakeAllPreserves DEF TimeOut
<1>7. CASE IdleFlush
  <2> USE <1>7 DEF IdleFlush, queueVars, writerVars, kernelVars
  <2>1. Len(file) \in Nat BY LenProperties DEF KernelTypeOK
  <2>2. KernelTypeOK'
    <3>1. dirty' \in BOOLEAN BY DEF KernelTypeOK
    <3>2. file' = file /\ synced' \in {synced, Len(file)} BY <2>1
    <3>3. synced \in 0..Len(file) BY DEF KernelTypeOK
    <3>4. synced' \in 0..Len(file') BY ONLY <2>1, <3>2, <3>3
    <3> QED BY <3>1, <3>4 DEF KernelTypeOK
  <2>3. Phases' /\ Moved' /\ NoLostWakeup' BY DEF Phases, Moved, Resting, NoLostWakeup
  <2>4. NoErrorAfter(file, Len(file)) BY <2>1 DEF NoErrorAfter
  <2>5. Flushed' BY <2>4 DEF Flushed, Phases
  <2> QED BY <2>2, <2>3, <2>5
<1>8. CASE Announce("started", "up") \/ Announce("up", "stopping")
  <2> DEFINE m == [by |-> "kernel", n |-> inits, error |-> FALSE]
  <2>1. m \in LogLine BY KernelLogAssumption DEF KernelTypeOK, LogLine, KernelLogAssumption
  <2>2. Push(m) /\ PushKept /\ UNCHANGED writerVars /\ {kpc, kpc'} \subseteq {"started", "up", "stopping"}
    BY <1>8 DEF Announce, PushKept
  <2> HIDE DEF m
  <2>3. /\ kpc' \in {"down", "starting", "started", "up", "stopping", "joining", "clearing", "destroying"}
        /\ wpc' \in [Writers -> {"idle", "push"}] /\ wlevel' \in [Writers -> BOOLEAN] /\ sentBy' \in [Writers -> 0..MaxLines]
    BY <2>2 DEF KernelTypeOK, writerVars
  <2> QED BY <2>1, <2>2, <2>3, PushPreserves
<1> QED BY <1>1, <1>2, <1>3, <1>4, <1>5, <1>6, <1>7, <1>8, FormatPreserves, EndBatchPreserves, FinalDrainPreserves,
           StartPreserves, CleanupPreserves
        DEF KernelNext, ThreadStep, KernelStep

-----------------------------------------------------------------------------
\* Every piece of the log's state has the values the code gives it; the queue and the batch
\* buffer never exceed their size.
THEOREM KernelTypeCorrect == KernelSpec => []KernelTypeOK
<1>1. KernelIInv => KernelTypeOK BY DEF KernelIInv
<1> QED BY <1>1, KernelInitInv, KernelStepInv, PTL DEF KernelSpec

\* Batching, the buffer's overflow, time-outs and the final drain keep every accepted line, once and
\* in the order of the queue, however many threads push meanwhile.
THEOREM KernelInOrder == KernelSpec => []InOrder
<1>1. KernelIInv => InOrder BY DEF KernelIInv, Moved, InOrder, ThreadRuns
<1> QED BY <1>1, KernelInitInv, KernelStepInv, PTL DEF KernelSpec

\* An error the thread has taken is on disk before it looks for more work.
THEOREM KernelErrorsOnDisk == KernelSpec => []ErrorsOnDisk
<1>1. KernelIInv => ErrorsOnDisk BY DEF KernelIInv, Flushed, NoErrorAfter, ErrorsOnDisk
<1> QED BY <1>1, KernelInitInv, KernelStepInv, PTL DEF KernelSpec

\* The thread never sleeps over a message or over the order to stop.
THEOREM KernelNoLostWakeup == KernelSpec => []NoLostWakeup
<1>1. KernelIInv => NoLostWakeup BY DEF KernelIInv
<1> QED BY <1>1, KernelInitInv, KernelStepInv, PTL DEF KernelSpec

\* What was accepted before cleanup cleared running is in the file and flushed when cleanup gives the
\* queue up, although writers that saw running earlier go on pushing.
THEOREM KernelStoppedIsWritten == KernelSpec => StoppedIsWritten
<1> DEFINE Written == kpc = "joining" /\ kpc' = "clearing" /\ fileOpen
                      => IsPrefix(SubSeq(accepted, 1, stopAt), file) /\ stopAt <= synced'
<1>1. KernelIInv /\ [KernelNext]_kernelLogVars => Written
  <2> SUFFICES ASSUME KernelIInv, [KernelNext]_kernelLogVars, kpc = "joining", kpc' = "clearing", fileOpen
               PROVE  IsPrefix(SubSeq(accepted, 1, stopAt), file) /\ stopAt <= synced'
    OBVIOUS
  <2> USE DEF KernelIInv
  <2>1. JoinAndClose
    BY DEF KernelNext, kernelLogVars, kernelVars, Check, Enqueue, ThreadStep, TestRunning, WaitOrTake, IdleFlush, FormatNode,
           EndBatch, FinalDrain, TimeOut, Start, Announce, KernelStep, CreateThread, CreateFails, Stop, ClearQueue, DestroyQueue
  <2>2. tpc = "exited" /\ synced' = Len(file) BY <2>1 DEF JoinAndClose
  <2>3. stopAt <= Len(file) /\ list = <<>> /\ buf = <<>> /\ file \o buf \o list \o queue = accepted
    BY <2>2 DEF Flushed, Moved, Resting
  <2>4. file \in Seq(LogLine) /\ queue \in Seq(LogLine) /\ Len(file) \in Nat /\ stopAt \in Nat
    BY LenProperties DEF KernelTypeOK
  <2>5. accepted = file \o queue BY <2>3, <2>4, ConcatEmptySeq
  <2>6. SubSeq(accepted, 1, stopAt) = SubSeq(file, 1, stopAt)
    <3>1. CASE stopAt = 0 BY <3>1, SubSeqEmpty
    <3>2. CASE stopAt # 0
      <4>1. 1 \in 1..Len(file) /\ stopAt \in 1..Len(file) BY <2>3, <2>4, <3>2
      <4> QED BY <2>4, <2>5, <4>1, SubSeqOfConcat1
    <3> QED BY <3>1, <3>2
  <2>7. Len(SubSeq(file, 1, stopAt)) = stopAt /\ SubSeq(file, 1, stopAt) \in Seq(LogLine)
    <3>1. \A i \in 1..stopAt : file[i] \in LogLine BY <2>3, <2>4, ElementOfSeq
    <3>2. Len(SubSeq(file, 1, stopAt)) = (IF 1 <= stopAt THEN stopAt - 1 + 1 ELSE 0) /\ SubSeq(file, 1, stopAt) \in Seq(LogLine)
      BY <2>4, <3>1, SubSeqProperties
    <3> QED BY <2>4, <3>2
  <2>8. SubSeq(SubSeq(file, 1, stopAt), 1, stopAt) = SubSeq(file, 1, stopAt) BY <2>7, SubSeqFull
  <2> QED BY <2>2, <2>3, <2>6, <2>7, <2>8 DEF IsPrefix
<1>2. KernelIInv /\ [KernelNext]_kernelLogVars => [Written]_kernelLogVars BY <1>1
<1> QED BY <1>2, KernelInitInv, KernelStepInv, PTL DEF KernelSpec, StoppedIsWritten
=============================================================================
