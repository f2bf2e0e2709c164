----------------------------- MODULE Handshake -----------------------------
(* Joining a server (src/terraria/common/netmanager.c).  A peer that runs the *)
(* kernel sends its own connect packet, with the lists of its modules, mod    *)
(* loaders and mods, instead of the game's; the server's hook compares them   *)
(* and hands the game the packet it knows.  What the game does with a packet, *)
(* and when it kicks, is external.  Slots are numbers the game reuses.        *)
(* Modules and mod loaders are compared alike: modules stand for both.  The   *)
(* comparison keeps a limited number of entries of each list and 127 bytes of *)
(* an id; what is beyond that it does not see, or it reads on at a wrong place. *)
EXTENDS Integers, Sequences, FiniteSets

CONSTANTS
  Peers, ClientSlots,
  PeerKinds,   \* what a peer may be: [kernel, release, version, modules, mods]
  ServerKinds, \* and the server
  MaxModules,  \* entries it keeps: 512 modules (128 mod loaders)
  MaxMods,     \* and 512 mods
  LongIds      \* the ids of 128 bytes or more

VARIABLES
  server,      \* what the server is
  peer,        \* peer -> what it is
  slotOf,      \* peer -> its slot, or NoSlot
  joined,      \* the peers the game let in
  asked,       \* those whose connect packet arrived
  errors,      \* slot -> terraria_netmanager_client_errors
  told         \* peer -> the text it was kicked with

netVars == <<server, peer, slotOf, joined, asked, errors, told>>

NoSlot == 0
NoText == "none"

\* What a list of modules or mods is.
IsList(l) == l \in Seq([id : {l[i].id : i \in DOMAIN l}, version : Int])

ASSUME NetAssumption ==
  /\ NoSlot \notin ClientSlots /\ MaxModules \in Nat /\ MaxMods \in Nat
  /\ \A n \in PeerKinds \union ServerKinds : n.kernel \in BOOLEAN /\ IsList(n.modules) /\ IsList(n.mods)

\* terraria_netmanager_init: hooks only where there is something to compare.
Hooked(n) == n.kernel /\ n.modules # <<>>

NetInit == /\ server \in ServerKinds
           /\ peer \in [Peers -> PeerKinds]
           /\ slotOf = [p \in Peers |-> NoSlot]
           /\ joined = {} /\ asked = {}
           /\ errors = [s \in ClientSlots |-> "none"]
           /\ told = [p \in Peers |-> NoText]

-----------------------------------------------------------------------------
(* terraria_netmanager_compare_versions.  Every entry of ours looks for the   *)
(* first of theirs with its id and marks it; what stays unmarked is extra.    *)
Partner(e, remote) == {j \in DOMAIN remote : remote[j].id = e.id /\ \A i \in 1..(j-1) : remote[i].id # e.id}
Missing(local, remote) == {k \in DOMAIN local : Partner(local[k], remote) = {}}
WrongVersion(local, remote) == {k \in DOMAIN local : \E j \in Partner(local[k], remote) : remote[j].version # local[k].version}
Extra_NotLooked(local, remote) == {}     \* mutant
Extra(local, remote) == DOMAIN remote \ UNION {Partner(local[k], remote) : k \in DOMAIN local}
Differs(local, remote) == Missing(local, remote) \union WrongVersion(local, remote) \union Extra(local, remote) # {}

\* The entries that are kept, and the packets that are read wrongly: an id is cut but the
\* reader moves on as far as it kept, and of modules beyond the limit the rest is taken for the
\* next list.  Then anything may come out, also that nothing differs: whether there was a
\* difference is only asked when the list of mods, the last one, is found.
Kept(list, max) == IF Len(list) <= max THEN list ELSE SubSeq(list, 1, max)
HasLong(n) == \E list \in {n.modules, n.mods} : \E i \in DOMAIN list : list[i].id \in LongIds
Misread(n) == Len(n.modules) > MaxModules \/ HasLong(n) \/ HasLong(server)

\* The answers it may give.
SameLists(n) == LET local == Kept(server.modules, MaxModules)
                IN  /\ Len(local) = Len(n.modules) /\ ~Differs(local, n.modules)
                    /\ ~Differs(Kept(server.mods, MaxMods), Kept(n.mods, MaxMods))
CompareVersions(n) == IF Misread(n) THEN BOOLEAN ELSE {SameLists(n)}

\* send_hook: what a peer sends as its connect packet.
ConnectPacket(n) == IF Hooked(n) THEN [magic |-> "kernel", from |-> n] ELSE [magic |-> "game", from |-> n]

\* terraria_netmanager_parse_tefconnection_packet: the errors it may leave; a packet of the
\* game has not the kernel's magic string either.
ParseErrors(packet) == IF packet.magic # "kernel" \/ packet.from.version # server.version THEN {"version"}
                       ELSE {IF same THEN "none" ELSE "mods" : same \in CompareVersions(packet.from)}

\* The game lets in a packet of its own release (external).
GameAccepts(packet) == packet.magic = "game" /\ packet.from.release = server.release

-----------------------------------------------------------------------------
Connect(p, s) == /\ slotOf[p] = NoSlot /\ told[p] = NoText
                 /\ \A q \in Peers : slotOf[q] # s
                 /\ slotOf' = [slotOf EXCEPT ![p] = s]
                 /\ UNCHANGED <<server, peer, joined, asked, errors, told>>

(* send_data_hook: the text of a kick is replaced while the slot has an error. *)
Kick(p, why, err) == /\ told' = [told EXCEPT ![p] = IF err = "none" THEN why ELSE err]
                     /\ slotOf' = [slotOf EXCEPT ![p] = NoSlot]
                     /\ joined' = joined \ {p}

(* get_data_hook of message 1, then the game with the packet the hook leaves:  *)
(* the game's own for a peer that passed, the one that came for any other.     *)
GetConnect(p) ==
  /\ slotOf[p] # NoSlot /\ p \notin asked
  /\ LET packet == ConnectPacket(peer[p])
     IN \E err \in IF Hooked(server) THEN ParseErrors(packet) ELSE {errors[slotOf[p]]} :
        LET passed == IF Hooked(server) /\ err = "none" THEN [magic |-> "game", from |-> server] ELSE packet
        IN /\ errors' = [errors EXCEPT ![slotOf[p]] = err]
           /\ IF GameAccepts(passed) THEN joined' = joined \union {p} /\ UNCHANGED <<slotOf, told>>
                                     ELSE Kick(p, "game", err)
  /\ asked' = asked \union {p}
  /\ UNCHANGED <<server, peer>>

\* The game kicks for a reason of its own: a message out of turn, a ban, a vote.
GameKicks(p) == /\ slotOf[p] # NoSlot /\ Kick(p, "game", errors[slotOf[p]])
                /\ UNCHANGED <<server, peer, asked, errors>>
Leave(p) == /\ slotOf[p] # NoSlot
            /\ slotOf' = [slotOf EXCEPT ![p] = NoSlot] /\ joined' = joined \ {p} /\ asked' = asked \ {p}
            /\ UNCHANGED <<server, peer, errors, told>>
\* A peer that was kicked may try again.
Retry(p) == /\ told[p] # NoText
            /\ told' = [told EXCEPT ![p] = NoText] /\ asked' = asked \ {p}
            /\ UNCHANGED <<server, peer, slotOf, joined, errors>>

NetNext == \/ \E p \in Peers, s \in ClientSlots : Connect(p, s)
           \/ \E p \in Peers : GetConnect(p) \/ GameKicks(p) \/ Leave(p) \/ Retry(p)

NetSpec == NetInit /\ [][NetNext]_netVars

-----------------------------------------------------------------------------
\* Type invariant: two peers never share a slot.
NetTypeOK == /\ slotOf \in [Peers -> ClientSlots \union {NoSlot}]
             /\ \A p, q \in Peers : slotOf[p] = slotOf[q] /\ p # q => slotOf[p] = NoSlot
             /\ joined \subseteq {p \in asked : slotOf[p] # NoSlot}
             /\ errors \in [ClientSlots -> {"none", "version", "mods"}]
             /\ told \in [Peers -> {NoText, "game", "version", "mods"}]

EntriesOf(list) == {list[i] : i \in DOMAIN list}
OnceEach(list)  == \A i, j \in DOMAIN list : list[i].id = list[j].id => i = j
Matches(n) == /\ n.kernel /\ n.version = server.version
              /\ EntriesOf(n.modules) = EntriesOf(server.modules) /\ EntriesOf(n.mods) = EntriesOf(server.mods)

Distinct(n) == OnceEach(n.modules) /\ OnceEach(n.mods)
WithinLimits(n) == Len(n.modules) <= MaxModules /\ Len(n.mods) <= MaxMods /\ ~HasLong(n)

\* The kernel's own check where the lists fit into what the comparison keeps, in both directions:
\* a peer with the kernel plays on a server with mods only with the same kernel, modules and mods;
\* and one that is the same, and has none of them twice, is not turned away for a difference once
\* its connect packet came, whoever had the slot before.  (A peer that the game kicks before that
\* is told the error of the peer that had the slot before it: the error is not reset until then.)
KernelPeersMatch ==
  \A p \in Peers : Hooked(server) /\ Hooked(peer[p]) /\ WithinLimits(server) /\ WithinLimits(peer[p]) =>
    /\ p \in joined => Matches(peer[p])
    /\ p \in asked /\ told[p] \in {"version", "mods"} => ~Matches(peer[p]) \/ ~Distinct(peer[p]) \/ ~Distinct(server)

\* What the comment says of the comparison: true only of lists that are the same.
StrictComparison ==
  \A p \in joined : Hooked(server) /\ Hooked(peer[p]) /\ ~HasLong(server) /\ ~HasLong(peer[p]) => Matches(peer[p])

\* What the code says of a peer without the kernel: "Vanilla client detected - TEFKernel required".
VanillaIsTurnedAway == \A p \in joined : Hooked(server) => Hooked(peer[p])
=============================================================================
