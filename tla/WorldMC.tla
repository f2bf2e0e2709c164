------------------------------ MODULE WorldMC -------------------------------
(* Small instances of ContentRegistry, ModSaves, Handshake and PackageFile    *)
(* for TLC.  They share no state: in a behaviour only the one that `part'     *)
(* names moves, which adds up their states instead of multiplying them.       *)
EXTENDS ContentMC, ModSaves, HandshakeMC, PackageMC

VARIABLE part

-----------------------------------------------------------------------------
WorldInit ==
  /\ part \in {"content", "saves", "net", "package"}
  /\ ContentInit /\ SavesInit /\ NetInit /\ PackageInit
  /\ part # "content" => kind = "item"
  /\ part # "net" => server = Node(TRUE, 1, 1, M1, <<A1>>) /\ \A p \in Peers : peer[p] = server

WorldNext == /\ UNCHANGED part
             /\ \/ part = "content" /\ ContentNext /\ UNCHANGED <<savesVars, netVars, packageVars>>
                \/ part = "saves" /\ SavesNext /\ UNCHANGED <<contentVars, netVars, packageVars>>
                \/ part = "net" /\ NetNext /\ UNCHANGED <<contentVars, savesVars, packageVars>>
                \/ part = "package" /\ PackageNext /\ UNCHANGED <<contentVars, savesVars, netVars>>

WorldSpec == WorldInit /\ [][WorldNext]_<<contentVars, savesVars, netVars, packageVars, part>>

\* The type invariants of the four modules, and what the numbering of the content promises.
WorldInv == ContentTypeOK /\ SavesTypeOK /\ NetTypeOK /\ PackageTypeOK /\ IdsFollowTheNames
=============================================================================
