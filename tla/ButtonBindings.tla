--------------------------- MODULE ButtonBindings ---------------------------
(* What the player bound to the touch buttons (android/content/button_state.c,*)
(* button_store.c and the hooks of button_manager.c on the game's editor):    *)
(* bindings, undo and redo, the backup of an edit, the clipboard, the file.   *)
(* The editor's calls come in any order; memory does not run out.  A place is *)
(* a slot of a profile; a radial slot has parts.  Depth is                    *)
(* BUTTON_STATE_HISTORY_DEPTH, 8 in the code.                                 *)
EXTENDS Naturals, SequencesExt

CONSTANTS Profiles, Slots,
          PartsOf,  \* slot -> the four slots of its group
          Keys, Depth

Unbound == "unbound"

ASSUME BindingsAssumption == /\ Depth \in Nat \ {0} /\ Unbound \notin Keys
                             /\ PartsOf \in [Slots -> SUBSET Slots]

VARIABLES
  bindings, undo, redo, backup, hasBackup, clipboard,
  tmp, store,  \* the two files, [set, whole, durable], or NoFile
  saving,      \* where button_store_save is
  saved        \* history: the set the last rename put in place

editVars  == <<bindings, undo, redo, backup, hasBackup, clipboard>>
fileVars  == <<tmp, store, saving, saved>>
bindVars  == <<bindings, undo, redo, backup, hasBackup, clipboard, tmp, store, saving, saved>>

Places == Profiles \X Slots
Sets   == [Places -> Keys \union {Unbound}]
Empty  == [p \in Places |-> Unbound]
NoClip == [s \in Slots |-> "nothing"]
NoFile == [set |-> Empty, whole |-> TRUE, durable |-> TRUE]   \* loads like a file without a line

BindInit == /\ bindings = Empty /\ undo = <<>> /\ redo = <<>>
            /\ backup = Empty /\ hasBackup = FALSE /\ clipboard = NoClip
            /\ tmp = NoFile /\ store = NoFile /\ saving = "no" /\ saved = Empty

-----------------------------------------------------------------------------
\* push_history: a full history drops the oldest.
Push(history, set) == Append(IF Len(history) = Depth THEN Tail(history) ELSE history, set)

\* button_state_snapshot, before a change of the editor.
Snapshotted == undo' = Push(undo, bindings) /\ redo' = <<>>
NoHistory   == undo' = <<>> /\ redo' = <<>>

EditRest == UNCHANGED <<backup, hasBackup, clipboard>> /\ UNCHANGED fileVars

\* update_prefix with an action of a mod: AddUndo, whose hook takes the snapshot, then the binding.
BindMod(p, s, k) == /\ saving = "no" /\ Snapshotted
                    /\ bindings' = [bindings EXCEPT ![<<p, s>>] = k]
                    /\ EditRest
\* The editor takes its snapshot before a change of its own.
AddUndo == saving = "no" /\ Snapshotted /\ UNCHANGED bindings /\ EditRest
\* change_postfix, after UpdateValue with an action of the game, or RemoveSlot: the slot and its parts.
BindNative(p, s) == /\ saving = "no"
                    /\ bindings' = [b \in Places |-> IF b[1] = p /\ b[2] \in {s} \union PartsOf[s] THEN Unbound ELSE bindings[b]]
                    /\ UNCHANGED <<undo, redo>> /\ EditRest

\* button_state_undo, button_state_redo
UndoEdit_Lossy == /\ saving = "no" /\ undo # <<>>     \* mutant: what is shown is not pushed for redo
                  /\ bindings' = Last(undo) /\ undo' = Front(undo) /\ UNCHANGED redo
                  /\ EditRest
UndoEdit == /\ saving = "no" /\ undo # <<>>
            /\ redo' = Push(redo, bindings)
            /\ bindings' = Last(undo) /\ undo' = Front(undo)
            /\ EditRest
RedoEdit == /\ saving = "no" /\ redo # <<>>
            /\ undo' = Push(undo, bindings)
            /\ bindings' = Last(redo) /\ redo' = Front(redo)
            /\ EditRest
\* ClearControlRedo, ClearControlUndoRedo
ClearRedo    == saving = "no" /\ redo' = <<>> /\ UNCHANGED <<bindings, undo>> /\ EditRest
ClearHistory == saving = "no" /\ NoHistory /\ UNCHANGED bindings /\ EditRest

\* button_state_begin_edit; cancel_edit, for CancelChanges and RestoreBackup: the backup stays.
BeginEdit  == /\ saving = "no" /\ backup' = bindings /\ hasBackup' = TRUE /\ NoHistory
              /\ UNCHANGED <<bindings, clipboard>> /\ UNCHANGED fileVars
CancelEdit == /\ saving = "no" /\ hasBackup /\ bindings' = backup /\ NoHistory
              /\ EditRest

\* copy, paste and default of a profile
CopyProfile(p) == /\ saving = "no" /\ clipboard' = [s \in Slots |-> bindings[<<p, s>>]]
                  /\ UNCHANGED <<bindings, undo, redo, backup, hasBackup>> /\ UNCHANGED fileVars
PasteProfile(p) == /\ saving = "no" /\ clipboard # NoClip
                   /\ bindings' = [b \in Places |-> IF b[1] = p THEN clipboard[b[2]] ELSE bindings[b]]
                   /\ UNCHANGED <<undo, redo>> /\ EditRest
ClearProfile(p) == /\ saving = "no"
                   /\ bindings' = [b \in Places |-> IF b[1] = p THEN Unbound ELSE bindings[b]]
                   /\ UNCHANGED <<undo, redo>> /\ EditRest

-----------------------------------------------------------------------------
(* button_store_save writes a second file, syncs it and renames it; what was   *)
(* not synced may be cut short by a crash.                                     *)
Saving == UNCHANGED editVars
SaveOpen == /\ saving = "no" /\ saving' = "write"
            /\ tmp' = [set |-> Empty, whole |-> FALSE, durable |-> FALSE]
            /\ Saving /\ UNCHANGED <<store, saved>>
SaveWrite == /\ saving = "write" /\ saving' = "sync"
             /\ tmp' = [set |-> bindings, whole |-> TRUE, durable |-> FALSE]
             /\ Saving /\ UNCHANGED <<store, saved>>
SaveSync_Skipped == /\ saving = "sync" /\ saving' = "rename"     \* mutant
                    /\ Saving /\ UNCHANGED <<tmp, store, saved>>
SaveSync == /\ saving = "sync" /\ saving' = "rename" /\ tmp' = [tmp EXCEPT !.durable = TRUE]
            /\ Saving /\ UNCHANGED <<store, saved>>
SaveRename == /\ saving = "rename" /\ saving' = "no"
              /\ store' = tmp /\ saved' = tmp.set /\ tmp' = NoFile
              /\ Saving
\* A write, the sync or the rename fails: the second file is removed.
SaveFails == /\ saving \in {"write", "sync", "rename"} /\ saving' = "no" /\ tmp' = NoFile
             /\ Saving /\ UNCHANGED <<store, saved>>
\* SetAllConfigurationsToDefault forgets everything and saves.
ResetAll == /\ saving = "no" /\ bindings' = Empty /\ NoHistory /\ saving' = "write"
            /\ tmp' = [set |-> Empty, whole |-> FALSE, durable |-> FALSE]
            /\ UNCHANGED <<backup, hasBackup, clipboard, store, saved>>

\* A crash, then configure_storage and button_store_load at the next start: a file with a bad line is
\* not taken at all.
Crash == /\ bindings' = IF store.whole /\ store.durable THEN store.set ELSE Empty
         /\ store' = [store EXCEPT !.whole = @ /\ store.durable] /\ tmp' = NoFile
         /\ NoHistory /\ backup' = Empty /\ hasBackup' = FALSE /\ clipboard' = NoClip
         /\ saving' = "no" /\ UNCHANGED saved

BindNext == \/ \E p \in Profiles, s \in Slots, k \in Keys : BindMod(p, s, k)
            \/ \E p \in Profiles, s \in Slots : BindNative(p, s)
            \/ \E p \in Profiles : CopyProfile(p) \/ PasteProfile(p) \/ ClearProfile(p)
            \/ AddUndo \/ UndoEdit \/ RedoEdit \/ ClearRedo \/ ClearHistory \/ BeginEdit \/ CancelEdit
            \/ SaveOpen \/ SaveWrite \/ SaveSync \/ SaveRename \/ SaveFails \/ ResetAll \/ Crash

BindSpec == BindInit /\ [][BindNext]_bindVars

-----------------------------------------------------------------------------
\* Type invariant.
Files == [set : Sets, whole : BOOLEAN, durable : BOOLEAN]
BindTypeOK == /\ bindings \in Sets /\ backup \in Sets /\ hasBackup \in BOOLEAN
              /\ undo \in Seq(Sets) /\ redo \in Seq(Sets)
              /\ clipboard \in [Slots -> Keys \union {Unbound}] \union {NoClip}
              /\ tmp \in Files /\ store \in Files /\ saved \in Sets
              /\ saving \in {"no", "write", "sync", "rename"}

\* However undo, redo and new snapshots alternate, both histories together fit into the depth: undo
\* and redo never make push_history drop a state.
HistoryFits == Len(undo) + Len(redo) <= Depth

\* The states the user went through, as undo, the bindings and redo hold them.
LineOf(u, b, r) == Append(u, b) \o Reverse(r)
Line     == LineOf(undo, bindings, redo)
Timeline == INSTANCE EditTimeline WITH Values <- Sets, line <- Line, pos <- Len(undo) + 1
ImplementsTimeline == Timeline!TimelineSpec

\* Whenever the process dies, the next start finds the set of the last save that finished.
StoreSurvives == [][Crash => bindings' = saved]_bindVars
=============================================================================
