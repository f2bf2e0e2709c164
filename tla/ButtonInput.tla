----------------------------- MODULE ButtonInput -----------------------------
(* Touch buttons of mods on Android: registration, the fingers' claims on the *)
(* drawn regions, the held state and the edges the mods read                  *)
(* (android/content/button_manager.c, button_state.c).  Everything runs on    *)
(* the game's thread: a frame draws, reads the list of cursors and ticks.     *)
(* One profile; a key has one slot, plain or in a radial group.  Ages count   *)
(* ticks as far as the code tells them apart.  The edges that sync_input also *)
(* counts, where held changes, are not kept.                                  *)
EXTENDS Integers, SequencesExt, Stripping

CONSTANTS
  ModActions,       \* the actions a mod may register
  RadialKeys, \* those bound in a radial group; the others have a plain slot
  Cursors,    \* 1..n, in the order of the game's list
  MaxClaims   \* BUTTON_MAX_CLAIMS

Nothing == "nothing"     \* where a finger is that is on no button
ASSUME InputAssumption == /\ IsFiniteSet(ModActions) /\ RadialKeys \subseteq ModActions /\ Nothing \notin ModActions
                          /\ IsFiniteSet(Cursors) /\ Cursors = 1..Cardinality(Cursors)
                          /\ MaxClaims \in Nat \ {0}

VARIABLES
  actions,    \* state.actions: [key, mode, held]
  normalHeld, \* normal_held, by index
  radialHeld, \* radial_held: <<key, age>>
  claims,     \* the fingers that belong to a button, in order
  regions,    \* the regions drawn in the last ticks: <<key, whether its slot takes several fingers>>
  screen,     \* in_menu, editing, ui_blocked
  wasDown,    \* the cursors that were down when the list was last read
  under       \* history: <<c, k>> where cursor c was down on key k then

inputVars == <<actions, normalHeld, radialHeld, claims, regions, screen, wasDown, under>>

Indexes  == 1..Cardinality(ModActions)
NoneHeld == [i \in Indexes |-> FALSE]

InputInit == /\ actions = <<>> /\ normalHeld = NoneHeld /\ radialHeld = {}
             /\ claims = <<>> /\ regions = {} /\ screen = "play"
             /\ wasDown = {} /\ under = {}

IndexOf(k) == {i \in DOMAIN actions : actions[i].key = k}
Visible(k) == \E i \in IndexOf(k) : actions[i].mode # "hidden"
Enabled(k) == \E i \in IndexOf(k) : actions[i].mode # "disabled"

-----------------------------------------------------------------------------
\* button_state_sync_input, button_state_reset_input
SyncState(as, held) == [i \in DOMAIN as |-> [as[i] EXCEPT !.held = held[i] /\ as[i].mode = "on"]]
ResetInput(as) == [i \in DOMAIN as |-> [as[i] EXCEPT !.held = FALSE]]

\* sync_input: what is left of the radial list, and the held keys.
StillRadial_Forever(radial) == {r \in radial : IndexOf(r[1]) # {}}     \* mutant: entries never expire
StillRadial(radial) == {r \in radial : r[2] <= 1 /\ IndexOf(r[1]) # {}}
HeldNow(normal, radial) ==
  [i \in Indexes |-> screen = "play" /\ (normal[i] \/ \E r \in radial : i \in IndexOf(r[1]))]
SyncInput(as, normal, radial) ==
  /\ radialHeld' = StillRadial(radial)
  /\ actions' = SyncState(as, HeldNow(normal, StillRadial(radial)))

\* clear_input, with the list of actions it finds.
ClearInput_KeepsNormal(as) ==            \* mutant: the plain buttons stay held
  /\ regions' = {} /\ claims' = <<>> /\ radialHeld' = {} /\ actions' = ResetInput(as) /\ UNCHANGED normalHeld
ClearInput(as) ==
  /\ regions' = {} /\ claims' = <<>> /\ radialHeld' = {} /\ actions' = ResetInput(as) /\ normalHeld' = NoneHeld

-----------------------------------------------------------------------------
\* terraria_button_manager_register: refresh_modules clears all input.
Register(k) == /\ IndexOf(k) = {}
               /\ ClearInput(Append(actions, [key |-> k, mode |-> "on", held |-> FALSE]))
               /\ UNCHANGED <<screen, wasDown, under>>

\* terraria_button_manager_unregister: the actions behind move down by one; what invalidate_action
\* drops refresh_modules drops as well.
Unregister(k) == \E i \in IndexOf(k) : ClearInput(RemoveAt(actions, i)) /\ UNCHANGED <<screen, wasDown, under>>

\* shutdown_manager, up to the next install: without its hooks nothing moves.
ManagerShutdown == ClearInput(<<>>) /\ UNCHANGED <<screen, wasDown, under>>

\* The editor opens, takes its backup back, pastes a profile or goes back to the defaults.
EditorClears == ClearInput(actions) /\ UNCHANGED <<screen, wasDown, under>>

\* Undo and redo, and the directory of the store configured: the actions are let go, the rest stays.
EditorResets == /\ actions' = ResetInput(actions)
                /\ UNCHANGED <<normalHeld, radialHeld, claims, regions, screen, wasDown, under>>

\* invalidate_action: all plain buttons are let go, not only this one.
InvalidateAction(k) ==
  /\ normalHeld' = NoneHeld
  /\ radialHeld' = {r \in radialHeld : r[1] # k}
  /\ claims' = [i \in DOMAIN claims |-> [claims[i] EXCEPT !.cancelled = @ \/ claims[i].key = k]]
  /\ regions' = {r \in regions : r[1] # k}

\* set_enabled, set_visible
SetMode(k, mode) == \E i \in IndexOf(k) :
  /\ actions[i].mode # mode
  /\ IF mode = "on" THEN /\ actions' = [actions EXCEPT ![i].mode = "on"]
                         /\ UNCHANGED <<normalHeld, radialHeld, claims, regions>>
                    ELSE /\ actions' = [actions EXCEPT ![i] = [@ EXCEPT !.mode = mode, !.held = FALSE]]
                         /\ InvalidateAction(k)
  /\ UNCHANGED <<screen, wasDown, under>>

-----------------------------------------------------------------------------
\* quick_postfix of a plain button: its region is drawn, with the slot's flag of this moment.
DrawButton(k, multi) ==
  /\ k \notin RadialKeys /\ Visible(k)
  /\ regions' = {r \in regions : r[1] # k} \union {<<k, multi>>}
  /\ UNCHANGED <<actions, normalHeld, radialHeld, claims, screen, wasDown, under>>
\* A region that was not drawn for three ticks is dropped.
RegionExpires(r) == /\ r \in regions /\ regions' = regions \ {r}
                    /\ UNCHANGED <<actions, normalHeld, radialHeld, claims, screen, wasDown, under>>

\* A radial group is drawn, with k pressed or not: quick_postfix, then sync_input in group_postfix.
DrawGroup(k, pressed) ==
  /\ k \in RadialKeys
  /\ \E radial \in IF ~Visible(k) THEN {radialHeld}
                   ELSE IF pressed /\ Enabled(k) THEN {radialHeld \union {<<k, 0>>}}
                   ELSE LET older == {r \in radialHeld : r[1] = k /\ r[2] > 0} IN
                        IF older = {} THEN {radialHeld} ELSE {radialHeld \ {r} : r \in older} :
       SyncInput(actions, normalHeld, radial)
  /\ UNCHANGED <<normalHeld, claims, regions, screen, wasDown, under>>

\* tick_postfix
Tick == /\ radialHeld' = {<<r[1], IF r[2] < 2 THEN r[2] + 1 ELSE 2>> : r \in radialHeld}
        /\ actions' = IF screen \in {"menu", "edit"} THEN SyncState(actions, NoneHeld) ELSE actions
        /\ UNCHANGED <<normalHeld, claims, regions, screen, wasDown, under>>

SetScreen(s) == /\ screen # s /\ screen' = s
                /\ UNCHANGED <<actions, normalHeld, radialHeld, claims, regions, wasDown, under>>

-----------------------------------------------------------------------------
(* poll_postfix: the game has read its cursors; fingers gives for each that    *)
(* is in the list what it is on and how: up, down, or taken, which is down     *)
(* with the cursor's Ignore set by somebody else.                              *)
ClaimOf(cl, c) == {i \in DOMAIN cl : cl[i].cursor = c}
Occupied(cl, k) == \E i \in DOMAIN cl : cl[i].key = k /\ ~cl[i].released /\ ~cl[i].cancelled
NewClaim_Live(cl, c, r) ==          \* mutant: a second finger on a button is not cancelled
  Append(cl, [cursor |-> c, key |-> r[1], multi |-> r[2], released |-> FALSE, cancelled |-> FALSE])
NewClaim(cl, c, r) ==
  Append(cl, [cursor |-> c, key |-> r[1], multi |-> r[2], released |-> FALSE, cancelled |-> ~r[2] /\ Occupied(cl, r[1])])
RegionsAt(k) == {r \in regions : r[1] = k}
MayClaim(cl, c, finger) ==
  /\ ClaimOf(cl, c) = {} /\ Len(cl) < MaxClaims
  /\ finger.how = "down" /\ c \notin wasDown /\ screen = "play"
  /\ RegionsAt(finger.on) # {} /\ Visible(finger.on)
PollCursor(acc, c, finger) ==
  LET cl == IF MayClaim(acc.claims, c, finger) THEN NewClaim(acc.claims, c, CHOOSE r \in RegionsAt(finger.on) : TRUE)
            ELSE acc.claims
  IN IF ClaimOf(cl, c) = {} THEN acc
     ELSE LET i == CHOOSE j \in ClaimOf(cl, c) : TRUE
              claim == [cl[i] EXCEPT !.cancelled = @ \/ cl[i].key # finger.on, !.released = @ \/ finger.how = "up"]
          IN [claims |-> [cl EXCEPT ![i] = claim],
              held |-> IF finger.how # "up" /\ ~claim.cancelled /\ screen = "play" THEN acc.held \union IndexOf(claim.key) ELSE acc.held]

\* The loop over the game's list.
PollAll(cl, fingers) ==
  LET pass[c \in 0..Cardinality(Cursors)] ==
        IF c = 0 THEN [claims |-> cl, held |-> {}]
        ELSE IF c \in DOMAIN fingers THEN PollCursor(pass[c-1], c, fingers[c]) ELSE pass[c-1]
  IN pass[Cardinality(Cursors)]

\* The loop over claims whose cursor is gone moves the last claim down, not its live flag.
DropGone(cl, listed) == LET gone == {i \in DOMAIN cl : cl[i].cursor \notin listed}
                        IN IF gone = {} THEN cl ELSE SubSeq(cl, 1, Min(gone) - 1)

Poll(fingers) ==
  /\ wasDown' = {c \in DOMAIN fingers : fingers[c].how # "up"}
  /\ under' = {<<c, fingers[c].on>> : c \in {d \in wasDown' : fingers[d].on # Nothing}}
  /\ UNCHANGED screen
  /\ IF screen = "menu" THEN ClearInput(actions)
     ELSE LET blocked == screen = "blocked"
              old    == IF blocked THEN [i \in DOMAIN claims |-> [claims[i] EXCEPT !.cancelled = TRUE]] ELSE claims
              done   == {x \in ToSet(old) : x.released}
              polled == PollAll(Without(old, done), fingers)
              normal == [i \in Indexes |-> i \in polled.held]
          IN /\ claims' = DropGone(polled.claims, DOMAIN fingers)
             /\ normalHeld' = normal /\ UNCHANGED regions
             /\ SyncInput(IF blocked THEN ResetInput(actions) ELSE actions, normal, IF blocked THEN {} ELSE radialHeld)

Fingers == UNION {[S -> [on : (ModActions \ RadialKeys) \union {Nothing}, how : {"up", "down", "taken"}]]
                  : S \in SUBSET Cursors}
\* Without a manager of cursors there are none to read.
NoManager == ClearInput(actions) /\ wasDown' = {} /\ under' = {} /\ UNCHANGED screen
Frame == NoManager \/ \E f \in Fingers : Poll(f)

InputNext == \/ \E k \in ModActions : Register(k) \/ Unregister(k)
             \/ \E k \in ModActions, b \in BOOLEAN : DrawButton(k, b) \/ DrawGroup(k, b)
             \/ \E k \in ModActions, m \in {"on", "disabled", "hidden"} : SetMode(k, m)
             \/ \E r \in regions : RegionExpires(r)
             \/ \E s \in {"play", "menu", "edit", "blocked"} : SetScreen(s)
             \/ Tick \/ Frame \/ EditorClears \/ EditorResets \/ ManagerShutdown

\* The game keeps ticking and reading its cursors.
InputSpec == InputInit /\ [][InputNext]_inputVars /\ WF_inputVars(Frame) /\ WF_inputVars(Tick)

-----------------------------------------------------------------------------
HeldKeys == {actions[i].key : i \in {j \in DOMAIN actions : actions[j].held}}

\* Type invariant: an action is registered once, a cursor has at most one claim, a button one region.
InputTypeOK ==
  /\ \A i \in DOMAIN actions : /\ actions[i].mode \in {"on", "disabled", "hidden"} /\ actions[i].held \in BOOLEAN
                               /\ IndexOf(actions[i].key) = {i}
  /\ \A i, j \in DOMAIN claims : claims[i].cursor = claims[j].cursor => i = j
  /\ \A r1, r2 \in regions : r1[1] = r2[1] => r1 = r2
  /\ radialHeld \subseteq RadialKeys \X (0..2) /\ regions \subseteq (ModActions \ RadialKeys) \X BOOLEAN
  /\ wasDown \subseteq Cursors /\ normalHeld \in [Indexes -> BOOLEAN]

Touched(k) == \E u \in under : u[2] = k

\* A button counts as held only under a finger, or pressed in a radial group: although each group
\* drawn syncs again with the normal_held of the last poll, which goes by index, and in between mods
\* come and go and menus open and close.
HeldIsTouched == \A k \in HeldKeys : Touched(k) \/ \E r \in radialHeld : r[1] = k

\* A button never stays held for good: let go and no longer drawn as pressed it is released.
NotStuck == \A k \in ModActions : k \in HeldKeys ~> k \notin HeldKeys \/ Touched(k) \/ <<k, 0>> \in radialHeld

\* Of the fingers that hold a button at most one is on a slot that takes one finger only: the second
\* is cancelled for good, although claims move within their list and the slot's flag may change.
HoldsAlone(claim) == ~claim.released /\ ~claim.cancelled /\ ~claim.multi
OneFinger == \A i, j \in DOMAIN claims :
  claims[i].key = claims[j].key /\ HoldsAlone(claims[i]) /\ HoldsAlone(claims[j]) => i = j

\* The test of the state asserts that an action whose button is held on stays held: here the one
\* finger on a button stays on it from one reading of the cursors to the next, others come and go.
StaysHeld ==
  [][\A u \in under \intersect under' :
       u[2] \in HeldKeys /\ screen = "play" /\ {v \in under : v[2] = u[2]} = {u} => u[2] \in HeldKeys' \/ ~Frame]_inputVars
=============================================================================
