-------------------------- MODULE DependencyManager --------------------------
(***************************************************************************)
(* The configuration store of the installer and the observers that keep    *)
(* its items consistent:                                                   *)
(*   src/scripts/installer/core/malcolm_config.py      (the store)         *)
(*   src/scripts/installer/core/dependency_manager.py  (the observers)     *)
(*   src/scripts/installer/core/observable.py, config_item.py              *)
(*                                                                         *)
(* The rules themselves (who depends on whom, when an item is shown, which *)
(* default it gets) are constants here; InstallerRules gives them the      *)
(* values of dependencies.py.                                              *)
(*                                                                         *)
(* A change of one item calls observers, which change other items, which   *)
(* call observers: nested Python calls.  `calls` is the stack of the calls *)
(* that are still to be made, in the order they are made; one step makes   *)
(* the first of them.                                                      *)
(***************************************************************************)
EXTENDS Naturals, Sequences, FiniteSets

CONSTANTS
    Items,            \* keys of the configuration items
    NoItem,           \* "no parent": a top-level item
    Ruled,            \* items with a visibility rule
    Computed,         \* items with a value rule
    Soft,             \* those whose rule leaves a modified item alone
    Parent,           \* ui_parent of a ruled item
    ShowDeps,         \* the items a visibility rule reads
    ValueDeps,        \* the items a value rule reads
    Shown(_, _),      \* Shown(i, v): the visibility condition of i on values v
    Default(_, _),    \* Default(i, v): {} or {the value the rule of i sets}
    Place,            \* when a rule is registered: 1, 2, ...
    Observers,        \* the observers of an item, in registration order
    Children,         \* the children of an item, in registration order
    Initial,          \* default_value of each item
    Options,          \* the values the user or the command line may give
    PresetItem,       \* the item install.py sets before the menu opens
    LoadOrders,       \* orders in which the values of .env files may be applied
    Stored(_, _),     \* Stored(i, v): {} or {what the .env files of v say of i}
    Issues(_, _),     \* Issues(v, s): items validate_required flags, of values and shown items
    Menus,            \* sets of items one user edits (bounds a run)
    Savers,           \* those of the users who save (bounds a run)
    MaxSaves          \* saves in a behaviour (bounds a run)

VARIABLES
    value,            \* ConfigItem.value
    modified,         \* soft items whose is_modified is set
    visible,          \* items whose is_visible is set
    registered,       \* rules registered so far
    calls,            \* observer calls still to be made
    phase,            \* "start", "import" (of .env files) or "menu"
    toLoad,           \* items whose .env values are still to be applied, in their order
    saved,            \* what the .env files hold
    saves,            \* times they were written
    menu              \* the items this user edits

vars == <<value, modified, visible, registered, calls, phase, toLoad, saved, saves, menu>>

Rules == {<<"show", i>> : i \in Ruled} \cup {<<"default", i>> : i \in Computed}
Calls == Rules \cup {<<"hide", i>> : i \in Ruled}
Kept == UNION {{o[n] : n \in DOMAIN o} : o \in LoadOrders}

\* No item is its own parent, and no rule reads the item it sets.
ASSUME RulesAssumption ==
    /\ Ruled \subseteq Items /\ Computed \subseteq Items /\ Soft \subseteq Computed
    /\ NoItem \notin Items /\ PresetItem \in Items /\ DOMAIN Initial = Items
    /\ Parent \in [Ruled -> Items \cup {NoItem}]
    /\ ShowDeps \in [Ruled -> SUBSET Items]
    /\ ValueDeps \in [Computed -> SUBSET Items]
    /\ \A i \in Ruled : Parent[i] # i
    /\ \A i \in Computed : i \notin ValueDeps[i]

\* Every rule has a place of its own and observes the items it reads, which call
\* their observers in this order; an item knows its children.
ASSUME OrderAssumption ==
    /\ IsFiniteSet(Rules)
    /\ Place \in [Rules -> 1 .. Cardinality(Rules)]
    /\ \A r, s \in Rules : Place[r] = Place[s] => r = s
    /\ Observers \in [Items -> Seq(Rules)]
    /\ Children \in [Items -> Seq(Ruled)]
    /\ \A d \in Items :
          {Observers[d][n] : n \in DOMAIN Observers[d]} =
              {<<"show", i>> : i \in {j \in Ruled : d \in ShowDeps[j]}}
              \cup {<<"default", i>> : i \in {j \in Computed : d \in ValueDeps[j]}}
    /\ \A d \in Items : \A m, n \in DOMAIN Observers[d] :
          m < n => Place[Observers[d][m]] < Place[Observers[d][n]]
    /\ \A p \in Items :
          {Children[p][n] : n \in DOMAIN Children[p]} = {i \in Ruled : Parent[i] = p}

\* Every order has every item the .env files keep, once.
ASSUME LoadAssumption ==
    \A o \in LoadOrders :
        /\ o \in Seq(Items)
        /\ {o[n] : n \in DOMAIN o} = Kept
        /\ \A m, n \in DOMAIN o : o[m] = o[n] => m = n

-----------------------------------------------------------------------------
Values(deps) == [d \in deps |-> value[d]]

\* visibility_observer: the condition, and never without the parent.
IsShown(i) ==
    /\ Shown(i, Values(ShowDeps[i]))
    /\ Parent[i] \in visible \cup {NoItem}

\* The constructor: defaults, everything visible, nothing registered.
Fresh ==
    [value |-> Initial, modified |-> {}, visible |-> Items]

Init ==
    /\ value = Fresh.value
    /\ modified = Fresh.modified
    /\ visible = Fresh.visible
    /\ registered = 0
    /\ calls = <<>>
    /\ phase = "start"
    /\ toLoad = <<>>
    /\ saved = [i \in Kept |-> {}]
    /\ saves = 0
    /\ menu \in Menus

Idle == calls = <<>>

\* A rule that is not registered yet has no observer to call.
Registered(r) == Place[r] <= registered

Calling(tag, items) == [n \in DOMAIN items |-> <<tag, items[n]>>]

\* _set_item_visible and handle_parent_visibility_change: a change is passed on
\* to the children, which are hidden with the item or evaluated again.
SetVisible_Alone(i, shown) ==   \* (mutant)
    /\ visible' = IF shown THEN visible \cup {i} ELSE visible \ {i}
    /\ calls' = Tail(calls)
SetVisible(i, shown) ==
    /\ visible' = IF shown THEN visible \cup {i} ELSE visible \ {i}
    /\ calls' = IF shown <=> i \in visible THEN Tail(calls)
                ELSE Calling(IF shown THEN "show" ELSE "hide", Children[i]) \o Tail(calls)

\* apply_default: sets the value, the observers follow; nothing when it is the
\* value already.
ApplyDefault_Silent(i, v, rest) ==   \* (mutant)
    /\ value' = [value EXCEPT ![i] = v]
    /\ calls' = rest
ApplyDefault_Always(i, v, rest) ==   \* (mutant: as a queue without duplicates)
    /\ value' = [value EXCEPT ![i] = v]
    /\ calls' = Observers[i] \o SelectSeq(rest, LAMBDA c :
                     \A n \in DOMAIN Observers[i] : Observers[i][n] # c)
ApplyDefault(i, v, rest) ==
    /\ value' = [value EXCEPT ![i] = v]
    /\ calls' = IF v = value[i] THEN rest ELSE Observers[i] \o rest

\* set_value: as the user's choice it is never overwritten by a soft rule, and
\* the observers are called even when the value is the same.
SetValue_MarksAny(i, v) ==   \* (mutant)
    /\ value' = [value EXCEPT ![i] = v]
    /\ modified' = modified \cup {i}
    /\ calls' = Observers[i]
SetValue(i, v) ==
    /\ value' = [value EXCEPT ![i] = v]
    /\ modified' = modified \cup ({i} \cap Soft)
    /\ calls' = Observers[i]

-----------------------------------------------------------------------------
\* register_all_dependencies: the next rule, evaluated at once.
Register ==
    /\ phase = "start" /\ Idle
    /\ \E r \in Rules : Place[r] = registered + 1 /\ calls' = <<r>>
    /\ registered' = registered + 1
    /\ UNCHANGED <<value, modified, visible, phase, toLoad, saved, saves, menu>>

Show ==
    /\ ~Idle /\ Head(calls)[1] = "show"
    /\ LET i == Head(calls)[2]
       IN  IF Registered(<<"show", i>>) THEN SetVisible(i, IsShown(i))
           ELSE calls' = Tail(calls) /\ UNCHANGED visible
    /\ UNCHANGED <<value, modified, registered, phase, toLoad, saved, saves, menu>>

Hide ==
    /\ ~Idle /\ Head(calls)[1] = "hide"
    /\ LET i == Head(calls)[2]
       IN  IF Registered(<<"show", i>>) THEN SetVisible(i, FALSE)
           ELSE calls' = Tail(calls) /\ UNCHANGED visible
    /\ UNCHANGED <<value, modified, registered, phase, toLoad, saved, saves, menu>>

\* value_observer.
RuleOff(i) == ~Registered(<<"default", i>>) \/ i \in modified \/ Default(i, Values(ValueDeps[i])) = {}

ComputeDefault ==
    /\ ~Idle /\ Head(calls)[1] = "default"
    /\ LET i == Head(calls)[2]
       IN  IF RuleOff(i) THEN calls' = Tail(calls) /\ UNCHANGED value
           ELSE \E v \in Default(i, Values(ValueDeps[i])) : ApplyDefault(i, v, Tail(calls))
    /\ UNCHANGED <<modified, visible, registered, phase, toLoad, saved, saves, menu>>

\* install.py records the orchestration mode; a user who never edits it gets
\* the initial one.  What was saved before is then loaded, in the order in which
\* os.walk meets the .env files.
Preset ==
    /\ phase = "start" /\ Idle /\ registered = Cardinality(Rules)
    /\ \E v \in IF PresetItem \in menu THEN Options[PresetItem] ELSE {Initial[PresetItem]} :
          SetValue(PresetItem, v)
    /\ \/ saves = 0 /\ phase' = "menu" /\ UNCHANGED toLoad
       \/ saves > 0 /\ phase' = "import" /\ toLoad' \in LoadOrders
    /\ UNCHANGED <<visible, registered, saved, saves, menu>>

\* _apply_env_candidates: one value of the .env files.
Import ==
    /\ phase = "import" /\ Idle /\ toLoad # <<>>
    /\ toLoad' = Tail(toLoad)
    /\ LET i == Head(toLoad)
       IN  IF saved[i] = {} THEN UNCHANGED <<value, calls>>
           ELSE \E v \in saved[i] : ApplyDefault(i, v, <<>>)
    /\ UNCHANGED <<modified, visible, registered, phase, saved, saves, menu>>

\* load_from_env_files returns, the menu opens.
Imported ==
    /\ phase = "import" /\ Idle /\ toLoad = <<>>
    /\ phase' = "menu"
    /\ UNCHANGED <<value, modified, visible, registered, calls, toLoad, saved, saves, menu>>

\* The user gives an item that the menu shows a value.
Choose(i, v) ==
    /\ phase = "menu" /\ Idle /\ i \in visible
    /\ SetValue(i, v)
    /\ UNCHANGED <<visible, registered, phase, toLoad, saved, saves, menu>>

\* The user saves: validate_required has no objection, generate_env_files
\* writes; the installer ends and is started again later.
SaveAndRestart ==
    /\ phase = "menu" /\ Idle /\ menu \in Savers /\ saves < MaxSaves
    /\ Issues(value, visible) = {}
    /\ saved' = [i \in Kept |-> Stored(i, value)]
    /\ saves' = saves + 1
    /\ value' = Fresh.value /\ modified' = Fresh.modified /\ visible' = Fresh.visible
    /\ registered' = 0 /\ phase' = "start"
    /\ UNCHANGED <<calls, toLoad, menu>>

Compute == Register \/ Show \/ Hide \/ ComputeDefault \/ Preset \/ Import \/ Imported
UserChooses == \E i \in menu \ {PresetItem} : \E v \in Options[i] : Choose(i, v)

Next == Compute \/ UserChooses \/ SaveAndRestart

Spec == Init /\ [][Next]_vars

\* The installer is one thread: it makes the calls it has to make.  The user
\* need not do anything.
FairSpec == Spec /\ WF_vars(Compute)

-----------------------------------------------------------------------------
\* Every variable has its type.
TypeOK ==
    /\ DOMAIN value = Items
    /\ modified \subseteq Soft
    /\ visible \subseteq Items
    /\ registered \in 0 .. Cardinality(Rules)
    /\ calls \in Seq(Calls)
    /\ phase \in {"start", "import", "menu"}
    /\ toLoad \in Seq(Kept)
    /\ DOMAIN saved = Kept
    /\ saves \in Nat
    /\ menu \in Menus

\* When the menu is on the screen, it shows exactly the items whose condition
\* holds of the values as they are now and whose parent it shows: no cascade
\* leaves an item hidden or shown by a value, or by a parent, that has changed
\* again since.
VisibleIsCurrent ==
    phase = "menu" /\ Idle =>
        \A i \in Ruled : i \in visible <=> IsShown(i)

\* When the menu is on the screen, every item the user left alone, and no .env
\* file gave a value, has the value its soft rule gives for the values as they
\* are now.
DefaultsAreCurrent ==
    phase = "menu" /\ Idle =>
        \A i \in {j \in Soft \ modified : saves = 0 \/ j \notin Kept} :
            LET computed == Default(i, Values(ValueDeps[i]))
            IN  computed # {} => value[i] \in computed

\* Every cascade comes to an end: rules that feed each other do not keep each
\* other busy.
CascadeEnds == calls # <<>> ~> calls = <<>>
=============================================================================
