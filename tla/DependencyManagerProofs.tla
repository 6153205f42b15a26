------------------------ MODULE DependencyManagerProofs ------------------------
(***************************************************************************)
(* DependencyManager keeps its items consistent for any rules: what the    *)
(* menu shows, and the values soft rules compute, are those of the values  *)
(* as they are now.                                                        *)
(*                                                                         *)
(* The argument: an item whose rule is registered either is as its rule    *)
(* says or a call that will put it right is still to be made.  Calls that  *)
(* hide an item are made before all others, and the parent is hidden while *)
(* they are, so that none of them hides an item that is to be shown.       *)
(***************************************************************************)
EXTENDS DependencyManager, FiniteSetTheorems, SequenceTheorems, TLAPS

Due(c, s) == \E n \in DOMAIN s : s[n] = c

\* Once the menu is open every rule is registered; values are loaded only before
\* it is, of files that were written.
PhaseOK ==
    /\ phase # "start" => registered = Cardinality(Rules)
    /\ phase = "import" => saves # 0
    /\ phase # "import" => toLoad = <<>>

HidesAhead(s, shown) ==
    \A n \in DOMAIN s : s[n][1] = "hide" =>
        /\ \A m \in 1 .. n : s[m][1] = "hide"
        /\ Parent[s[n][2]] \in Items \ shown
HidesFirst == HidesAhead(calls, visible)
NoHides(s) == \A n \in DOMAIN s : s[n][1] # "hide"

ShownAsRuled(i) == i \in visible <=> IsShown(i)
ShownOrDue ==
    \A i \in Ruled : Registered(<<"show", i>>) =>
        ShownAsRuled(i) \/ Due(<<"show", i>>, calls) \/ Due(<<"hide", i>>, calls)

SetAsRuled(i) ==
    Default(i, Values(ValueDeps[i])) # {} => value[i] \in Default(i, Values(ValueDeps[i]))
RuledOrDue(i) ==
    Registered(<<"default", i>>) => SetAsRuled(i) \/ Due(<<"default", i>>, calls)

\* An item the user left alone and no .env file gave a value.
LeftAlone(i) == i \notin modified /\ (saves = 0 \/ i \notin Kept)
SetOrDue == \A i \in Soft : LeftAlone(i) => RuledOrDue(i)

\* A value rule that reads what the visibility rule of its item reads and that
\* no choice of the user stops: an item it does not set is one that is shown.
Bound == {i \in (Ruled \cap Computed) \ Soft : ShowDeps[i] \subseteq ValueDeps[i]}
BoundOrShown(i) == RuledOrDue(i) \/ Shown(i, Values(ShowDeps[i]))

IInv == TypeOK /\ PhaseOK /\ HidesFirst /\ ShownOrDue /\ SetOrDue

-----------------------------------------------------------------------------
(* Queues of calls.                                                        *)

LEMMA DueInTail ==
  ASSUME NEW S, NEW s \in Seq(S), s # <<>>, NEW c, c # Head(s), Due(c, s)
  PROVE  Due(c, Tail(s))
<1> PICK n \in DOMAIN s : s[n] = c
  BY DEF Due
<1>1. n \in 2 .. Len(s)
  BY DEF Due
<1>2. n - 1 \in DOMAIN Tail(s) /\ Tail(s)[n - 1] = c
  BY <1>1
<1> QED BY <1>2 DEF Due

LEMMA DueInConcat ==
  ASSUME NEW S, NEW s \in Seq(S), NEW t \in Seq(S), NEW c, Due(c, s) \/ Due(c, t)
  PROVE  Due(c, s \o t)
<1>1. CASE Due(c, s)
  <2> PICK n \in DOMAIN s : s[n] = c
    BY <1>1 DEF Due
  <2>1. n \in DOMAIN (s \o t) /\ (s \o t)[n] = c
    OBVIOUS
  <2> QED BY <2>1 DEF Due
<1>2. CASE Due(c, t)
  <2> PICK n \in DOMAIN t : t[n] = c
    BY <1>2 DEF Due
  <2>1. Len(s) + n \in DOMAIN (s \o t) /\ (s \o t)[Len(s) + n] = c
    OBVIOUS
  <2> QED BY <2>1 DEF Due
<1> QED BY <1>1, <1>2

\* The calls about the children of an item.
LEMMA CallingType ==
  ASSUME NEW p \in Items, NEW tag \in {"show", "hide"}
  PROVE  /\ Calling(tag, Children[p]) \in Seq(Calls)
         /\ \A n \in DOMAIN Calling(tag, Children[p]) :
               /\ Calling(tag, Children[p])[n][1] = tag
               /\ Parent[Calling(tag, Children[p])[n][2]] = p
         /\ \A i \in Ruled : Parent[i] = p => Due(<<tag, i>>, Calling(tag, Children[p]))
<1> DEFINE k == Children[p]
<1>1. /\ k \in Seq(Ruled)
      /\ {k[n] : n \in DOMAIN k} = {i \in Ruled : Parent[i] = p}
  BY OrderAssumption DEF OrderAssumption
<1>2. \A i \in Ruled : <<tag, i>> \in Calls
  BY DEF Calls, Rules
<1>3. /\ Calling(tag, k) \in Seq(Calls)
      /\ DOMAIN Calling(tag, k) = DOMAIN k
      /\ \A n \in DOMAIN k : Calling(tag, k)[n] = <<tag, k[n]>>
  <2> HIDE DEF k
  <2> QED BY <1>1, <1>2 DEF Calling
<1>4. \A n \in DOMAIN k : k[n] \in Ruled /\ Parent[k[n]] = p
  BY <1>1
<1>5. \A i \in Ruled : Parent[i] = p => \E n \in DOMAIN k : k[n] = i
  BY <1>1
<1> HIDE DEF k
<1>6. \A i \in Ruled : Parent[i] = p => Due(<<tag, i>>, Calling(tag, k))
  BY <1>3, <1>5 DEF Due
<1>7. \A n \in DOMAIN Calling(tag, k) :
         Calling(tag, k)[n][1] = tag /\ Parent[Calling(tag, k)[n][2]] = p
  BY <1>3, <1>4
<1> QED BY <1>3, <1>6, <1>7 DEF k

\* The observers of an item.
LEMMA ObserversType ==
  ASSUME NEW d \in Items
  PROVE  /\ Observers[d] \in Seq(Calls)
         /\ \A n \in DOMAIN Observers[d] : Observers[d][n][1] # "hide"
         /\ \A i \in Ruled : d \in ShowDeps[i] => Due(<<"show", i>>, Observers[d])
         /\ \A i \in Computed : d \in ValueDeps[i] => Due(<<"default", i>>, Observers[d])
<1>1. Observers[d] \in Seq(Rules)
  BY OrderAssumption DEF OrderAssumption
<1>2. \A r \in Rules : r \in Calls /\ r[1] # "hide"
  BY DEF Rules, Calls
<1> DEFINE o == Observers[d]
<1>0. {o[n] : n \in DOMAIN o} = {<<"show", i>> : i \in {j \in Ruled : d \in ShowDeps[j]}}
                               \cup {<<"default", i>> : i \in {j \in Computed : d \in ValueDeps[j]}}
  BY OrderAssumption DEF OrderAssumption
<1> HIDE DEF o
<1>3. \A i \in Ruled : d \in ShowDeps[i] => Due(<<"show", i>>, o)
  <2> TAKE i \in Ruled
  <2> HAVE d \in ShowDeps[i]
  <2>1. <<"show", i>> \in {o[n] : n \in DOMAIN o}
    BY <1>0
  <2> QED BY <2>1 DEF Due
<1>4. \A i \in Computed : d \in ValueDeps[i] => Due(<<"default", i>>, o)
  <2> TAKE i \in Computed
  <2> HAVE d \in ValueDeps[i]
  <2>1. <<"default", i>> \in {o[n] : n \in DOMAIN o}
    BY <1>0
  <2> QED BY <2>1 DEF Due
<1> USE DEF o
<1>5. Observers[d] \in Seq(Calls)
  BY <1>1, <1>2
<1>6. \A n \in DOMAIN Observers[d] : Observers[d][n][1] # "hide"
  BY <1>1, <1>2
<1> QED BY <1>3, <1>4, <1>5, <1>6

LEMMA NoHidesAhead ==
  ASSUME NEW s \in Seq(Calls), NEW V, HidesAhead(s, V), s # <<>> => s[1][1] # "hide"
  PROVE  NoHides(s)
BY DEF HidesAhead, NoHides

LEMMA HidesInTail ==
  ASSUME NEW s \in Seq(Calls), s # <<>>, NEW V, NEW W \in SUBSET V, HidesAhead(s, V)
  PROVE  HidesAhead(Tail(s), W)
<1> SUFFICES ASSUME NEW n \in DOMAIN Tail(s), Tail(s)[n][1] = "hide"
             PROVE  /\ \A m \in 1 .. n : Tail(s)[m][1] = "hide"
                    /\ Parent[Tail(s)[n][2]] \in Items \ W
  BY DEF HidesAhead
<1>1. n + 1 \in DOMAIN s /\ \A m \in 1 .. n : m + 1 \in 1 .. n + 1 /\ Tail(s)[m] = s[m + 1]
  OBVIOUS
<1>2. \A m \in 1 .. n + 1 : s[m][1] = "hide"
  BY <1>1 DEF HidesAhead
<1>3. Parent[s[n + 1][2]] \in Items \ V
  BY <1>1 DEF HidesAhead
<1> QED BY <1>1, <1>2, <1>3

LEMMA HidesPushed ==
  ASSUME NEW s \in Seq(Calls), NEW t \in Seq(Calls), NEW V, HidesAhead(t, V),
         \A n \in DOMAIN s : s[n][1] = "hide" /\ Parent[s[n][2]] \in Items \ V
  PROVE  HidesAhead(s \o t, V)
<1> SUFFICES ASSUME NEW n \in DOMAIN (s \o t), (s \o t)[n][1] = "hide"
             PROVE  /\ \A m \in 1 .. n : (s \o t)[m][1] = "hide"
                    /\ Parent[(s \o t)[n][2]] \in Items \ V
  BY DEF HidesAhead
<1>1. \A m \in 1 .. Len(s) : m \in DOMAIN s /\ (s \o t)[m] = s[m]
  OBVIOUS
<1>2. \A m \in Len(s) + 1 .. Len(s) + Len(t) :
         m - Len(s) \in DOMAIN t /\ (s \o t)[m] = t[m - Len(s)]
  OBVIOUS
<1>3. CASE n <= Len(s)
  <2>1. n \in DOMAIN s /\ (s \o t)[n] = s[n]
    BY <1>3
  <2>2. \A m \in 1 .. n : m \in 1 .. Len(s)
    BY <1>3
  <2> QED BY <1>1, <2>1, <2>2
<1>4. CASE n > Len(s)
  <2>1. n \in Len(s) + 1 .. Len(s) + Len(t)
    BY <1>4
  <2>2. /\ \A m \in 1 .. n - Len(s) : t[m][1] = "hide"
        /\ Parent[t[n - Len(s)][2]] \in Items \ V
    BY <1>2, <2>1 DEF HidesAhead
  <2>3. \A m \in 1 .. n : m \in 1 .. Len(s) \/ (m \in Len(s) + 1 .. Len(s) + Len(t)
                                                 /\ m - Len(s) \in 1 .. n - Len(s))
    BY <2>1
  <2>4. \A m \in 1 .. n : (s \o t)[m][1] = "hide"
    BY <1>1, <1>2, <2>2, <2>3
  <2> QED BY <1>2, <2>1, <2>2, <2>4
<1> QED BY <1>3, <1>4

LEMMA NoHidesPushed ==
  ASSUME NEW s \in Seq(Calls), NEW t \in Seq(Calls), NoHides(s), NoHides(t), NEW V
  PROVE  HidesAhead(s \o t, V)
<1>1. \A n \in DOMAIN (s \o t) :
         \/ n \in DOMAIN s /\ (s \o t)[n] = s[n]
         \/ n - Len(s) \in DOMAIN t /\ (s \o t)[n] = t[n - Len(s)]
  OBVIOUS
<1> QED BY <1>1 DEF NoHides, HidesAhead

-----------------------------------------------------------------------------
(* What the steps do to the calls.                                         *)

\* The call that is made.
LEMMA HeadType ==
  ASSUME TypeOK, ~Idle
  PROVE  /\ calls \in Seq(Calls) /\ calls # <<>>
         /\ Head(calls) = calls[1] /\ 1 \in DOMAIN calls
         /\ Tail(calls) \in Seq(Calls)
         /\ Head(calls) \in Calls
BY DEF TypeOK, Idle

LEMMA CallType ==
  ASSUME NEW c \in Calls
  PROVE  /\ c[1] \in {"show", "hide"} => c[2] \in Ruled
         /\ c[1] = "default" => c[2] \in Computed
         /\ c = <<c[1], c[2]>>
BY DEF Calls, Rules

LEMMA SetVisibleCalls ==
  ASSUME TypeOK, ~Idle, NEW i \in Ruled, NEW shown \in BOOLEAN, SetVisible(i, shown)
  PROVE  /\ visible' = IF shown THEN visible \cup {i} ELSE visible \ {i}
         /\ visible' \subseteq Items
         /\ calls' \in Seq(Calls)
<1>1. i \in Items
  BY RulesAssumption DEF RulesAssumption
<1>2. /\ Calling("show", Children[i]) \in Seq(Calls)
      /\ Calling("hide", Children[i]) \in Seq(Calls)
  BY <1>1, CallingType
<1>3. Tail(calls) \in Seq(Calls)
  BY HeadType
<1>4. \A tag \in {"show", "hide"} : Calling(tag, Children[i]) \o Tail(calls) \in Seq(Calls)
  BY <1>2, <1>3
<1> QED BY <1>1, <1>3, <1>4 DEF SetVisible, TypeOK

\* A rule is registered after the ones before it.
LEMMA Numbers ==
  /\ Cardinality(Rules) \in Nat
  /\ \A r \in Rules : Place[r] \in 1 .. Cardinality(Rules)
BY OrderAssumption, FS_CardinalityType DEF OrderAssumption

\* Every order of loading is one of items that are kept, and what comes next is one
\* of them.
LEMMA Ordered ==
  /\ Kept \subseteq Items /\ LoadOrders \subseteq Seq(Kept)
  /\ \A s \in Seq(Kept) : s # <<>> => Head(s) \in Kept /\ Tail(s) \in Seq(Kept)
<1>1. ASSUME NEW o \in LoadOrders
      PROVE  o \in Seq(Items) /\ {o[n] : n \in DOMAIN o} = Kept
  BY LoadAssumption DEF LoadAssumption
<1>2. ASSUME NEW i \in Kept
      PROVE  i \in Items
  <2>1. PICK o \in LoadOrders : i \in {o[n] : n \in DOMAIN o}
    BY <1>2 DEF Kept
  <2>2. PICK n \in DOMAIN o : i = o[n]
    BY <2>1
  <2>3. o \in Seq(Items)
    BY <1>1
  <2> QED BY <2>2, <2>3
<1>3. ASSUME NEW o \in LoadOrders
      PROVE  o \in Seq(Kept)
  <2>1. o \in Seq(Items) /\ \A n \in DOMAIN o : o[n] \in Kept
    BY <1>1
  <2> QED BY <2>1
<1>4. \A s \in Seq(Kept) : s # <<>> => Head(s) \in Kept /\ Tail(s) \in Seq(Kept)
  OBVIOUS
<1> QED BY <1>2, <1>3, <1>4

-----------------------------------------------------------------------------
(* Type correctness and the phases.                                        *)

LEMMA TypeStep ==
  ASSUME TypeOK, [Next]_vars
  PROVE  TypeOK'
<1> USE DEF TypeOK
<1>0. calls \in Seq(Calls) /\ visible \subseteq Items /\ registered \in Nat
  BY Numbers
<1>1. CASE Register
  <2>1. \A r \in Rules : <<r>> \in Seq(Calls)
    BY DEF Calls
  <2>2. registered' \in 0 .. Cardinality(Rules)
    BY <1>1, Numbers DEF Register
  <2> QED BY <1>1, <2>1, <2>2 DEF Register
<1>2. CASE Show
  <2> DEFINE i == Head(calls)[2]
  <2>1. i \in Ruled /\ Tail(calls) \in Seq(Calls) /\ ~Idle
    BY <1>2, HeadType, CallType DEF Show
  <2>2. CASE Registered(<<"show", i>>)
    <3>1. SetVisible(i, IsShown(i)) /\ IsShown(i) \in BOOLEAN
      BY <1>2, <2>2 DEF Show, IsShown
    <3>2. visible' \subseteq Items /\ calls' \in Seq(Calls)
      <4> HIDE DEF i, TypeOK
      <4> QED BY <2>1, <3>1, SetVisibleCalls
    <3> QED BY <1>2, <3>2 DEF Show
  <2>3. CASE ~Registered(<<"show", i>>)
    BY <1>2, <2>1, <2>3 DEF Show
  <2> QED BY <2>2, <2>3
<1>3. CASE Hide
  <2> DEFINE i == Head(calls)[2]
  <2>1. i \in Ruled /\ Tail(calls) \in Seq(Calls) /\ ~Idle
    BY <1>3, HeadType, CallType DEF Hide
  <2>2. CASE Registered(<<"show", i>>)
    <3>1. SetVisible(i, FALSE)
      BY <1>3, <2>2 DEF Hide
    <3>2. visible' \subseteq Items /\ calls' \in Seq(Calls)
      <4> HIDE DEF i, TypeOK
      <4> QED BY <2>1, <3>1, SetVisibleCalls
    <3> QED BY <1>3, <3>2 DEF Hide
  <2>3. CASE ~Registered(<<"show", i>>)
    BY <1>3, <2>1, <2>3 DEF Hide
  <2> QED BY <2>2, <2>3
<1>4. CASE ComputeDefault
  <2> DEFINE i == Head(calls)[2]
  <2>1. i \in Computed /\ Tail(calls) \in Seq(Calls)
    BY <1>4, HeadType, CallType DEF ComputeDefault
  <2>2. Observers[i] \in Seq(Calls)
    BY <2>1, ObserversType, RulesAssumption DEF RulesAssumption
  <2>3. Observers[i] \o Tail(calls) \in Seq(Calls)
    BY <2>1, <2>2
  <2> HIDE DEF i
  <2>4. DOMAIN value' = Items /\ calls' \in Seq(Calls)
    BY <1>4, <2>1, <2>3 DEF ComputeDefault, ApplyDefault, i
  <2> QED BY <1>4, <2>4 DEF ComputeDefault
<1>5. ASSUME NEW i \in Items, NEW v, SetValue(i, v)
      PROVE  DOMAIN value' = Items /\ modified' \subseteq Soft /\ calls' \in Seq(Calls)
  BY <1>5, ObserversType DEF SetValue
<1>6. CASE Preset
  <2>1. PICK v : SetValue(PresetItem, v)
    BY <1>6 DEF Preset
  <2>2. PresetItem \in Items
    BY RulesAssumption DEF RulesAssumption
  <2>3. DOMAIN value' = Items /\ modified' \subseteq Soft /\ calls' \in Seq(Calls)
    BY <1>5, <2>1, <2>2
  <2>4. toLoad' \in Seq(Kept)
    BY <1>6, Ordered DEF Preset
  <2> QED BY <1>6, <2>3, <2>4 DEF Preset
<1>7. CASE Import
  <2> DEFINE i == Head(toLoad)
  <2>1. i \in Items /\ toLoad' \in Seq(Kept)
    BY <1>7, Ordered DEF Import
  <2>2. Observers[i] \in Seq(Calls)
    BY <2>1, ObserversType
  <2>3. Observers[i] \o <<>> \in Seq(Calls) /\ <<>> \in Seq(Calls)
    BY <2>2
  <2> HIDE DEF i
  <2>4. DOMAIN value' = Items /\ calls' \in Seq(Calls)
    <3>1. CASE saved[i] = {}
      BY <1>0, <1>7, <3>1 DEF Import, i
    <3>2. CASE saved[i] # {}
      <4> PICK v \in saved[i] : ApplyDefault(i, v, <<>>)
        BY <1>7, <3>2 DEF Import, i
      <4> QED BY <2>3 DEF ApplyDefault
    <3> QED BY <3>1, <3>2
  <2> QED BY <1>7, <2>1, <2>4 DEF Import
<1>8. CASE Imported
  BY <1>8 DEF Imported
<1>9. CASE UserChooses
  <2>0. PICK i \in menu \ {PresetItem} : \E v : Choose(i, v)
    BY <1>9 DEF UserChooses
  <2>1. PICK v : Choose(i, v)
    BY <2>0
  <2>2. DOMAIN value' = Items /\ modified' \subseteq Soft /\ calls' \in Seq(Calls)
    BY <1>5, <2>1 DEF Choose
  <2> QED BY <2>1, <2>2 DEF Choose
<1>10. CASE SaveAndRestart
  <2>1. DOMAIN value' = Items
    BY <1>10, RulesAssumption DEF SaveAndRestart, Fresh, RulesAssumption
  <2>2. DOMAIN saved' = Kept /\ saves' \in Nat
    BY <1>10 DEF SaveAndRestart
  <2>3. 0 \in 0 .. Cardinality(Rules)
    BY Numbers
  <2> QED BY <1>10, <2>1, <2>2, <2>3 DEF SaveAndRestart, Fresh
<1>11. CASE UNCHANGED vars
  BY <1>11 DEF vars
<1> QED BY <1>1, <1>2, <1>3, <1>4, <1>6, <1>7, <1>8, <1>9, <1>10, <1>11 DEF Next, Compute

LEMMA PhaseStep ==
  ASSUME TypeOK, PhaseOK, [Next]_vars
  PROVE  PhaseOK'
<1> USE DEF PhaseOK
<1>1. CASE Register
  BY <1>1 DEF Register
<1>2. CASE Show \/ Hide \/ ComputeDefault
  BY <1>2 DEF Show, Hide, ComputeDefault
<1>3. CASE Preset
  BY <1>3 DEF Preset
<1>4. CASE Import \/ Imported
  BY <1>4 DEF Import, Imported
<1>5. CASE UserChooses
  BY <1>5 DEF UserChooses, Choose
<1>6. CASE SaveAndRestart
  BY <1>6 DEF SaveAndRestart
<1>7. CASE UNCHANGED vars
  BY <1>7 DEF vars
<1> QED BY <1>1, <1>2, <1>3, <1>4, <1>5, <1>6, <1>7 DEF Next, Compute

-----------------------------------------------------------------------------
(* Calls that hide come first.                                             *)

LEMMA NoHidesInTail ==
  ASSUME NEW s \in Seq(Calls), s # <<>>, NoHides(s)
  PROVE  NoHides(Tail(s))
<1>1. \A n \in DOMAIN Tail(s) : n + 1 \in DOMAIN s /\ Tail(s)[n] = s[n + 1]
  OBVIOUS
<1> QED BY <1>1 DEF NoHides

\* Observers call none.
LEMMA HidesAfterChange ==
  ASSUME NEW i \in Items, NEW rest \in Seq(Calls), NoHides(rest), NEW V
  PROVE  HidesAhead(Observers[i] \o rest, V) /\ HidesAhead(Observers[i], V)
<1>1. Observers[i] \in Seq(Calls) /\ NoHides(Observers[i])
  BY ObserversType DEF NoHides
<1>2. HidesAhead(Observers[i] \o rest, V)
  BY <1>1, NoHidesPushed
<1> QED BY <1>1, <1>2 DEF NoHides, HidesAhead

LEMMA HidesStep ==
  ASSUME TypeOK, HidesFirst, [Next]_vars
  PROVE  HidesFirst'
<1> USE DEF HidesFirst
<1>0. calls \in Seq(Calls) /\ NoHides(<<>>) /\ <<>> \in Seq(Calls)
  BY DEF TypeOK, NoHides
<1>a. ASSUME ~Idle, Head(calls)[1] # "hide"
      PROVE  NoHides(Tail(calls)) /\ Tail(calls) \in Seq(Calls)
  <2>1. calls # <<>> /\ calls[1][1] # "hide"
    BY <1>a, HeadType
  <2>2. NoHides(calls)
    BY <1>0, <2>1, NoHidesAhead
  <2> QED BY <1>0, <2>1, <2>2, NoHidesInTail
<1>b. ASSUME NoHides(calls') PROVE HidesFirst'
  BY <1>b DEF NoHides, HidesAhead
<1>1. CASE Register
  <2>1. \A r \in Rules : r[1] # "hide"
    BY DEF Rules
  <2>2. NoHides(calls')
    BY <1>1, <2>1 DEF Register, NoHides
  <2> QED BY <2>2, <1>b
<1>2. CASE Show
  <2> DEFINE i == Head(calls)[2]
             new == Calling("show", Children[i])
             gone == Calling("hide", Children[i])
  <2>1. i \in Ruled /\ NoHides(Tail(calls)) /\ Tail(calls) \in Seq(Calls)
    BY <1>2, <1>a, HeadType, CallType DEF Show
  <2>2. CASE Registered(<<"show", i>>)
    <3>1. SetVisible(i, IsShown(i))
      BY <1>2, <2>2 DEF Show
    <3>2. i \in Items
      BY <2>1, RulesAssumption DEF RulesAssumption
    <3>3. /\ new \in Seq(Calls) /\ gone \in Seq(Calls) /\ NoHides(new)
          /\ \A n \in DOMAIN gone : gone[n][1] = "hide" /\ Parent[gone[n][2]] = i
      <4>1. \A n \in DOMAIN new : new[n][1] = "show"
        BY <3>2, CallingType
      <4>2. \A n \in DOMAIN gone : gone[n][1] = "hide" /\ Parent[gone[n][2]] = i
        BY <3>2, CallingType
      <4>3. new \in Seq(Calls) /\ gone \in Seq(Calls)
        BY <3>2, CallingType
      <4> QED BY <4>1, <4>2, <4>3 DEF NoHides
    <3> HIDE DEF i, new, gone
    <3>4. CASE IsShown(i) <=> i \in visible
      <4>1. calls' = Tail(calls)
        BY <3>1, <3>4 DEF SetVisible
      <4> QED BY <2>1, <4>1, <1>b
    <3>5. CASE IsShown(i) /\ i \notin visible
      <4>1. calls' = new \o Tail(calls)
        BY <3>1, <3>5 DEF SetVisible, new
      <4> QED BY <2>1, <3>3, <4>1, NoHidesPushed
    <3>6. CASE ~IsShown(i) /\ i \in visible
      <4>1. calls' = gone \o Tail(calls) /\ visible' = visible \ {i}
        BY <3>1, <3>6 DEF SetVisible, gone
      <4>2. HidesAhead(Tail(calls), visible')
        BY <2>1 DEF NoHides, HidesAhead
      <4>3. \A n \in DOMAIN gone : gone[n][1] = "hide" /\ Parent[gone[n][2]] \in Items \ visible'
        BY <3>2, <3>3, <4>1
      <4> QED BY <2>1, <3>3, <4>1, <4>2, <4>3, HidesPushed
    <3> QED BY <3>4, <3>5, <3>6 DEF IsShown
  <2>3. CASE ~Registered(<<"show", i>>)
    <3>1. calls' = Tail(calls)
      BY <1>2, <2>3 DEF Show
    <3> QED BY <2>1, <3>1, <1>b
  <2> QED BY <2>2, <2>3
<1>3. CASE Hide
  <2> DEFINE i == Head(calls)[2]
             gone == Calling("hide", Children[i])
  <2>1. i \in Ruled /\ Tail(calls) \in Seq(Calls) /\ calls # <<>>
    BY <1>3, HeadType, CallType DEF Hide
  <2>2. visible' \subseteq visible
    BY <1>3 DEF Hide, SetVisible
  <2>3. HidesAhead(Tail(calls), visible')
    BY <1>0, <2>1, <2>2, HidesInTail
  <2>4. CASE calls' = Tail(calls)
    BY <2>3, <2>4
  <2>5. CASE calls' # Tail(calls)
    <3>1. calls' = gone \o Tail(calls) /\ visible' = visible \ {i}
      BY <1>3, <2>5 DEF Hide, SetVisible
    <3>2. i \in Items
      BY <2>1, RulesAssumption DEF RulesAssumption
    <3>3. \A n \in DOMAIN gone : gone[n][1] = "hide" /\ Parent[gone[n][2]] = i
      BY <3>2, CallingType
    <3>4. gone \in Seq(Calls)
      BY <3>2, CallingType
    <3> HIDE DEF i, gone
    <3>5. \A n \in DOMAIN gone : gone[n][1] = "hide" /\ Parent[gone[n][2]] \in Items \ visible'
      BY <3>1, <3>2, <3>3
    <3> QED BY <2>1, <2>3, <3>1, <3>4, <3>5, HidesPushed
  <2> QED BY <2>4, <2>5
<1>4. CASE ComputeDefault
  <2> DEFINE i == Head(calls)[2]
  <2>1. i \in Items /\ NoHides(Tail(calls)) /\ Tail(calls) \in Seq(Calls)
    BY <1>4, <1>a, HeadType, CallType, RulesAssumption DEF ComputeDefault, RulesAssumption
  <2>2. calls' = Tail(calls) \/ calls' = Observers[i] \o Tail(calls)
    BY <1>4 DEF ComputeDefault, ApplyDefault
  <2> HIDE DEF i
  <2> QED BY <2>1, <2>2, <1>b, HidesAfterChange
<1>5. CASE Preset
  <2>1. calls' = Observers[PresetItem] /\ PresetItem \in Items
    BY <1>5, RulesAssumption DEF Preset, SetValue, RulesAssumption
  <2> QED BY <1>0, <2>1, HidesAfterChange
<1>6. CASE Import
  <2> DEFINE i == Head(toLoad)
  <2>1. i \in Items
    BY <1>6, Ordered DEF Import, TypeOK
  <2>2. calls = <<>>
    BY <1>6 DEF Import, Idle
  <2>3. calls' = <<>> \/ calls' = Observers[i] \o <<>>
    BY <1>6, <2>2 DEF Import, ApplyDefault
  <2> HIDE DEF i
  <2> QED BY <1>0, <2>1, <2>3, <1>b, HidesAfterChange
<1>7. CASE Imported
  BY <1>7 DEF Imported
<1>8. CASE UserChooses
  <2>0. PICK i \in menu \ {PresetItem} : \E v : Choose(i, v)
    BY <1>8 DEF UserChooses
  <2>1. PICK v : Choose(i, v)
    BY <2>0
  <2>2. calls' = Observers[i] /\ i \in Items
    BY <2>1 DEF Choose, SetValue, TypeOK
  <2> QED BY <1>0, <2>2, HidesAfterChange
<1>9. CASE SaveAndRestart
  <2>1. calls' = <<>>
    BY <1>9 DEF SaveAndRestart, Idle
  <2> QED BY <1>0, <2>1, <1>b
<1>10. CASE UNCHANGED vars
  BY <1>10 DEF vars
<1> QED BY <1>1, <1>2, <1>3, <1>4, <1>5, <1>6, <1>7, <1>8, <1>9, <1>10 DEF Next, Compute

-----------------------------------------------------------------------------
(* An item is as its rule says, or due.                                    *)

LEMMA ShownStays ==
  ASSUME NEW j \in Ruled, \A d \in ShowDeps[j] : value'[d] = value[d],
         Parent[j] \in visible' \cup {NoItem} <=> Parent[j] \in visible \cup {NoItem}
  PROVE  IsShown(j)' <=> IsShown(j)
<1>1. Values(ShowDeps[j])' = Values(ShowDeps[j])
  BY DEF Values
<1> QED BY <1>1 DEF IsShown

LEMMA ValuesStay ==
  ASSUME NEW j \in Computed, \A d \in ValueDeps[j] : value'[d] = value[d]
  PROVE  Values(ValueDeps[j])' = Values(ValueDeps[j])
BY DEF Values

LEMMA NoRest == \A i \in Items : Observers[i] \o <<>> = Observers[i]
<1> TAKE i \in Items
<1>1. Observers[i] \in Seq(Calls)
  BY ObserversType
<1> QED BY <1>1

\* A change of the value of item i, the observers called before the rest.
ValueChange(i, rest) ==
  /\ visible' = visible /\ registered' = registered
  /\ \A d \in Items \ {i} : value'[d] = value[d]
  /\ \/ value'[i] = value[i] /\ calls' = rest
     \/ calls' = Observers[i] \o rest

LEMMA ShownAfterChange ==
  ASSUME ShownOrDue, NEW i \in Items, NEW rest \in Seq(Calls), ValueChange(i, rest),
         \A j \in Ruled, tag \in {"show", "hide"} : Due(<<tag, j>>, calls) => Due(<<tag, j>>, rest)
  PROVE  ShownOrDue'
<1> SUFFICES ASSUME NEW j \in Ruled, Registered(<<"show", j>>)'
             PROVE  \/ ShownAsRuled(j)'
                    \/ Due(<<"show", j>>, calls') \/ Due(<<"hide", j>>, calls')
  BY DEF ShownOrDue
<1>1. Registered(<<"show", j>>)
  BY DEF ValueChange, Registered
<1>2. Observers[i] \in Seq(Calls) /\ (i \in ShowDeps[j] => Due(<<"show", j>>, Observers[i]))
  BY ObserversType
<1>3. ASSUME NEW c, Due(c, rest) PROVE Due(c, calls')
  BY <1>2, <1>3, DueInConcat DEF ValueChange
<1>4. CASE calls' = Observers[i] \o rest /\ i \in ShowDeps[j]
  BY <1>2, <1>4, DueInConcat
<1>5. CASE ~(calls' = Observers[i] \o rest /\ i \in ShowDeps[j])
  <2>1. ShowDeps[j] \subseteq Items
    BY RulesAssumption DEF RulesAssumption
  <2>2. \A d \in ShowDeps[j] : value'[d] = value[d]
    BY <1>5, <2>1 DEF ValueChange
  <2>3. visible' = visible
    BY DEF ValueChange
  <2>4. IsShown(j)' <=> IsShown(j)
    BY <2>2, <2>3, ShownStays
  <2> QED BY <1>1, <1>3, <2>3, <2>4 DEF ShownOrDue, ShownAsRuled
<1> QED BY <1>4, <1>5

LEMMA RuleAfterChange ==
  ASSUME NEW i \in Items, NEW rest \in Seq(Calls), ValueChange(i, rest),
         NEW j \in Computed, j # i, RuledOrDue(j),
         Due(<<"default", j>>, calls) => Due(<<"default", j>>, rest)
  PROVE  RuledOrDue(j)'
<1> SUFFICES ASSUME Registered(<<"default", j>>)'
             PROVE  SetAsRuled(j)' \/ Due(<<"default", j>>, calls')
  BY DEF RuledOrDue
<1>1. Registered(<<"default", j>>)
  BY DEF ValueChange, Registered
<1>2. j \in Items /\ ValueDeps[j] \subseteq Items
  BY RulesAssumption DEF RulesAssumption
<1>3. Observers[i] \in Seq(Calls) /\ (i \in ValueDeps[j] => Due(<<"default", j>>, Observers[i]))
  BY ObserversType
<1>4. Due(<<"default", j>>, rest) => Due(<<"default", j>>, calls')
  BY <1>3, DueInConcat DEF ValueChange
<1>5. CASE calls' = Observers[i] \o rest /\ i \in ValueDeps[j]
  BY <1>3, <1>5, DueInConcat
<1>6. CASE ~(calls' = Observers[i] \o rest /\ i \in ValueDeps[j])
  <2>1. \A d \in ValueDeps[j] : value'[d] = value[d]
    BY <1>2, <1>6 DEF ValueChange
  <2>2. Values(ValueDeps[j])' = Values(ValueDeps[j])
    BY <2>1, ValuesStay
  <2>3. value'[j] = value[j]
    BY <1>2 DEF ValueChange
  <2>4. SetAsRuled(j) => SetAsRuled(j)'
    BY <2>2, <2>3 DEF SetAsRuled
  <2> QED BY <1>1, <1>4, <2>4 DEF RuledOrDue
<1> QED BY <1>5, <1>6

\* What ComputeDefault does to a value it sets.
LEMMA ComputeChanges ==
  ASSUME TypeOK, ComputeDefault, NEW i, i = Head(calls)[2]
  PROVE  /\ i \in Computed /\ i \in Items /\ Tail(calls) \in Seq(Calls)
         /\ Head(calls) = <<"default", i>>
         /\ ValueChange(i, Tail(calls))
<1>1. /\ i \in Computed /\ i \in Items /\ Tail(calls) \in Seq(Calls)
      /\ Head(calls) = <<"default", i>>
  BY HeadType, CallType, RulesAssumption DEF ComputeDefault, RulesAssumption
<1>2. CASE RuleOff(i)
  BY <1>1, <1>2 DEF ComputeDefault, ValueChange
<1>3. CASE ~RuleOff(i)
  <2> PICK v \in Default(i, Values(ValueDeps[i])) : ApplyDefault(i, v, Tail(calls))
    BY <1>3 DEF ComputeDefault
  <2>1. value' = [value EXCEPT ![i] = v] /\ DOMAIN value = Items
    BY DEF ApplyDefault, TypeOK
  <2>2. value'[i] = v /\ \A d \in Items \ {i} : value'[d] = value[d]
    BY <1>1, <2>1
  <2>3. visible' = visible /\ registered' = registered
    BY DEF ComputeDefault
  <2>4. (v = value[i] /\ calls' = Tail(calls)) \/ calls' = Observers[i] \o Tail(calls)
    BY DEF ApplyDefault
  <2> QED BY <1>1, <2>2, <2>3, <2>4 DEF ValueChange
<1> QED BY <1>1, <1>2, <1>3

\* What a value given from outside does.
LEMMA SetValueChanges ==
  ASSUME TypeOK, NEW i \in Items, NEW v, SetValue(i, v), UNCHANGED <<visible, registered>>
  PROVE  ValueChange(i, <<>>) /\ (i \in Soft => i \in modified') /\ modified \subseteq modified'
<1>1. \A d \in Items \ {i} : value'[d] = value[d]
  BY DEF SetValue, TypeOK
<1>2. calls' = Observers[i] \o <<>>
  BY NoRest DEF SetValue
<1> QED BY <1>1, <1>2 DEF ValueChange, SetValue

\* What loading a value does.
LEMMA ImportChanges ==
  ASSUME TypeOK, Import, NEW i, i = Head(toLoad)
  PROVE  i \in Items /\ i \in Kept /\ ValueChange(i, <<>>)
<1>1. i \in Items /\ Idle /\ i \in Kept
  <2>1. toLoad \in Seq(Kept) /\ toLoad # <<>>
    BY DEF Import, TypeOK
  <2> QED BY <2>1, Ordered DEF Import
<1>2. CASE saved[i] = {}
  BY <1>1, <1>2 DEF Import, ValueChange, Idle
<1>3. CASE saved[i] # {}
  <2> PICK v \in saved[i] : ApplyDefault(i, v, <<>>)
    BY <1>3 DEF Import
  <2>1. UNCHANGED <<visible, registered>>
    BY DEF Import
  <2>2. value' = [value EXCEPT ![i] = v] /\ DOMAIN value = Items
    BY DEF ApplyDefault, TypeOK
  <2>3. value'[i] = v /\ \A d \in Items \ {i} : value'[d] = value[d]
    BY <1>1, <2>2
  <2>4. (v = value[i] /\ calls' = <<>>) \/ calls' = Observers[i] \o <<>>
    BY DEF ApplyDefault
  <2> QED BY <1>1, <2>1, <2>3, <2>4 DEF ValueChange
<1> QED BY <1>1, <1>2, <1>3

\* When the program is started again no rule is registered.
LEMMA NoneRegistered ==
  ASSUME SaveAndRestart, NEW r \in Rules
  PROVE  ~Registered(r)'
<1>1. Place[r] \in 1 .. Cardinality(Rules)
  BY Numbers
<1>2. registered' = 0
  BY DEF SaveAndRestart
<1> QED BY <1>1, <1>2, Numbers DEF Registered

LEMMA ShownStep ==
  ASSUME TypeOK, HidesFirst, ShownOrDue, [Next]_vars
  PROVE  ShownOrDue'
<1>0. calls \in Seq(Calls) /\ <<>> \in Seq(Calls)
  BY DEF TypeOK
<1>1. CASE Register
  <2> SUFFICES ASSUME NEW j \in Ruled, Registered(<<"show", j>>)'
               PROVE  ShownAsRuled(j)' \/ Due(<<"show", j>>, calls')
    BY DEF ShownOrDue
  <2>1. PICK r \in Rules : Place[r] = registered + 1 /\ calls' = <<r>>
    BY <1>1 DEF Register
  <2>2. <<"show", j>> \in Rules
    BY DEF Rules
  <2>3. CASE r = <<"show", j>>
    BY <2>1, <2>3 DEF Due
  <2>4. CASE r # <<"show", j>>
    <3>1. Place[<<"show", j>>] # Place[r]
      BY <2>2, <2>4, OrderAssumption DEF OrderAssumption
    <3>2. Registered(<<"show", j>>)
      BY <1>1, <2>1, <2>2, <3>1, Numbers DEF Register, Registered, TypeOK
    <3>3. ~Due(<<"show", j>>, calls) /\ ~Due(<<"hide", j>>, calls)
      BY <1>1 DEF Register, Idle, Due
    <3>4. ShownAsRuled(j)
      BY <3>2, <3>3 DEF ShownOrDue
    <3>5. visible' = visible /\ value' = value
      BY <1>1 DEF Register
    <3>6. IsShown(j)' <=> IsShown(j)
      BY <3>5, ShownStays
    <3> QED BY <3>4, <3>5, <3>6 DEF ShownAsRuled
  <2> QED BY <2>3, <2>4
<1>2. ASSUME NEW i \in Ruled, NEW shown \in BOOLEAN, ~Idle,
             Head(calls) = <<"show", i>> \/ Head(calls) = <<"hide", i>>,
             SetVisible(i, shown), UNCHANGED <<value, registered>>,
             shown <=> IsShown(i)'
      PROVE  ShownOrDue'
  <2> SUFFICES ASSUME NEW j \in Ruled, Registered(<<"show", j>>)'
               PROVE  \/ ShownAsRuled(j)'
                      \/ Due(<<"show", j>>, calls') \/ Due(<<"hide", j>>, calls')
    BY DEF ShownOrDue
  <2>1. Registered(<<"show", j>>)
    BY <1>2 DEF Registered
  <2>2. visible' = IF shown THEN visible \cup {i} ELSE visible \ {i}
    BY <1>2 DEF SetVisible
  <2>3. CASE j = i
    BY <1>2, <2>1, <2>2, <2>3 DEF ShownAsRuled
  <2>4. CASE j # i
    <3>1. i \in Items /\ calls # <<>> /\ Tail(calls) \in Seq(Calls)
      BY <1>2, HeadType, RulesAssumption DEF RulesAssumption
    <3>2. \A tag \in {"show", "hide"} :
             Due(<<tag, j>>, calls) => Due(<<tag, j>>, Tail(calls))
      BY <1>0, <1>2, <2>4, <3>1, DueInTail
    <3>3. \A tag \in {"show", "hide"} :
             Due(<<tag, j>>, Tail(calls)) => Due(<<tag, j>>, calls')
      <4>1. /\ Calling("show", Children[i]) \in Seq(Calls)
            /\ Calling("hide", Children[i]) \in Seq(Calls)
        BY <3>1, CallingType
      <4>2. \/ calls' = Tail(calls)
            \/ calls' = Calling("show", Children[i]) \o Tail(calls)
            \/ calls' = Calling("hide", Children[i]) \o Tail(calls)
        BY <1>2 DEF SetVisible
      <4> QED BY <3>1, <4>1, <4>2, DueInConcat
    <3>4. CASE Parent[j] = i /\ (shown <=> i \notin visible)
      <4> DEFINE new == Calling(IF shown THEN "show" ELSE "hide", Children[i])
      <4>1. calls' = new \o Tail(calls)
        BY <1>2, <3>4 DEF SetVisible
      <4>2. new \in Seq(Calls) /\ Due(<<IF shown THEN "show" ELSE "hide", j>>, new)
        BY <3>1, <3>4, CallingType
      <4> HIDE DEF new
      <4>3. Due(<<IF shown THEN "show" ELSE "hide", j>>, calls')
        BY <3>1, <4>1, <4>2, DueInConcat
      <4> QED BY <4>3
    <3>5. CASE ~(Parent[j] = i /\ (shown <=> i \notin visible))
      <4>1. Parent[j] \in visible' \cup {NoItem} <=> Parent[j] \in visible \cup {NoItem}
        BY <2>2, <3>5
      <4>2. IsShown(j)' <=> IsShown(j)
        BY <1>2, <4>1, ShownStays
      <4>3. j \in visible' <=> j \in visible
        BY <2>2, <2>4
      <4> QED BY <2>1, <3>2, <3>3, <4>2, <4>3 DEF ShownOrDue, ShownAsRuled
    <3> QED BY <3>4, <3>5
  <2> QED BY <2>3, <2>4
<1>3. ASSUME NEW i \in Ruled, ~Idle,
             Head(calls) = <<"show", i>> \/ Head(calls) = <<"hide", i>>,
             ~Registered(<<"show", i>>), calls' = Tail(calls),
             UNCHANGED <<value, visible, registered>>
      PROVE  ShownOrDue'
  <2> SUFFICES ASSUME NEW j \in Ruled, Registered(<<"show", j>>)'
               PROVE  \/ ShownAsRuled(j)'
                      \/ Due(<<"show", j>>, calls') \/ Due(<<"hide", j>>, calls')
    BY DEF ShownOrDue
  <2>1. Registered(<<"show", j>>) /\ j # i
    BY <1>3 DEF Registered
  <2>2. \A tag \in {"show", "hide"} : Due(<<tag, j>>, calls) => Due(<<tag, j>>, calls')
    BY <1>0, <1>3, <2>1, HeadType, DueInTail
  <2>3. IsShown(j)' <=> IsShown(j)
    BY <1>3, ShownStays
  <2> QED BY <1>3, <2>1, <2>2, <2>3 DEF ShownOrDue, ShownAsRuled
<1>4. CASE Show
  <2>1. PICK i \in Ruled : Head(calls) = <<"show", i>>
    BY <1>4, HeadType, CallType DEF Show
  <2>2. ~Idle /\ Head(calls)[2] = i /\ UNCHANGED <<value, registered>>
    BY <1>4, <2>1 DEF Show
  <2>3. CASE Registered(<<"show", i>>)
    <3>1. SetVisible(i, IsShown(i)) /\ IsShown(i) \in BOOLEAN
      BY <1>4, <2>2, <2>3 DEF Show, IsShown
    <3>2. Parent[i] # i
      BY <2>1, RulesAssumption DEF RulesAssumption
    <3>3. visible' = IF IsShown(i) THEN visible \cup {i} ELSE visible \ {i}
      BY <3>1 DEF SetVisible
    <3>4. IsShown(i)' <=> IsShown(i)
      BY <2>1, <2>2, <3>2, <3>3, ShownStays
    <3> QED BY <1>2, <2>1, <2>2, <3>1, <3>4
  <2>4. CASE ~Registered(<<"show", i>>)
    <3>1. calls' = Tail(calls) /\ visible' = visible
      BY <1>4, <2>2, <2>4 DEF Show
    <3> QED BY <1>3, <2>1, <2>2, <2>4, <3>1
  <2> QED BY <2>3, <2>4
<1>5. CASE Hide
  <2>1. PICK i \in Ruled : Head(calls) = <<"hide", i>>
    BY <1>5, HeadType, CallType DEF Hide
  <2>2. ~Idle /\ Head(calls)[2] = i /\ UNCHANGED <<value, registered>>
    BY <1>5, <2>1 DEF Hide
  <2>3. CASE Registered(<<"show", i>>)
    <3>1. SetVisible(i, FALSE)
      BY <1>5, <2>2, <2>3 DEF Hide
    <3>2. Parent[i] \in Items \ visible /\ NoItem \notin Items
      BY <2>1, <2>2, HeadType, RulesAssumption DEF HidesFirst, HidesAhead, RulesAssumption
    <3>3. visible' = visible \ {i}
      BY <3>1 DEF SetVisible
    <3>4. ~IsShown(i)'
      BY <3>2, <3>3 DEF IsShown
    <3> QED BY <1>2, <2>1, <2>2, <3>1, <3>4
  <2>4. CASE ~Registered(<<"show", i>>)
    <3>1. calls' = Tail(calls) /\ visible' = visible
      BY <1>5, <2>2, <2>4 DEF Hide
    <3> QED BY <1>3, <2>1, <2>2, <2>4, <3>1
  <2> QED BY <2>3, <2>4
<1>6. CASE ComputeDefault
  <2> DEFINE i == Head(calls)[2]
  <2>1. /\ i \in Items /\ Tail(calls) \in Seq(Calls)
        /\ Head(calls) = <<"default", i>>
        /\ ValueChange(i, Tail(calls))
    BY <1>6, ComputeChanges
  <2> HIDE DEF i
  <2>2. ASSUME NEW j \in Ruled, NEW tag \in {"show", "hide"}, Due(<<tag, j>>, calls)
        PROVE  Due(<<tag, j>>, Tail(calls))
    <3>1. calls # <<>> /\ <<tag, j>> # Head(calls)
      BY <1>6, <2>1 DEF ComputeDefault, Idle
    <3> QED BY <1>0, <2>2, <3>1, DueInTail
  <2> QED BY <2>1, <2>2, ShownAfterChange
<1>7. ASSUME NEW i \in Items, Idle, ValueChange(i, <<>>) PROVE ShownOrDue'
  <2>1. \A c : ~Due(c, calls)
    BY <1>7 DEF Idle, Due
  <2> QED BY <1>0, <1>7, <2>1, ShownAfterChange
<1>8. CASE Preset
  <2>1. PICK v : SetValue(PresetItem, v)
    BY <1>8 DEF Preset
  <2>2. PresetItem \in Items /\ Idle /\ UNCHANGED <<visible, registered>>
    BY <1>8, RulesAssumption DEF Preset, RulesAssumption
  <2> QED BY <1>7, <2>1, <2>2, SetValueChanges
<1>9. CASE Import
  <2> PICK i : i = Head(toLoad)
    OBVIOUS
  <2>1. i \in Items /\ ValueChange(i, <<>>) /\ Idle
    BY <1>9, ImportChanges DEF Import
  <2> QED BY <1>7, <2>1
<1>10. CASE UserChooses
  <2>0. PICK i \in menu \ {PresetItem} : \E v : Choose(i, v)
    BY <1>10 DEF UserChooses
  <2>1. PICK v : Choose(i, v)
    BY <2>0
  <2>2. i \in Items /\ Idle /\ SetValue(i, v) /\ UNCHANGED <<visible, registered>>
    BY <2>1 DEF Choose, TypeOK
  <2> QED BY <1>7, <2>2, SetValueChanges
<1>11. CASE SaveAndRestart
  <2>1. \A j \in Ruled : ~Registered(<<"show", j>>)'
    BY <1>11, NoneRegistered DEF Rules
  <2> QED BY <2>1 DEF ShownOrDue
<1>12. CASE Imported \/ UNCHANGED vars
  <2>1. UNCHANGED <<value, visible, registered, calls>>
    BY <1>12 DEF Imported, vars
  <2> QED BY <2>1 DEF ShownOrDue, ShownAsRuled, IsShown, Values, Registered
<1> QED BY <1>1, <1>4, <1>5, <1>6, <1>8, <1>9, <1>10, <1>11, <1>12 DEF Next, Compute

\* What gives an item a value from outside the rules.
Given(i) ==
    \/ Preset /\ i = PresetItem
    \/ Import /\ i = Head(toLoad)
    \/ \E v : Choose(i, v)

\* A rule that is not switched off stays kept, unless its item is given a value.
LEMMA RuleStep ==
  ASSUME TypeOK, [Next]_vars, NEW j \in Computed, j \notin modified, RuledOrDue(j), ~Given(j)
  PROVE  RuledOrDue(j)'
<1>0. calls \in Seq(Calls) /\ <<>> \in Seq(Calls) /\ <<"default", j>> \in Rules
  BY DEF TypeOK, Rules
<1>1. CASE Register
  <2> SUFFICES ASSUME Registered(<<"default", j>>)'
               PROVE  SetAsRuled(j)' \/ Due(<<"default", j>>, calls')
    BY DEF RuledOrDue
  <2>1. PICK r \in Rules : Place[r] = registered + 1 /\ calls' = <<r>>
    BY <1>1 DEF Register
  <2>2. CASE r = <<"default", j>>
    BY <2>1, <2>2 DEF Due
  <2>3. CASE r # <<"default", j>>
    <3>1. Place[<<"default", j>>] # Place[r]
      BY <1>0, <2>3, OrderAssumption DEF OrderAssumption
    <3>2. Registered(<<"default", j>>)
      BY <1>0, <1>1, <2>1, <3>1, Numbers DEF Register, Registered, TypeOK
    <3>3. ~Due(<<"default", j>>, calls)
      BY <1>1 DEF Register, Idle, Due
    <3>4. UNCHANGED value
      BY <1>1 DEF Register
    <3>5. SetAsRuled(j)
      BY <3>2, <3>3 DEF RuledOrDue
    <3> QED BY <3>4, <3>5 DEF SetAsRuled, Values
  <2> QED BY <2>2, <2>3
<1>2. CASE Show \/ Hide
  <2>1. UNCHANGED <<value, registered>> /\ ~Idle /\ Head(calls)[1] # "default"
    BY <1>2 DEF Show, Hide
  <2>2. ASSUME Due(<<"default", j>>, calls)
        PROVE  Due(<<"default", j>>, calls')
    <3>1. <<"default", j>> # Head(calls) /\ calls # <<>> /\ Tail(calls) \in Seq(Calls)
      BY <2>1, HeadType
    <3>2. Due(<<"default", j>>, Tail(calls))
      BY <1>0, <2>2, <3>1, DueInTail
    <3>3. PICK i \in Ruled : Head(calls)[2] = i
      BY <1>2, HeadType, CallType DEF Show, Hide
    <3>4. /\ Calling("show", Children[i]) \in Seq(Calls)
          /\ Calling("hide", Children[i]) \in Seq(Calls)
      BY CallingType, RulesAssumption DEF RulesAssumption
    <3>5. \/ calls' = Tail(calls)
          \/ calls' = Calling("show", Children[i]) \o Tail(calls)
          \/ calls' = Calling("hide", Children[i]) \o Tail(calls)
      BY <1>2, <3>3 DEF Show, Hide, SetVisible
    <3> QED BY <3>1, <3>2, <3>4, <3>5, DueInConcat
  <2>3. SetAsRuled(j)' <=> SetAsRuled(j)
    BY <2>1 DEF SetAsRuled, Values
  <2> QED BY <2>1, <2>2, <2>3 DEF RuledOrDue, Registered
<1>3. CASE ComputeDefault
  <2>1. PICK i : i = Head(calls)[2]
    OBVIOUS
  <2>2. /\ i \in Computed /\ i \in Items /\ Tail(calls) \in Seq(Calls)
        /\ Head(calls) = <<"default", i>> /\ ValueChange(i, Tail(calls))
    BY <1>3, <2>1, ComputeChanges
  <2>3. CASE j # i
    <3>1. calls # <<>> /\ <<"default", j>> # Head(calls)
      BY <1>3, <2>2, <2>3 DEF ComputeDefault, Idle
    <3>2. Due(<<"default", j>>, calls) => Due(<<"default", j>>, Tail(calls))
      BY <1>0, <3>1, DueInTail
    <3> QED BY <2>2, <2>3, <3>2, RuleAfterChange
  <2>4. CASE j = i
    <3>1. \A d \in ValueDeps[i] : value'[d] = value[d]
      BY <2>2, RulesAssumption DEF ValueChange, RulesAssumption
    <3>2. Values(ValueDeps[i])' = Values(ValueDeps[i])
      BY <2>2, <3>1, ValuesStay
    <3>3. CASE RuleOff(i)
      <4>1. Default(i, Values(ValueDeps[i])) = {} \/ ~Registered(<<"default", i>>)
        BY <2>4, <3>3 DEF RuleOff
      <4>2. registered' = registered
        BY <1>3 DEF ComputeDefault
      <4> QED BY <2>4, <3>2, <4>1, <4>2 DEF SetAsRuled, RuledOrDue, Registered
    <3>4. CASE ~RuleOff(i)
      <4>1. PICK v \in Default(i, Values(ValueDeps[i])) : ApplyDefault(i, v, Tail(calls))
        BY <1>3, <2>1, <3>4 DEF ComputeDefault
      <4>2. value'[i] = v
        BY <2>2, <4>1 DEF ApplyDefault, TypeOK
      <4> QED BY <2>4, <3>2, <4>1, <4>2 DEF SetAsRuled, RuledOrDue
    <3> QED BY <3>3, <3>4
  <2> QED BY <2>3, <2>4
<1>4. ASSUME NEW i \in Items, Idle, ValueChange(i, <<>>), i # j
      PROVE  RuledOrDue(j)'
  <2>1. ~Due(<<"default", j>>, calls)
    BY <1>4 DEF Idle, Due
  <2> QED BY <1>0, <1>4, <2>1, RuleAfterChange
<1>5. CASE Preset
  <2>1. PICK v : SetValue(PresetItem, v)
    BY <1>5 DEF Preset
  <2>2. PresetItem \in Items /\ Idle /\ UNCHANGED <<visible, registered>> /\ PresetItem # j
    BY <1>5, RulesAssumption DEF Preset, RulesAssumption, Given
  <2> QED BY <1>4, <2>1, <2>2, SetValueChanges
<1>6. CASE UserChooses
  <2>0. PICK i \in menu \ {PresetItem} : \E v : Choose(i, v)
    BY <1>6 DEF UserChooses
  <2>1. PICK v : Choose(i, v)
    BY <2>0
  <2>2. i \in Items /\ Idle /\ SetValue(i, v) /\ UNCHANGED <<visible, registered>> /\ i # j
    BY <2>1 DEF Choose, TypeOK, Given
  <2> QED BY <1>4, <2>2, SetValueChanges
<1>7. CASE Import
  <2> PICK i : i = Head(toLoad)
    OBVIOUS
  <2>1. i \in Items /\ ValueChange(i, <<>>) /\ Idle /\ i # j
    BY <1>7, ImportChanges DEF Import, Given
  <2> QED BY <1>4, <2>1
<1>8. CASE SaveAndRestart
  BY <1>0, <1>8, NoneRegistered DEF RuledOrDue
<1>9. CASE Imported \/ UNCHANGED vars
  <2>1. UNCHANGED <<value, registered, calls>>
    BY <1>9 DEF Imported, vars
  <2> QED BY <2>1 DEF RuledOrDue, SetAsRuled, Values, Registered
<1> QED BY <1>1, <1>2, <1>3, <1>5, <1>6, <1>7, <1>8, <1>9 DEF Next, Compute

\* How a step changes what was chosen and what was loaded.
LEMMA LeftAloneBefore ==
  ASSUME TypeOK, PhaseOK, [Next]_vars, NEW j \in Soft, LeftAlone(j)', ~SaveAndRestart
  PROVE  LeftAlone(j) /\ ~Given(j)
<1>1. saves' = saves /\ modified \subseteq modified'
  BY DEF Next, Compute, Register, Show, Hide, ComputeDefault, Preset, Import, Imported, UserChooses,
         Choose, SetValue, vars
<1>2. j \in Items
  BY RulesAssumption DEF RulesAssumption
<1>3. ASSUME NEW v, Choose(j, v)
      PROVE  FALSE
  BY <1>3 DEF Choose, SetValue, LeftAlone
<1>4. ASSUME Preset, j = PresetItem
      PROVE  FALSE
  BY <1>4 DEF Preset, SetValue, LeftAlone
<1>5. ASSUME Import, j = Head(toLoad)
      PROVE  FALSE
  <2>1. j \in Kept
    BY <1>5, ImportChanges
  <2>2. saves # 0
    BY <1>5 DEF Import, PhaseOK
  <2> QED BY <1>1, <2>1, <2>2 DEF LeftAlone
<1> QED BY <1>1, <1>3, <1>4, <1>5 DEF LeftAlone, Given

LEMMA SetStep ==
  ASSUME TypeOK, PhaseOK, SetOrDue, [Next]_vars
  PROVE  SetOrDue'
<1> SUFFICES ASSUME NEW j \in Soft, LeftAlone(j)'
             PROVE  RuledOrDue(j)'
  BY DEF SetOrDue
<1>1. j \in Computed /\ <<"default", j>> \in Rules
  BY RulesAssumption DEF RulesAssumption, Rules
<1>2. CASE SaveAndRestart
  BY <1>1, <1>2, NoneRegistered DEF RuledOrDue
<1>3. CASE ~SaveAndRestart
  <2>1. LeftAlone(j) /\ ~Given(j)
    BY <1>3, LeftAloneBefore
  <2> QED BY <1>1, <2>1, RuleStep DEF SetOrDue, LeftAlone
<1> QED BY <1>2, <1>3

\* Every step but a restart is a change of at most one value.
LEMMA StepChanges ==
  ASSUME TypeOK, [Next]_vars, ~SaveAndRestart
  PROVE  \/ value' = value
         \/ \E i \in Items : \E rest \in Seq(Calls) : ValueChange(i, rest)
<1>0. <<>> \in Seq(Calls)
  OBVIOUS
<1>1. CASE Register \/ Show \/ Hide \/ Imported \/ UNCHANGED vars
  BY <1>1 DEF Register, Show, Hide, Imported, vars
<1>2. CASE ComputeDefault
  <2>1. PICK i : i = Head(calls)[2]
    OBVIOUS
  <2>2. i \in Items /\ Tail(calls) \in Seq(Calls) /\ ValueChange(i, Tail(calls))
    BY <1>2, <2>1, ComputeChanges
  <2> QED BY <2>2
<1>3. CASE Preset
  <2>1. PICK v : SetValue(PresetItem, v)
    BY <1>3 DEF Preset
  <2>2. PresetItem \in Items /\ UNCHANGED <<visible, registered>>
    BY <1>3, RulesAssumption DEF Preset, RulesAssumption
  <2> QED BY <1>0, <2>1, <2>2, SetValueChanges
<1>4. CASE UserChooses
  <2>1. PICK i \in menu \ {PresetItem} : \E v : Choose(i, v)
    BY <1>4 DEF UserChooses
  <2>2. PICK v : Choose(i, v)
    BY <2>1
  <2>3. i \in Items /\ SetValue(i, v) /\ UNCHANGED <<visible, registered>>
    BY <2>2 DEF Choose, TypeOK
  <2> QED BY <1>0, <2>3, SetValueChanges
<1>5. CASE Import
  <2>1. PICK i : i = Head(toLoad)
    OBVIOUS
  <2>2. i \in Items /\ ValueChange(i, <<>>)
    BY <1>5, <2>1, ImportChanges
  <2> QED BY <1>0, <2>2
<1> QED BY <1>1, <1>2, <1>3, <1>4, <1>5 DEF Next, Compute

\* A rule is called when a value it reads changes.
LEMMA ReadOrDue ==
  ASSUME TypeOK, [Next]_vars, ~SaveAndRestart, NEW j \in Computed
  PROVE  (\A d \in ValueDeps[j] : value'[d] = value[d]) \/ Due(<<"default", j>>, calls')
<1>1. CASE value' = value
  BY <1>1
<1>2. ASSUME NEW i \in Items, NEW rest \in Seq(Calls), ValueChange(i, rest)
      PROVE  (\A d \in ValueDeps[j] : value'[d] = value[d]) \/ Due(<<"default", j>>, calls')
  <2>1. Observers[i] \in Seq(Calls) /\ (i \in ValueDeps[j] => Due(<<"default", j>>, Observers[i]))
    BY ObserversType
  <2>2. ValueDeps[j] \subseteq Items
    BY RulesAssumption DEF RulesAssumption
  <2>3. CASE i \in ValueDeps[j] /\ calls' = Observers[i] \o rest
    BY <1>2, <2>1, <2>3, DueInConcat
  <2>4. CASE ~(i \in ValueDeps[j] /\ calls' = Observers[i] \o rest)
    BY <1>2, <2>2, <2>4 DEF ValueChange
  <2> QED BY <2>3, <2>4
<1> QED BY <1>1, <1>2, StepChanges

\* An item that is on the screen is one its visibility rule shows; choosing it
\* changes nothing that rule reads.
LEMMA ChosenIsShown ==
  ASSUME IInv, NEW j \in Ruled, NEW v, Choose(j, v)
  PROVE  /\ Shown(j, Values(ShowDeps[j]))
         /\ \A d \in Items \ {j} : value'[d] = value[d]
<1>1. registered = Cardinality(Rules) /\ <<"show", j>> \in Rules
  BY DEF Choose, IInv, PhaseOK, Rules
<1>2. Registered(<<"show", j>>)
  BY <1>1, Numbers DEF Registered
<1>3. ShownAsRuled(j) /\ j \in visible
  BY <1>2 DEF Choose, Idle, Due, IInv, ShownOrDue
<1>4. Shown(j, Values(ShowDeps[j]))
  BY <1>3 DEF ShownAsRuled, IsShown
<1> QED BY <1>4 DEF Choose, SetValue, IInv, TypeOK

LEMMA BoundStep ==
  ASSUME IInv, [Next]_vars, NEW j \in Bound, j # PresetItem, BoundOrShown(j),
         ~(Import /\ j = Head(toLoad))
  PROVE  BoundOrShown(j)'
<1>1. /\ j \in Computed /\ j \in Ruled /\ j \in Items /\ j \notin modified
      /\ ShowDeps[j] \subseteq ValueDeps[j] /\ ValueDeps[j] \subseteq Items /\ j \notin ValueDeps[j]
  BY RulesAssumption DEF Bound, RulesAssumption, IInv, TypeOK
<1>2. CASE \E v : Choose(j, v)
  <2>1. PICK v : Choose(j, v)
    BY <1>2
  <2>2. Shown(j, Values(ShowDeps[j])) /\ \A d \in ShowDeps[j] : value'[d] = value[d]
    BY <1>1, <2>1, ChosenIsShown
  <2>3. Values(ShowDeps[j])' = Values(ShowDeps[j])
    BY <2>2 DEF Values
  <2> QED BY <2>2, <2>3 DEF BoundOrShown
<1>3. CASE ~(\E v : Choose(j, v))
  <2>1. ~Given(j)
    BY <1>3 DEF Given
  <2>2. CASE RuledOrDue(j)
    BY <1>1, <2>1, <2>2, RuleStep DEF IInv, BoundOrShown
  <2>3. CASE SaveAndRestart
    BY <1>1, <2>3, NoneRegistered DEF RuledOrDue, BoundOrShown, Rules
  <2>4. CASE ~RuledOrDue(j) /\ ~SaveAndRestart
    <3>1. CASE \A d \in ValueDeps[j] : value'[d] = value[d]
      <4>1. Values(ShowDeps[j])' = Values(ShowDeps[j])
        BY <1>1, <3>1 DEF Values
      <4> QED BY <2>4, <4>1 DEF BoundOrShown
    <3>2. CASE Due(<<"default", j>>, calls')
      BY <3>2 DEF BoundOrShown, RuledOrDue
    <3> QED BY <1>1, <2>4, <3>1, <3>2, ReadOrDue DEF IInv
  <2> QED BY <2>2, <2>3, <2>4
<1> QED BY <1>2, <1>3

-----------------------------------------------------------------------------
LEMMA InitIInv == Init => IInv
<1> SUFFICES ASSUME Init PROVE IInv
  OBVIOUS
<1> USE DEF Init
<1>1. TypeOK
  <2>1. DOMAIN value = Items
    BY RulesAssumption DEF RulesAssumption, Fresh
  <2>2. registered \in 0 .. Cardinality(Rules) /\ toLoad \in Seq(Kept)
    BY Numbers
  <2> QED BY <2>1, <2>2 DEF TypeOK, Fresh
<1>2. PhaseOK /\ HidesFirst
  BY DEF PhaseOK, HidesFirst, HidesAhead
<1>3. \A r \in Rules : ~Registered(r)
  BY Numbers DEF Registered
<1>4. ShownOrDue
  BY <1>3 DEF ShownOrDue, Rules
<1>5. SetOrDue
  BY <1>3, RulesAssumption DEF SetOrDue, RuledOrDue, Rules, RulesAssumption
<1> QED BY <1>1, <1>2, <1>4, <1>5 DEF IInv

LEMMA Inductive == Spec => []IInv
<1>1. IInv /\ [Next]_vars => IInv'
  BY TypeStep, PhaseStep, HidesStep, ShownStep, SetStep DEF IInv
<1> QED BY InitIInv, <1>1, PTL DEF Spec

\* As long as no .env file was read, what is not shown has the value of its rule.
LEMMA BoundInductive ==
  Spec => [](saves = 0 => \A i \in Bound \ {PresetItem} : BoundOrShown(i))
<1> DEFINE Inv == saves = 0 => \A i \in Bound \ {PresetItem} : BoundOrShown(i)
<1>1. Init => Inv
  <2> SUFFICES ASSUME Init, NEW i \in Bound PROVE ~Registered(<<"default", i>>)
    BY DEF BoundOrShown, RuledOrDue
  <2>1. <<"default", i>> \in Rules
    BY DEF Bound, Rules
  <2> QED BY <2>1, Numbers DEF Init, Registered
<1>2. IInv /\ Inv /\ [Next]_vars => Inv'
  <2> SUFFICES ASSUME IInv, Inv, [Next]_vars, saves' = 0, NEW i \in Bound \ {PresetItem}
               PROVE  BoundOrShown(i)'
    OBVIOUS
  <2>1. ~SaveAndRestart
    BY DEF SaveAndRestart, IInv, TypeOK
  <2>2. saves = 0
    BY <2>1 DEF Next, Compute, Register, Show, Hide, ComputeDefault, Preset, Import, Imported,
                UserChooses, Choose, vars
  <2>3. ~Import
    BY <2>2 DEF Import, IInv, PhaseOK
  <2> QED BY <2>2, <2>3, BoundStep
<1> QED BY <1>1, <1>2, Inductive, PTL DEF Spec

\* Every variable has its type, for any rules.
THEOREM Types == Spec => []TypeOK
<1>1. IInv => TypeOK
  BY DEF IInv
<1> QED BY Inductive, <1>1, PTL

\* In the menu and between two cascades every rule is registered and no call
\* is due.
LEMMA MenuIsQuiet ==
  ASSUME IInv, phase = "menu", Idle
  PROVE  (\A r \in Rules : Registered(r)) /\ (\A c : ~Due(c, calls))
<1>1. registered = Cardinality(Rules)
  BY DEF IInv, PhaseOK
<1>2. \A r \in Rules : Registered(r)
  BY <1>1, Numbers DEF Registered
<1> QED BY <1>2 DEF Idle, Due

\* The menu shows exactly what the rules show of the values as they are.
THEOREM MenuShowsTheRules == Spec => []VisibleIsCurrent
<1>1. IInv => VisibleIsCurrent
  <2> SUFFICES ASSUME IInv, phase = "menu", Idle, NEW i \in Ruled
               PROVE  i \in visible <=> IsShown(i)
    BY DEF VisibleIsCurrent
  <2>1. Registered(<<"show", i>>)
    BY MenuIsQuiet DEF Rules
  <2> QED BY <2>1, MenuIsQuiet DEF IInv, ShownOrDue, ShownAsRuled
<1> QED BY Inductive, <1>1, PTL

\* What the user left alone, and no .env file gave a value, has the value its
\* rule computes of the values as they are.
THEOREM MenuHasTheDefaults == Spec => []DefaultsAreCurrent
<1>1. IInv => DefaultsAreCurrent
  <2> SUFFICES ASSUME IInv, phase = "menu", Idle, NEW i \in Soft \ modified, saves = 0 \/ i \notin Kept
               PROVE  SetAsRuled(i)
    BY DEF DefaultsAreCurrent, SetAsRuled
  <2>1. Registered(<<"default", i>>)
    BY MenuIsQuiet, RulesAssumption DEF Rules, RulesAssumption
  <2> QED BY <2>1, MenuIsQuiet DEF IInv, SetOrDue, LeftAlone, RuledOrDue
<1> QED BY Inductive, <1>1, PTL
=============================================================================
