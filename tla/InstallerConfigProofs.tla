------------------------- MODULE InstallerConfigProofs -------------------------
(***************************************************************************)
(* What dependencies.py promises of the ports, of the programs that write  *)
(* captures and of the addresses of services, for every order of choices   *)
(* and whatever the rules of the other items set meanwhile.                *)
(*                                                                         *)
(* DependencyManagerProofs says that a rule is obeyed or due; here the     *)
(* rules are those of InstallerRules.  Four properties, four arguments:    *)
(*   ports      - a value rule that reads what shows its item is obeyed    *)
(*                where the item is hidden, whoever set it;                *)
(*   captures   - netsniff-ng's rule is always called before tcpdump's,    *)
(*                so that tcpdump's never finds netsniff-ng off by mistake; *)
(*   addresses  - in whatever order the .env files are read, what a valid  *)
(*                configuration has in them is what the rules say, or the  *)
(*                profile or the store that shows it is still to be read;  *)
(*   loading    - an address that was loaded is overwritten only with what *)
(*                was saved, or until the profile is read, where all       *)
(*                services are on one host.                                *)
(***************************************************************************)
EXTENDS InstallerConfig, DependencyManagerProofs

\* The parameters of DependencyManager are those of dependencies.py.
TheRules ==
    \A i, v : Default(i, v) = RuleDefault(i, v) /\ (Shown(i, v) <=> RuleShown(i, v))

\* A rule reads the values as they are.
LEMMA Read == ASSUME NEW deps, NEW d \in deps PROVE Values(deps)[d] = value[d]
BY DEF Values

-----------------------------------------------------------------------------
(* The ports.                                                              *)

\* What the table has of a port that is opened one by one.
LEMMA SwitchIs ==
  ASSUME NEW i \in Switches
  PROVE  /\ i \in Ports /\ i # "openPortsSelection"
         /\ i \notin Engines \cup Addresses
         /\ i \in Bound \ {PresetItem}
         /\ "openPortsSelection" \in ShowDeps[i] \cap ValueDeps[i] /\ Orchestration \in ValueDeps[i]
         /\ i \notin {"syslogTcpPort", "syslogUdpPort"} => Orchestration \in ShowDeps[i]
         /\ i = "exposeOpenSearch" => Mode \in ValueDeps[i]
<1>1. i \in Ports /\ i # "openPortsSelection" /\ i \notin Engines \cup Addresses
  BY DEF Switches, Ports, Engines, Addresses
<1>2. i \in (Ruled \cap Computed) \ Soft /\ PresetItem \notin Computed
  BY RowsAssumption DEF RowsAssumption
<1>3. CASE i = "exposeOpenSearch"
  <2>1. /\ ShowDeps[i] = {"openPortsSelection", Mode, Orchestration}
        /\ ValueDeps[i] = {"openPortsSelection", Mode, Orchestration}
    BY <1>3, RowsAssumption DEF RowsAssumption
  <2> QED BY <1>1, <1>2, <2>1 DEF Bound
<1>4. CASE i # "exposeOpenSearch"
  <2>1. /\ {"openPortsSelection"} \subseteq ShowDeps[i]
        /\ ShowDeps[i] \subseteq {"openPortsSelection", Orchestration}
        /\ ValueDeps[i] = {"openPortsSelection", Orchestration}
        /\ i \notin {"syslogTcpPort", "syslogUdpPort"} => Orchestration \in ShowDeps[i]
    BY <1>4, RowsAssumption DEF RowsAssumption
  <2> QED BY <1>1, <1>2, <1>4, <2>1 DEF Bound
<1> QED BY <1>3, <1>4

\* With the ports closed none of them is on the menu...
LEMMA SwitchShown ==
  ASSUME TheRules, NEW i \in Switches, value["openPortsSelection"] = "no", ~Kubernetes(value)
  PROVE  ~Shown(i, Values(ShowDeps[i]))
<1> DEFINE v == Values(ShowDeps[i])
<1>1. /\ i \in PortKeys
      /\ i \notin AlwaysShown \cup MalcolmOnly \cup CarvingOnly \cup EitherOn
      /\ i \notin ProfileKeys \cup StoreKeys \cup CaptureKeys \cup AnalysisKeys \cup CleanUpKeys
  <2>1. i \notin AlwaysShown \cup MalcolmOnly \cup CarvingOnly \cup EitherOn
    BY DEF Switches, Ports, AlwaysShown, MalcolmOnly, CarvingOnly, EitherOn, Mode
  <2> QED BY <2>1, KeysAssumption DEF KeysAssumption
<1>2. Shown(i, v) <=> PortShown(i, v)
  <2>1. Shown(i, v) <=> RuleShown(i, v)
    BY DEF TheRules
  <2> HIDE DEF v
  <2>2. RuleShown(i, v) <=> PortShown(i, v)
    BY <1>1 DEF RuleShown
  <2> QED BY <2>1, <2>2
<1>3. v["openPortsSelection"] = "no"
  BY SwitchIs, Read
<1>4. i \notin {"syslogTcpPort", "syslogUdpPort"} => ~Kubernetes(v)
  BY SwitchIs, Read DEF Kubernetes
<1>5. ~Customized(v)
  BY <1>3 DEF Customized
<1> HIDE DEF v
<1>6. ~PortShown(i, v)
  <2>1. CASE i = "exposeOpenSearch"
    BY <1>5, <2>1 DEF PortShown, ParseFields
  <2>2. CASE i \in {"exposeLogstash", "exposeSFTP"}
    BY <1>5, <2>2 DEF PortShown, ParseFields
  <2>3. CASE i = "exposeFilebeatTcp"
    BY <1>4, <1>5, <2>3 DEF PortShown, ParseFields
  <2>4. CASE i \in {"syslogTcpPort", "syslogUdpPort"}
    BY <1>5, <2>4 DEF PortShown, ParseFields
  <2> QED BY <2>1, <2>2, <2>3, <2>4 DEF Switches, Ports
<1> QED BY <1>2, <1>6 DEF v

\* ...and the rule of each closes it.
LEMMA SwitchDefault ==
  ASSUME TheRules, NEW i \in Switches, value["openPortsSelection"] = "no", ~Kubernetes(value)
  PROVE  /\ i \in {"exposeLogstash", "exposeFilebeatTcp", "exposeSFTP"} =>
               Default(i, Values(ValueDeps[i])) = {FALSE}
         /\ i = "exposeOpenSearch" /\ LocalStore(value) => Default(i, Values(ValueDeps[i])) = {FALSE}
         /\ i \in {"syslogTcpPort", "syslogUdpPort"} => Default(i, Values(ValueDeps[i])) = {0}
<1> DEFINE v == Values(ValueDeps[i])
<1>1. Default(i, v) = PortValue(i, v)
  BY SwitchIs DEF TheRules, RuleDefault
<1>2. v["openPortsSelection"] = "no" /\ ~Kubernetes(v)
  BY SwitchIs, Read DEF Kubernetes
<1>3. i = "exposeOpenSearch" => (LocalStore(v) <=> LocalStore(value))
  BY SwitchIs, Read DEF LocalStore
<1> HIDE DEF v
<1>4. \A x, y, z : PortDefault(v, x, y, z) = {z}
  BY <1>2 DEF PortDefault, NotCustomized
<1>5. i \in {"exposeLogstash", "exposeFilebeatTcp", "exposeSFTP"} => PortValue(i, v) = {FALSE}
  BY <1>4 DEF PortValue
<1>6. i \in {"syslogTcpPort", "syslogUdpPort"} => PortValue(i, v) = {0}
  BY <1>4 DEF PortValue
<1>7. i = "exposeOpenSearch" /\ LocalStore(v) => PortValue(i, v) = {FALSE}
  BY <1>4 DEF PortValue
<1> QED BY <1>1, <1>3, <1>5, <1>6, <1>7 DEF v

\* When the menu is on the screen, the ports are closed and Kubernetes is not the
\* runtime, no port is open, whichever were opened one by one, in whatever order,
\* before: the rules of the ports (dependencies.py:1019, only_if_unmodified=False)
\* are not stopped by a choice of the user, and each has been called since the last
\* change of what it reads, for any values and any sequence of choices.
THEOREM PortsCloseAgain == ASSUME TheRules PROVE Spec => []ClosedPortsAreClosed
<1>1. IInv /\ (saves = 0 => \A i \in Bound \ {PresetItem} : BoundOrShown(i)) => ClosedPortsAreClosed
  <2> SUFFICES ASSUME IInv, AtMenu, saves = 0, \A i \in Bound \ {PresetItem} : BoundOrShown(i),
                      value["openPortsSelection"] = "no", ~Kubernetes(value)
               PROVE  /\ \A i \in {"exposeLogstash", "exposeFilebeatTcp", "exposeSFTP"} : ~value[i]
                      /\ LocalStore(value) => ~value["exposeOpenSearch"]
                      /\ value["syslogTcpPort"] = 0 /\ value["syslogUdpPort"] = 0
    BY DEF ClosedPortsAreClosed
  <2>1. ASSUME NEW i \in Switches
        PROVE  SetAsRuled(i)
    <3>1. i \in Bound \ {PresetItem} /\ BoundOrShown(i)
      BY <2>1, SwitchIs
    <3>2. Registered(<<"default", i>>) /\ ~Due(<<"default", i>>, calls)
      BY <3>1, MenuIsQuiet DEF AtMenu, Bound, Rules
    <3> QED BY <2>1, <3>1, <3>2, SwitchShown DEF BoundOrShown, RuledOrDue
  <2>2. /\ {"exposeLogstash", "exposeFilebeatTcp", "exposeSFTP"} \subseteq Switches
        /\ {"exposeOpenSearch", "syslogTcpPort", "syslogUdpPort"} \subseteq Switches
    BY DEF Switches, Ports
  <2>3. \A i \in {"exposeLogstash", "exposeFilebeatTcp", "exposeSFTP"} : value[i] = FALSE
    BY <2>1, <2>2, SwitchDefault DEF SetAsRuled
  <2>4. LocalStore(value) => value["exposeOpenSearch"] = FALSE
    BY <2>1, <2>2, SwitchDefault DEF SetAsRuled
  <2>5. value["syslogTcpPort"] = 0 /\ value["syslogUdpPort"] = 0
    BY <2>1, <2>2, SwitchDefault DEF SetAsRuled
  <2> QED BY <2>3, <2>4, <2>5
<1> QED BY <1>1, Inductive, BoundInductive, PTL

-----------------------------------------------------------------------------
(* The programs that write captures.                                       *)

netsniff == "pcapNetSniff"
tcpdump == "pcapTcpDump"
CallNetsniff == <<"default", netsniff>>
CallTcpdump == <<"default", tcpdump>>

\* What the table has of the three programs.
LEMMA EngineIs ==
  /\ netsniff \in Engines /\ tcpdump \in Engines /\ "liveArkime" \in Engines
  /\ CallNetsniff \in Rules /\ CallTcpdump \in Rules /\ CallNetsniff # CallTcpdump
  /\ \A e \in Engines : /\ e \in Soft /\ e \in Computed /\ e \in Items /\ e \notin Addresses \cup Ports
                        /\ e # PresetItem
                        /\ ValueDeps[e] = ({Live, Profile, Mode} \cup Engines) \ {e}
<1>1. /\ netsniff \in Engines /\ tcpdump \in Engines /\ "liveArkime" \in Engines
      /\ \A e \in Engines : e \notin Addresses \cup Ports /\ e # Orchestration
  BY DEF Engines, Addresses, Ports, netsniff, tcpdump, Orchestration
<1>2. \A e \in Engines : /\ e \in Soft /\ e \in Computed /\ e \in Items
                         /\ ValueDeps[e] = ({Live, Profile, Mode} \cup Engines) \ {e}
  BY RowsAssumption, RulesAssumption DEF RowsAssumption, RulesAssumption
<1>3. PresetItem = Orchestration
  BY RowsAssumption DEF RowsAssumption
<1>4. CallNetsniff # CallTcpdump
  BY DEF CallNetsniff, CallTcpdump, netsniff, tcpdump
<1> QED BY <1>1, <1>2, <1>3, <1>4 DEF CallNetsniff, CallTcpdump, Rules

\* The rule of an engine reads all that decides which one is on.
LEMMA EngineRule ==
  ASSUME TheRules, NEW e \in Engines
  PROVE  Default(e, Values(ValueDeps[e])) = EngineDefault(e, value)
<1> DEFINE v == Values(ValueDeps[e])
<1>1. Default(e, v) = EngineDefault(e, v)
  <2>1. Default(e, v) = RuleDefault(e, v)
    BY DEF TheRules
  <2> HIDE DEF v
  <2>2. RuleDefault(e, v) = EngineDefault(e, v)
    BY EngineIs DEF RuleDefault
  <2> QED BY <2>1, <2>2
<1>2. ValueDeps[e] = ({Live, Profile, Mode} \cup Engines) \ {e}
  BY EngineIs
<1>3. v[Live] = value[Live] /\ v[Profile] = value[Profile] /\ v[Mode] = value[Mode]
  BY <1>2, Read DEF Engines, Live, Profile, Mode
<1>4. \A d \in Engines \ {e} : v[d] = value[d]
  BY <1>2, Read
<1> HIDE DEF v
<1>5. CASE e = "pcapNetSniff"
  <2>1. v["pcapTcpDump"] = value["pcapTcpDump"] /\ v["liveArkime"] = value["liveArkime"]
    BY <1>4, <1>5 DEF Engines
  <2>2. \A u : EngineDefault("pcapNetSniff", u) =
           {u[Live] /\ u[Profile] = "malcolm" /\ u[Mode] = "opensearch-local"
            /\ ~u["pcapTcpDump"] /\ ~u["liveArkime"]}
    BY DEF EngineDefault, Malcolm, LocalStore
  <2> QED BY <1>1, <1>3, <1>5, <2>1, <2>2 DEF v
<1>6. CASE e = "pcapTcpDump"
  <2>1. v["pcapNetSniff"] = value["pcapNetSniff"] /\ v["liveArkime"] = value["liveArkime"]
    BY <1>4, <1>6 DEF Engines
  <2>2. \A u : EngineDefault("pcapTcpDump", u) =
           {u[Live] /\ u[Profile] = "malcolm" /\ u[Mode] = "opensearch-local"
            /\ ~u["pcapNetSniff"] /\ ~u["liveArkime"]}
    BY DEF EngineDefault, Malcolm, LocalStore
  <2> QED BY <1>1, <1>3, <1>6, <2>1, <2>2 DEF v
<1>7. CASE e = "liveArkime"
  <2>1. v["pcapNetSniff"] = value["pcapNetSniff"] /\ v["pcapTcpDump"] = value["pcapTcpDump"]
    BY <1>4, <1>7 DEF Engines
  <2>2. \A u : EngineDefault("liveArkime", u) =
           {u[Live] /\ (u[Profile] # "malcolm" \/ u[Mode] # "opensearch-local")
            /\ ~u["pcapNetSniff"] /\ ~u["pcapTcpDump"]}
    BY DEF EngineDefault, ArkimeMay, Malcolm, LocalStore
  <2> QED BY <1>1, <1>3, <1>7, <2>1, <2>2 DEF v
<1> QED BY <1>5, <1>6, <1>7 DEF Engines

\* Every call of tcpdump's rule comes after one of netsniff-ng's.
Ahead(s) == \A k \in DOMAIN s : s[k] = CallTcpdump => \E j \in 1 .. k - 1 : s[j] = CallNetsniff

NetsniffFirst ==
  Untouched(Engines) =>
    /\ value[tcpdump] = FALSE
    /\ Registered(CallTcpdump) => SetAsRuled(netsniff) \/ Ahead(calls)

\* The order of the two calls, along a queue.
LEMMA AheadInTail ==
  ASSUME NEW S, NEW s \in Seq(S), s # <<>>, Ahead(s), Head(s) # CallNetsniff
  PROVE  Ahead(Tail(s))
<1> SUFFICES ASSUME NEW k \in DOMAIN Tail(s), Tail(s)[k] = CallTcpdump
             PROVE  \E j \in 1 .. k - 1 : Tail(s)[j] = CallNetsniff
  BY DEF Ahead
<1>1. k + 1 \in DOMAIN s /\ s[k + 1] = CallTcpdump
  OBVIOUS
<1>2. PICK j \in 1 .. k : s[j] = CallNetsniff
  BY <1>1 DEF Ahead
<1>3. j # 1
  BY <1>2
<1>4. j - 1 \in 1 .. k - 1 /\ Tail(s)[j - 1] = s[j]
  BY <1>3
<1> QED BY <1>2, <1>4

\* One queue behind another.
LEMMA AheadInConcat ==
  ASSUME NEW S, NEW s \in Seq(S), NEW r \in Seq(S), Ahead(s), Due(CallNetsniff, s) \/ Ahead(r)
  PROVE  Ahead(s \o r)
<1> SUFFICES ASSUME NEW k \in DOMAIN (s \o r), (s \o r)[k] = CallTcpdump
             PROVE  \E j \in 1 .. k - 1 : (s \o r)[j] = CallNetsniff
  BY DEF Ahead
<1>1. CASE k \in 1 .. Len(s)
  <2>1. PICK j \in 1 .. k - 1 : s[j] = CallNetsniff
    BY <1>1 DEF Ahead
  <2>2. (s \o r)[j] = s[j]
    BY <1>1
  <2> QED BY <2>1, <2>2
<1>2. CASE k \notin 1 .. Len(s)
  <2>1. k - Len(s) \in DOMAIN r /\ r[k - Len(s)] = CallTcpdump
    BY <1>2
  <2>2. CASE Due(CallNetsniff, s)
    <3>1. PICK j \in DOMAIN s : s[j] = CallNetsniff
      BY <2>2 DEF Due
    <3>2. j \in 1 .. k - 1 /\ (s \o r)[j] = s[j]
      BY <1>2
    <3> QED BY <3>1, <3>2
  <2>3. CASE Ahead(r)
    <3>1. PICK j \in 1 .. k - Len(s) - 1 : r[j] = CallNetsniff
      BY <2>1, <2>3 DEF Ahead
    <3>2. Len(s) + j \in 1 .. k - 1 /\ (s \o r)[Len(s) + j] = r[j]
      BY <2>1
    <3> QED BY <3>1, <3>2
  <2> QED BY <2>2, <2>3
<1> QED BY <1>1, <1>2

\* An item that calls its children's visibility rules calls neither.
LEMMA CallingAhead ==
  ASSUME NEW p \in Items, NEW tag \in {"show", "hide"}
  PROVE  Ahead(Calling(tag, Children[p]))
<1> DEFINE s == Calling(tag, Children[p])
<1>1. \A k \in DOMAIN s : s[k][1] = tag
  <2>1. CASE tag = "show"
    BY <2>1, CallingType
  <2>2. CASE tag = "hide"
    BY <2>2, CallingType
  <2> QED BY <2>1, <2>2
<1>2. CallTcpdump[1] = "default"
  BY DEF CallTcpdump
<1> HIDE DEF s
<1>3. \A k \in DOMAIN s : s[k] # CallTcpdump
  <2> TAKE k \in DOMAIN s
  <2>1. s[k][1] # "default"
    BY <1>1
  <2> QED BY <1>2, <2>1
<1>4. Ahead(s)
  BY <1>3 DEF Ahead
<1> QED BY <1>4 DEF s

\* What tcpdump's rule reads, but for netsniff-ng, the one of netsniff-ng reads too,
\* and that one was registered first.
LEMMA ObserversAhead ==
  ASSUME NEW d \in Items, d # netsniff
  PROVE  Ahead(Observers[d]) /\ (d \in ValueDeps[netsniff] => Due(CallNetsniff, Observers[d]))
<1> DEFINE o == Observers[d]
<1>1. /\ {o[n] : n \in DOMAIN o} = {<<"show", i>> : i \in {j \in Ruled : d \in ShowDeps[j]}}
                                  \cup {<<"default", i>> : i \in {j \in Computed : d \in ValueDeps[j]}}
      /\ \A m, n \in DOMAIN o : m < n => Place[o[m]] < Place[o[n]]
  BY OrderAssumption DEF OrderAssumption
<1>2. Place[CallNetsniff] < Place[CallTcpdump]
  BY RowsAssumption DEF RowsAssumption, CallNetsniff, CallTcpdump, netsniff, tcpdump
<1>3. /\ ValueDeps[netsniff] = ({Live, Profile, Mode} \cup Engines) \ {netsniff}
      /\ ValueDeps[tcpdump] = ({Live, Profile, Mode} \cup Engines) \ {tcpdump}
      /\ netsniff \in Computed
  BY EngineIs
<1>4. o \in Seq(Rules) /\ \A r \in Rules : Place[r] \in Nat
  BY Numbers, OrderAssumption DEF OrderAssumption
<1>5. d \in ValueDeps[netsniff] => Due(CallNetsniff, o)
  BY <1>3, ObserversType DEF CallNetsniff
<1> HIDE DEF o
<1>6. ASSUME NEW k \in DOMAIN o, o[k] = CallTcpdump
      PROVE  \E j \in 1 .. k - 1 : o[j] = CallNetsniff
  <2>1. CallTcpdump \in {o[n] : n \in DOMAIN o}
    BY <1>6
  <2>2. d \in ValueDeps[tcpdump]
    <3>1. \A i : CallTcpdump # <<"show", i>>
      BY DEF CallTcpdump
    <3>2. \A i : CallTcpdump = <<"default", i>> => i = tcpdump
      BY DEF CallTcpdump
    <3> QED BY <1>1, <2>1, <3>1, <3>2
  <2>3. d \in ValueDeps[netsniff]
    BY <1>3, <2>2 
  <2>4. PICK j \in DOMAIN o : o[j] = CallNetsniff
    BY <1>5, <2>3 DEF Due
  <2>5. k \in Nat /\ j \in Nat /\ 1 <= j /\ ~(k < j) /\ j # k
    BY <1>1, <1>2, <1>4, <1>6, <2>4, EngineIs
  <2> QED BY <2>4, <2>5
<1> QED BY <1>5, <1>6 DEF Ahead, o
\* As long as netsniff-ng is as its rule says and tcpdump is off, tcpdump's own
\* rule leaves it off.
LEMMA TcpdumpStaysOff ==
  ASSUME TheRules, SetAsRuled(netsniff), value[tcpdump] = FALSE
  PROVE  Default(tcpdump, Values(ValueDeps[tcpdump])) = {FALSE}
<1>1. /\ Default(netsniff, Values(ValueDeps[netsniff])) = EngineDefault(netsniff, value)
      /\ Default(tcpdump, Values(ValueDeps[tcpdump])) = EngineDefault(tcpdump, value)
  BY EngineIs, EngineRule
<1>2. \A u : EngineDefault("pcapNetSniff", u) =
         {u[Live] /\ u[Profile] = "malcolm" /\ u[Mode] = "opensearch-local"
          /\ ~u["pcapTcpDump"] /\ ~u["liveArkime"]}
  BY DEF EngineDefault, Malcolm, LocalStore
<1>3. \A u : EngineDefault("pcapTcpDump", u) =
         {u[Live] /\ u[Profile] = "malcolm" /\ u[Mode] = "opensearch-local"
          /\ ~u["pcapNetSniff"] /\ ~u["liveArkime"]}
  BY DEF EngineDefault, Malcolm, LocalStore
<1>4. value["pcapNetSniff"] = (value[Live] /\ value[Profile] = "malcolm" /\ value[Mode] = "opensearch-local"
                               /\ ~value["pcapTcpDump"] /\ ~value["liveArkime"])
  BY <1>1, <1>2 DEF SetAsRuled, netsniff
<1>5. EngineDefault(tcpdump, value) = {FALSE}
  <2>1. value["pcapTcpDump"] = FALSE
    BY DEF tcpdump
  <2> QED BY <1>3, <1>4, <2>1 DEF tcpdump
<1> QED BY <1>1, <1>5

\* As long as no program is chosen none is marked.
LEMMA EngineUntouched ==
  ASSUME TypeOK, [Next]_vars, Untouched(Engines)'
  PROVE  /\ Untouched(Engines) /\ ~SaveAndRestart
         /\ \A e \in Engines : \A v : ~Choose(e, v)
<1>1. ~SaveAndRestart
  BY DEF SaveAndRestart, TypeOK, Untouched
<1>2. saves' = saves /\ modified \subseteq modified'
  BY <1>1 DEF Next, Compute, Register, Show, Hide, ComputeDefault, Preset, Import, Imported, UserChooses,
         Choose, SetValue, vars
<1>3. ASSUME NEW e \in Engines, NEW v, Choose(e, v) PROVE FALSE
  BY <1>3, EngineIs DEF Choose, SetValue, Untouched
<1> QED BY <1>1, <1>2, <1>3 DEF Untouched

\* A change of the value of another item.
LEMMA AheadAfterChange ==
  ASSUME NEW i \in Items, i # netsniff, NEW rest \in Seq(Calls), ValueChange(i, rest),
         Registered(CallTcpdump), SetAsRuled(netsniff) \/ Ahead(rest)
  PROVE  SetAsRuled(netsniff)' \/ Ahead(calls')
<1>1. Observers[i] \in Seq(Calls)
  BY ObserversType
<1>2. CASE Ahead(rest) /\ calls' = rest
  BY <1>2
<1>3. CASE (i \in ValueDeps[netsniff] \/ Ahead(rest)) /\ calls' = Observers[i] \o rest
  <2>1. Ahead(Observers[i]) /\ (Due(CallNetsniff, Observers[i]) \/ Ahead(rest))
    BY <1>3, ObserversAhead
  <2> QED BY <1>1, <1>3, <2>1, AheadInConcat
<1>4. CASE /\ SetAsRuled(netsniff) /\ ~Ahead(rest)
           /\ i \notin ValueDeps[netsniff] \/ value'[i] = value[i]
  <2>1. \A d \in ValueDeps[netsniff] : d \in Items
    BY EngineIs, RulesAssumption DEF RulesAssumption
  <2>2. \A d \in ValueDeps[netsniff] : value'[d] = value[d]
    BY <1>4, <2>1 DEF ValueChange
  <2>3. Values(ValueDeps[netsniff])' = Values(ValueDeps[netsniff])
    BY <2>2 DEF Values
  <2>4. value'[netsniff] = value[netsniff]
    BY EngineIs DEF ValueChange
  <2> QED BY <1>4, <2>3, <2>4 DEF SetAsRuled
<1> QED BY <1>2, <1>3, <1>4 DEF ValueChange

\* Each step keeps netsniff-ng's rule ahead of tcpdump's.
LEMMA NetsniffFirstStep ==
  ASSUME TheRules, IInv, NetsniffFirst, [Next]_vars
  PROVE  NetsniffFirst'
<1> SUFFICES ASSUME Untouched(Engines)'
             PROVE  /\ value'[tcpdump] = FALSE
                    /\ Registered(CallTcpdump)' => SetAsRuled(netsniff)' \/ Ahead(calls')
  BY DEF NetsniffFirst
<1>0. /\ TypeOK /\ PhaseOK /\ calls \in Seq(Calls) /\ <<>> \in Seq(Calls)
      /\ tcpdump \in Items /\ netsniff \in Items /\ tcpdump # netsniff
  BY EngineIs DEF IInv, TypeOK, CallNetsniff, CallTcpdump
<1>1. /\ Untouched(Engines) /\ ~SaveAndRestart /\ \A e \in Engines : \A v : ~Choose(e, v)
  BY <1>0, EngineUntouched
<1>2. /\ value[tcpdump] = FALSE
      /\ Registered(CallTcpdump) => SetAsRuled(netsniff) \/ Ahead(calls)
  BY <1>1 DEF NetsniffFirst
<1>3. Ahead(<<>>)
  BY DEF Ahead
<1>4. /\ Registered(CallTcpdump) => Registered(CallNetsniff)
      /\ registered \in Nat /\ Place[CallNetsniff] \in Nat /\ Place[CallTcpdump] \in Nat
      /\ Place[CallNetsniff] < Place[CallTcpdump]
  <2>1. Place[CallNetsniff] < Place[CallTcpdump]
    BY RowsAssumption DEF RowsAssumption, CallNetsniff, CallTcpdump, netsniff, tcpdump
  <2>2. registered \in Nat /\ Place[CallNetsniff] \in Nat /\ Place[CallTcpdump] \in Nat
    BY <1>0, EngineIs, Numbers DEF TypeOK
  <2> QED BY <2>1, <2>2 DEF Registered
<1>5. saves = 0 /\ \A e \in Engines : e \notin modified /\ LeftAlone(e)
  BY <1>1 DEF Untouched, LeftAlone
<1>6. CASE Register
  <2>1. UNCHANGED value /\ calls = <<>> /\ registered' = registered + 1
    BY <1>6 DEF Register, Idle
  <2>2. ASSUME Registered(CallTcpdump)' PROVE SetAsRuled(netsniff)
    <3>1. Registered(CallNetsniff)
      BY <1>4, <2>1, <2>2 DEF Registered
    <3>2. RuledOrDue(netsniff)
      BY <1>5, EngineIs DEF IInv, SetOrDue
    <3> QED BY <2>1, <3>1, <3>2 DEF RuledOrDue, Due, CallNetsniff
  <2> QED BY <1>2, <2>1, <2>2 DEF SetAsRuled, Values
<1>7. CASE Show \/ Hide
  <2>1. UNCHANGED <<value, registered>> /\ Head(calls)[1] # "default" /\ calls # <<>>
    BY <1>7 DEF Show, Hide, Idle
  <2>2. PICK i \in Ruled : Head(calls)[2] = i
    BY <1>0, <1>7, HeadType, CallType DEF Show, Hide
  <2>3. /\ Ahead(Calling("show", Children[i])) /\ Ahead(Calling("hide", Children[i]))
        /\ Calling("show", Children[i]) \in Seq(Calls) /\ Calling("hide", Children[i]) \in Seq(Calls)
    BY CallingAhead, CallingType, RulesAssumption DEF RulesAssumption
  <2>4. \/ calls' = Tail(calls)
        \/ calls' = Calling("show", Children[i]) \o Tail(calls)
        \/ calls' = Calling("hide", Children[i]) \o Tail(calls)
    BY <1>7, <2>2 DEF Show, Hide, SetVisible
  <2>5. ASSUME Ahead(calls) PROVE Ahead(calls')
    <3>1. Head(calls) # CallNetsniff
      BY <2>1 DEF CallNetsniff
    <3>2. Tail(calls) \in Seq(Calls)
      BY <1>0, <2>1, HeadType
    <3>3. Ahead(Tail(calls))
      BY <1>0, <2>1, <2>5, <3>1, AheadInTail
    <3> QED BY <2>3, <2>4, <3>2, <3>3, AheadInConcat
  <2> QED BY <1>2, <2>1, <2>5 DEF SetAsRuled, Values, Registered
<1>8. CASE ComputeDefault
  <2>1. PICK i : i = Head(calls)[2]
    OBVIOUS
  <2>2. /\ i \in Computed /\ i \in Items /\ Tail(calls) \in Seq(Calls)
        /\ Head(calls) = <<"default", i>> /\ ValueChange(i, Tail(calls))
    BY <1>0, <1>8, <2>1, ComputeChanges
  <2>3. calls # <<>> /\ registered' = registered
    BY <1>8 DEF ComputeDefault, Idle
  <2>4. CASE i = netsniff
    <3>1. value'[tcpdump] = value[tcpdump]
      BY <1>0, <2>2, <2>4 DEF ValueChange
    <3>2. ASSUME Registered(CallTcpdump) PROVE SetAsRuled(netsniff)'
      <4>1. \A d \in ValueDeps[netsniff] : value'[d] = value[d]
        BY <2>2, <2>4, RulesAssumption DEF ValueChange, RulesAssumption
      <4>2. Values(ValueDeps[netsniff])' = Values(ValueDeps[netsniff])
        BY <4>1 DEF Values
      <4>3. Registered(CallNetsniff) /\ netsniff \notin modified
        BY <1>4, <1>5, <3>2, EngineIs
      <4>4. CASE Default(netsniff, Values(ValueDeps[netsniff])) = {}
        BY <4>2, <4>4 DEF SetAsRuled
      <4>5. CASE Default(netsniff, Values(ValueDeps[netsniff])) # {}
        <5>1. ~RuleOff(netsniff)
          BY <4>3, <4>5 DEF RuleOff, CallNetsniff
        <5>2. PICK v \in Default(netsniff, Values(ValueDeps[netsniff])) :
                 ApplyDefault(netsniff, v, Tail(calls))
          BY <1>8, <2>1, <2>4, <5>1 DEF ComputeDefault
        <5>3. value'[netsniff] = v
          BY <1>0, <5>2 DEF ApplyDefault, TypeOK
        <5> QED BY <4>2, <5>3 DEF SetAsRuled
      <4> QED BY <4>4, <4>5
    <3> QED BY <1>2, <2>3, <3>1, <3>2 DEF Registered
  <2>5. CASE i = tcpdump
    <3>1. CASE ~Registered(CallTcpdump)
      <4>1. RuleOff(tcpdump)
        BY <3>1 DEF RuleOff, CallTcpdump
      <4>2. UNCHANGED <<value, registered>>
        BY <1>8, <2>1, <2>5, <4>1 DEF ComputeDefault
      <4> QED BY <1>2, <3>1, <4>2 DEF Registered
    <3>2. CASE Registered(CallTcpdump)
      <4>1. ~Ahead(calls)
        <5>1. calls[1] = CallTcpdump /\ 1 \in DOMAIN calls
          BY <1>0, <2>2, <2>3, <2>5 DEF CallTcpdump
        <5> QED BY <5>1 DEF Ahead
      <4>2. Default(tcpdump, Values(ValueDeps[tcpdump])) = {FALSE}
        BY <1>2, <3>2, <4>1, TcpdumpStaysOff
      <4>3. value'[tcpdump] = FALSE
        <5>1. CASE RuleOff(tcpdump)
          BY <1>2, <1>8, <2>1, <2>5, <5>1 DEF ComputeDefault
        <5>2. CASE ~RuleOff(tcpdump)
          <6>1. value' = [value EXCEPT ![tcpdump] = FALSE]
            BY <1>8, <2>1, <2>5, <4>2, <5>2 DEF ComputeDefault, ApplyDefault
          <6> QED BY <1>0, <6>1 DEF TypeOK
        <5> QED BY <5>1, <5>2
      <4>4. \A d \in Items : value'[d] = value[d]
        BY <1>2, <2>2, <2>5, <4>3 DEF ValueChange
      <4>5. Values(ValueDeps[netsniff])' = Values(ValueDeps[netsniff])
        BY <4>4, EngineIs, RulesAssumption DEF Values, RulesAssumption
      <4> QED BY <1>0, <1>2, <3>2, <4>1, <4>3, <4>4, <4>5 DEF SetAsRuled
    <3> QED BY <3>1, <3>2
  <2>6. CASE i # netsniff /\ i # tcpdump
    <3>1. value'[tcpdump] = value[tcpdump]
      BY <1>0, <2>2, <2>6 DEF ValueChange
    <3>2. ASSUME Registered(CallTcpdump)
          PROVE  SetAsRuled(netsniff)' \/ Ahead(calls')
      <4>1. Head(calls) # CallNetsniff
        BY <2>2, <2>6 DEF CallNetsniff
      <4>2. SetAsRuled(netsniff) \/ Ahead(Tail(calls))
        BY <1>0, <1>2, <2>3, <3>2, <4>1, AheadInTail
      <4> QED BY <2>2, <2>6, <3>2, <4>2, AheadAfterChange
    <3> QED BY <1>2, <2>3, <3>1, <3>2 DEF Registered
  <2> QED BY <2>4, <2>5, <2>6
<1>9. ASSUME NEW i \in Items \ Engines, ValueChange(i, <<>>)
      PROVE  /\ value'[tcpdump] = FALSE
             /\ Registered(CallTcpdump)' => SetAsRuled(netsniff)' \/ Ahead(calls')
  <2>1. i # netsniff /\ i # tcpdump
    BY <1>9, EngineIs
  <2>2. value'[tcpdump] = value[tcpdump] /\ registered' = registered
    BY <1>0, <1>9, <2>1 DEF ValueChange
  <2> QED BY <1>0, <1>2, <1>3, <1>9, <2>1, <2>2, AheadAfterChange DEF Registered
<1>10. CASE Preset
  <2>1. PICK v : SetValue(PresetItem, v)
    BY <1>10 DEF Preset
  <2>2. PresetItem \in Items \ Engines /\ UNCHANGED <<visible, registered>>
    BY <1>10, EngineIs, RulesAssumption DEF Preset, RulesAssumption
  <2> QED BY <1>0, <1>9, <2>1, <2>2, SetValueChanges
<1>11. CASE UserChooses
  <2>1. PICK i \in menu \ {PresetItem} : \E v : Choose(i, v)
    BY <1>11 DEF UserChooses
  <2>2. PICK v : Choose(i, v)
    BY <2>1
  <2>3. i \in Items \ Engines /\ SetValue(i, v) /\ UNCHANGED <<visible, registered>>
    BY <1>0, <1>1, <2>2 DEF Choose, TypeOK
  <2> QED BY <1>0, <1>9, <2>3, SetValueChanges
<1>12. CASE Import
  BY <1>0, <1>5, <1>12 DEF Import, PhaseOK
<1>13. CASE Imported \/ UNCHANGED vars
  <2>1. UNCHANGED <<value, registered, calls>>
    BY <1>13 DEF Imported, vars
  <2> QED BY <1>2, <2>1 DEF SetAsRuled, Values, Registered
<1> QED BY <1>1, <1>6, <1>7, <1>8, <1>10, <1>11, <1>12, <1>13 DEF Next, Compute

\* When the menu is on the screen and the user chose none of the programs that
\* write captures, live capture runs exactly the one of the profile and the store.
\* Their three soft rules (dependencies.py:646) read
\* and switch off one another in the middle of a cascade; that tcpdump's never
\* wins rests on the order in which they were registered, and holds for any
\* sequence of changes of profile, store and live capture.
THEOREM OneEngineCaptures == ASSUME TheRules PROVE Spec => []OneCaptureEngine
<1>1. Init => NetsniffFirst
  <2> SUFFICES ASSUME Init PROVE value[tcpdump] = FALSE /\ ~Registered(CallTcpdump)
    BY DEF NetsniffFirst
  <2>1. value[tcpdump] = FALSE
    BY RowsAssumption, EngineIs DEF Init, Fresh, RowsAssumption, Flags
  <2> QED BY <2>1, EngineIs, Numbers DEF Init, Registered
<1>2. IInv /\ NetsniffFirst /\ [Next]_vars => NetsniffFirst'
  BY NetsniffFirstStep
<1>3. IInv /\ NetsniffFirst => OneCaptureEngine
  <2> SUFFICES ASSUME IInv, NetsniffFirst, AtMenu, Untouched(Engines)
               PROVE  {e \in Engines : value[e]} =
                        IF ~value[Live] THEN {}
                        ELSE IF Malcolm(value) /\ LocalStore(value) THEN {"pcapNetSniff"}
                        ELSE {"liveArkime"}
    BY DEF OneCaptureEngine
  <2>1. value["pcapTcpDump"] = FALSE
    BY DEF NetsniffFirst, tcpdump
  <2>2. \A e \in Engines : value[e] \in EngineDefault(e, value)
    <3> TAKE e \in Engines
    <3>1. LeftAlone(e) /\ e \in Soft /\ e \in Computed
      BY EngineIs DEF Untouched, LeftAlone
    <3>2. Registered(<<"default", e>>) /\ ~Due(<<"default", e>>, calls)
      BY <3>1, MenuIsQuiet DEF AtMenu, Rules
    <3>3. SetAsRuled(e)
      BY <3>1, <3>2 DEF IInv, SetOrDue, RuledOrDue
    <3>4. Default(e, Values(ValueDeps[e])) = EngineDefault(e, value)
      BY EngineRule
    <3>5. EngineDefault(e, value) # {}
      BY DEF EngineDefault, Engines
    <3> QED BY <3>3, <3>4, <3>5 DEF SetAsRuled
  <2>3. \A u : EngineDefault("pcapNetSniff", u) =
           {u[Live] /\ u[Profile] = "malcolm" /\ u[Mode] = "opensearch-local"
            /\ ~u["pcapTcpDump"] /\ ~u["liveArkime"]}
    BY DEF EngineDefault, Malcolm, LocalStore
  <2>4. \A u : EngineDefault("liveArkime", u) =
           {u[Live] /\ (u[Profile] # "malcolm" \/ u[Mode] # "opensearch-local")
            /\ ~u["pcapNetSniff"] /\ ~u["pcapTcpDump"]}
    BY DEF EngineDefault, ArkimeMay, Malcolm, LocalStore
  <2>5. /\ value["pcapNetSniff"] = (value[Live] /\ Malcolm(value) /\ LocalStore(value)
                                    /\ ~value["pcapTcpDump"] /\ ~value["liveArkime"])
        /\ value["liveArkime"] = (value[Live] /\ ~(Malcolm(value) /\ LocalStore(value))
                                  /\ ~value["pcapNetSniff"] /\ ~value["pcapTcpDump"])
    BY <2>2, <2>3, <2>4 DEF Engines, Malcolm, LocalStore
  <2> QED BY <2>1, <2>5 DEF Engines
<1> QED BY <1>1, <1>2, <1>3, Inductive, PTL DEF Spec

-----------------------------------------------------------------------------
(* What a step does to values and to calls.                                *)

\* A value changes because it is given or because its rule says so.
LEMMA ValueSet ==
  ASSUME TypeOK, [Next]_vars, ~SaveAndRestart, NEW j \in Items
  PROVE  \/ value'[j] = value[j]
         \/ Given(j)
         \/ /\ j \in Computed /\ Registered(<<"default", j>>) /\ j \notin modified
            /\ Due(<<"default", j>>, calls)
            /\ value'[j] \in Default(j, Values(ValueDeps[j]))
<1>1. CASE Register \/ Show \/ Hide \/ Imported \/ UNCHANGED vars
  BY <1>1 DEF Register, Show, Hide, Imported, vars
<1>2. CASE ComputeDefault
  <2>1. PICK i : i = Head(calls)[2]
    OBVIOUS
  <2>2. /\ i \in Computed /\ i \in Items /\ Head(calls) = <<"default", i>>
        /\ ValueChange(i, Tail(calls))
    BY <1>2, <2>1, ComputeChanges
  <2>3. CASE i # j
    BY <2>2, <2>3 DEF ValueChange
  <2>4. CASE i = j /\ RuleOff(i)
    BY <1>2, <2>1, <2>4 DEF ComputeDefault
  <2>5. CASE i = j /\ ~RuleOff(i)
    <3>1. PICK v \in Default(i, Values(ValueDeps[i])) : ApplyDefault(i, v, Tail(calls))
      BY <1>2, <2>1, <2>5 DEF ComputeDefault
    <3>2. value'[i] = v
      BY <2>2, <3>1 DEF ApplyDefault, TypeOK
    <3>3. Due(<<"default", i>>, calls)
      <4>1. 1 \in DOMAIN calls /\ calls[1] = <<"default", i>>
        BY <1>2, <2>2 DEF ComputeDefault, Idle, TypeOK
      <4> QED BY <4>1 DEF Due
    <3> QED BY <2>2, <2>5, <3>1, <3>2, <3>3 DEF RuleOff
  <2> QED BY <2>3, <2>4, <2>5
<1>3. CASE Preset
  <2>1. PICK v : SetValue(PresetItem, v)
    BY <1>3 DEF Preset
  <2>2. PresetItem \in Items /\ UNCHANGED <<visible, registered>>
    BY <1>3, RulesAssumption DEF Preset, RulesAssumption
  <2>3. ValueChange(PresetItem, <<>>)
    BY <2>1, <2>2, SetValueChanges
  <2> QED BY <1>3, <2>3 DEF ValueChange, Given
<1>4. CASE UserChooses
  <2>1. PICK i \in menu \ {PresetItem} : \E v : Choose(i, v)
    BY <1>4 DEF UserChooses
  <2>2. PICK v : Choose(i, v)
    BY <2>1
  <2>3. i \in Items /\ SetValue(i, v) /\ UNCHANGED <<visible, registered>>
    BY <2>2 DEF Choose, TypeOK
  <2>4. ValueChange(i, <<>>)
    BY <2>3, SetValueChanges
  <2> QED BY <2>2, <2>4 DEF ValueChange, Given
<1>5. CASE Import
  <2>1. PICK i : i = Head(toLoad)
    OBVIOUS
  <2>2. i \in Items /\ ValueChange(i, <<>>)
    BY <1>5, <2>1, ImportChanges
  <2> QED BY <1>5, <2>1, <2>2 DEF ValueChange, Given
<1> QED BY <1>1, <1>2, <1>3, <1>4, <1>5 DEF Next, Compute

\* A value rule becomes due only by a change of a value it reads.
LEMMA DueBecause ==
  ASSUME TypeOK, [Next]_vars, ~Register, NEW j \in Computed, Due(<<"default", j>>, calls')
  PROVE  \/ Due(<<"default", j>>, calls)
         \/ \E i \in ValueDeps[j] : \/ value'[i] # value[i]
                                    \/ Preset /\ i = PresetItem
                                    \/ \E v : Choose(i, v)
<1> DEFINE c == <<"default", j>>
           Why(i) == value'[i] # value[i] \/ (Preset /\ i = PresetItem) \/ \E v : Choose(i, v)
<1>0. calls \in Seq(Calls)
  BY DEF TypeOK
<1>1. ASSUME NEW S, NEW s \in Seq(S), NEW T, NEW t \in Seq(T), NEW d, Due(d, s \o t), ~Due(d, s)
      PROVE  Due(d, t)
  <2>1. PICK n \in DOMAIN (s \o t) : (s \o t)[n] = d
    BY <1>1 DEF Due
  <2>2. n \notin DOMAIN s
    BY <1>1, <2>1 DEF Due
  <2>3. n - Len(s) \in DOMAIN t /\ t[n - Len(s)] = d
    BY <2>1, <2>2
  <2> QED BY <2>3 DEF Due
<1>2. ASSUME NEW d, calls # <<>>, Due(d, Tail(calls))
      PROVE  Due(d, calls)
  <2>1. PICK n \in DOMAIN Tail(calls) : Tail(calls)[n] = d
    BY <1>2 DEF Due
  <2>2. n + 1 \in DOMAIN calls /\ calls[n + 1] = d
    BY <1>0, <1>2, <2>1
  <2> QED BY <2>2 DEF Due
<1>3. ASSUME NEW i \in Items, Due(c, Observers[i])
      PROVE  i \in ValueDeps[j]
  <2> DEFINE o == Observers[i]
  <2>1. {o[n] : n \in DOMAIN o} = {<<"show", k>> : k \in {m \in Ruled : i \in ShowDeps[m]}}
                                  \cup {<<"default", k>> : k \in {m \in Computed : i \in ValueDeps[m]}}
    BY OrderAssumption DEF OrderAssumption
  <2> HIDE DEF o
  <2>2. c \in {o[n] : n \in DOMAIN o}
    BY <1>3 DEF Due, o
  <2>3. /\ c \notin {<<"show", k>> : k \in {m \in Ruled : i \in ShowDeps[m]}}
        /\ \A k : c = <<"default", k>> => k = j
    OBVIOUS
  <2> QED BY <2>1, <2>2, <2>3
<1>4. \A i \in Items : Observers[i] \in Seq(Calls)
  BY ObserversType
<1>5. CASE Show \/ Hide
  <2>1. calls # <<>>
    BY <1>5 DEF Show, Hide, Idle
  <2>2. PICK i \in Ruled : Head(calls)[2] = i
    BY <1>0, <1>5, HeadType, CallType DEF Show, Hide
  <2>3. ASSUME NEW tag \in {"show", "hide"}
        PROVE  Calling(tag, Children[i]) \in Seq(Calls) /\ ~Due(c, Calling(tag, Children[i]))
    <3> DEFINE s == Calling(tag, Children[i])
    <3>0. i \in Items
      BY RulesAssumption DEF RulesAssumption
    <3>1. /\ Calling(tag, Children[i]) \in Seq(Calls)
          /\ \A n \in DOMAIN Calling(tag, Children[i]) : Calling(tag, Children[i])[n][1] = tag
      <4>1. CASE tag = "show"
        BY <3>0, <4>1, CallingType
      <4>2. CASE tag = "hide"
        BY <3>0, <4>2, CallingType
      <4> QED BY <4>1, <4>2
    <3>2. s \in Seq(Calls) /\ \A n \in DOMAIN s : s[n][1] = tag
      BY <3>1
    <3> HIDE DEF s
    <3>3. c[1] = "default" /\ tag # "default"
      OBVIOUS
    <3> HIDE DEF c
    <3>4. \A n \in DOMAIN s : s[n] # c
      BY <3>2, <3>3
    <3>5. ~Due(c, s)
      BY <3>4 DEF Due
    <3> QED BY <3>2, <3>5 DEF s
  <2>4. \/ calls' = Tail(calls)
        \/ calls' = Calling("show", Children[i]) \o Tail(calls)
        \/ calls' = Calling("hide", Children[i]) \o Tail(calls)
    BY <1>5, <2>2 DEF Show, Hide, SetVisible
  <2>5. Tail(calls) \in Seq(Calls)
    BY <1>0, <2>1
  <2> HIDE DEF c
  <2>6. Due(c, calls')
    BY DEF c
  <2>7. \A tag \in {"show", "hide"} : calls' = Calling(tag, Children[i]) \o Tail(calls) => Due(c, Tail(calls))
    <3> TAKE tag \in {"show", "hide"}
    <3>1. Calling(tag, Children[i]) \in Seq(Calls) /\ ~Due(c, Calling(tag, Children[i]))
      BY <2>3 DEF c
    <3> QED BY <1>1, <2>5, <2>6, <3>1
  <2>8. Due(c, Tail(calls))
    BY <2>4, <2>6, <2>7
  <2> QED BY <1>2, <2>1, <2>8 DEF c
<1>6. CASE ComputeDefault
  <2>1. PICK i : i = Head(calls)[2]
    OBVIOUS
  <2>2. /\ i \in Computed /\ i \in Items /\ Tail(calls) \in Seq(Calls) /\ calls # <<>>
    BY <1>6, <2>1, ComputeChanges DEF ComputeDefault, Idle
  <2>3. \/ calls' = Tail(calls)
        \/ calls' = Observers[i] \o Tail(calls) /\ value'[i] # value[i]
    <3>1. CASE RuleOff(i)
      BY <1>6, <2>1, <3>1 DEF ComputeDefault
    <3>2. CASE ~RuleOff(i)
      <4>1. PICK v \in Default(i, Values(ValueDeps[i])) : ApplyDefault(i, v, Tail(calls))
        BY <1>6, <2>1, <3>2 DEF ComputeDefault
      <4> QED BY <2>2, <4>1 DEF ApplyDefault, TypeOK
    <3> QED BY <3>1, <3>2
  <2>4. CASE Due(c, Tail(calls))
    BY <1>2, <2>2, <2>4
  <2>5. CASE ~Due(c, Tail(calls))
    <3>1. calls' = Observers[i] \o Tail(calls) /\ value'[i] # value[i]
      BY <2>3, <2>5
    <3>2. Due(c, Observers[i])
      BY <1>1, <1>4, <2>2, <2>5, <3>1
    <3> QED BY <1>3, <2>2, <3>1, <3>2
  <2> QED BY <2>4, <2>5
<1>7. CASE Preset
  <2>1. PICK v : SetValue(PresetItem, v)
    BY <1>7 DEF Preset
  <2>2. PresetItem \in Items /\ Due(c, Observers[PresetItem])
    BY <2>1, RulesAssumption DEF SetValue, RulesAssumption
  <2> QED BY <1>3, <1>7, <2>2
<1>8. CASE UserChooses
  <2>1. PICK i \in menu \ {PresetItem} : \E v : Choose(i, v)
    BY <1>8 DEF UserChooses
  <2>2. PICK v : Choose(i, v)
    BY <2>1
  <2>3. i \in Items /\ Due(c, Observers[i])
    BY <2>2 DEF Choose, TypeOK, SetValue
  <2> QED BY <1>3, <2>2, <2>3
<1>9. CASE Import
  <2>1. PICK i : i = Head(toLoad)
    OBVIOUS
  <2>2. i \in Items
    BY <1>9, <2>1, ImportChanges
  <2>3. CASE saved[i] = {}
    BY <1>9, <2>1, <2>3 DEF Import
  <2>4. CASE saved[i] # {}
    <3>1. PICK v \in saved[i] : ApplyDefault(i, v, <<>>)
      BY <1>9, <2>1, <2>4 DEF Import
    <3>2. v # value[i] /\ Due(c, Observers[i])
      BY <2>2, <3>1, NoRest DEF ApplyDefault, Due
    <3>3. value'[i] = v
      BY <2>2, <3>1 DEF ApplyDefault, TypeOK
    <3> QED BY <1>3, <2>2, <3>2, <3>3
  <2> QED BY <2>3, <2>4
<1>10. CASE SaveAndRestart \/ Imported \/ UNCHANGED vars
  BY <1>10 DEF SaveAndRestart, Imported, vars
<1> QED BY <1>5, <1>6, <1>7, <1>8, <1>9, <1>10 DEF Next, Compute

-----------------------------------------------------------------------------
(* Loading, one value after the other.                                     *)

\* The value that the .env files give an item is still to be applied.
NotYet(i) == \E n \in DOMAIN toLoad : toLoad[n] = i

\* No item is there twice.
LoadedOnce == \A m, n \in DOMAIN toLoad : toLoad[m] = toLoad[n] => m = n

Loading == phase \in {"start", "import"}
NothingChosen == (Loading => modified = {}) /\ LoadedOnce

\* The first of the items that are left is loaded, and the others are left.
LEMMA LoadedNext ==
  ASSUME TypeOK, LoadedOnce, Import
  PROVE  /\ NotYet(Head(toLoad)) /\ LoadedOnce'
         /\ \A d : NotYet(d)' <=> NotYet(d) /\ d # Head(toLoad)
<1>1. toLoad \in Seq(Kept) /\ toLoad # <<>> /\ toLoad' = Tail(toLoad)
  BY DEF TypeOK, Import
<1>2. 1 \in DOMAIN toLoad /\ Head(toLoad) = toLoad[1] /\ DOMAIN toLoad = 1 .. Len(toLoad) /\ Len(toLoad) \in Nat
  BY <1>1
<1>3. /\ DOMAIN toLoad' = 1 .. Len(toLoad) - 1
      /\ \A n \in DOMAIN toLoad' : n + 1 \in DOMAIN toLoad /\ n + 1 # 1 /\ toLoad'[n] = toLoad[n + 1]
  BY <1>1
<1>4. \A n \in DOMAIN toLoad : n # 1 => n - 1 \in DOMAIN toLoad' /\ toLoad'[n - 1] = toLoad[n]
  <2> TAKE n \in DOMAIN toLoad
  <2> HAVE n # 1
  <2>1. n - 1 \in DOMAIN toLoad' /\ (n - 1) + 1 = n
    BY <1>2, <1>3
  <2> QED BY <1>3, <2>1
<1>5. NotYet(Head(toLoad))
  BY <1>2 DEF NotYet
<1>6. LoadedOnce'
  <2> SUFFICES ASSUME NEW m \in DOMAIN toLoad', NEW n \in DOMAIN toLoad', toLoad'[m] = toLoad'[n]
               PROVE  m = n
    BY DEF LoadedOnce
  <2>1. m + 1 = n + 1
    BY <1>3 DEF LoadedOnce
  <2>2. m \in Int /\ n \in Int
    BY <1>2, <1>3
  <2> QED BY <2>1, <2>2
<1>7. ASSUME NEW d, NotYet(d)'
      PROVE  NotYet(d) /\ d # Head(toLoad)
  <2>1. PICK n \in DOMAIN toLoad' : toLoad'[n] = d
    BY <1>7 DEF NotYet
  <2>2. n + 1 \in DOMAIN toLoad /\ n + 1 # 1 /\ toLoad[n + 1] = d
    BY <1>3, <2>1
  <2> QED BY <1>2, <2>2 DEF NotYet, LoadedOnce
<1>8. ASSUME NEW d, NotYet(d), d # Head(toLoad)
      PROVE  NotYet(d)'
  <2>1. PICK n \in DOMAIN toLoad : toLoad[n] = d
    BY <1>8 DEF NotYet
  <2> QED BY <1>2, <1>4, <1>8, <2>1 DEF NotYet
<1> QED BY <1>5, <1>6, <1>7, <1>8

\* At first all of them are left.
LEMMA AllAreLeft ==
  ASSUME NEW o \in LoadOrders, toLoad' = o
  PROVE  LoadedOnce' /\ \A i \in Kept : NotYet(i)'
<1>1. {o[n] : n \in DOMAIN o} = Kept /\ \A m, n \in DOMAIN o : o[m] = o[n] => m = n
  BY LoadAssumption DEF LoadAssumption
<1> QED BY <1>1 DEF LoadedOnce, NotYet

\* What loading a value sets.
LEMMA ImportSets ==
  ASSUME TypeOK, Import, NEW i, i = Head(toLoad)
  PROVE  /\ i \in Items /\ i \in Kept /\ calls = <<>>
         /\ saved[i] = {} => value' = value /\ calls' = <<>>
         /\ saved[i] # {} => value'[i] \in saved[i]
         /\ \A d \in Items \ {i} : value'[d] = value[d]
<1>1. i \in Items /\ i \in Kept /\ ValueChange(i, <<>>)
  BY ImportChanges
<1>2. saved[i] = {} => value' = value /\ calls' = <<>>
  BY DEF Import, Idle
<1>3. ASSUME saved[i] # {} PROVE value'[i] \in saved[i]
  <2>1. PICK v \in saved[i] : ApplyDefault(i, v, <<>>)
    BY <1>3 DEF Import
  <2> QED BY <1>1, <2>1 DEF ApplyDefault, TypeOK
<1> QED BY <1>1, <1>2, <1>3 DEF Import, Idle, ValueChange

\* While values are loaded nobody chooses any.
LEMMA LoadingStep ==
  ASSUME TypeOK, PhaseOK, NothingChosen, [Next]_vars, Loading', ~SaveAndRestart
  PROVE  /\ Loading /\ modified = {} /\ UNCHANGED <<saved, saves>>
         /\ \A i, v : ~Choose(i, v)
         /\ \A i : Given(i) => (Preset /\ i = PresetItem) \/ (Import /\ i = Head(toLoad))
         /\ phase = "start" => ~Import
         /\ phase = "start" /\ phase' = "import" => Preset /\ \A i \in Kept : NotYet(i)'
         /\ phase = "import" => /\ phase' = "import" /\ ~Preset /\ ~Register
                                /\ \A i : NotYet(i)' <=> NotYet(i) /\ ~(Import /\ i = Head(toLoad))
         /\ Import => NotYet(Head(toLoad))
<1>1. Loading /\ modified = {} /\ UNCHANGED <<saved, saves>>
  <2>1. Loading /\ UNCHANGED <<saved, saves>>
    BY DEF Loading, Next, Compute, Register, Show, Hide, ComputeDefault, Preset, Import, Imported,
           UserChooses, Choose, vars
  <2> QED BY <2>1 DEF NothingChosen
<1>2. \A i, v : ~Choose(i, v)
  BY <1>1 DEF Choose, Loading
<1>3. phase = "start" => ~Import
  BY DEF Import
<1>4. phase = "start" /\ phase' = "import" => Preset
  BY <1>2 DEF Next, Compute, Register, Show, Hide, ComputeDefault, Preset, Import, Imported, UserChooses, vars
<1>5. ASSUME phase = "start", phase' = "import"
      PROVE  \A i \in Kept : NotYet(i)'
  <2>1. toLoad' \in LoadOrders
    BY <1>4, <1>5 DEF Preset
  <2> QED BY <2>1, AllAreLeft
<1>6. phase = "import" => phase' = "import" /\ ~Preset /\ ~Register
  BY <1>2 DEF Loading, Next, Compute, Register, Show, Hide, ComputeDefault, Preset, Import, Imported,
              UserChooses, vars
<1>7. ASSUME phase = "import", NEW i
      PROVE  NotYet(i)' <=> NotYet(i) /\ ~(Import /\ i = Head(toLoad))
  <2>1. CASE Import
    BY <2>1, LoadedNext DEF NothingChosen
  <2>2. CASE ~Import
    <3>1. toLoad' = toLoad
      BY <1>2, <1>6, <1>7, <2>2 DEF Next, Compute, Register, Show, Hide, ComputeDefault, Imported,
                                    UserChooses, vars
    <3> QED BY <2>2, <3>1 DEF NotYet
  <2> QED BY <2>1, <2>2
<1>8. Import => NotYet(Head(toLoad))
  BY LoadedNext DEF NothingChosen
<1> QED BY <1>1, <1>2, <1>3, <1>4, <1>5, <1>6, <1>7, <1>8 DEF Given

\* Nobody chooses a value before the menu opens.
LEMMA NothingChosenStep ==
  ASSUME TypeOK, PhaseOK, NothingChosen, [Next]_vars
  PROVE  NothingChosen'
<1>1. LoadedOnce'
  <2>1. CASE Import
    BY <2>1, LoadedNext DEF NothingChosen
  <2>2. CASE toLoad' \in LoadOrders
    BY <2>2, AllAreLeft
  <2>3. CASE ~Import /\ toLoad' \notin LoadOrders
    <3>1. toLoad' = toLoad
      BY <2>3 DEF Next, Compute, Register, Show, Hide, ComputeDefault, Preset, Imported, UserChooses,
                  Choose, SaveAndRestart, vars
    <3> QED BY <3>1 DEF NothingChosen, LoadedOnce
  <2> QED BY <2>1, <2>2, <2>3
<1>2. ASSUME Loading' PROVE modified' = {}
  <2>1. CASE SaveAndRestart
    BY <2>1 DEF SaveAndRestart, Fresh
  <2>2. CASE Preset
    <3>1. PresetItem \notin Soft
      BY RowsAssumption, RulesAssumption DEF RowsAssumption, RulesAssumption
    <3>2. modified = {}
      BY <2>2 DEF Preset, NothingChosen, Loading
    <3> QED BY <2>2, <3>1, <3>2 DEF Preset, SetValue
  <2>3. CASE ~SaveAndRestart /\ ~Preset
    BY <1>2, <2>3, LoadingStep DEF Next, Compute, Register, Show, Hide, ComputeDefault, Import, Imported,
                                   UserChooses, vars
  <2> QED BY <2>1, <2>2, <2>3
<1> QED BY <1>1, <1>2 DEF NothingChosen

-----------------------------------------------------------------------------
(* The services a Malcolm may have elsewhere.                              *)

host == "remoteMalcolmHost"
logstash == "logstashHost"
store == "opensearchPrimaryUrl"
wise == "arkimeWiseUrl"
dashboards == "dashboardsUrl"
arkime == "liveArkime"

\* All parameters are those of the installer.
TheInstaller ==
    /\ TheRules
    /\ \A i, v : Stored(i, v) = EnvValue(i, v)
    /\ \A v, s : Issues(v, s) = ConfigIssues(v, s)
    /\ \A i \in Items : Options[i] = OptionsOf(i)

\* What the table has of the addresses.
LEMMA ServiceIs ==
  /\ {host, logstash, store, wise, dashboards} = Services
  /\ Services \subseteq Items /\ Services \subseteq Kept /\ Services \subseteq Ruled \cap Computed
  /\ Services \cap Soft = {} /\ PresetItem \notin Services \cup Flags \cup {Mode, Profile}
  /\ {host, logstash, store, wise} \subseteq Bound
<1>1. {host, logstash, store, wise, dashboards} = Services
  BY DEF Services, Addresses, host, logstash, store, wise, dashboards
<1>2. Services \subseteq Items /\ Services \subseteq Ruled \cap Computed /\ Services \cap Soft = {}
  BY RowsAssumption, RulesAssumption DEF RowsAssumption, RulesAssumption
<1>3. Services \subseteq Kept
  BY FilesAssumption DEF FilesAssumption
<1>4. PresetItem \notin Services \cup Flags \cup {Mode, Profile}
  BY RowsAssumption DEF RowsAssumption, Services, Addresses, Flags, Engines, Mode, Profile, Live,
                        Orchestration
<1>5. \A i \in {host, logstash, store, wise} : ShowDeps[i] \subseteq ValueDeps[i]
  <2>1. ShowDeps[host] \subseteq ValueDeps[host] /\ ShowDeps[logstash] \subseteq ValueDeps[logstash]
    BY RowsAssumption DEF RowsAssumption, host, logstash
  <2>2. ShowDeps[store] \subseteq ValueDeps[store] /\ ShowDeps[wise] \subseteq ValueDeps[wise]
    BY RowsAssumption DEF RowsAssumption, store, wise
  <2> QED BY <2>1, <2>2
<1> QED BY <1>1, <1>2, <1>3, <1>4, <1>5 DEF Bound

\* What a rule reads of the values u.
At(deps, u) == [d \in deps |-> u[d]]

\* The rules of the addresses.
LEMMA ServiceDefaults ==
  ASSUME TheRules, NEW u
  PROVE  /\ Default(host, At(ValueDeps[host], u)) = IF Malcolm(u) THEN {""} ELSE {}
         /\ Default(logstash, At(ValueDeps[logstash], u)) =
               IF Malcolm(u) THEN {"local"} ELSE {u[host]} \ {""}
         /\ Default(store, At(ValueDeps[store], u)) =
               IF Malcolm(u) /\ LocalStore(u) THEN {"local"}
               ELSE IF u[Mode] = "opensearch-remote" THEN {u[host]} \ {""} ELSE {}
         /\ Default(dashboards, At(ValueDeps[dashboards], u)) =
               IF u[Mode] # "elasticsearch-remote" THEN {"local"} ELSE {}
         /\ Malcolm(u) /\ ~u[arkime] => Default(wise, At(ValueDeps[wise], u)) = {"local"}
<1>1. \A i \in Services : \A v : Default(i, v) = AddressDefault(i, v)
  <2> TAKE i \in Services
  <2> TAKE v
  <2>1. i \in Addresses /\ i \notin Engines \cup Ports
    BY DEF Services, Addresses, Engines, Ports
  <2>2. RuleDefault(i, v) = AddressDefault(i, v)
    BY <2>1 DEF RuleDefault
  <2> QED BY <2>2 DEF TheRules
<1>2. \A v : /\ AddressDefault(host, v) = IF Malcolm(v) THEN {""} ELSE {}
             /\ AddressDefault(logstash, v) = IF Malcolm(v) THEN {"local"} ELSE {v[host]} \ {""}
             /\ AddressDefault(store, v) = IF Malcolm(v) /\ LocalStore(v) THEN {"local"}
                                           ELSE IF v[Mode] = "opensearch-remote" THEN {v[host]} \ {""} ELSE {}
             /\ AddressDefault(dashboards, v) = IF v[Mode] # "elasticsearch-remote" THEN {"local"} ELSE {}
             /\ Malcolm(v) /\ ~v[arkime] => AddressDefault(wise, v) = {"local"}
  BY DEF AddressDefault, HostOr, host, logstash, store, wise, dashboards, arkime
<1>3. /\ \A i \in {host, logstash, store, wise} : Profile \in ValueDeps[i]
      /\ host \in ValueDeps[logstash] /\ host \in ValueDeps[store]
      /\ Mode \in ValueDeps[store] /\ Mode \in ValueDeps[dashboards] /\ arkime \in ValueDeps[wise]
  BY RowsAssumption DEF RowsAssumption, host, logstash, store, wise, dashboards, arkime
<1>4. /\ host \in Services /\ logstash \in Services /\ store \in Services
      /\ wise \in Services /\ dashboards \in Services
  BY ServiceIs
<1>5. ASSUME NEW deps, NEW d \in deps PROVE At(deps, u)[d] = u[d]
  BY DEF At
<1>6. Default(host, At(ValueDeps[host], u)) = IF Malcolm(u) THEN {""} ELSE {}
  <2> DEFINE v == At(ValueDeps[host], u)
  <2>1. v[Profile] = u[Profile]
    BY <1>3, <1>5
  <2> HIDE DEF v
  <2> QED BY <1>1, <1>2, <1>4, <2>1 DEF Malcolm, v
<1>7. Default(logstash, At(ValueDeps[logstash], u)) = IF Malcolm(u) THEN {"local"} ELSE {u[host]} \ {""}
  <2> DEFINE v == At(ValueDeps[logstash], u)
  <2>1. v[Profile] = u[Profile] /\ v[host] = u[host]
    BY <1>3, <1>5
  <2> HIDE DEF v
  <2>2. Default(logstash, v) = IF Malcolm(u) THEN {"local"} ELSE {u[host]} \ {""}
    BY <1>1, <1>2, <1>4, <2>1 DEF Malcolm
  <2> QED BY <2>2 DEF v
<1>8. Default(store, At(ValueDeps[store], u)) =
         IF Malcolm(u) /\ LocalStore(u) THEN {"local"}
         ELSE IF u[Mode] = "opensearch-remote" THEN {u[host]} \ {""} ELSE {}
  <2> DEFINE v == At(ValueDeps[store], u)
  <2>1. v[Profile] = u[Profile] /\ v[host] = u[host] /\ v[Mode] = u[Mode]
    BY <1>3, <1>5
  <2> HIDE DEF v
  <2>2. (Malcolm(v) <=> Malcolm(u)) /\ (LocalStore(v) <=> LocalStore(u))
    BY <2>1 DEF Malcolm, LocalStore
  <2>3. Default(store, v) = AddressDefault(store, v)
    BY <1>1, <1>4
  <2>4. AddressDefault(store, v) = IF Malcolm(v) /\ LocalStore(v) THEN {"local"}
                                   ELSE IF v[Mode] = "opensearch-remote" THEN {v[host]} \ {""} ELSE {}
    BY <1>2
  <2> QED BY <2>1, <2>2, <2>3, <2>4 DEF v
<1>9. Default(dashboards, At(ValueDeps[dashboards], u)) =
         IF u[Mode] # "elasticsearch-remote" THEN {"local"} ELSE {}
  <2> DEFINE v == At(ValueDeps[dashboards], u)
  <2>1. v[Mode] = u[Mode]
    BY <1>3, <1>5
  <2> HIDE DEF v
  <2>2. Default(dashboards, v) = AddressDefault(dashboards, v)
    BY <1>1, <1>4
  <2>3. AddressDefault(dashboards, v) = IF v[Mode] # "elasticsearch-remote" THEN {"local"} ELSE {}
    BY <1>2
  <2> QED BY <2>1, <2>2, <2>3 DEF v
<1>10. Malcolm(u) /\ ~u[arkime] => Default(wise, At(ValueDeps[wise], u)) = {"local"}
  <2> DEFINE v == At(ValueDeps[wise], u)
  <2>1. v[Profile] = u[Profile] /\ v[arkime] = u[arkime]
    BY <1>3, <1>5
  <2> HIDE DEF v
  <2>2. Malcolm(u) /\ ~u[arkime] => Default(wise, v) = {"local"}
    BY <1>1, <1>2, <1>4, <2>1 DEF Malcolm
  <2> QED BY <2>2 DEF v
<1> QED BY <1>6, <1>7, <1>8, <1>9, <1>10

\* When an address is on the menu.
LEMMA ServiceShown ==
  ASSUME TheRules, NEW u
  PROVE  /\ \A i \in {host, logstash} : Shown(i, At(ShowDeps[i], u)) <=> ~Malcolm(u)
         /\ Shown(store, At(ShowDeps[store], u)) <=> ~Malcolm(u) \/ ~LocalStore(u)
         /\ Shown(dashboards, At(ShowDeps[dashboards], u)) <=>
               Malcolm(u) /\ u[Mode] = "elasticsearch-remote"
         /\ Shown(wise, At(ShowDeps[wise], u)) <=> ~Malcolm(u) \/ u[arkime]
         /\ Shown(Mode, At(ShowDeps[Mode], u))
<1>1. \A i \in Services \cup {Mode} : i \notin MalcolmOnly \cup CarvingOnly \cup EitherOn
  BY DEF Services, Addresses, Mode, MalcolmOnly, CarvingOnly, EitherOn
<1>2. \A i \in Services : i \notin AlwaysShown
  BY DEF Services, Addresses, Mode, AlwaysShown
<1>3. \A v : /\ \A i \in {host, logstash} : RuleShown(i, v) <=> ProfileShown(i, v)
             /\ RuleShown(store, v) <=> StoreShown(store, v)
             /\ RuleShown(dashboards, v) <=> StoreShown(dashboards, v)
             /\ RuleShown(wise, v) <=> CaptureShown(wise, v)
  <2> TAKE v
  <2>1. ASSUME NEW i \in {host, logstash} PROVE RuleShown(i, v) <=> ProfileShown(i, v)
    <3>1. i \in ProfileKeys /\ i \in Services
      BY KeysAssumption, ServiceIs DEF KeysAssumption, host, logstash
    <3>2. i \notin StoreKeys \cup CaptureKeys \cup AnalysisKeys \cup PortKeys \cup CleanUpKeys
      BY <3>1, KeysAssumption DEF KeysAssumption
    <3> QED BY <1>1, <1>2, <3>1, <3>2 DEF RuleShown
  <2>2. ASSUME NEW i \in {store, dashboards} PROVE RuleShown(i, v) <=> StoreShown(i, v)
    <3>1. i \in StoreKeys /\ i \in Services
      BY KeysAssumption, ServiceIs DEF KeysAssumption, store, dashboards
    <3>2. i \notin ProfileKeys \cup CaptureKeys \cup AnalysisKeys \cup PortKeys \cup CleanUpKeys
      BY <3>1, KeysAssumption DEF KeysAssumption
    <3> QED BY <1>1, <1>2, <3>1, <3>2 DEF RuleShown
  <2>3. RuleShown(wise, v) <=> CaptureShown(wise, v)
    <3>1. wise \in CaptureKeys /\ wise \in Services
      BY KeysAssumption, ServiceIs DEF KeysAssumption, wise
    <3>2. wise \notin ProfileKeys \cup StoreKeys \cup AnalysisKeys \cup PortKeys \cup CleanUpKeys
      BY <3>1, KeysAssumption DEF KeysAssumption
    <3> QED BY <1>1, <1>2, <3>1, <3>2 DEF RuleShown
  <2> QED BY <2>1, <2>2, <2>3
<1>4. \A v : /\ \A i \in {host, logstash} : ProfileShown(i, v) <=> ~Malcolm(v)
             /\ StoreShown(store, v) <=> ~Malcolm(v) \/ ~LocalStore(v)
             /\ StoreShown(dashboards, v) <=> Malcolm(v) /\ v[Mode] = "elasticsearch-remote"
             /\ CaptureShown(wise, v) <=> ~Malcolm(v) \/ v[arkime]
  <2> TAKE v
  <2>1. \A i \in {host, logstash} : ProfileShown(i, v) <=> ~Malcolm(v)
    BY DEF ProfileShown, host, logstash
  <2>2. StoreShown(store, v) <=> ~Malcolm(v) \/ ~LocalStore(v)
    BY DEF StoreShown, store
  <2>3. StoreShown(dashboards, v) <=> Malcolm(v) /\ v[Mode] = "elasticsearch-remote"
    BY DEF StoreShown, dashboards
  <2>4. CaptureShown(wise, v) <=> ~Malcolm(v) \/ v[arkime]
    BY DEF CaptureShown, wise, arkime
  <2> QED BY <2>1, <2>2, <2>3, <2>4
<1>5. /\ \A i \in Services : Profile \in ShowDeps[i]
      /\ Mode \in ShowDeps[store] /\ Mode \in ShowDeps[dashboards] /\ arkime \in ShowDeps[wise]
  BY ServiceIs, RowsAssumption DEF RowsAssumption, host, logstash, store, wise, dashboards, arkime
<1>a. ASSUME NEW deps, NEW d \in deps PROVE At(deps, u)[d] = u[d]
  BY DEF At
<1>6. \A i \in Services : Malcolm(At(ShowDeps[i], u)) <=> Malcolm(u)
  BY <1>5, <1>a DEF Malcolm
<1>7. /\ LocalStore(At(ShowDeps[store], u)) <=> LocalStore(u)
      /\ At(ShowDeps[dashboards], u)[Mode] = u[Mode]
      /\ At(ShowDeps[wise], u)[arkime] = u[arkime]
  BY <1>5, <1>a DEF LocalStore
<1>8. Shown(Mode, At(ShowDeps[Mode], u))
  <2>1. /\ Mode \in StoreKeys
        /\ Mode \notin PortKeys \cup CleanUpKeys \cup ProfileKeys \cup CaptureKeys \cup AnalysisKeys
    BY KeysAssumption DEF KeysAssumption
  <2>2. Mode \in AlwaysShown
    BY DEF AlwaysShown
  <2>3. \A v : RuleShown(Mode, v)
    BY <1>1, <2>1, <2>2 DEF RuleShown
  <2> QED BY <2>3 DEF TheRules
<1>9. \A i, v : Shown(i, v) <=> RuleShown(i, v)
  BY DEF TheRules
<1> QED BY <1>3, <1>4, <1>6, <1>7, <1>8, <1>9, ServiceIs

\* The rule of the document store.
LEMMA ModeRule ==
  ASSUME TheRules
  PROVE  Default(Mode, Values(ValueDeps[Mode])) =
            {IF Malcolm(value) THEN "opensearch-local" ELSE "opensearch-remote"}
<1>1. \A v : Default(Mode, v) = OtherDefault(Mode, v)
  <2>1. Mode \notin Engines \cup Addresses \cup Ports
    BY DEF Mode, Live, Engines, Addresses, Ports
  <2> QED BY <2>1 DEF TheRules, RuleDefault
<1>2. \A v : OtherDefault(Mode, v) = {IF Malcolm(v) THEN "opensearch-local" ELSE "opensearch-remote"}
  BY DEF OtherDefault, Mode, Live, ParseFields
<1>3. Malcolm(Values(ValueDeps[Mode])) <=> Malcolm(value)
  BY RowsAssumption, Read DEF RowsAssumption, Malcolm
<1> QED BY <1>1, <1>2, <1>3

\* What the table has of profile and store.
LEMMA KeyIs ==
  /\ Mode \in Computed /\ Mode \in Soft /\ Mode \in Items /\ Mode \in Kept
  /\ Profile \in Items /\ Profile \notin Computed /\ Profile \in Kept
  /\ ValueDeps[Mode] = {Profile} /\ Profile # Mode
  /\ Profile # PresetItem /\ Mode # PresetItem
<1>1. Mode \in Computed /\ Mode \in Soft /\ Mode \in Items
  BY RowsAssumption, RulesAssumption DEF RowsAssumption, RulesAssumption
<1>2. Profile \in Items /\ Profile \notin Computed /\ ValueDeps[Mode] = {Profile}
  BY RowsAssumption DEF RowsAssumption
<1>3. Mode \in Kept /\ Profile \in Kept
  BY FilesAssumption DEF FilesAssumption
<1>4. Profile # Mode /\ Profile # PresetItem /\ Mode # PresetItem
  BY RowsAssumption DEF RowsAssumption, Profile, Mode, Orchestration
<1> QED BY <1>1, <1>2, <1>3, <1>4

-----------------------------------------------------------------------------
(* What the .env files hold once a configuration was found valid.          *)

Modes == {"opensearch-local"} \cup RemoteModes

\* The files have one profile and one store; what they say of the addresses is
\* what the rules would, where validate_required asks for it.
FilesAreValid ==
    saves # 0 =>
        /\ \E p : saved[Profile] = {p}
        /\ \E m \in Modes : saved[Mode] = {m}
        /\ saved[Mode] = {"opensearch-local"} => saved[store] = {} /\ saved[dashboards] = {"local"}
        /\ saved[Profile] = {"malcolm"} =>
              /\ saved[host] = {""} /\ saved[logstash] = {"local"}
              /\ saved[Mode] # {"elasticsearch-remote"} => saved[dashboards] = {"local"}

\* What a .env file gives back of a value.
LEMMA EnvKept ==
  /\ \A u : \A i \in {Profile, Mode, logstash} : EnvValue(i, u) = {u[i]}
  /\ \A u : /\ EnvValue(dashboards, u) = {u[dashboards]} \ {""}
            /\ EnvValue(store, u) = {u[store]} \cap Hosts
            /\ EnvValue(host, u) = {IF u[logstash] \in Hosts THEN u[logstash] ELSE ""}
<1>1. ASSUME NEW u, NEW i \in {Profile, Mode, logstash}
      PROVE  EnvValue(i, u) = {u[i]}
  <2>1. i \notin {host, store, "netboxUrl"} /\ i \notin NoneAtFirst \ (AcceptBlank \cup {store})
    BY DEF Profile, Mode, logstash, host, store, NoneAtFirst, Addresses, AcceptBlank, ParseFields
  <2> QED BY <2>1 DEF EnvValue, host, store
<1>2. ASSUME NEW u
      PROVE  /\ EnvValue(dashboards, u) = {u[dashboards]} \ {""}
             /\ EnvValue(store, u) = {u[store]} \cap Hosts
             /\ EnvValue(host, u) = {IF u[logstash] \in Hosts THEN u[logstash] ELSE ""}
  <2>1. /\ dashboards \in NoneAtFirst \ (AcceptBlank \cup {store})
        /\ store \notin NoneAtFirst \ (AcceptBlank \cup {store})
        /\ host \notin NoneAtFirst \ (AcceptBlank \cup {store})
    BY DEF dashboards, host, store, NoneAtFirst, Addresses, AcceptBlank
  <2>2. /\ dashboards \notin {host, store, "netboxUrl"} /\ store \notin {host, "netboxUrl"}
        /\ host # "netboxUrl"
    BY DEF dashboards, host, store
  <2>3. EnvValue(dashboards, u) = {u[dashboards]} \ {""}
    BY <2>1, <2>2 DEF EnvValue, host, store
  <2>4. EnvValue(store, u) = {u[store]} \cap Hosts
    BY <2>1, <2>2 DEF EnvValue, host, store
  <2>5. EnvValue(host, u) = {IF u[logstash] \in Hosts THEN u[logstash] ELSE ""}
    BY <2>1, <2>2 DEF EnvValue, host, store, logstash
  <2> QED BY <2>3, <2>4, <2>5
<1> QED BY <1>1, <1>2

\* What validate_required has no objection to.
LEMMA Valid ==
  ASSUME NEW u, NEW s, ConfigIssues(u, s) = {}
  PROVE  /\ u[Mode] = "opensearch-local" => u[store] = "local"
         /\ u[logstash] = "local" <=> Malcolm(u)
         /\ Malcolm(u) /\ u[Mode] \in {"opensearch-local", "opensearch-remote"} => u[dashboards] = "local"
<1>1. AddressIssues(u) = {}
  BY DEF ConfigIssues
<1>2. /\ ConnIssues(u, "logstashHost", Malcolm(u), ~Malcolm(u)) = {}
      /\ UrlIssues(u, "opensearchPrimaryUrl", {"opensearch-local"}) = {}
      /\ Malcolm(u) => UrlIssues(u, "dashboardsUrl", {"opensearch-local", "opensearch-remote"}) = {}
  BY <1>1 DEF AddressIssues
<1>3. u[Mode] = "opensearch-local" => u[store] = "local"
  BY <1>2 DEF UrlIssues, store
<1>4. u[logstash] = "local" <=> Malcolm(u)
  BY <1>2 DEF ConnIssues, logstash, Blank
<1>5. Malcolm(u) /\ u[Mode] \in {"opensearch-local", "opensearch-remote"} => u[dashboards] = "local"
  BY <1>2 DEF UrlIssues, dashboards
<1> QED BY <1>3, <1>4, <1>5

-----------------------------------------------------------------------------
(* Profile and store while they are loaded.                                *)

ValuesTyped == value[Mode] \in Modes
TopIsShown == Items \ Ruled \subseteq visible

\* The profile is the first one until the saved one is loaded.
ProfileLoaded ==
    Loading => IF phase = "import" /\ ~NotYet(Profile) THEN saved[Profile] = {value[Profile]}
               ELSE value[Profile] = "malcolm"

\* A Malcolm has the store that was loaded, a sensor that one or the one of its
\* rule; only another profile or store makes the rules of a Malcolm's store and
\* of its host due.
StoreLoaded ==
    phase = "import" =>
        IF Malcolm(value)
        THEN /\ ~Due(<<"default", Mode>>, calls) /\ ~Due(<<"default", host>>, calls)
             /\ ~NotYet(Mode) => saved[Mode] = {value[Mode]}
        ELSE RuledOrDue(Mode) \/ saved[Mode] = {value[Mode]}

LoadInv == NothingChosen /\ ValuesTyped /\ TopIsShown /\ ProfileLoaded /\ StoreLoaded

\* Between two values a rule that is kept or due is kept.
LEMMA Settled ==
  ASSUME PhaseOK, phase # "start", calls = <<>>, NEW i \in Computed, RuledOrDue(i)
  PROVE  SetAsRuled(i)
<1>1. <<"default", i>> \in Rules /\ registered = Cardinality(Rules)
  BY DEF Rules, PhaseOK
<1>2. Registered(<<"default", i>>)
  BY <1>1, Numbers DEF Registered
<1> QED BY <1>2 DEF RuledOrDue, Due

\* The profile decides on the store...
LEMMA StoreAsRuled ==
  ASSUME TheRules, SetAsRuled(Mode)
  PROVE  value[Mode] = IF Malcolm(value) THEN "opensearch-local" ELSE "opensearch-remote"
BY ModeRule DEF SetAsRuled

\* ...and the store of a value rule that is kept is the one of the profile.
LEMMA StoreSettled ==
  ASSUME TheRules, PhaseOK, phase # "start", calls = <<>>, RuledOrDue(Mode)
  PROVE  value[Mode] = IF Malcolm(value) THEN "opensearch-local" ELSE "opensearch-remote"
BY KeyIs, Settled, StoreAsRuled

\* A restart begins with the initial values.
LEMMA Restarted ==
  ASSUME SaveAndRestart
  PROVE  value' = Initial /\ phase' = "start" /\ Loading'
BY DEF SaveAndRestart, Fresh, Loading

\* What a choice in the menu does.
LEMMA ChoiceSets ==
  ASSUME TypeOK, UserChooses, NEW j \in Items, NEW S, value[j] \in S, Options[j] \subseteq S
  PROVE  value'[j] \in S
<1>1. PICK i \in menu \ {PresetItem} : \E v \in Options[i] : Choose(i, v)
  BY DEF UserChooses
<1>2. PICK v \in Options[i] : Choose(i, v)
  BY <1>1
<1>3. value' = [value EXCEPT ![i] = v]
  BY <1>2 DEF Choose, SetValue
<1> QED BY <1>2, <1>3 DEF TypeOK

\* A value has a type that its rule, the menu and the files keep.
LEMMA TypedStep ==
  ASSUME TypeOK, [Next]_vars, ~SaveAndRestart, NEW j \in Items, j # PresetItem,
         NEW S, value[j] \in S, Options[j] \subseteq S,
         Default(j, Values(ValueDeps[j])) \subseteq S,
         Import /\ j = Head(toLoad) => saved[j] \subseteq S
  PROVE  value'[j] \in S
<1>1. CASE UserChooses
  BY <1>1, ChoiceSets
<1>2. CASE Import /\ j = Head(toLoad)
  <2>1. CASE saved[j] = {}
    BY <1>2, <2>1, ImportSets
  <2>2. CASE saved[j] # {}
    BY <1>2, <2>2, ImportSets
  <2> QED BY <2>1, <2>2
<1>3. CASE ~UserChooses /\ ~(Import /\ j = Head(toLoad))
  <2>1. ASSUME NEW v, Choose(j, v)
        PROVE  value'[j] = value[j]
    <3>1. phase = "menu" /\ Idle
      BY <2>1 DEF Choose
    <3>2. UNCHANGED vars
      BY <1>3, <3>1 DEF Next, Compute, Register, Show, Hide, ComputeDefault, Preset, Import, Imported
    <3> QED BY <3>2 DEF vars
  <2> QED BY <1>3, <2>1, ValueSet DEF Given
<1> QED BY <1>1, <1>2, <1>3

\* The store is a store.
LEMMA ValuesTypedStep ==
  ASSUME TheInstaller, TypeOK, PhaseOK, FilesAreValid, ValuesTyped, [Next]_vars
  PROVE  ValuesTyped'
<1>1. CASE SaveAndRestart
  <2>1. Initial[Mode] \in Modes
    BY RowsAssumption DEF RowsAssumption, Modes
  <2> QED BY <1>1, <2>1, Restarted DEF ValuesTyped
<1>2. CASE ~SaveAndRestart
  <2>1. Default(Mode, Values(ValueDeps[Mode])) \subseteq Modes
    BY ModeRule DEF TheInstaller, Modes, RemoteModes
  <2>2. Options[Mode] \subseteq Modes
    <3>1. OptionsOf(Mode) = {"opensearch-local"} \cup RemoteModes
      BY DEF OptionsOf, Mode, OnAtFirst, OffAtFirst, AutoItems, Engines, Ports, Live, Profile,
             Orchestration
    <3> QED BY <3>1, KeyIs DEF TheInstaller, Modes
  <2>3. Import => saved[Mode] \subseteq Modes
    BY DEF Import, PhaseOK, FilesAreValid
  <2>4. value[Mode] \in Modes
    BY DEF ValuesTyped
  <2>5. value'[Mode] \in Modes
    BY <1>2, <2>1, <2>2, <2>3, <2>4, KeyIs, TypedStep
  <2> QED BY <2>5 DEF ValuesTyped
<1> QED BY <1>1, <1>2

\* An item without a visibility rule is never hidden.
LEMMA TopIsShownStep ==
  ASSUME TypeOK, TopIsShown, [Next]_vars
  PROVE  TopIsShown'
<1>1. CASE Show \/ Hide
  <2>1. PICK i \in Ruled : Head(calls)[2] = i
    BY <1>1, HeadType, CallType DEF Show, Hide, TypeOK
  <2>2. visible \ {i} \subseteq visible'
    BY <1>1, <2>1 DEF Show, Hide, SetVisible
  <2> QED BY <2>2 DEF TopIsShown
<1>2. CASE ~(Show \/ Hide)
  <2>1. visible' = visible \/ visible' = Items
    BY <1>2 DEF Next, Compute, Register, ComputeDefault, Preset, Import, Imported, UserChooses, Choose,
                SaveAndRestart, Fresh, vars
  <2> QED BY <2>1 DEF TopIsShown
<1> QED BY <1>1, <1>2

\* The profile has no rule: only loading it sets it.
LEMMA ProfileStep ==
  ASSUME TypeOK, PhaseOK, FilesAreValid, LoadInv, [Next]_vars
  PROVE  ProfileLoaded'
<1>1. CASE SaveAndRestart
  <2>1. value'[Profile] = "malcolm"
    BY <1>1, Restarted, RowsAssumption DEF RowsAssumption
  <2> QED BY <1>1, <2>1, Restarted DEF ProfileLoaded
<1>2. CASE ~SaveAndRestart /\ Loading'
  <2>1. /\ Loading /\ UNCHANGED <<saved, saves>>
        /\ \A i : Given(i) => (Preset /\ i = PresetItem) \/ (Import /\ i = Head(toLoad))
        /\ phase = "start" /\ phase' = "import" => \A i \in Kept : NotYet(i)'
        /\ phase = "import" => /\ phase' = "import"
                               /\ \A i : NotYet(i)' <=> NotYet(i) /\ ~(Import /\ i = Head(toLoad))
    BY <1>2, LoadingStep DEF LoadInv
  <2>2. CASE Import /\ Profile = Head(toLoad)
    <3>1. phase' = "import" /\ ~NotYet(Profile)' /\ saves # 0
      BY <2>1, <2>2 DEF Import, PhaseOK
    <3>2. PICK p : saved[Profile] = {p}
      BY <3>1 DEF FilesAreValid, PhaseOK
    <3>3. value'[Profile] = p
      BY <2>2, <3>2, ImportSets
    <3> QED BY <2>1, <3>1, <3>2, <3>3 DEF ProfileLoaded
  <2>3. CASE ~(Import /\ Profile = Head(toLoad))
    <3>1. value'[Profile] = value[Profile]
      BY <1>2, <2>1, <2>3, KeyIs, ValueSet
    <3>2. CASE phase = "start"
      <4>1. phase' = "import" => NotYet(Profile)'
        BY <2>1, <3>2, KeyIs
      <4> QED BY <3>1, <3>2, <4>1, <2>1 DEF LoadInv, ProfileLoaded
    <3>3. CASE phase = "import"
      <4>1. phase' = "import" /\ (NotYet(Profile)' <=> NotYet(Profile))
        BY <2>1, <2>3, <3>3
      <4> QED BY <2>1, <3>1, <3>3, <4>1 DEF LoadInv, ProfileLoaded
    <3> QED BY <2>1, <3>2, <3>3 DEF Loading
  <2> QED BY <2>2, <2>3
<1>3. CASE ~Loading'
  BY <1>3 DEF ProfileLoaded
<1> QED BY <1>1, <1>2, <1>3

\* While a Malcolm is loaded its profile does not change.
LEMMA ProfileStays ==
  ASSUME TypeOK, PhaseOK, LoadInv, [Next]_vars, ~SaveAndRestart, Loading', Malcolm(value)'
  PROVE  Malcolm(value)
<1>1. /\ Loading
      /\ \A i : Given(i) => (Preset /\ i = PresetItem) \/ (Import /\ i = Head(toLoad))
      /\ Import => NotYet(Head(toLoad))
  BY LoadingStep DEF LoadInv
<1>2. CASE Import /\ Profile = Head(toLoad)
  BY <1>1, <1>2 DEF LoadInv, ProfileLoaded, Malcolm
<1>3. CASE ~(Import /\ Profile = Head(toLoad))
  <2>1. value'[Profile] = value[Profile]
    BY <1>1, <1>3, KeyIs, ValueSet
  <2> QED BY <2>1 DEF Malcolm
<1> QED BY <1>2, <1>3

\* The rule of the store follows the profile.
LEMMA StoreStep ==
  ASSUME TheInstaller, TypeOK, PhaseOK, FilesAreValid, LoadInv, [Next]_vars
  PROVE  StoreLoaded'
<1> SUFFICES ASSUME phase' = "import"
             PROVE  IF Malcolm(value)'
                    THEN /\ ~Due(<<"default", Mode>>, calls') /\ ~Due(<<"default", host>>, calls')
                         /\ ~NotYet(Mode)' => saved'[Mode] = {value'[Mode]}
                    ELSE RuledOrDue(Mode)' \/ saved'[Mode] = {value'[Mode]}
  BY DEF StoreLoaded
<1>0. ~SaveAndRestart /\ Loading'
  BY DEF SaveAndRestart, Loading
<1>1. /\ Loading /\ modified = {} /\ UNCHANGED <<saved, saves>>
      /\ \A i, v : ~Choose(i, v)
      /\ \A i : Given(i) => (Preset /\ i = PresetItem) \/ (Import /\ i = Head(toLoad))
      /\ phase = "start" => Preset /\ ~Import /\ \A i \in Kept : NotYet(i)'
      /\ phase = "import" => ~Preset /\ ~Register
      /\ phase = "import" => \A i : NotYet(i)' <=> NotYet(i) /\ ~(Import /\ i = Head(toLoad))
  BY <1>0, LoadingStep DEF LoadInv
<1>2. /\ host \in Computed /\ host \in Services /\ ValueDeps[host] = {Profile}
      /\ Mode \in Computed /\ ValueDeps[Mode] = {Profile} /\ Profile # PresetItem
  BY ServiceIs, KeyIs, RowsAssumption DEF RowsAssumption, host
<1>3. CASE Malcolm(value)'
  <2>1. Malcolm(value) /\ value'[Profile] = value[Profile]
    BY <1>0, <1>3, ProfileStays DEF Malcolm
  <2>2. ASSUME NEW j \in {Mode, host} PROVE ~Due(<<"default", j>>, calls)
    <3>1. CASE phase = "start"
      BY <1>1, <3>1 DEF Preset, Idle, Due
    <3>2. CASE phase = "import"
      BY <2>1, <2>2, <3>2 DEF LoadInv, StoreLoaded
    <3> QED BY <1>1, <3>1, <3>2 DEF Loading
  <2>3. ~Register
    BY <1>1 DEF Register, Preset, Loading
  <2>4. ASSUME NEW j \in {Mode, host} PROVE ~Due(<<"default", j>>, calls')
    <3>1. j \in Computed /\ ValueDeps[j] = {Profile} /\ ~Due(<<"default", j>>, calls)
      BY <1>2, <2>2, <2>4
    <3> QED BY <1>1, <1>2, <2>1, <2>3, <3>1, DueBecause
  <2>5. ASSUME ~NotYet(Mode)' PROVE saved[Mode] = {value'[Mode]}
    <3>1. phase = "import"
      BY <1>1, <2>5, KeyIs DEF Loading
    <3>2. CASE Import /\ Mode = Head(toLoad)
      <4>1. PICK m : saved[Mode] = {m}
        BY <3>1 DEF PhaseOK, FilesAreValid
      <4>2. value'[Mode] = m
        BY <3>2, <4>1, ImportSets
      <4> QED BY <4>1, <4>2
    <3>3. CASE ~(Import /\ Mode = Head(toLoad))
      <4>1. ~NotYet(Mode)
        BY <1>1, <2>5, <3>1, <3>3
      <4>2. value'[Mode] = value[Mode]
        BY <1>0, <1>1, <2>2, <3>3, KeyIs, ValueSet
      <4> QED BY <2>1, <3>1, <4>1, <4>2 DEF LoadInv, StoreLoaded
    <3> QED BY <3>2, <3>3
  <2> QED BY <1>1, <1>3, <2>4, <2>5
<1>4. CASE ~Malcolm(value)'
  <2>1. CASE Malcolm(value)
    <3>1. Due(<<"default", Mode>>, calls')
      BY <1>0, <1>2, <1>4, <2>1, ReadOrDue DEF Malcolm
    <3> QED BY <1>4, <3>1 DEF RuledOrDue
  <2>2. CASE ~Malcolm(value)
    <3>1. phase = "import"
      BY <1>1, <2>2 DEF LoadInv, ProfileLoaded, Loading, Malcolm
    <3>2. RuledOrDue(Mode) \/ saved[Mode] = {value[Mode]}
      BY <2>2, <3>1 DEF LoadInv, StoreLoaded
    <3>3. CASE Import /\ Mode = Head(toLoad)
      <4>1. PICK m : saved[Mode] = {m}
        BY <3>1 DEF PhaseOK, FilesAreValid
      <4>2. value'[Mode] = m
        BY <3>3, <4>1, ImportSets
      <4> QED BY <1>1, <1>4, <4>1, <4>2
    <3>4. CASE ~(Import /\ Mode = Head(toLoad))
      <4>1. ~Given(Mode)
        BY <1>1, <3>4, KeyIs
      <4>2. CASE RuledOrDue(Mode)
        <5>1. RuledOrDue(Mode)'
          BY <1>1, <1>2, <4>1, <4>2, RuleStep
        <5> QED BY <1>4, <5>1
      <4>3. CASE ~RuledOrDue(Mode)
        <5>1. value'[Mode] = value[Mode]
          BY <1>0, <4>1, <4>3, KeyIs, ValueSet DEF RuledOrDue
        <5> QED BY <1>1, <1>4, <3>2, <4>3, <5>1
      <4> QED BY <4>2, <4>3
    <3> QED BY <3>3, <3>4
  <2> QED BY <2>1, <2>2
<1> QED BY <1>3, <1>4

-----------------------------------------------------------------------------
(* The addresses.                                                          *)

\* A value that will show the address, or switch its rule off, is still to be
\* loaded: the profile of a sensor, another store, a store with Dashboards of its own.
AwaitProfile == phase = "import" /\ NotYet(Profile) /\ saved[Profile] # {"malcolm"}
AwaitStore == phase = "import" /\ NotYet(Mode) /\ saved[Mode] # {"opensearch-local"}
AwaitElastic == phase = "import" /\ NotYet(Mode) /\ saved[Mode] = {"elasticsearch-remote"}

\* The store is about to be the own one of a Malcolm, which calls the rule of Dashboards.
StoreFollows ==
    /\ Mode \notin modified /\ RuledOrDue(Mode)
    /\ value[Mode] = "opensearch-remote" \/ ~Malcolm(value)

ServicesRuled ==
    /\ BoundOrShown(host) \/ AwaitProfile
    /\ BoundOrShown(logstash) \/ AwaitProfile
    /\ BoundOrShown(store) \/ AwaitProfile \/ AwaitStore
    /\ RuledOrDue(dashboards) \/ StoreFollows \/ AwaitProfile \/ AwaitElastic

\* Only a valid configuration is saved.
LEMMA FilesStep ==
  ASSUME TheInstaller, IInv, FilesAreValid, LoadInv, ServicesRuled, [Next]_vars
  PROVE  FilesAreValid'
<1>1. CASE SaveAndRestart
  <2> DEFINE u == value
  <2>1. ConfigIssues(u, visible) = {}
    BY <1>1 DEF SaveAndRestart, TheInstaller
  <2>2. \A i \in Kept : saved'[i] = EnvValue(i, u)
    BY <1>1 DEF SaveAndRestart, TheInstaller
  <2>3. {Profile, Mode, host, logstash, store, dashboards} \subseteq Kept
    BY KeyIs, ServiceIs
  <2>4. u[Mode] \in Modes
    BY DEF LoadInv, ValuesTyped
  <2>5. u[Mode] = "opensearch-local" => u[dashboards] = "local"
    <3>1. phase = "menu" /\ Idle /\ calls = <<>> /\ PhaseOK /\ TheRules
      BY <1>1 DEF SaveAndRestart, Idle, IInv, TheInstaller
    <3>2. RuledOrDue(dashboards) \/ StoreFollows
      BY <3>1 DEF ServicesRuled, AwaitProfile, AwaitElastic
    <3>3. CASE RuledOrDue(dashboards)
      <4>1. dashboards \in Computed
        BY ServiceIs
      <4>2. SetAsRuled(dashboards)
        BY <3>1, <3>3, <4>1, Settled
      <4>3. Default(dashboards, Values(ValueDeps[dashboards])) =
               IF value[Mode] # "elasticsearch-remote" THEN {"local"} ELSE {}
        BY <3>1, ServiceDefaults DEF Values, At
      <4> QED BY <4>2, <4>3 DEF SetAsRuled
    <3>4. CASE StoreFollows
      BY <3>1, <3>4, StoreSettled DEF StoreFollows
    <3> QED BY <3>2, <3>3, <3>4
  <2> HIDE DEF u
  <2>6. /\ saved'[Profile] = {u[Profile]} /\ saved'[Mode] = {u[Mode]} /\ saved'[logstash] = {u[logstash]}
        /\ saved'[dashboards] = {u[dashboards]} \ {""}
        /\ saved'[store] = {u[store]} \cap Hosts
        /\ saved'[host] = {IF u[logstash] \in Hosts THEN u[logstash] ELSE ""}
    BY <2>2, <2>3, EnvKept
  <2>7. "local" \notin Hosts
    BY HostsAssumption DEF HostsAssumption
  <2>8. ASSUME saved'[Mode] = {"opensearch-local"}
        PROVE  saved'[store] = {} /\ saved'[dashboards] = {"local"}
    <3>1. u[Mode] = "opensearch-local"
      BY <2>6, <2>8
    <3>2. u[store] = "local"
      BY <2>1, <3>1, Valid
    <3>3. u[dashboards] = "local"
      BY <2>5, <3>1
    <3>4. saved'[store] = {}
      BY <2>6, <2>7, <3>2
    <3>5. saved'[dashboards] = {"local"}
      BY <2>6, <3>3
    <3> QED BY <3>4, <3>5
  <2>9. ASSUME saved'[Profile] = {"malcolm"}
        PROVE  /\ saved'[host] = {""} /\ saved'[logstash] = {"local"}
               /\ saved'[Mode] # {"elasticsearch-remote"} => saved'[dashboards] = {"local"}
    <3>1. Malcolm(u)
      BY <2>6, <2>9 DEF Malcolm
    <3>2. saved'[host] = {""} /\ saved'[logstash] = {"local"}
      <4>1. u[logstash] = "local"
        BY <2>1, <3>1, Valid
      <4> QED BY <2>6, <2>7, <4>1
    <3>3. saved'[Mode] # {"elasticsearch-remote"} => saved'[dashboards] = {"local"}
      <4>1. u[Mode] # "elasticsearch-remote" => u[Mode] \in {"opensearch-local", "opensearch-remote"}
        BY <2>4 DEF Modes, RemoteModes
      <4>2. u[Mode] # "elasticsearch-remote" => u[dashboards] = "local"
        BY <2>1, <3>1, <4>1, Valid
      <4>3. u[dashboards] = "local" => saved'[dashboards] = {"local"}
        BY <2>6
      <4> QED BY <2>6, <4>2, <4>3
    <3> QED BY <3>2, <3>3
  <2> QED BY <2>4, <2>6, <2>8, <2>9 DEF FilesAreValid
<1>2. CASE ~SaveAndRestart
  <2>1. UNCHANGED <<saved, saves>>
    BY <1>2 DEF Next, Compute, Register, Show, Hide, ComputeDefault, Preset, Import, Imported,
                UserChooses, Choose, vars
  <2> QED BY <2>1 DEF FilesAreValid
<1> QED BY <1>1, <1>2

\* Loading a value leaves an item as its rule says when the rule says the same,
\* when the rule is off, and when there is nothing to load.
LEMMA LoadedAsRuled ==
  ASSUME TypeOK, Import, NEW i \in Computed, i = Head(toLoad), RuledOrDue(i),
         \/ saved[i] = {}
         \/ Default(i, Values(ValueDeps[i])) = {}
         \/ \E x : saved[i] = {x} /\ Default(i, Values(ValueDeps[i])) = {x}
  PROVE  RuledOrDue(i)'
<1>1. registered' = registered /\ calls = <<>>
  BY DEF Import, Idle
<1>2. SetAsRuled(i) \/ ~Registered(<<"default", i>>)
  BY <1>1 DEF RuledOrDue, Due
<1>3. i \in Items /\ \A d \in Items \ {i} : value'[d] = value[d]
  BY ImportSets
<1>4. Values(ValueDeps[i])' = Values(ValueDeps[i])
  BY <1>3, RulesAssumption DEF Values, RulesAssumption
<1>5. CASE saved[i] = {}
  <2>1. value' = value
    BY <1>5, ImportSets
  <2> QED BY <1>1, <1>2, <2>1 DEF RuledOrDue, SetAsRuled, Values, Registered
<1>6. CASE Default(i, Values(ValueDeps[i])) = {}
  BY <1>4, <1>6 DEF RuledOrDue, SetAsRuled
<1>7. ASSUME NEW x, saved[i] = {x}, Default(i, Values(ValueDeps[i])) = {x}
      PROVE  RuledOrDue(i)'
  <2>1. value'[i] = x
    BY <1>7, ImportSets
  <2> QED BY <1>4, <1>7, <2>1 DEF RuledOrDue, SetAsRuled
<1> QED BY <1>5, <1>6, <1>7

\* An item its rule shows may have any value.
LEMMA LoadedIsShown ==
  ASSUME TypeOK, Import, NEW i \in Bound, i = Head(toLoad), Shown(i, Values(ShowDeps[i]))
  PROVE  BoundOrShown(i)'
<1>1. \A d \in ShowDeps[i] : d \in Items \ {i}
  BY RulesAssumption DEF RulesAssumption, Bound
<1>2. \A d \in ShowDeps[i] : value'[d] = value[d]
  BY <1>1, ImportSets
<1>3. Values(ShowDeps[i])' = Values(ShowDeps[i])
  BY <1>2 DEF Values
<1> QED BY <1>3 DEF BoundOrShown

\* A value is awaited until it is loaded.
LEMMA AwaitStep ==
  ASSUME TypeOK, PhaseOK, LoadInv, [Next]_vars, phase = "import", NEW i, NotYet(i),
         ~(Import /\ i = Head(toLoad))
  PROVE  phase' = "import" /\ NotYet(i)' /\ saved' = saved
<1>1. ~SaveAndRestart
  BY DEF SaveAndRestart
<1>2. toLoad # <<>>
  BY DEF NotYet
<1>3. phase' = "import"
  BY <1>1, <1>2 DEF Next, Compute, Register, Show, Hide, ComputeDefault, Preset, Import, Imported,
                    UserChooses, Choose, vars
<1>4. Loading'
  BY <1>3 DEF Loading
<1>5. (NotYet(i)' <=> NotYet(i) /\ ~(Import /\ i = Head(toLoad))) /\ saved' = saved
  BY <1>1, <1>4, LoadingStep DEF LoadInv
<1> QED BY <1>3, <1>5

\* When the profile of a sensor is loaded, all addresses are shown but the one of
\* Dashboards, whose rule follows the store.
LEMMA ProfileArrives ==
  ASSUME TheInstaller, TypeOK, PhaseOK, FilesAreValid, LoadInv, [Next]_vars, AwaitProfile, Import, Profile = Head(toLoad)
  PROVE  /\ \A i \in {host, logstash, store} : BoundOrShown(i)'
         /\ StoreFollows'
<1>1. PICK p : saved[Profile] = {p}
  BY DEF AwaitProfile, PhaseOK, FilesAreValid
<1>2. value'[Profile] = p /\ p # "malcolm"
  BY <1>1, ImportSets DEF AwaitProfile
<1>3. ~Malcolm(value)' /\ ~Malcolm(value')
  BY <1>2 DEF Malcolm
<1>4. \A i \in {host, logstash, store} : Shown(i, At(ShowDeps[i], value'))
  BY <1>3, ServiceShown DEF TheInstaller
<1>5. \A i \in {host, logstash, store} : BoundOrShown(i)'
  BY <1>4 DEF BoundOrShown, Values, At
<1>6. value[Profile] = "malcolm"
  BY DEF AwaitProfile, LoadInv, ProfileLoaded, Loading
<1>7. ~SaveAndRestart
  BY DEF AwaitProfile, SaveAndRestart
<1>8. Due(<<"default", Mode>>, calls')
  BY <1>2, <1>6, <1>7, KeyIs, ReadOrDue
<1>9. Mode \notin modified'
  BY DEF Import, AwaitProfile, LoadInv, NothingChosen, Loading
<1> QED BY <1>3, <1>5, <1>8, <1>9 DEF StoreFollows, RuledOrDue

\* When another store is loaded, its address is shown.
LEMMA StoreArrives ==
  ASSUME TheInstaller, TypeOK, PhaseOK, FilesAreValid, Import, Mode = Head(toLoad)
  PROVE  /\ AwaitStore => BoundOrShown(store)'
         /\ AwaitElastic => RuledOrDue(dashboards)'
<1>1. PICK m : saved[Mode] = {m}
  BY DEF Import, PhaseOK, FilesAreValid
<1>2. value'[Mode] = m
  BY <1>1, ImportSets
<1>3. ASSUME AwaitStore PROVE BoundOrShown(store)'
  <2>1. ~LocalStore(value')
    BY <1>1, <1>2, <1>3 DEF AwaitStore, LocalStore
  <2>2. Shown(store, At(ShowDeps[store], value'))
    BY <2>1, ServiceShown DEF TheInstaller
  <2> QED BY <2>2 DEF BoundOrShown, Values, At
<1>4. ASSUME AwaitElastic PROVE RuledOrDue(dashboards)'
  <2>1. value'[Mode] = "elasticsearch-remote"
    BY <1>1, <1>2, <1>4 DEF AwaitElastic
  <2>2. Default(dashboards, At(ValueDeps[dashboards], value')) = {}
    BY <2>1, ServiceDefaults DEF TheInstaller
  <2> QED BY <2>2 DEF RuledOrDue, SetAsRuled, Values, At
<1> QED BY <1>3, <1>4

\* The address of another Malcolm or its Logstash is loaded.
LEMMA HostsLoaded ==
  ASSUME TheInstaller, TypeOK, PhaseOK, FilesAreValid, LoadInv, Import,
         NEW i \in {host, logstash}, i = Head(toLoad), BoundOrShown(i), saved[Profile] = {"malcolm"}
  PROVE  BoundOrShown(i)'
<1>1. i \in Bound /\ i \in Computed
  BY ServiceIs DEF Bound
<1>2. CASE Shown(i, Values(ShowDeps[i]))
  BY <1>1, <1>2, LoadedIsShown
<1>3. CASE ~Shown(i, Values(ShowDeps[i]))
  <2>1. RuledOrDue(i)
    BY <1>3 DEF BoundOrShown
  <2>2. Malcolm(value)
    BY <1>3, ServiceShown DEF TheInstaller, Values, At
  <2>3. saves # 0
    BY DEF Import, PhaseOK
  <2>4. \E x : saved[i] = {x} /\ Default(i, Values(ValueDeps[i])) = {x}
    BY <2>2, <2>3, ServiceDefaults DEF TheInstaller, FilesAreValid, Values, At
  <2>5. RuledOrDue(i)'
    BY <1>1, <2>1, <2>4, LoadedAsRuled
  <2> QED BY <2>5 DEF BoundOrShown
<1> QED BY <1>2, <1>3

\* Each step keeps the addresses as their rules say.
LEMMA HostStepRuled ==
  ASSUME TheInstaller, IInv, FilesAreValid, LoadInv, [Next]_vars,
         NEW i \in {host, logstash}, BoundOrShown(i) \/ AwaitProfile
  PROVE  BoundOrShown(i)' \/ AwaitProfile'
<1>0. TypeOK /\ PhaseOK
  BY DEF IInv
<1>1. i \in Bound /\ i # PresetItem /\ i \in Services
  BY ServiceIs
<1>2. CASE AwaitProfile
  <2>1. CASE Import /\ Profile = Head(toLoad)
    BY <1>0, <1>2, <2>1, ProfileArrives
  <2>2. CASE ~(Import /\ Profile = Head(toLoad))
    BY <1>0, <1>2, <2>2, AwaitStep DEF AwaitProfile
  <2> QED BY <2>1, <2>2
<1>3. CASE BoundOrShown(i) /\ ~AwaitProfile
  <2>1. CASE ~(Import /\ i = Head(toLoad))
    BY <1>1, <1>3, <2>1, BoundStep
  <2>2. CASE Import /\ i = Head(toLoad)
    <3>1. CASE saved[Profile] = {"malcolm"}
      BY <1>0, <1>3, <2>2, <3>1, HostsLoaded
    <3>2. CASE saved[Profile] # {"malcolm"}
      <4>1. phase = "import" /\ ~NotYet(Profile) /\ saved[Profile] = {value[Profile]}
        BY <1>3, <2>2, <3>2 DEF Import, AwaitProfile, LoadInv, ProfileLoaded, Loading
      <4>2. ~Malcolm(value)
        BY <3>2, <4>1 DEF Malcolm
      <4>3. Shown(i, Values(ShowDeps[i]))
        BY <4>2, ServiceShown DEF TheInstaller, Values, At
      <4> QED BY <1>0, <1>1, <2>2, <4>3, LoadedIsShown
    <3> QED BY <3>1, <3>2
  <2> QED BY <2>1, <2>2
<1> QED BY <1>2, <1>3

LEMMA StoreStepRuled ==
  ASSUME TheInstaller, IInv, FilesAreValid, LoadInv, [Next]_vars,
         BoundOrShown(store) \/ AwaitProfile \/ AwaitStore
  PROVE  BoundOrShown(store)' \/ AwaitProfile' \/ AwaitStore'
<1>0. TypeOK /\ PhaseOK
  BY DEF IInv
<1>1. store \in Bound /\ store # PresetItem /\ store \in Services /\ store \in Computed
  BY ServiceIs
<1>2. CASE AwaitProfile
  <2>1. CASE Import /\ Profile = Head(toLoad)
    BY <1>0, <1>2, <2>1, ProfileArrives
  <2>2. CASE ~(Import /\ Profile = Head(toLoad))
    BY <1>0, <1>2, <2>2, AwaitStep DEF AwaitProfile
  <2> QED BY <2>1, <2>2
<1>3. CASE AwaitStore
  <2>1. CASE Import /\ Mode = Head(toLoad)
    BY <1>0, <1>3, <2>1, StoreArrives
  <2>2. CASE ~(Import /\ Mode = Head(toLoad))
    BY <1>0, <1>3, <2>2, AwaitStep DEF AwaitStore
  <2> QED BY <2>1, <2>2
<1>4. CASE BoundOrShown(store) /\ ~AwaitProfile /\ ~AwaitStore
  <2>1. CASE ~(Import /\ store = Head(toLoad))
    BY <1>1, <1>4, <2>1, BoundStep
  <2>2. CASE Import /\ store = Head(toLoad) /\ Shown(store, Values(ShowDeps[store]))
    BY <1>0, <1>1, <2>2, LoadedIsShown
  <2>3. CASE Import /\ store = Head(toLoad) /\ ~Shown(store, Values(ShowDeps[store]))
    <3>1. Malcolm(value) /\ LocalStore(value)
      BY <2>3, ServiceShown DEF TheInstaller, Values, At
    <3>2. saved[Mode] = {"opensearch-local"}
      BY <1>4, <2>3, <3>1 DEF AwaitStore, LoadInv, StoreLoaded, Import, LocalStore
    <3>3. saved[store] = {}
      BY <1>0, <2>3, <3>2 DEF Import, PhaseOK, FilesAreValid
    <3>4. RuledOrDue(store)
      BY <1>4, <2>3 DEF BoundOrShown
    <3>5. RuledOrDue(store)'
      BY <1>0, <1>1, <2>3, <3>3, <3>4, LoadedAsRuled
    <3> QED BY <3>5 DEF BoundOrShown
  <2> QED BY <2>1, <2>2, <2>3
<1> QED BY <1>2, <1>3, <1>4

\* A step keeps a store that follows the profile, or calls the rule of Dashboards.
LEMMA StoreFollowsStep ==
  ASSUME TheInstaller, IInv, StoreFollows, [Next]_vars, ~SaveAndRestart
  PROVE  RuledOrDue(dashboards)' \/ StoreFollows'
<1>0. TypeOK /\ PhaseOK /\ TheRules
  BY DEF IInv, TheInstaller
<1>1. dashboards \in Computed /\ Mode \in ValueDeps[dashboards]
  BY ServiceIs, RowsAssumption DEF RowsAssumption, dashboards
<1>2. CASE Due(<<"default", dashboards>>, calls')
  BY <1>2 DEF RuledOrDue
<1>3. CASE ~Due(<<"default", dashboards>>, calls')
  <2>1. value'[Mode] = value[Mode]
    BY <1>0, <1>1, <1>3, ReadOrDue
  <2>2. ~(\E v : Choose(Mode, v))
    BY <1>1, <1>3, KeyIs, ObserversType DEF Choose, SetValue
  <2>3. Mode \notin modified'
    <3>1. CASE Preset
      BY <3>1, KeyIs DEF Preset, SetValue, StoreFollows
    <3>2. CASE UserChooses
      <4>1. PICK i \in menu \ {PresetItem} : \E v : Choose(i, v)
        BY <3>2 DEF UserChooses
      <4>2. i # Mode
        BY <2>2, <4>1
      <4> QED BY <4>1, <4>2 DEF Choose, SetValue, StoreFollows
    <3>3. CASE ~Preset /\ ~UserChooses
      BY <3>3 DEF StoreFollows, Next, Compute, Register, Show, Hide, ComputeDefault, Import, Imported, vars
    <3> QED BY <3>1, <3>2, <3>3
  <2>4. RuledOrDue(Mode)'
    <3>1. CASE ~Given(Mode)
      BY <1>0, <3>1, KeyIs, RuleStep DEF StoreFollows
    <3>2. CASE Given(Mode)
      <4>1. Import /\ Mode = Head(toLoad)
        BY <2>2, <3>2, KeyIs DEF Given
      <4>2. \A d \in ValueDeps[Mode] : value'[d] = value[d]
        BY <1>0, <4>1, ImportSets, KeyIs
      <4>3. Values(ValueDeps[Mode])' = Values(ValueDeps[Mode])
        BY <4>2 DEF Values
      <4>4. ~Due(<<"default", Mode>>, calls) /\ registered' = registered
        BY <4>1 DEF Import, Idle, Due
      <4> QED BY <2>1, <4>3, <4>4 DEF StoreFollows, RuledOrDue, SetAsRuled, Registered
    <3> QED BY <3>1, <3>2
  <2>5. value'[Mode] = "opensearch-remote" \/ ~Malcolm(value)'
    <3>1. CASE value[Mode] = "opensearch-remote"
      BY <2>1, <3>1
    <3>2. CASE ~Malcolm(value) /\ value'[Profile] = value[Profile]
      BY <3>2 DEF Malcolm
    <3>3. CASE ~Malcolm(value) /\ value'[Profile] # value[Profile]
      <4>1. Given(Profile)
        BY <1>0, <3>3, KeyIs, ValueSet
      <4>2. phase # "start" /\ calls = <<>>
        BY <4>1, KeyIs DEF Given, Import, Choose, Idle
      <4>3. value[Mode] = "opensearch-remote"
        BY <1>0, <3>3, <4>2, StoreSettled DEF StoreFollows
      <4> QED BY <2>1, <4>3
    <3> QED BY <3>1, <3>2, <3>3 DEF StoreFollows
  <2> QED BY <2>3, <2>4, <2>5 DEF StoreFollows
<1> QED BY <1>2, <1>3

\* The address of Dashboards is loaded.
LEMMA DashboardsLoaded ==
  ASSUME TheInstaller, IInv, FilesAreValid, LoadInv, [Next]_vars, Import, dashboards = Head(toLoad),
         RuledOrDue(dashboards) \/ StoreFollows, ~AwaitProfile, ~AwaitElastic
  PROVE  RuledOrDue(dashboards)' \/ StoreFollows'
<1>0. TypeOK /\ PhaseOK /\ TheRules
  BY DEF IInv, TheInstaller
<1>1. /\ dashboards \in Computed /\ phase = "import" /\ phase # "start" /\ calls = <<>> /\ saves # 0
      /\ Loading /\ ~SaveAndRestart
  BY <1>0, ServiceIs DEF Import, Idle, PhaseOK, Loading, SaveAndRestart
<1>2. Default(dashboards, Values(ValueDeps[dashboards])) =
         IF value[Mode] # "elasticsearch-remote" THEN {"local"} ELSE {}
  BY <1>0, ServiceDefaults DEF Values, At
<1>3. CASE StoreFollows
  BY <1>1, <1>3, StoreFollowsStep
<1>4. CASE RuledOrDue(dashboards) /\ value[Mode] = "elasticsearch-remote"
  BY <1>0, <1>1, <1>2, <1>4, LoadedAsRuled
<1>5. CASE RuledOrDue(dashboards) /\ saved[dashboards] = {"local"}
  BY <1>0, <1>1, <1>2, <1>5, LoadedAsRuled
<1>6. CASE value[Mode] # "elasticsearch-remote" /\ saved[dashboards] # {"local"}
  <2>1. saved[Profile] # {"malcolm"} \/ saved[Mode] = {"elasticsearch-remote"}
    BY <1>1, <1>6 DEF FilesAreValid
  <2>2. ~Malcolm(value)
    <3>1. ASSUME Malcolm(value) PROVE FALSE
      <4>1. saved[Profile] = {"malcolm"}
        BY <1>1, <3>1 DEF AwaitProfile, LoadInv, ProfileLoaded, Malcolm
      <4>2. NotYet(Mode)
        BY <1>1, <1>6, <2>1, <3>1, <4>1 DEF LoadInv, StoreLoaded
      <4> QED BY <1>1, <2>1, <4>1, <4>2 DEF AwaitElastic
    <3> QED BY <3>1
  <2>3. RuledOrDue(Mode)
    <3>1. CASE saved[Mode] = {value[Mode]}
      <4>1. value[Mode] \in Modes /\ value[Mode] # "opensearch-local"
        BY <1>1, <1>6, <3>1 DEF FilesAreValid, LoadInv, ValuesTyped
      <4>2. value[Mode] = "opensearch-remote"
        BY <1>6, <4>1 DEF Modes, RemoteModes
      <4>3. SetAsRuled(Mode)
        BY <1>0, <2>2, <4>2, ModeRule DEF SetAsRuled
      <4> QED BY <4>3 DEF RuledOrDue
    <3> QED BY <1>1, <2>2, <3>1 DEF LoadInv, StoreLoaded
  <2>4. StoreFollows
    BY <1>1, <2>2, <2>3 DEF StoreFollows, LoadInv, NothingChosen
  <2> QED BY <1>1, <2>4, StoreFollowsStep
<1> QED BY <1>3, <1>4, <1>5, <1>6

LEMMA DashboardsStepRuled ==
  ASSUME TheInstaller, IInv, FilesAreValid, LoadInv, [Next]_vars,
         RuledOrDue(dashboards) \/ StoreFollows \/ AwaitProfile \/ AwaitElastic
  PROVE  RuledOrDue(dashboards)' \/ StoreFollows' \/ AwaitProfile' \/ AwaitElastic'
<1>0. TypeOK /\ PhaseOK /\ TheRules
  BY DEF IInv, TheInstaller
<1>1. /\ dashboards \in Ruled /\ dashboards \in Computed /\ dashboards \notin modified
      /\ dashboards \in Items /\ dashboards # PresetItem
      /\ dashboards \notin ValueDeps[dashboards] /\ ValueDeps[dashboards] \subseteq Items
  BY <1>0, ServiceIs, RulesAssumption DEF TypeOK, RulesAssumption
<1>2. CASE AwaitProfile
  <2>1. CASE Import /\ Profile = Head(toLoad)
    BY <1>0, <1>2, <2>1, ProfileArrives
  <2>2. CASE ~(Import /\ Profile = Head(toLoad))
    BY <1>0, <1>2, <2>2, AwaitStep DEF AwaitProfile
  <2> QED BY <2>1, <2>2
<1>3. CASE AwaitElastic
  <2>1. CASE Import /\ Mode = Head(toLoad)
    BY <1>0, <1>3, <2>1, StoreArrives
  <2>2. CASE ~(Import /\ Mode = Head(toLoad))
    BY <1>0, <1>3, <2>2, AwaitStep DEF AwaitElastic
  <2> QED BY <2>1, <2>2
<1>4. CASE ~AwaitProfile /\ ~AwaitElastic
  <2>1. CASE SaveAndRestart
    BY <1>1, <2>1, NoneRegistered DEF RuledOrDue, Rules
  <2>2. CASE Import /\ dashboards = Head(toLoad)
    BY <1>4, <2>2, DashboardsLoaded
  <2>3. CASE StoreFollows /\ ~SaveAndRestart
    BY <2>3, StoreFollowsStep
  <2>4. CASE \E v : Choose(dashboards, v)
    <3>1. PICK v : Choose(dashboards, v)
      BY <2>4
    <3>2. /\ Shown(dashboards, Values(ShowDeps[dashboards]))
          /\ \A d \in Items \ {dashboards} : value'[d] = value[d]
      BY <1>1, <3>1, ChosenIsShown
    <3>3. value[Mode] = "elasticsearch-remote"
      BY <1>0, <3>2, ServiceShown DEF Values, At
    <3>4. Default(dashboards, Values(ValueDeps[dashboards])) = {}
      BY <1>0, <3>3, ServiceDefaults DEF Values, At
    <3>5. Values(ValueDeps[dashboards])' = Values(ValueDeps[dashboards])
      BY <1>1, <3>2 DEF Values
    <3> QED BY <3>4, <3>5 DEF RuledOrDue, SetAsRuled
  <2>5. CASE RuledOrDue(dashboards) /\ ~Given(dashboards)
    BY <1>0, <1>1, <2>5, RuleStep
  <2> QED BY <1>1, <1>4, <2>1, <2>2, <2>3, <2>4, <2>5 DEF Given
<1> QED BY <1>2, <1>3, <1>4

\* How the installer starts.
LEMMA LoadInit ==
  ASSUME TheInstaller, Init
  PROVE  FilesAreValid /\ LoadInv /\ ServicesRuled
<1>1. /\ value = Initial /\ modified = {} /\ visible = Items /\ phase = "start" /\ toLoad = <<>>
      /\ saves = 0 /\ registered = 0
  BY DEF Init, Fresh
<1>2. Initial[Profile] = "malcolm" /\ Initial[Mode] \in Modes
  BY RowsAssumption DEF RowsAssumption, Modes
<1>3. LoadedOnce
  BY <1>1 DEF LoadedOnce
<1>4. FilesAreValid /\ LoadInv
  BY <1>1, <1>2, <1>3 DEF LoadInv, FilesAreValid, NothingChosen, ValuesTyped, TopIsShown,
                          ProfileLoaded, StoreLoaded
<1>5. \A r \in Rules : ~Registered(r)
  BY <1>1, Numbers DEF Registered
<1>6. \A i \in Services : RuledOrDue(i)
  BY <1>5, ServiceIs DEF RuledOrDue, Rules
<1> QED BY <1>4, <1>6, ServiceIs DEF ServicesRuled, BoundOrShown

\* All this holds of every behaviour.
LEMMA LoadInductive == ASSUME TheInstaller PROVE Spec => []FilesAreValid /\ []LoadInv /\ []ServicesRuled
<1>1. Init => FilesAreValid /\ LoadInv /\ ServicesRuled
  BY LoadInit
<1>2. IInv /\ FilesAreValid /\ LoadInv /\ ServicesRuled /\ [Next]_vars
         => FilesAreValid' /\ LoadInv' /\ ServicesRuled'
  <2> SUFFICES ASSUME IInv, FilesAreValid, LoadInv, ServicesRuled, [Next]_vars
               PROVE  FilesAreValid' /\ LoadInv' /\ ServicesRuled'
    OBVIOUS
  <2>1. TypeOK /\ PhaseOK
    BY DEF IInv
  <2>2. FilesAreValid'
    BY FilesStep
  <2>3. NothingChosen' /\ ValuesTyped' /\ TopIsShown'
    BY <2>1, NothingChosenStep, ValuesTypedStep, TopIsShownStep DEF LoadInv
  <2>4. ProfileLoaded' /\ StoreLoaded'
    BY <2>1, ProfileStep, StoreStep
  <2>5. BoundOrShown(host)' \/ AwaitProfile'
    BY HostStepRuled DEF ServicesRuled
  <2>6. BoundOrShown(logstash)' \/ AwaitProfile'
    BY HostStepRuled DEF ServicesRuled
  <2>7. BoundOrShown(store)' \/ AwaitProfile' \/ AwaitStore'
    BY StoreStepRuled DEF ServicesRuled
  <2>8. RuledOrDue(dashboards)' \/ StoreFollows' \/ AwaitProfile' \/ AwaitElastic'
    BY DashboardsStepRuled DEF ServicesRuled
  <2> QED BY <2>2, <2>3, <2>4, <2>5, <2>6, <2>7, <2>8 DEF LoadInv, ServicesRuled
<1> QED BY <1>1, <1>2, Inductive, PTL DEF Spec

\* When the menu of a Malcolm is on the screen it has no host of another Malcolm,
\* and each address of a service that the menu does not show is its own, whatever
\* was chosen for a sensor or another store before, and also when the
\* configuration was saved and loaded any number of times, the .env files being met
\* in any order: while their values are applied one by one
\* (MalcolmConfig._apply_env_candidates) the rules of dependencies.py set what
\* validate_required let pass when it was saved.  Of the address of WISE this is so
\* before a save: the value that shows it, liveArkime, may be set back after it was
\* loaded.
THEOREM ServicesComeHome == ASSUME TheInstaller PROVE Spec => []HiddenServicesAreLocal
<1> DEFINE WiseRuled == saves = 0 => \A i \in Bound \ {PresetItem} : BoundOrShown(i)
<1>1. IInv /\ LoadInv /\ ServicesRuled /\ WiseRuled => HiddenServicesAreLocal
  <2> SUFFICES ASSUME IInv, LoadInv, ServicesRuled, WiseRuled, AtMenu, Malcolm(value)
               PROVE  /\ value[host] = ""
                      /\ \A i \in {logstash, store, dashboards} \ visible : value[i] = "local"
                      /\ saves = 0 /\ wise \notin visible => value[wise] = "local"
    BY DEF HiddenServicesAreLocal, host, logstash, store, dashboards, wise
  <2>0. TheRules /\ PhaseOK /\ phase = "menu" /\ phase # "start" /\ calls = <<>>
    BY DEF TheInstaller, IInv, AtMenu, Idle
  <2>1. \A i \in Computed : RuledOrDue(i) => SetAsRuled(i)
    BY <2>0, Settled
  <2>2. \A i \in {host, logstash, store} : Shown(i, Values(ShowDeps[i])) \/ SetAsRuled(i)
    BY <2>0, <2>1, ServiceIs DEF ServicesRuled, BoundOrShown, AwaitProfile, AwaitStore
  <2>3. saves = 0 => Shown(wise, Values(ShowDeps[wise])) \/ SetAsRuled(wise)
    BY <2>1, ServiceIs DEF BoundOrShown
  <2>4. value[host] = "" /\ value[logstash] = "local"
    <3>1. SetAsRuled(host) /\ SetAsRuled(logstash)
      BY <2>0, <2>2, ServiceShown DEF Values, At
    <3>2. /\ Default(host, Values(ValueDeps[host])) = {""}
          /\ Default(logstash, Values(ValueDeps[logstash])) = {"local"}
      BY <2>0, ServiceDefaults DEF Values, At
    <3> QED BY <3>1, <3>2 DEF SetAsRuled
  <2>5. ASSUME NEW i \in Ruled, i \notin visible, Parent[i] \in visible
        PROVE  ~Shown(i, Values(ShowDeps[i]))
    <3>1. <<"show", i>> \in Rules
      BY DEF Rules
    <3>2. ShownAsRuled(i)
      BY <3>1, MenuIsQuiet DEF AtMenu, IInv, ShownOrDue
    <3> QED BY <2>5, <3>2 DEF ShownAsRuled, IsShown
  <2>6. Profile \in visible /\ "autoArkime" \in visible
    BY RowsAssumption DEF RowsAssumption, LoadInv, TopIsShown
  <2>7. Mode \in visible
    <3>1. CASE Mode \in Ruled
      <4>1. Parent[Mode] = Profile
        BY RowsAssumption DEF RowsAssumption
      <4>2. Shown(Mode, Values(ShowDeps[Mode]))
        BY <2>0, ServiceShown DEF Values, At
      <4> QED BY <2>5, <2>6, <3>1, <4>1, <4>2
    <3>2. CASE Mode \notin Ruled
      BY <3>2, KeyIs DEF LoadInv, TopIsShown
    <3> QED BY <3>1, <3>2
  <2>8. /\ Parent[store] = Mode /\ Parent[dashboards] = Mode /\ Parent[wise] = "autoArkime"
        /\ store \in Ruled /\ dashboards \in Ruled /\ wise \in Ruled /\ dashboards \in Computed
    BY ServiceIs, RowsAssumption DEF RowsAssumption, store, dashboards, wise
  <2>9. ASSUME store \notin visible PROVE value[store] = "local"
    <3>1. ~Shown(store, Values(ShowDeps[store]))
      BY <2>5, <2>7, <2>8, <2>9
    <3>2. LocalStore(value) /\ SetAsRuled(store)
      BY <2>0, <2>2, <3>1, ServiceShown DEF Values, At
    <3>3. Default(store, Values(ValueDeps[store])) = {"local"}
      BY <2>0, <3>2, ServiceDefaults DEF Values, At
    <3> QED BY <3>2, <3>3 DEF SetAsRuled
  <2>10. ASSUME saves = 0, wise \notin visible PROVE value[wise] = "local"
    <3>1. ~Shown(wise, Values(ShowDeps[wise]))
      BY <2>5, <2>6, <2>8, <2>10
    <3>2. ~value[arkime] /\ SetAsRuled(wise)
      BY <2>0, <2>3, <2>10, <3>1, ServiceShown DEF Values, At
    <3>3. Default(wise, Values(ValueDeps[wise])) = {"local"}
      BY <2>0, <3>2, ServiceDefaults DEF Values, At
    <3> QED BY <3>2, <3>3 DEF SetAsRuled
  <2>11. ASSUME dashboards \notin visible PROVE value[dashboards] = "local"
    <3>1. ~Shown(dashboards, Values(ShowDeps[dashboards]))
      BY <2>5, <2>7, <2>8, <2>11
    <3>2. value[Mode] # "elasticsearch-remote"
      BY <2>0, <3>1, ServiceShown DEF Values, At
    <3>3. ~StoreFollows
      BY <2>0, StoreSettled DEF StoreFollows
    <3>4. SetAsRuled(dashboards)
      BY <2>0, <2>1, <2>8, <3>3 DEF ServicesRuled, AwaitProfile, AwaitElastic
    <3>5. Default(dashboards, Values(ValueDeps[dashboards])) = {"local"}
      BY <2>0, <3>2, ServiceDefaults DEF Values, At
    <3> QED BY <3>4, <3>5 DEF SetAsRuled
  <2> QED BY <2>4, <2>9, <2>10, <2>11
<1>2. Spec => []WiseRuled
  BY BoundInductive
<1> QED BY <1>1, <1>2, Inductive, LoadInductive, PTL

-----------------------------------------------------------------------------
(* What is loaded of the addresses.                                        *)

Hostless == {"", "local"} \cup Hosts

\* What a valid configuration has of its addresses in its files: the host of
\* another Malcolm is read from the address of Logstash.
AddressFiles ==
    saves # 0 =>
        /\ \E l \in Hostless : /\ saved[logstash] = {l}
                               /\ saved[host] = {IF l \in Hosts THEN l ELSE ""}
                               /\ saved[Profile] # {"malcolm"} => l # "local"
        /\ saved[store] = {} \/ \E s \in Hosts : saved[store] = {s}
        /\ \E d : saved[dashboards] \subseteq {d}

AddressesTyped == value[host] \in {""} \cup Hosts /\ value[logstash] \in Hostless

\* There is no host of another Malcolm until it is loaded, and then it stays.
HostLoaded ==
    Loading => IF phase = "import" /\ ~NotYet(host) THEN saved[host] = {value[host]}
               ELSE value[host] = ""

\* The rules of a Malcolm's addresses are due only when there is a host of another
\* one, or the store was loaded.
AddressesDue ==
    phase = "import" /\ Malcolm(value) =>
        /\ value[host] = "" => ~Due(<<"default", logstash>>, calls)
        /\ value[host] = "" /\ NotYet(Mode) => ~Due(<<"default", store>>, calls)
        /\ NotYet(Mode) => ~Due(<<"default", dashboards>>, calls)

\* What is loaded of a Malcolm stays.
MalcolmLoaded ==
    phase = "import" /\ saved[Profile] = {"malcolm"} =>
        \A i \in {logstash, store, dashboards} : ~NotYet(i) => saved[i] \subseteq {value[i]}

\* What is loaded of a sensor stays, or its rule will give it the same when the
\* profile is loaded.
LogstashLoaded ==
    phase = "import" /\ saved[Profile] # {"malcolm"} /\ ~NotYet(logstash) =>
        \/ saved[logstash] = {value[logstash]}
        \/ value[host] # "" /\ (NotYet(Profile) \/ RuledOrDue(logstash))
StoreKept ==
    phase = "import" /\ saved[Profile] # {"malcolm"} /\ OneHost(saved) /\ ~NotYet(store) =>
        \/ saved[store] \subseteq {value[store]}
        \/ value[host] # "" /\ (NotYet(Profile) \/ (RuledOrDue(store) /\ RuledOrDue(Mode)))

AddressInv ==
    /\ AddressFiles /\ AddressesTyped /\ HostLoaded /\ AddressesDue
    /\ MalcolmLoaded /\ LogstashLoaded /\ StoreKept

\* The addresses one by one.
LEMMA AddressIs ==
  /\ ValueDeps[host] = {Profile} /\ ValueDeps[logstash] = {Profile, host}
  /\ ValueDeps[store] = {Profile, Mode, host} /\ ValueDeps[dashboards] = {Mode}
  /\ PresetItem \notin {Profile, Mode, host, logstash, store, dashboards}
  /\ {host, logstash, store, dashboards} \subseteq Items \cap Kept \cap Computed
  /\ host # logstash /\ host # store /\ host # dashboards /\ logstash # store
  /\ \A i \in {host, logstash, store, dashboards} : i # Profile /\ i # Mode
<1>1. /\ ValueDeps[host] = {Profile} /\ ValueDeps[logstash] = {Profile, host}
      /\ ValueDeps[store] = {Profile, Mode, host} /\ ValueDeps[dashboards] = {Mode}
  BY RowsAssumption DEF RowsAssumption, host, logstash, store, dashboards
<1>2. host # logstash /\ host # store /\ host # dashboards /\ logstash # store
  BY DEF host, logstash, store, dashboards
<1>3. \A i \in {host, logstash, store, dashboards} : i # Profile /\ i # Mode
  BY DEF host, logstash, store, dashboards, Profile, Mode
<1> QED BY <1>1, <1>2, <1>3, ServiceIs, KeyIs

\* What the menu lets the user give.
LEMMA AddressOptions ==
  OptionsOf(host) \subseteq {""} \cup Hosts /\ OptionsOf(logstash) \subseteq Hostless
<1>1. \A i \in {host, logstash} : i \notin OnAtFirst \cup OffAtFirst
  BY DEF OnAtFirst, OffAtFirst, AutoItems, Engines, Ports, Live, host, logstash
<1>2. \A i \in {host, logstash} : i \notin {Profile, Orchestration, Mode}
  BY DEF Profile, Orchestration, Mode, host, logstash
<1>3. OptionsOf(host) = {""} \cup Hosts
  BY <1>1, <1>2 DEF OptionsOf, host
<1>4. OptionsOf(logstash) = {"", "local"} \cup Hosts
  BY <1>1, <1>2 DEF OptionsOf, logstash
<1> QED BY <1>3, <1>4 DEF Hostless

\* Only a valid configuration is saved.
LEMMA AddressFilesStep ==
  ASSUME TheInstaller, TypeOK, AddressFiles, AddressesTyped, [Next]_vars
  PROVE  AddressFiles'
<1>1. CASE SaveAndRestart
  <2> DEFINE u == value
  <2>1. ConfigIssues(u, visible) = {}
    BY <1>1 DEF SaveAndRestart, TheInstaller
  <2>2. \A i \in Kept : saved'[i] = EnvValue(i, u)
    BY <1>1 DEF SaveAndRestart, TheInstaller
  <2>3. u[logstash] \in Hostless
    BY DEF AddressesTyped
  <2> HIDE DEF u
  <2>4. /\ saved'[Profile] = {u[Profile]} /\ saved'[logstash] = {u[logstash]}
        /\ saved'[dashboards] = {u[dashboards]} \ {""}
        /\ saved'[store] = {u[store]} \cap Hosts
        /\ saved'[host] = {IF u[logstash] \in Hosts THEN u[logstash] ELSE ""}
    BY <2>2, AddressIs, KeyIs, EnvKept
  <2>5. saved'[Profile] # {"malcolm"} => u[logstash] # "local"
    <3>1. u[logstash] = "local" <=> Malcolm(u)
      BY <2>1, Valid
    <3> QED BY <2>4, <3>1 DEF Malcolm
  <2>6. saved'[store] = {} \/ \E s \in Hosts : saved'[store] = {s}
    <3>1. CASE u[store] \in Hosts
      <4>1. saved'[store] = {u[store]}
        BY <2>4, <3>1
      <4> QED BY <3>1, <4>1
    <3>2. CASE u[store] \notin Hosts
      <4>1. saved'[store] = {u[store]} \cap Hosts
        BY <2>4
      <4>2. saved'[store] = {}
        BY <3>2, <4>1
      <4> QED BY <4>2
    <3> QED BY <3>1, <3>2
  <2>7. saved'[dashboards] \subseteq {u[dashboards]}
    BY <2>4
  <2>8. \E d : saved'[dashboards] \subseteq {d}
    BY <2>7
  <2> QED BY <2>3, <2>4, <2>5, <2>6, <2>8 DEF AddressFiles
<1>2. CASE ~SaveAndRestart
  <2>1. UNCHANGED <<saved, saves>>
    BY <1>2 DEF Next, Compute, Register, Show, Hide, ComputeDefault, Preset, Import, Imported,
                UserChooses, Choose, vars
  <2> QED BY <2>1 DEF AddressFiles
<1> QED BY <1>1, <1>2

\* What the rules give an address.
LEMMA AddressRules ==
  ASSUME TheInstaller
  PROVE  /\ Default(host, Values(ValueDeps[host])) = IF Malcolm(value) THEN {""} ELSE {}
         /\ Default(logstash, Values(ValueDeps[logstash])) =
               IF Malcolm(value) THEN {"local"} ELSE {value[host]} \ {""}
         /\ Default(store, Values(ValueDeps[store])) =
               IF Malcolm(value) /\ LocalStore(value) THEN {"local"}
               ELSE IF value[Mode] = "opensearch-remote" THEN {value[host]} \ {""} ELSE {}
         /\ Default(dashboards, Values(ValueDeps[dashboards])) =
               IF value[Mode] # "elasticsearch-remote" THEN {"local"} ELSE {}
BY ServiceDefaults DEF TheInstaller, Values, At

\* An address is blank, the own one, or that of a host.
LEMMA AddressesTypedStep ==
  ASSUME TheInstaller, TypeOK, PhaseOK, AddressFiles, AddressesTyped, [Next]_vars
  PROVE  AddressesTyped'
<1>1. CASE SaveAndRestart
  <2>1. value'[host] = "" /\ value'[logstash] = ""
    BY <1>1, Restarted, ServiceIs, AddressAssumption DEF AddressAssumption
  <2> QED BY <2>1 DEF AddressesTyped, Hostless
<1>2. CASE ~SaveAndRestart
  <2>1. value[host] \in {""} \cup Hosts /\ value[logstash] \in Hostless
    BY DEF AddressesTyped
  <2>2. Options[host] \subseteq {""} \cup Hosts /\ Options[logstash] \subseteq Hostless
    BY AddressOptions, AddressIs DEF TheInstaller
  <2>3. /\ Default(host, Values(ValueDeps[host])) \subseteq {""} \cup Hosts
        /\ Default(logstash, Values(ValueDeps[logstash])) \subseteq Hostless
    BY <2>1, AddressRules DEF Hostless
  <2>4. Import => saved[host] \subseteq {""} \cup Hosts /\ saved[logstash] \subseteq Hostless
    <3> SUFFICES ASSUME Import PROVE saved[host] \subseteq {""} \cup Hosts /\ saved[logstash] \subseteq Hostless
      OBVIOUS
    <3>1. saves # 0
      BY DEF Import, PhaseOK
    <3> QED BY <3>1 DEF AddressFiles
  <2>5. value'[host] \in {""} \cup Hosts
    BY <1>2, <2>1, <2>2, <2>3, <2>4, AddressIs, TypedStep
  <2>6. value'[logstash] \in Hostless
    BY <1>2, <2>1, <2>2, <2>3, <2>4, AddressIs, TypedStep
  <2> QED BY <2>5, <2>6 DEF AddressesTyped
<1> QED BY <1>1, <1>2

\* Nothing but loading gives the host of another Malcolm.
LEMMA HostStep ==
  ASSUME TheInstaller, TypeOK, PhaseOK, LoadInv, AddressFiles, HostLoaded, [Next]_vars
  PROVE  HostLoaded'
<1>1. CASE SaveAndRestart
  <2>1. value'[host] = ""
    BY <1>1, Restarted, ServiceIs, AddressAssumption DEF AddressAssumption
  <2> QED BY <1>1, <2>1, Restarted DEF HostLoaded
<1>2. CASE ~SaveAndRestart /\ Loading'
  <2>1. /\ Loading /\ UNCHANGED <<saved, saves>>
        /\ \A i : Given(i) => (Preset /\ i = PresetItem) \/ (Import /\ i = Head(toLoad))
        /\ phase = "start" /\ phase' = "import" => \A i \in Kept : NotYet(i)'
        /\ phase = "import" => /\ phase' = "import"
                               /\ \A i : NotYet(i)' <=> NotYet(i) /\ ~(Import /\ i = Head(toLoad))
    BY <1>2, LoadingStep DEF LoadInv
  <2>2. CASE Import /\ host = Head(toLoad)
    <3>1. phase' = "import" /\ ~NotYet(host)' /\ saves # 0
      BY <2>1, <2>2 DEF Import, PhaseOK
    <3>2. PICK h : saved[host] = {h}
      BY <3>1 DEF AddressFiles, PhaseOK
    <3>3. value'[host] = h
      BY <2>2, <3>2, ImportSets
    <3> QED BY <2>1, <3>1, <3>2, <3>3 DEF HostLoaded
  <2>3. CASE ~(Import /\ host = Head(toLoad))
    <3>1. value'[host] = value[host] \/ (value'[host] = "" /\ Malcolm(value) /\ Due(<<"default", host>>, calls))
      <4>1. ~Given(host)
        BY <2>1, <2>3, AddressIs
      <4> QED BY <1>2, <4>1, AddressIs, AddressRules, ValueSet
    <3>2. CASE phase = "start"
      <4>1. phase' = "import" => NotYet(host)'
        BY <2>1, <3>2, AddressIs
      <4>2. value'[host] = ""
        BY <2>1, <3>1, <3>2 DEF HostLoaded
      <4> QED BY <4>1, <4>2 DEF HostLoaded
    <3>3. CASE phase = "import"
      <4>1. phase' = "import" /\ (NotYet(host)' <=> NotYet(host))
        BY <2>1, <2>3, <3>3
      <4>2. value'[host] = value[host]
        BY <3>1, <3>3 DEF LoadInv, StoreLoaded
      <4> QED BY <2>1, <4>1, <4>2, <3>3 DEF HostLoaded
    <3> QED BY <2>1, <3>2, <3>3 DEF Loading
  <2> QED BY <2>2, <2>3
<1>3. CASE ~Loading'
  BY <1>3 DEF HostLoaded
<1> QED BY <1>1, <1>2, <1>3

\* Once there is a host of another Malcolm, it stays until the menu opens.
LEMMA HostStays ==
  ASSUME TypeOK, PhaseOK, LoadInv, HostLoaded, HostLoaded', [Next]_vars, phase = "import", phase' = "import",
         value[host] # ""
  PROVE  value'[host] = value[host] /\ ~NotYet(host) /\ saved[host] = {value[host]}
<1>1. Loading /\ Loading' /\ ~SaveAndRestart
  BY DEF Loading, SaveAndRestart
<1>2. ~NotYet(host) /\ saved[host] = {value[host]}
  BY <1>1 DEF HostLoaded
<1>3. ~NotYet(host)' /\ saved' = saved
  BY <1>1, <1>2, LoadingStep DEF LoadInv
<1>4. saved'[host] = {value'[host]}
  BY <1>1, <1>3 DEF HostLoaded
<1> QED BY <1>2, <1>3, <1>4

\* The rules of a Malcolm's addresses are not called for nothing.
LEMMA AddressesDueStep ==
  ASSUME TypeOK, PhaseOK, LoadInv, HostLoaded, HostLoaded', AddressesDue, [Next]_vars
  PROVE  AddressesDue'
<1> SUFFICES ASSUME phase' = "import", Malcolm(value)'
             PROVE  /\ value'[host] = "" => ~Due(<<"default", logstash>>, calls')
                    /\ value'[host] = "" /\ NotYet(Mode)' => ~Due(<<"default", store>>, calls')
                    /\ NotYet(Mode)' => ~Due(<<"default", dashboards>>, calls')
  BY DEF AddressesDue
<1>0. ~SaveAndRestart /\ Loading'
  BY DEF SaveAndRestart, Loading
<1>1. /\ Loading
      /\ \A i, v : ~Choose(i, v)
      /\ \A i : Given(i) => (Preset /\ i = PresetItem) \/ (Import /\ i = Head(toLoad))
      /\ phase = "start" => Preset
      /\ phase = "import" => ~Register
      /\ phase = "import" => \A i : NotYet(i)' <=> NotYet(i) /\ ~(Import /\ i = Head(toLoad))
  BY <1>0, LoadingStep DEF LoadInv
<1>2. Malcolm(value) /\ value'[Profile] = value[Profile]
  BY <1>0, ProfileStays DEF Malcolm
<1>3. ~Register
  BY <1>1 DEF Register, Preset, Loading
<1>4. CASE phase = "start"
  <2>1. \A j : ~Due(<<"default", j>>, calls)
    BY <1>1, <1>4 DEF Preset, Idle, Due
  <2>2. \A j \in {Profile, Mode, host} : value'[j] = value[j]
    <3>1. PICK v : SetValue(PresetItem, v)
      BY <1>1, <1>4 DEF Preset
    <3>2. value' = [value EXCEPT ![PresetItem] = v]
      BY <3>1 DEF SetValue
    <3> QED BY <3>2, AddressIs, KeyIs DEF TypeOK
  <2>3. ASSUME NEW j \in {logstash, store, dashboards} PROVE ~Due(<<"default", j>>, calls')
    <3>1. j \in Computed /\ ValueDeps[j] \subseteq {Profile, Mode, host}
      BY <2>3, AddressIs
    <3> QED BY <1>1, <1>3, <2>1, <2>2, <3>1, AddressIs, DueBecause
  <2> QED BY <2>3
<1>5. CASE phase = "import"
  <2>1. ASSUME value'[host] = "" PROVE value[host] = ""
    BY <1>5, <2>1, HostStays
  <2>2. ASSUME NotYet(Mode)' PROVE NotYet(Mode) /\ value'[Mode] = value[Mode]
    <3>1. NotYet(Mode) /\ ~(Import /\ Mode = Head(toLoad))
      BY <1>1, <1>5, <2>2
    <3>2. ~Given(Mode)
      BY <1>1, <3>1, KeyIs
    <3>3. ~Due(<<"default", Mode>>, calls)
      BY <1>2, <1>5 DEF LoadInv, StoreLoaded
    <3> QED BY <1>0, <3>1, <3>2, <3>3, KeyIs, ValueSet
  <2>3. ASSUME value'[host] = "" PROVE ~Due(<<"default", logstash>>, calls')
    <3>1. value[host] = "" /\ ~Due(<<"default", logstash>>, calls)
      BY <1>2, <1>5, <2>1, <2>3 DEF AddressesDue
    <3>2. \A d \in ValueDeps[logstash] : value'[d] = value[d] /\ d # PresetItem
      BY <1>2, <2>3, <3>1, AddressIs
    <3> QED BY <1>1, <1>3, <3>1, <3>2, AddressIs, DueBecause
  <2>4. ASSUME value'[host] = "", NotYet(Mode)' PROVE ~Due(<<"default", store>>, calls')
    <3>1. value[host] = "" /\ ~Due(<<"default", store>>, calls)
      BY <1>2, <1>5, <2>1, <2>2, <2>4 DEF AddressesDue
    <3>2. \A d \in ValueDeps[store] : value'[d] = value[d] /\ d # PresetItem
      BY <1>2, <2>2, <2>4, <3>1, AddressIs
    <3> QED BY <1>1, <1>3, <3>1, <3>2, AddressIs, DueBecause
  <2>5. ASSUME NotYet(Mode)' PROVE ~Due(<<"default", dashboards>>, calls')
    <3>1. ~Due(<<"default", dashboards>>, calls)
      BY <1>2, <1>5, <2>2, <2>5 DEF AddressesDue
    <3>2. \A d \in ValueDeps[dashboards] : value'[d] = value[d] /\ d # PresetItem
      BY <2>2, <2>5, AddressIs
    <3> QED BY <1>1, <1>3, <3>1, <3>2, AddressIs, DueBecause
  <2> QED BY <2>3, <2>4, <2>5
<1> QED BY <1>1, <1>4, <1>5 DEF Loading

\* What a step of loading that does not load i leaves of it.
LEMMA LoadedStays ==
  ASSUME TypeOK, PhaseOK, LoadInv, AddressFiles, [Next]_vars, phase' = "import",
         NEW i \in {logstash, store, dashboards}, ~NotYet(i)'
  PROVE  /\ phase = "import" /\ saves # 0 /\ saved' = saved /\ modified = {} /\ ~SaveAndRestart
         /\ saved[i] \subseteq {value'[i]} \/ (~NotYet(i) /\ ~Given(i))
         /\ Given(Mode) => Import
<1>0. ~SaveAndRestart /\ Loading'
  BY DEF SaveAndRestart, Loading
<1>1. /\ Loading /\ modified = {} /\ UNCHANGED <<saved, saves>>
      /\ \A j : Given(j) => (Preset /\ j = PresetItem) \/ (Import /\ j = Head(toLoad))
      /\ phase = "start" => \A j \in Kept : NotYet(j)'
      /\ phase = "import" => \A j : NotYet(j)' <=> NotYet(j) /\ ~(Import /\ j = Head(toLoad))
  BY <1>0, LoadingStep DEF LoadInv
<1>2. i \in Kept /\ i # PresetItem /\ Mode # PresetItem
  BY AddressIs
<1>3. phase = "import"
  BY <1>1, <1>2 DEF Loading
<1>4. saves # 0
  BY <1>3 DEF PhaseOK
<1>5. CASE Import /\ i = Head(toLoad)
  <2>1. \E d : saved[i] \subseteq {d}
    BY <1>4 DEF AddressFiles
  <2>2. saved[i] # {} => value'[i] \in saved[i]
    BY <1>5, ImportSets
  <2> QED BY <1>0, <1>1, <1>2, <1>3, <1>4, <2>1, <2>2
<1>6. CASE ~(Import /\ i = Head(toLoad))
  <2>1. ~NotYet(i) /\ ~Given(i)
    BY <1>1, <1>2, <1>3, <1>6
  <2> QED BY <1>0, <1>1, <1>2, <1>3, <1>4, <2>1
<1> QED BY <1>5, <1>6

\* What is loaded of a Malcolm is not set again to another value.
LEMMA MalcolmStep ==
  ASSUME TheInstaller, TypeOK, PhaseOK, FilesAreValid, LoadInv, AddressInv, [Next]_vars
  PROVE  MalcolmLoaded'
<1> SUFFICES ASSUME phase' = "import", saved'[Profile] = {"malcolm"},
                    NEW i \in {logstash, store, dashboards}, ~NotYet(i)'
             PROVE  saved'[i] \subseteq {value'[i]}
  BY DEF MalcolmLoaded
<1>1. /\ phase = "import" /\ saves # 0 /\ saved' = saved /\ modified = {} /\ ~SaveAndRestart
      /\ saved[i] \subseteq {value'[i]} \/ (~NotYet(i) /\ ~Given(i))
  BY LoadedStays DEF AddressInv
<1>2. CASE saved[i] \subseteq {value'[i]}
  BY <1>1, <1>2
<1>3. CASE ~NotYet(i) /\ ~Given(i)
  <2>1. Loading /\ saved[Profile] = {"malcolm"}
    BY <1>1 DEF Loading
  <2>2. Malcolm(value)
    BY <2>1 DEF LoadInv, ProfileLoaded, Malcolm
  <2>3. value[host] = ""
    BY <1>1, <2>1 DEF AddressInv, HostLoaded, FilesAreValid
  <2>4. saved[i] \subseteq {value[i]}
    BY <1>1, <1>3, <2>1 DEF AddressInv, MalcolmLoaded
  <2>5. CASE value'[i] = value[i]
    BY <1>1, <2>4, <2>5
  <2>6. CASE value'[i] # value[i]
    <3>1. Due(<<"default", i>>, calls) /\ value'[i] \in Default(i, Values(ValueDeps[i]))
      BY <1>1, <1>3, <2>6, AddressIs, ValueSet
    <3>2. i # logstash
      BY <1>1, <2>2, <2>3, <3>1 DEF AddressInv, AddressesDue
    <3>3. ~NotYet(Mode)
      BY <1>1, <2>2, <2>3, <3>1, <3>2 DEF AddressInv, AddressesDue
    <3>4. saved[Mode] = {value[Mode]}
      BY <1>1, <2>2, <3>3 DEF LoadInv, StoreLoaded
    <3>5. CASE i = store
      <4>1. LocalStore(value)
        <5>1. ASSUME ~LocalStore(value) PROVE FALSE
          <6>1. Default(store, Values(ValueDeps[store])) = {}
            BY <2>3, <5>1, AddressRules
          <6> QED BY <3>1, <3>5, <6>1
        <5> QED BY <5>1
      <4>2. saved[store] = {}
        BY <1>1, <3>4, <4>1 DEF FilesAreValid, LocalStore
      <4> QED BY <1>1, <3>5, <4>2
    <3>6. CASE i = dashboards
      <4>1. value[Mode] # "elasticsearch-remote" /\ value'[dashboards] = "local"
        BY <3>1, <3>6, AddressRules
      <4>2. saved[dashboards] = {"local"}
        BY <1>1, <2>1, <3>4, <4>1 DEF FilesAreValid
      <4> QED BY <1>1, <3>6, <4>1, <4>2
    <3> QED BY <3>2, <3>5, <3>6
  <2> QED BY <2>5, <2>6
<1> QED BY <1>1, <1>2, <1>3

\* When the profile of a sensor is loaded the rules that follow it are called.
LEMMA SensorArrives ==
  ASSUME TypeOK, PhaseOK, FilesAreValid, LoadInv, HostLoaded, HostLoaded', [Next]_vars,
         phase = "import", phase' = "import", saved[Profile] # {"malcolm"},
         value[host] # "", NotYet(Profile)
  PROVE  /\ value'[host] # ""
         /\ NotYet(Profile)' \/ \A j \in {logstash, store, Mode} : RuledOrDue(j)'
<1>1. value'[host] # ""
  BY HostStays
<1>2. CASE Import /\ Profile = Head(toLoad)
  <2>1. PICK p : saved[Profile] = {p}
    BY DEF PhaseOK, FilesAreValid
  <2>2. value'[Profile] = p /\ p # "malcolm"
    BY <1>2, <2>1, ImportSets
  <2>3. value[Profile] = "malcolm" /\ ~SaveAndRestart
    BY DEF LoadInv, ProfileLoaded, Loading, SaveAndRestart
  <2>4. ASSUME NEW j \in {logstash, store, Mode} PROVE RuledOrDue(j)'
    <3>1. j \in Computed /\ Profile \in ValueDeps[j]
      BY AddressIs, KeyIs
    <3>2. Due(<<"default", j>>, calls')
      BY <2>2, <2>3, <3>1, ReadOrDue
    <3> QED BY <3>2 DEF RuledOrDue
  <2> QED BY <1>1, <2>4
<1>3. CASE ~(Import /\ Profile = Head(toLoad))
  BY <1>1, <1>3, AwaitStep
<1> QED BY <1>2, <1>3

\* A Malcolm whose files are a sensor's is one whose profile is still to be loaded.
LEMMA SensorIsNotYet ==
  ASSUME LoadInv, phase = "import", saved[Profile] # {"malcolm"}, Malcolm(value)
  PROVE  NotYet(Profile)
BY DEF LoadInv, ProfileLoaded, Loading, Malcolm

\* The host of another Malcolm that was saved is the one Logstash had.
LEMMA HostIsLogstash ==
  ASSUME AddressFiles, saves # 0, saved[host] = {value[host]}, value[host] # ""
  PROVE  saved[logstash] = {value[host]} /\ value[host] \in Hosts
<1>1. PICK l \in Hostless : saved[logstash] = {l} /\ saved[host] = {IF l \in Hosts THEN l ELSE ""}
  BY DEF AddressFiles
<1>2. value[host] = IF l \in Hosts THEN l ELSE ""
  BY <1>1
<1> QED BY <1>1, <1>2

\* ...and, where all services are on one host, the one the store had.
LEMMA HostIsStore ==
  ASSUME AddressFiles, OneHost(saved), saves # 0, saved[host] = {value[host]}, value[host] # "",
         NEW s \in Hosts, saved[store] = {s}
  PROVE  value[host] = s
<1>1. value[host] \in saved[host] \cap Hosts /\ s \in saved[store] \cap Hosts
  BY HostIsLogstash
<1>2. host \in {"remoteMalcolmHost", "logstashHost", "opensearchPrimaryUrl"}
  BY DEF host
<1>3. store \in {"remoteMalcolmHost", "logstashHost", "opensearchPrimaryUrl"}
  BY DEF store
<1> QED BY <1>1, <1>2, <1>3 DEF OneHost

\* What is loaded of a sensor's Logstash is only set to what was saved, or until the
\* profile is loaded.
LEMMA LogstashStep ==
  ASSUME TheInstaller, TypeOK, PhaseOK, FilesAreValid, LoadInv, AddressInv, HostLoaded', [Next]_vars
  PROVE  LogstashLoaded'
<1> SUFFICES ASSUME phase' = "import", saved'[Profile] # {"malcolm"}, ~NotYet(logstash)'
             PROVE  \/ saved'[logstash] = {value'[logstash]}
                    \/ value'[host] # "" /\ (NotYet(Profile)' \/ RuledOrDue(logstash)')
  BY DEF LogstashLoaded
<1>1. /\ phase = "import" /\ saves # 0 /\ saved' = saved /\ modified = {} /\ ~SaveAndRestart
      /\ saved[logstash] \subseteq {value'[logstash]} \/ (~NotYet(logstash) /\ ~Given(logstash))
  BY LoadedStays DEF AddressInv
<1>2. AddressFiles /\ HostLoaded /\ AddressesDue
  BY DEF AddressInv
<1>3. PICK l : saved[logstash] = {l}
  BY <1>1, <1>2 DEF AddressFiles
<1>4. ASSUME value[host] # "", NotYet(Profile)
      PROVE  value'[host] # "" /\ (NotYet(Profile)' \/ RuledOrDue(logstash)')
  BY <1>1, <1>2, <1>4, SensorArrives
<1>5. CASE saved[logstash] \subseteq {value'[logstash]}
  BY <1>1, <1>3, <1>5
<1>6. CASE ~NotYet(logstash) /\ ~Given(logstash)
  <2>1. \/ saved[logstash] = {value[logstash]}
        \/ value[host] # "" /\ (NotYet(Profile) \/ RuledOrDue(logstash))
    BY <1>1, <1>6 DEF AddressInv, LogstashLoaded
  <2>2. CASE value[host] # "" /\ RuledOrDue(logstash)
    <3>1. RuledOrDue(logstash)'
      BY <1>1, <1>6, <2>2, AddressIs, RuleStep
    <3>2. value'[host] # ""
      BY <1>1, <1>2, <2>2, HostStays
    <3> QED BY <3>1, <3>2
  <2>3. CASE saved[logstash] = {value[logstash]} /\ value'[logstash] = value[logstash]
    BY <1>1, <2>3
  <2>4. CASE value'[logstash] # value[logstash]
    <3>1. Due(<<"default", logstash>>, calls) /\ value'[logstash] \in Default(logstash, Values(ValueDeps[logstash]))
      BY <1>1, <1>6, <2>4, AddressIs, ValueSet
    <3>2. CASE Malcolm(value)
      <4>1. value[host] # ""
        BY <1>1, <1>2, <3>1, <3>2 DEF AddressesDue
      <4>2. NotYet(Profile)
        BY <1>1, <3>2, SensorIsNotYet
      <4> QED BY <1>4, <4>1, <4>2
    <3>3. CASE ~Malcolm(value)
      <4>1. value[host] # "" /\ value'[logstash] = value[host]
        BY <3>1, <3>3, AddressRules
      <4>2. saved[host] = {value[host]}
        BY <1>1, <1>2, <4>1, HostStays
      <4>3. saved[logstash] = {value[host]}
        BY <1>1, <1>2, <4>1, <4>2, HostIsLogstash
      <4> QED BY <1>1, <4>1, <4>3
    <3> QED BY <3>2, <3>3
  <2> QED BY <1>4, <2>1, <2>2, <2>3, <2>4
<1> QED BY <1>1, <1>5, <1>6

\* A store that follows the host of another Malcolm is the one that was saved.
LEMMA StoreIsHost ==
  ASSUME TheInstaller, PhaseOK, phase # "start", calls = <<>>, ~Malcolm(value), value[host] # "",
         RuledOrDue(store), RuledOrDue(Mode)
  PROVE  value[store] = value[host]
<1>1. SetAsRuled(store) /\ value[Mode] = "opensearch-remote"
  BY AddressIs, Settled, StoreSettled DEF TheInstaller
<1>2. Default(store, Values(ValueDeps[store])) = {value[host]}
  BY <1>1, AddressRules
<1> QED BY <1>1, <1>2 DEF SetAsRuled

\* So is what is loaded of its store.
LEMMA StoreKeptStep ==
  ASSUME TheInstaller, TypeOK, PhaseOK, FilesAreValid, LoadInv, AddressInv, HostLoaded', [Next]_vars
  PROVE  StoreKept'
<1> SUFFICES ASSUME phase' = "import", saved'[Profile] # {"malcolm"}, OneHost(saved'), ~NotYet(store)'
             PROVE  \/ saved'[store] \subseteq {value'[store]}
                    \/ /\ value'[host] # ""
                       /\ NotYet(Profile)' \/ (RuledOrDue(store)' /\ RuledOrDue(Mode)')
  BY DEF StoreKept, OneHost
<1>1. /\ phase = "import" /\ saves # 0 /\ saved' = saved /\ modified = {} /\ ~SaveAndRestart
      /\ saved[store] \subseteq {value'[store]} \/ (~NotYet(store) /\ ~Given(store))
      /\ Given(Mode) => Import
  BY LoadedStays DEF AddressInv
<1>2. AddressFiles /\ HostLoaded /\ AddressesDue
  BY DEF AddressInv
<1>3. ASSUME value[host] # "", NotYet(Profile)
      PROVE  value'[host] # "" /\ (NotYet(Profile)' \/ (RuledOrDue(store)' /\ RuledOrDue(Mode)'))
  BY <1>1, <1>2, <1>3, SensorArrives
<1>4. CASE saved[store] \subseteq {value'[store]}
  BY <1>1, <1>4
<1>5. CASE saved[store] # {} /\ ~NotYet(store) /\ ~Given(store)
  <2>0. PICK s \in Hosts : saved[store] = {s}
    BY <1>1, <1>2, <1>5 DEF AddressFiles
  <2>1. ASSUME value[host] # "" PROVE value[host] = s /\ value'[host] # ""
    <3>1. saved[host] = {value[host]} /\ value'[host] = value[host]
      BY <1>1, <1>2, <2>1, HostStays
    <3> QED BY <1>1, <1>2, <2>0, <2>1, <3>1, HostIsStore
  <2>2. \/ value[store] = s
        \/ value[host] # "" /\ (NotYet(Profile) \/ (RuledOrDue(store) /\ RuledOrDue(Mode)))
    BY <1>1, <1>5, <2>0 DEF AddressInv, StoreKept
  <2>3. CASE value[host] # "" /\ ~NotYet(Profile) /\ RuledOrDue(store) /\ RuledOrDue(Mode)
    <3>1. CASE Import
      <4>1. ~Malcolm(value) /\ calls = <<>> /\ phase # "start"
        BY <1>1, <2>3, <3>1, SensorIsNotYet DEF Import, Idle
      <4>2. value[store] = s
        BY <2>1, <2>3, <4>1, StoreIsHost
      <4>3. value'[store] = value[store]
        BY <1>5, <3>1, AddressIs, ImportSets DEF Given
      <4> QED BY <1>1, <2>0, <4>2, <4>3
    <3>2. CASE ~Import
      <4>1. RuledOrDue(store)' /\ RuledOrDue(Mode)'
        BY <1>1, <1>5, <2>3, <3>2, AddressIs, KeyIs, RuleStep
      <4> QED BY <2>1, <2>3, <4>1
    <3> QED BY <3>1, <3>2
  <2>4. CASE value[store] = s /\ value'[store] = value[store]
    BY <1>1, <2>0, <2>4
  <2>5. CASE value'[store] # value[store] /\ value[store] = s
    <3>1. Due(<<"default", store>>, calls) /\ value'[store] \in Default(store, Values(ValueDeps[store]))
      BY <1>1, <1>5, <2>5, AddressIs, ValueSet
    <3>2. CASE Malcolm(value) /\ LocalStore(value)
      <4>1. NotYet(Mode)
        <5>1. ASSUME ~NotYet(Mode) PROVE FALSE
          <6>1. saved[Mode] = {"opensearch-local"}
            BY <1>1, <3>2, <5>1 DEF LoadInv, StoreLoaded, LocalStore
          <6> QED BY <1>1, <2>0, <6>1 DEF FilesAreValid
        <5> QED BY <5>1
      <4>2. value[host] # ""
        BY <1>1, <1>2, <3>1, <3>2, <4>1 DEF AddressesDue
      <4>3. NotYet(Profile)
        BY <1>1, <3>2, SensorIsNotYet
      <4> QED BY <1>3, <4>2, <4>3
    <3>3. CASE ~(Malcolm(value) /\ LocalStore(value))
      <4>1. value[host] # "" /\ value'[store] = value[host]
        BY <3>1, <3>3, AddressRules
      <4> QED BY <1>1, <2>0, <2>1, <4>1
    <3> QED BY <3>2, <3>3
  <2> QED BY <1>3, <2>2, <2>3, <2>4, <2>5
<1> QED BY <1>1, <1>4, <1>5

\* All this holds of every behaviour.
LEMMA AddressInductive == ASSUME TheInstaller PROVE Spec => []AddressInv
<1>1. Init => AddressInv
  <2> SUFFICES ASSUME Init PROVE AddressInv
    OBVIOUS
  <2>1. value = Initial /\ phase = "start" /\ saves = 0
    BY DEF Init, Fresh
  <2>2. value[host] = "" /\ value[logstash] = ""
    BY <2>1, ServiceIs, AddressAssumption DEF AddressAssumption
  <2> QED BY <2>1, <2>2 DEF AddressInv, AddressFiles, AddressesTyped, HostLoaded, AddressesDue, Hostless,
                            MalcolmLoaded, LogstashLoaded, StoreKept
<1>2. IInv /\ FilesAreValid /\ LoadInv /\ AddressInv /\ [Next]_vars => AddressInv'
  <2> SUFFICES ASSUME IInv, FilesAreValid, LoadInv, AddressInv, [Next]_vars PROVE AddressInv'
    OBVIOUS
  <2>1. TypeOK /\ PhaseOK
    BY DEF IInv
  <2>2. AddressFiles' /\ AddressesTyped' /\ HostLoaded'
    BY <2>1, AddressFilesStep, AddressesTypedStep, HostStep DEF AddressInv
  <2>3. AddressesDue'
    BY <2>1, <2>2, AddressesDueStep DEF AddressInv
  <2>4. MalcolmLoaded' /\ LogstashLoaded' /\ StoreKept'
    BY <2>1, <2>2, MalcolmStep, LogstashStep, StoreKeptStep
  <2> QED BY <2>2, <2>3, <2>4 DEF AddressInv
<1> QED BY <1>1, <1>2, Inductive, LoadInductive, PTL DEF Spec

\* When the last value of the .env files is applied, the host of another Malcolm and
\* the addresses of Logstash and of the store are what was saved: of a Malcolm
\* whatever its hosts, and with the address of Dashboards, and of a sensor that names
\* one host.  A rule of dependencies.py that is set off by a value applied later
\* (MalcolmConfig._apply_env_candidates) may overwrite one applied before, but not
\* for good, in whatever order the .env files are met (EnvMapper walks their
\* directory) and however often the configuration was changed, saved and loaded.
THEOREM AddressesComeBack == ASSUME TheInstaller PROVE Spec => []AddressesAreLoaded
<1>1. IInv /\ LoadInv /\ AddressInv => AddressesAreLoaded
  <2> SUFFICES ASSUME IInv, LoadInv, AddressInv, phase = "import", Idle, toLoad = <<>>
               PROVE  /\ Malcolm(value) \/ OneHost(saved) =>
                            \A i \in {host, logstash, store} : saved[i] \subseteq {value[i]}
                      /\ Malcolm(value) => saved[dashboards] \subseteq {value[dashboards]}
    BY DEF AddressesAreLoaded, host, logstash, store, dashboards
  <2>1. PhaseOK /\ calls = <<>> /\ phase # "start" /\ saves # 0 /\ Loading /\ \A i : ~NotYet(i)
    BY DEF IInv, PhaseOK, Idle, Loading, NotYet
  <2>2. saved[Profile] = {value[Profile]} /\ saved[host] = {value[host]}
    BY <2>1 DEF LoadInv, ProfileLoaded, AddressInv, HostLoaded
  <2>3. CASE Malcolm(value)
    <3>1. \A i \in {logstash, store, dashboards} : saved[i] \subseteq {value[i]}
      BY <2>1, <2>2, <2>3 DEF AddressInv, MalcolmLoaded, Malcolm
    <3> QED BY <2>2, <3>1
  <2>4. CASE ~Malcolm(value) /\ OneHost(saved)
    <3>0. AddressFiles /\ saved[Profile] # {"malcolm"}
      BY <2>2, <2>4 DEF AddressInv, Malcolm
    <3>1. saved[logstash] \subseteq {value[logstash]}
      <4>1. CASE value[host] # "" /\ RuledOrDue(logstash)
        <5>1. SetAsRuled(logstash)
          BY <2>1, <4>1, AddressIs, Settled
        <5>2. value[logstash] = value[host]
          BY <2>4, <4>1, <5>1, AddressRules DEF SetAsRuled
        <5> QED BY <2>1, <2>2, <3>0, <4>1, <5>2, HostIsLogstash
      <4> QED BY <2>1, <3>0, <4>1 DEF AddressInv, LogstashLoaded
    <3>2. saved[store] \subseteq {value[store]}
      <4>1. CASE value[host] # "" /\ RuledOrDue(store) /\ RuledOrDue(Mode)
        <5>1. value[store] = value[host]
          BY <2>1, <2>4, <4>1, StoreIsHost
        <5>2. ASSUME saved[store] # {} PROVE saved[store] = {value[host]}
          <6>1. PICK s \in Hosts : saved[store] = {s}
            BY <2>1, <3>0, <5>2 DEF AddressFiles
          <6> QED BY <2>1, <2>2, <2>4, <3>0, <4>1, <6>1, HostIsStore
        <5> QED BY <5>1, <5>2
      <4> QED BY <2>1, <2>4, <3>0, <4>1 DEF AddressInv, StoreKept
    <3> QED BY <2>2, <2>4, <3>1, <3>2
  <2> QED BY <2>3, <2>4
<1> QED BY <1>1, Inductive, LoadInductive, AddressInductive, PTL
=============================================================================
