---------------------------- MODULE InstallerRules ----------------------------
(***************************************************************************)
(* The rules of src/scripts/installer/core/dependencies.py, one row per    *)
(* entry (or run of entries alike) of DEPENDENCY_CONFIG, in its order,     *)
(* with the keys of the code.                                              *)
(*                                                                         *)
(* Values are abstracted to what a rule or a check tells apart.  An        *)
(* address (host:port, URL) is the host it names: "local" for the service  *)
(* of this installation, "" for none.  None is "" (-1 for a port).  An     *)
(* item no rule, no check and no other item reads has the value "-".       *)
(***************************************************************************)
EXTENDS Integers, Sequences, FiniteSets, SequencesExt

CONSTANTS
    Iso,        \* SYSTEM_INFO["malcolm_iso_install"]
    Hosts,      \* names of other hosts
    IPs         \* those that are IP addresses

ASSUME HostsAssumption == Iso \in BOOLEAN /\ IPs \subseteq Hosts /\ Hosts \cap {"", "local"} = {}

TopLevel == ""
AutoItems == {"autoZeek", "autoSuricata", "autoArkime"}
Plain == AutoItems \cup {"runtimeBin", "malcolmProfile", "dockerOrchestrationMode"}   \* no rules

\* A row: keys shown on the same condition of the items `on` below `under`;
\* `from`: the items their value rule reads, `how`: "soft" when the rule is
\* only_if_unmodified, "forced" when not, "none" when there is no value rule.
Row(keys, on, under, from, how) ==
    [keys |-> keys, on |-> on, under |-> under, from |-> from, how |-> how]
Shows(keys, on, under) == Row(keys, on, under, {}, "none")
Forced(key, on, under, from) == Row(<<key>>, on, under, from, "forced")
Softly(key, on, under, from) == Row(<<key>>, on, under, from, "soft")

Profile == "malcolmProfile"
Orchestration == "dockerOrchestrationMode"
Mode == "opensearchPrimaryMode"
Live == "captureLiveNetworkTraffic"
NetboxItems == <<"netboxLogstashEnrich", "netboxAutoPopulate", "netboxLogstashAutoCreatePrefix",
                 "netboxAutoPopulateSubnetFilter", "netboxSiteName", "logstashNetBoxEnrichedDatasets">>
AuxFw == <<"auxFwAide", "auxFwAuditlog", "auxFwCPU", "auxFwDf", "auxFwDisk", "auxFwKmsg",
           "auxFwMem", "auxFwNetwork", "auxFwSystemd", "auxFwThermal">>

ProfileRows == <<
    Shows(<<"processUserId", "processGroupId">>, {"runtimeBin"}, "runtimeBin"),
    Shows(<<"containerNetworkName", "malcolmRestartPolicy">>, {Orchestration}, "runtimeBin"),
    Shows(<<"nginxSSL", "nginxResolverIpv4", "nginxResolverIpv6">>, {Profile}, TopLevel),
    Shows(<<"useDefaultStorageLocations">>, {Orchestration}, TopLevel),
    Shows(<<"traefikLabels">>, {Profile, Orchestration}, TopLevel),
    Shows(<<"reverseDns", "autoOui", "autoFreq", "autoZeekCommunityID">>, {Profile}, TopLevel),
    Softly("openPortsSelection", {Profile}, TopLevel, {Orchestration}),
    Forced("netboxMode", {}, TopLevel, {Profile}),
    Shows(<<"indexManagementPolicy">>, {Profile}, TopLevel)>>

HedgehogRows == <<
    Softly("cleanUpOldArtifacts", {}, TopLevel,
           {"arkimeManagePCAP", "cleanUpOldIndices", "malSysPrunePcap", "malSysPruneLogs"}),
    Forced("remoteMalcolmHost", {Profile}, Profile, {Profile}),
    Forced("logstashHost", {Profile}, Profile, {Profile, "remoteMalcolmHost"}),
    Forced("reachbackRequestAcl", {Profile}, Profile, {Profile, "remoteMalcolmHost"}),
    Shows(AuxFw, {Profile}, Profile)>>

StoreRows == <<
    Shows(<<"traefikHost", "traefikEntrypoint", "traefikResolver">>, {"traefikLabels"}, "traefikLabels"),
    Shows(<<"traefikOpenSearchHost">>, {"traefikLabels", Mode}, "traefikLabels"),
    Shows(<<"extraTags">>, {Profile}, Profile),
    Softly(Mode, {}, Profile, {Profile}),
    Shows(<<"secondaryDocumentStore">>, {Profile}, Profile),
    Softly("lsMemory", {Profile}, Profile, {Orchestration}),
    Softly("lsWorkers", {Profile}, Profile, {Orchestration}),
    Shows(<<"opensearchPrimarySslVerify">>, {Mode}, Mode),
    Shows(<<"opensearchSecondarySslVerify">>, {"opensearchSecondaryMode"}, "opensearchSecondaryMode"),
    Softly("osMemory", {Profile, Mode}, Profile, {Orchestration}),
    Forced("opensearchPrimaryUrl", {Profile, Mode}, Mode, {Profile, Mode, "remoteMalcolmHost"}),
    Shows(<<"opensearchSecondaryUrl">>, {"opensearchSecondaryMode"}, "opensearchSecondaryMode"),
    Forced("dashboardsUrl", {Profile, Mode}, Mode, {Mode}),
    Shows(<<"dashboardsDarkMode">>, {Profile, Mode}, Profile),
    Shows(<<"opensearchSecondaryMode">>, {"secondaryDocumentStore"}, "secondaryDocumentStore"),
    Shows(<<"indexManagementHotWarm", "indexManagementHistoryInWeeks",
            "indexManagementOptimizationTimePeriod", "indexManagementOptimizeSessionSegments",
            "indexManagementReplicas", "indexManagementSpiDataRetention">>,
          {"indexManagementPolicy"}, "indexManagementPolicy")>>

CaptureRows == <<
    Softly(Live, {}, "always", {"pcapNetSniff", "pcapTcpDump", "liveArkime", "liveZeek", "liveSuricata"}),
    Shows(<<"pcapIface">>, {Live}, Live),
    Softly("pcapNetSniff", {Live}, Live, {Live, Profile, Mode, "pcapTcpDump", "liveArkime"}),
    Softly("pcapTcpDump", {Live}, Live, {Live, Profile, Mode, "pcapNetSniff", "liveArkime"}),
    Softly("liveArkime", {Live, Profile, Mode, "pcapNetSniff", "pcapTcpDump"}, Live,
           {Live, Profile, Mode, "pcapNetSniff", "pcapTcpDump"}),
    Forced("liveZeek", {Live}, Live, {Live}),
    Forced("liveSuricata", {Live}, Live, {Live}),
    Shows(<<"pcapFilter">>, {Live}, Live),
    Forced("tweakIface", {Live}, Live, {Live}),
    Softly("captureStats", {Live}, Live, {Live}),
    Shows(<<"liveArkimeNodeHost", "liveArkimeCompressionType">>, {"liveArkime"}, "liveArkime"),
    Shows(<<"liveArkimeCompressionLevel">>, {"liveArkime", "liveArkimeCompressionType"},
          "liveArkimeCompressionType"),
    Forced("arkimeExposeWise", {Profile, "autoArkime"}, "autoArkime", {Profile}),
    Forced("arkimeAllowWiseConfig", {Profile, "autoArkime"}, "autoArkime", {Profile}),
    Forced("arkimeWiseUrl", {Profile, "liveArkime"}, "autoArkime",
           {Profile, "remoteMalcolmHost", "liveArkime"})>>

AnalysisRows == <<
    Shows(<<"netboxUrl">> \o NetboxItems, {Profile, "netboxMode"}, "netboxMode"),
    Shows(<<"fileCarveMode">>, {"autoZeek", "liveZeek"}, "autoZeek"),
    Shows(<<"filePreserveMode", "extractedFileMaxSizeThreshold", "extractedFileMaxPercentThreshold">>,
          {"fileCarveMode"}, "fileCarveMode"),
    Forced("fileCarveHttpServer", {"fileCarveMode"}, "fileCarveMode", {"fileCarveMode"}),
    Shows(<<"fileCarveHttpServerZip", "fileCarveHttpServeEncryptKey">>,
          {"fileCarveHttpServer"}, "fileCarveHttpServer"),
    Shows(<<"pipelineEnabled">>, {"fileCarveMode"}, "fileCarveMode"),
    Shows(<<"pipelineWorkers", "pipelineScanners">>, {"pipelineEnabled", "fileCarveMode"}, "fileCarveMode"),
    Softly("fileScanRuleUpdate", {"fileCarveMode"}, "fileCarveMode", {"fileCarveMode"})>>

PortRows == <<
    Forced("exposeOpenSearch", {"openPortsSelection", Mode, Orchestration}, "openPortsSelection",
           {"openPortsSelection", Mode, Orchestration}),
    Forced("exposeLogstash", {"openPortsSelection", Orchestration}, "openPortsSelection",
           {"openPortsSelection", Orchestration}),
    Forced("exposeFilebeatTcp", {"openPortsSelection", Orchestration}, "openPortsSelection",
           {"openPortsSelection", Orchestration}),
    Forced("exposeSFTP", {"openPortsSelection", Orchestration}, "openPortsSelection",
           {"openPortsSelection", Orchestration}),
    Forced("syslogTcpPort", {"openPortsSelection"}, "openPortsSelection",
           {"openPortsSelection", Orchestration}),
    Forced("syslogUdpPort", {"openPortsSelection"}, "openPortsSelection",
           {"openPortsSelection", Orchestration}),
    Shows(<<"filebeatTcpDefaults">>, {"exposeFilebeatTcp"}, "exposeFilebeatTcp"),
    Shows(<<"filebeatTcpLogFormat">>, {"exposeFilebeatTcp", "filebeatTcpDefaults"}, "exposeFilebeatTcp"),
    Softly("filebeatTcpParseSourceField", {"filebeatTcpLogFormat"}, "filebeatTcpLogFormat",
           {"filebeatTcpLogFormat"}),
    Softly("filebeatTcpParseTargetField", {"filebeatTcpLogFormat"}, "filebeatTcpLogFormat",
           {"filebeatTcpLogFormat"}),
    Softly("filebeatTcpParseDropField", {"filebeatTcpLogFormat"}, "filebeatTcpLogFormat",
           {"filebeatTcpLogFormat"}),
    Shows(<<"filebeatTcpTag">>, {"exposeFilebeatTcp", "filebeatTcpDefaults"}, "exposeFilebeatTcp")>>

CleanUpRows == <<
    Forced("arkimeManagePCAP", {"cleanUpOldArtifacts"}, "cleanUpOldArtifacts", {"cleanUpOldArtifacts"}),
    Shows(<<"arkimeFreeSpaceG">>, {"arkimeManagePCAP"}, "arkimeManagePCAP"),
    Forced("cleanUpOldIndices", {Profile, "cleanUpOldArtifacts"}, "cleanUpOldArtifacts",
           {"cleanUpOldArtifacts"}),
    Forced("indexPruneThreshold", {"cleanUpOldIndices"}, "cleanUpOldIndices", {"cleanUpOldIndices"}),
    Shows(<<"indexPruneNameSort">>, {"cleanUpOldIndices"}, "cleanUpOldIndices"),
    Shows(<<"malSysPrunePcap", "malSysPruneLogs">>, {"cleanUpOldArtifacts"}, "cleanUpOldArtifacts"),
    Shows(<<"pcapDir", "zeekLogDir", "filescanLogDir", "suricataLogDir">>,
          {"useDefaultStorageLocations"}, "useDefaultStorageLocations"),
    Shows(<<"indexDir", "indexSnapshotDir">>,
          {"useDefaultStorageLocations", Profile, Mode}, "useDefaultStorageLocations")>>

IntelRows == <<
    Softly("suricataRuleUpdate", {"autoSuricata", "liveSuricata"}, "autoSuricata",
           {"autoSuricata", "liveSuricata"}),
    Shows(<<"suricataDisableSids">>, {"autoSuricata", "liveSuricata"}, "autoSuricata"),
    Shows(<<"malcolmIcs">>, {"autoZeek", "liveZeek"}, "autoZeek"),
    Shows(<<"zeekICSBestGuess">>, {"malcolmIcs"}, "malcolmIcs"),
    Softly("zeekPullIntelligenceFeeds", {"autoZeek", "liveZeek"}, "autoZeek",
           {"zeekIntelOnStartup", "zeekIntelCronExpression"}),
    Forced("zeekIntelOnStartup", {"zeekPullIntelligenceFeeds"}, "zeekPullIntelligenceFeeds",
           {"zeekPullIntelligenceFeeds"}),
    Forced("zeekIntelCronExpression", {"zeekPullIntelligenceFeeds"}, "zeekPullIntelligenceFeeds",
           {"zeekPullIntelligenceFeeds"}),
    Shows(<<"zeekIntelFeedSince", "zeekIntelItemExpiration", "zeekIntelLive", "zeekIntelOffline">>,
          {"zeekPullIntelligenceFeeds"}, "zeekPullIntelligenceFeeds")>>
-----------------------------------------------------------------------------
RuleTable ==
    ProfileRows \o HedgehogRows \o StoreRows \o CaptureRows
    \o AnalysisRows \o PortRows \o CleanUpRows \o IntelRows

\* An entry <<key, row>> for each key of DEPENDENCY_CONFIG, in its order.
Entries ==
    LET Of(row) == [n \in DOMAIN row.keys |-> <<row.keys[n], row>>]
    IN  FlattenSeq([n \in DOMAIN RuleTable |-> Of(RuleTable[n])])

RowOf == [i \in {Entries[n][1] : n \in DOMAIN Entries} |->
             (CHOOSE e \in ToSet(Entries) : e[1] = i)[2]]

ConfigItems == DOMAIN RowOf \cup Plain
RuledItems == {i \in DOMAIN RowOf : RowOf[i].under # "always"}
ComputedItems == {i \in DOMAIN RowOf : RowOf[i].how # "none"}
SoftItems == {i \in DOMAIN RowOf : RowOf[i].how = "soft"}
ParentOf == [i \in RuledItems |-> RowOf[i].under]
ShowsOn == [i \in RuledItems |-> RowOf[i].on]
DefaultsFrom == [i \in ComputedItems |-> RowOf[i].from]

\* register_all_dependencies: of an entry, first the visibility rule.
Registrations ==
    LET Of(e) == (IF e[1] \in RuledItems THEN << <<"show", e[1]>> >> ELSE <<>>)
                 \o (IF e[1] \in ComputedItems THEN << <<"default", e[1]>> >> ELSE <<>>)
    IN  FlattenSeq([n \in DOMAIN Entries |-> Of(Entries[n])])

PlaceOf == [r \in ToSet(Registrations) |-> CHOOSE n \in DOMAIN Registrations : Registrations[n] = r]

\* observe: called in the order of registration.
ObserversOf ==
    [i \in ConfigItems |->
        SelectSeq(Registrations, LAMBDA r :
            i \in IF r[1] = "show" THEN ShowsOn[r[2]] ELSE DefaultsFrom[r[2]])]

\* _parent_map.
ChildrenOf ==
    [p \in ConfigItems |->
        LET below == SelectSeq(Entries, LAMBDA e : e[2].under = p)
        IN  [n \in DOMAIN below |-> below[n][1]]]

-----------------------------------------------------------------------------
Malcolm(v) == v[Profile] = "malcolm"
LocalStore(v) == v[Mode] = "opensearch-local"
Kubernetes(v) == v[Orchestration] = "KUBERNETES"
Customized(v) == v["openPortsSelection"] = "customize"
Carving(v) == v["fileCarveMode"] # "none"
RemoteModes == {"opensearch-remote", "elasticsearch-remote"}

MalcolmOnly ==
    {"nginxSSL", "nginxResolverIpv4", "nginxResolverIpv6", "reverseDns", "autoOui", "autoFreq",
     "autoZeekCommunityID", "openPortsSelection", "indexManagementPolicy", "secondaryDocumentStore",
     "lsMemory", "lsWorkers", "arkimeExposeWise", "arkimeAllowWiseConfig"}
AlwaysShown == {"netboxMode", "cleanUpOldArtifacts", "extraTags", Mode}
CarvingOnly ==
    {"filePreserveMode", "extractedFileMaxSizeThreshold", "extractedFileMaxPercentThreshold",
     "fileCarveHttpServer", "pipelineEnabled", "fileScanRuleUpdate"}
EitherOn == {"fileCarveMode", "suricataRuleUpdate", "suricataDisableSids", "malcolmIcs",
             "zeekPullIntelligenceFeeds"}
ParseFields == {"filebeatTcpParseSourceField", "filebeatTcpParseTargetField", "filebeatTcpParseDropField"}

KeysOf(rows) == UNION {ToSet(rows[n].keys) : n \in DOMAIN rows}
ProfileKeys == KeysOf(ProfileRows \o HedgehogRows)
StoreKeys == KeysOf(StoreRows)
CaptureKeys == KeysOf(CaptureRows)
AnalysisKeys == KeysOf(AnalysisRows)
PortKeys == KeysOf(PortRows)
CleanUpKeys == KeysOf(CleanUpRows)

\* VisibilityRule.condition: shown with the switch it depends on, or ...
SwitchedOn(v) == \A d \in DOMAIN v : v[d]

ProfileShown(i, v) ==
    CASE i \in {"processUserId", "processGroupId"} -> ~Iso
      [] i \in {"containerNetworkName", "useDefaultStorageLocations"} -> ~Kubernetes(v)
      [] i = "malcolmRestartPolicy" -> v[Orchestration] = "DOCKER_COMPOSE"
      [] i = "traefikLabels" -> Malcolm(v) /\ v[Orchestration] = "DOCKER_COMPOSE" /\ ~Iso
      [] i \in {"remoteMalcolmHost", "logstashHost"} -> ~Malcolm(v)
      [] i = "reachbackRequestAcl" -> ~Malcolm(v) /\ Iso
      [] OTHER -> Iso

StoreShown(i, v) ==
    CASE i = "traefikOpenSearchHost" -> v["traefikLabels"] /\ LocalStore(v)
      [] i = "opensearchPrimarySslVerify" -> v[Mode] \in RemoteModes
      [] i = "osMemory" -> Malcolm(v) /\ LocalStore(v)
      [] i = "opensearchPrimaryUrl" -> ~Malcolm(v) \/ ~LocalStore(v)
      [] i = "dashboardsUrl" -> Malcolm(v) /\ v[Mode] = "elasticsearch-remote"
      [] i = "dashboardsDarkMode" -> Malcolm(v) /\ v[Mode] # "elasticsearch-remote"
      [] i \in {"opensearchSecondarySslVerify", "opensearchSecondaryUrl"} ->
            v["opensearchSecondaryMode"] \in RemoteModes
      [] OTHER -> SwitchedOn(v)

CaptureShown(i, v) ==
    CASE i = "liveArkime" -> v[Live] /\ (~Malcolm(v) \/ ~LocalStore(v))
      [] i = "liveArkimeCompressionLevel" -> v["liveArkime"] /\ v["liveArkimeCompressionType"] # "none"
      [] i = "arkimeWiseUrl" -> ~Malcolm(v) \/ v["liveArkime"]
      [] OTHER -> SwitchedOn(v)

AnalysisShown(i, v) ==
    CASE i = "netboxUrl" -> Malcolm(v) /\ v["netboxMode"] = "remote"
      [] i = "netboxSiteName" -> ~Malcolm(v) \/ v["netboxMode"] # "disabled"
      [] i \in ToSet(NetboxItems) \ {"netboxSiteName"} -> Malcolm(v) /\ v["netboxMode"] # "disabled"
      [] i \in {"pipelineWorkers", "pipelineScanners"} -> v["pipelineEnabled"] /\ Carving(v)
      [] OTHER -> SwitchedOn(v)

PortShown(i, v) ==
    CASE i = "exposeOpenSearch" -> ~Kubernetes(v) /\ Customized(v) /\ LocalStore(v)
      [] i \in {"exposeLogstash", "exposeSFTP"} -> ~Kubernetes(v) /\ Customized(v)
      [] i = "exposeFilebeatTcp" -> Kubernetes(v) \/ Customized(v)
      [] i \in {"syslogTcpPort", "syslogUdpPort"} -> Customized(v)
      [] i \in {"filebeatTcpLogFormat", "filebeatTcpTag"} ->
            v["exposeFilebeatTcp"] /\ ~v["filebeatTcpDefaults"]
      [] i \in ParseFields -> v["filebeatTcpLogFormat"] = "json"
      [] OTHER -> SwitchedOn(v)

CleanUpShown(i, v) ==
    CASE i = "cleanUpOldIndices" -> Malcolm(v) /\ v["cleanUpOldArtifacts"]
      [] i \in {"malSysPrunePcap", "malSysPruneLogs"} -> Iso /\ v["cleanUpOldArtifacts"]
      [] i \in {"indexDir", "indexSnapshotDir"} ->
            ~v["useDefaultStorageLocations"] /\ Malcolm(v) /\ LocalStore(v)
      [] i \in {"pcapDir", "zeekLogDir", "filescanLogDir", "suricataLogDir"} ->
            ~v["useDefaultStorageLocations"]
      [] OTHER -> SwitchedOn(v)

RuleShown(i, v) ==
    CASE i \in AlwaysShown -> TRUE
      [] i \in MalcolmOnly -> Malcolm(v)
      [] i \in CarvingOnly -> Carving(v)
      [] i \in EitherOn -> \E d \in DOMAIN v : v[d]
      [] i \in ProfileKeys \ (MalcolmOnly \cup AlwaysShown) -> ProfileShown(i, v)
      [] i \in StoreKeys \ (MalcolmOnly \cup AlwaysShown) -> StoreShown(i, v)
      [] i \in CaptureKeys \ MalcolmOnly -> CaptureShown(i, v)
      [] i \in AnalysisKeys \ (CarvingOnly \cup EitherOn) -> AnalysisShown(i, v)
      [] i \in PortKeys -> PortShown(i, v)
      [] i \in CleanUpKeys -> CleanUpShown(i, v)
      [] OTHER -> SwitchedOn(v)

-----------------------------------------------------------------------------
\* ValueRule: {} when the condition is false or the value is to stay, else
\* {the value to set}.
Follows(v) == {\A d \in DOMAIN v : v[d]}
AnyOn(v) == {\E d \in DOMAIN v : v[d]}
OnKubernetes(v, x) == IF Kubernetes(v) THEN {x} ELSE {}
HostOr(v, local) == IF local THEN {"local"} ELSE {v["remoteMalcolmHost"]} \ {""}
NotCustomized(v) == v["openPortsSelection"] \in {"yes", "no"}

\* On Kubernetes every port is open; "yes" opens what `yes` says, "no" nothing.
PortDefault_KeepsOpen(v, kubernetes, yes, no) ==   \* (mutant)
    IF Kubernetes(v) THEN {kubernetes}
    ELSE IF v["openPortsSelection"] = "yes" THEN {yes} ELSE {}
PortDefault(v, kubernetes, yes, no) ==
    IF Kubernetes(v) THEN {kubernetes}
    ELSE IF NotCustomized(v) THEN {IF v["openPortsSelection"] = "yes" THEN yes ELSE no} ELSE {}

\* At most one program writes captures: Arkime where it may, else netsniff-ng
\* unless tcpdump does.
ArkimeMay(v) == v[Live] /\ (~Malcolm(v) \/ ~LocalStore(v))
EngineDefault_TcpDumpToo(i, v) ==   \* (mutant)
    CASE i = "pcapNetSniff" ->
            {v[Live] /\ Malcolm(v) /\ LocalStore(v) /\ ~v["pcapTcpDump"] /\ ~v["liveArkime"]}
      [] i = "pcapTcpDump" -> {v[Live] /\ Malcolm(v) /\ LocalStore(v) /\ ~v["liveArkime"]}
      [] i = "liveArkime" -> {ArkimeMay(v) /\ ~v["pcapNetSniff"] /\ ~v["pcapTcpDump"]}
EngineDefault(i, v) ==
    CASE i = "pcapNetSniff" ->
            {v[Live] /\ Malcolm(v) /\ LocalStore(v) /\ ~v["pcapTcpDump"] /\ ~v["liveArkime"]}
      [] i = "pcapTcpDump" ->
            {v[Live] /\ Malcolm(v) /\ LocalStore(v) /\ ~v["pcapNetSniff"] /\ ~v["liveArkime"]}
      [] i = "liveArkime" -> {ArkimeMay(v) /\ ~v["pcapNetSniff"] /\ ~v["pcapTcpDump"]}

AddressDefault_Kept(i, v) ==   \* (mutant)
    IF i \in {"opensearchPrimaryUrl", "dashboardsUrl", "reachbackRequestAcl"} \/ Malcolm(v) THEN {}
    ELSE HostOr(v, FALSE)
AddressDefault(i, v) ==
    CASE i = "remoteMalcolmHost" -> IF Malcolm(v) THEN {""} ELSE {}
      [] i = "logstashHost" -> HostOr(v, Malcolm(v))
      [] i = "reachbackRequestAcl" ->
            IF Malcolm(v) \/ ~Iso THEN {{}}
            ELSE {{h} : h \in {v["remoteMalcolmHost"]} \cap IPs}
      [] i = "opensearchPrimaryUrl" ->
            IF Malcolm(v) /\ LocalStore(v) THEN {"local"}
            ELSE IF v[Mode] = "opensearch-remote" THEN HostOr(v, FALSE) ELSE {}
      [] i = "dashboardsUrl" -> IF v[Mode] # "elasticsearch-remote" THEN {"local"} ELSE {}
      [] i = "arkimeWiseUrl" -> HostOr(v, Malcolm(v) /\ ~v["liveArkime"])

PortValue(i, v) ==
    CASE i = "openPortsSelection" -> OnKubernetes(v, "customize")
      [] i = "exposeOpenSearch" ->
            IF Kubernetes(v) \/ LocalStore(v) THEN PortDefault(v, TRUE, TRUE, FALSE) ELSE {}
      [] i \in {"exposeLogstash", "exposeFilebeatTcp"} -> PortDefault(v, TRUE, TRUE, FALSE)
      [] i = "exposeSFTP" -> PortDefault(v, TRUE, FALSE, FALSE)
      [] i \in {"syslogTcpPort", "syslogUdpPort"} -> PortDefault(v, 514, 0, 0)

OtherDefault(i, v) ==
    CASE i = "netboxMode" -> {IF Malcolm(v) THEN "local" ELSE "remote"}
      [] i = Mode -> {IF Malcolm(v) THEN "opensearch-local" ELSE "opensearch-remote"}
      [] i = "cleanUpOldArtifacts" ->
            {v["arkimeManagePCAP"] \/ v["cleanUpOldIndices"]
             \/ (Iso /\ (v["malSysPrunePcap"] \/ v["malSysPruneLogs"]))}
      [] i = "lsMemory" -> OnKubernetes(v, "3g")
      [] i = "lsWorkers" -> OnKubernetes(v, 4)
      [] i = "osMemory" -> OnKubernetes(v, "31g")
      [] i = Live -> AnyOn(v)
      [] i = "captureStats" -> IF v[Live] THEN {TRUE} ELSE {}
      [] i = "arkimeExposeWise" -> {Malcolm(v)}
      [] i = "arkimeAllowWiseConfig" -> IF Malcolm(v) THEN {} ELSE {FALSE}
      [] i = "fileCarveHttpServer" -> {Carving(v)}
      [] i \in {"fileScanRuleUpdate", "suricataRuleUpdate"} -> {FALSE}
      [] i = "indexPruneThreshold" -> IF v["cleanUpOldIndices"] THEN {} ELSE {""}
      [] i = "filebeatTcpParseTargetField" -> IF v["filebeatTcpLogFormat"] = "json" THEN {"miscbeat"} ELSE {}
      [] i \in ParseFields \ {"filebeatTcpParseTargetField"} ->
            IF v["filebeatTcpLogFormat"] = "json" THEN {"message"} ELSE {}
      [] i = "zeekPullIntelligenceFeeds" ->
            {v["zeekIntelOnStartup"] \/ v["zeekIntelCronExpression"] # ""}
      [] i = "zeekIntelCronExpression" ->
            {IF v["zeekPullIntelligenceFeeds"] THEN "0 0 * * *" ELSE ""}
      [] OTHER -> Follows(v)

Engines == {"pcapNetSniff", "pcapTcpDump", "liveArkime"}
Addresses == {"remoteMalcolmHost", "logstashHost", "reachbackRequestAcl", "opensearchPrimaryUrl",
              "dashboardsUrl", "arkimeWiseUrl"}
Ports == {"openPortsSelection", "exposeOpenSearch", "exposeLogstash", "exposeFilebeatTcp",
          "exposeSFTP", "syslogTcpPort", "syslogUdpPort"}

RuleDefault(i, v) ==
    CASE i \in Engines -> EngineDefault(i, v)
      [] i \in Addresses -> AddressDefault(i, v)
      [] i \in Ports -> PortValue(i, v)
      [] OTHER -> OtherDefault(i, v)

-----------------------------------------------------------------------------
\* default_value of the items (src/scripts/installer/configs/configuration_items).
OnAtFirst ==
    AutoItems \cup {"arkimeExposeWise", "pipelineEnabled", "filebeatTcpDefaults", "tweakIface",
               "useDefaultStorageLocations", "zeekPullIntelligenceFeeds", "zeekIntelOnStartup",
               "malcolmIcs"}
OffAtFirst ==
    Engines \cup (Ports \ {"openPortsSelection", "syslogTcpPort", "syslogUdpPort"})
    \cup {Live, "liveZeek", "liveSuricata", "captureStats", "arkimeAllowWiseConfig",
          "traefikLabels", "secondaryDocumentStore", "indexManagementPolicy",
          "cleanUpOldArtifacts", "arkimeManagePCAP", "cleanUpOldIndices", "malSysPrunePcap",
          "malSysPruneLogs", "fileCarveHttpServer", "fileScanRuleUpdate", "suricataRuleUpdate"}
NoneAtFirst ==
    (Addresses \ {"reachbackRequestAcl"}) \cup ParseFields
    \cup {"netboxUrl", "opensearchSecondaryMode", "opensearchSecondaryUrl", "pcapIface",
          "indexPruneThreshold", "traefikHost", "traefikResolver", "traefikOpenSearchHost"}

DefaultValue(i) ==
    CASE i \in OnAtFirst -> TRUE
      [] i \in OffAtFirst -> FALSE
      [] i \in NoneAtFirst -> ""
      [] i = Profile -> "malcolm"
      [] i = Orchestration -> "DOCKER_COMPOSE"
      [] i = Mode -> "opensearch-local"
      [] i = "openPortsSelection" -> "no"
      [] i \in {"syslogTcpPort", "syslogUdpPort"} -> -1
      [] i = "reachbackRequestAcl" -> {}
      [] i = "netboxMode" -> "disabled"
      [] i = "fileCarveMode" -> "none"
      [] i = "filebeatTcpLogFormat" -> "json"
      [] i = "liveArkimeCompressionType" -> "none"
      [] i = "zeekIntelCronExpression" -> "0 0 * * *"
      [] i = "lsMemory" -> "2500m"
      [] i = "lsWorkers" -> 2
      [] i = "osMemory" -> "7g"
      [] i = "traefikEntrypoint" -> "websecure"
      [] OTHER -> "-"

InitialValue == [i \in ConfigItems |-> DefaultValue(i)]

\* What the menu lets the user give (choices, validator).
OptionsOf(i) ==
    CASE i \in OnAtFirst \cup OffAtFirst -> BOOLEAN
      [] i = Profile -> {"malcolm", "hedgehog"}
      [] i = Orchestration -> {"DOCKER_COMPOSE", "KUBERNETES"}
      [] i = Mode -> {"opensearch-local"} \cup RemoteModes
      [] i = "opensearchSecondaryMode" -> RemoteModes
      [] i = "openPortsSelection" -> {"no", "yes", "customize"}
      [] i \in {"syslogTcpPort", "syslogUdpPort"} -> {0, 514}
      [] i = "netboxMode" -> {"disabled", "local", "remote"}
      [] i = "fileCarveMode" -> {"none", "all"}
      [] i = "filebeatTcpLogFormat" -> {"json", "raw"}
      [] i = "liveArkimeCompressionType" -> {"none", "zstd"}
      [] i = "zeekIntelCronExpression" -> {"", "0 0 * * *"}
      [] i = "indexPruneThreshold" -> {"", "90%"}
      [] i \in {"remoteMalcolmHost"} -> {""} \cup Hosts
      [] i \in {"logstashHost", "arkimeWiseUrl"} -> {"", "local"} \cup Hosts
      [] i \in {"opensearchPrimaryUrl", "dashboardsUrl"} -> {"local"} \cup Hosts
      [] i = "reachbackRequestAcl" -> SUBSET IPs
      [] i \in {"netboxUrl", "opensearchSecondaryUrl", "traefikHost", "traefikResolver",
                "traefikOpenSearchHost"} -> {""} \cup Hosts
      [] i = "pcapIface" -> {"", "eth0"}
      [] i = "lsWorkers" -> {2, 4}
      [] OTHER -> {DefaultValue(i)}

MenuOptions == [i \in ConfigItems |-> OptionsOf(i)]

\* The files of config/ that keep an item above, and the items of each in the
\* order of its variables.
EnvFiles ==
    {"arkime", "arkime-live", "arkime-offline", "arkime-secret", "beats-common", "dashboards",
     "dashboards-helper", "filebeat", "filescan", "logstash", "netbox-common", "opensearch",
     "pcap-capture", "pipeline", "process", "suricata", "suricata-live", "suricata-offline",
     "upload-common", "zeek", "zeek-live", "zeek-offline"}

ItemsOf(file) ==
    CASE file = "arkime" -> <<"arkimeManagePCAP", "indexManagementPolicy">>
      [] file = "arkime-live" -> <<"liveArkime", "liveArkimeCompressionType">>
      [] file = "arkime-offline" ->
            <<"autoArkime", "liveArkime", "arkimeExposeWise", "arkimeAllowWiseConfig">>
      [] file = "arkime-secret" -> <<"arkimeWiseUrl">>
      [] file = "beats-common" -> <<"logstashHost", "remoteMalcolmHost">>
      [] file = "dashboards" -> <<"dashboardsUrl">>
      [] file = "dashboards-helper" -> <<"indexPruneThreshold">>
      [] file = "filebeat" ->
            <<Orchestration, "exposeFilebeatTcp", "filebeatTcpLogFormat", "filebeatTcpParseSourceField",
              "filebeatTcpParseTargetField", "filebeatTcpParseDropField", "syslogUdpPort", "syslogTcpPort">>
      [] file = "filescan" -> <<"fileCarveHttpServer">>
      [] file = "logstash" -> <<"lsWorkers">>
      [] file = "netbox-common" -> <<"netboxMode", "netboxUrl">>
      [] file = "opensearch" ->
            <<Mode, "opensearchPrimaryUrl", "opensearchSecondaryMode", "opensearchSecondaryUrl">>
      [] file = "pcap-capture" -> <<"pcapNetSniff", "pcapTcpDump", "pcapIface", "tweakIface">>
      [] file = "pipeline" -> <<"pipelineEnabled", "fileScanRuleUpdate">>
      [] file = "process" -> <<Profile, Orchestration>>
      [] file = "suricata" -> <<"suricataRuleUpdate", "malcolmIcs">>
      [] file = "suricata-live" -> <<"liveSuricata", "captureStats">>
      [] file = "suricata-offline" -> <<"autoSuricata", "liveSuricata">>
      [] file = "upload-common" -> <<Orchestration>>
      [] file = "zeek" -> <<"fileCarveMode", "malcolmIcs">>
      [] file = "zeek-live" -> <<"liveZeek", "captureStats">>
      [] file = "zeek-offline" ->
            <<"autoZeek", "liveZeek", "zeekIntelOnStartup", "zeekIntelCronExpression">>

\* The items of a directory, in the order in which os.walk lists its files: an item
\* takes the place of the first variable that names it.
MetIn(directory) ==
    LET Before(n) == UNION {ToSet(ItemsOf(directory[m])) : m \in 1 .. n - 1}
        New(n) == SelectSeq(ItemsOf(directory[n]), LAMBDA i : i \notin Before(n))
    IN  FlattenSeq([n \in DOMAIN directory |-> New(n)])

\* What the .env files say of an item: remoteMalcolmHost is read off
\* LOGSTASH_HOST, and a blank is read only where the item accepts one.
AcceptBlank == {"logstashHost", "remoteMalcolmHost", "arkimeWiseUrl", "zeekIntelCronExpression", "pcapIface"}
EnvValue_AnyHost(i, v) == {v[i]}   \* (mutant)
EnvValue(i, v) ==
    CASE i = "remoteMalcolmHost" -> {IF v["logstashHost"] \in Hosts THEN v["logstashHost"] ELSE ""}
      [] i = "opensearchPrimaryUrl" -> {v[i]} \cap Hosts
      [] i = "netboxUrl" -> IF v["netboxMode"] = "remote" THEN {v[i]} \ {""} ELSE {}
      [] i \in NoneAtFirst \ (AcceptBlank \cup {"opensearchPrimaryUrl"}) -> {v[i]} \ {""}
      [] OTHER -> {v[i]}
=============================================================================
