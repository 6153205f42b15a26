--------------------------- MODULE InstallerConfig ---------------------------
(***************************************************************************)
(* The installer's configuration: the rules of dependencies.py driven by   *)
(* the dependency manager, and what is checked before it is saved:         *)
(*   src/scripts/installer/core/validation.py                              *)
(***************************************************************************)
EXTENDS InstallerRules, DependencyManager

Blank(v, i) == v[i] = ""

\* _validate_conn_for_profile: a blank address is reported under its own value.
ConnIssues(v, i, malcolm, blankOk) ==
    IF Blank(v, i) THEN (IF blankOk THEN {} ELSE {""})
    ELSE IF (v[i] = "local") # malcolm THEN {i} ELSE {}

\* _validate_url_for_mode.
UrlIssues(v, i, localModes) ==
    IF Blank(v, i) \/ (v[i] = "local") # (v[Mode] \in localModes) THEN {i} ELSE {}

\* _validate_local_vs_remote_urls.
AddressIssues(v) ==
    ConnIssues(v, "logstashHost", Malcolm(v), ~Malcolm(v))
    \cup ConnIssues(v, "arkimeWiseUrl", Malcolm(v) /\ ~v["liveArkime"], ~Malcolm(v) \/ v["liveArkime"])
    \cup UrlIssues(v, "opensearchPrimaryUrl", {"opensearch-local"})
    \cup (IF Malcolm(v) THEN UrlIssues(v, "dashboardsUrl", {"opensearch-local", "opensearch-remote"})
          ELSE {})

\* _validate_secondary_remote, _validate_live_capture_iface, _validate_netbox_remote:
\* asked only of an item on the screen.
ShownAndBlank(v, s) ==
    {i \in s : \/ i = "opensearchSecondaryUrl" /\ Blank(v, i)
               \/ /\ i = "pcapIface" /\ Blank(v, i) /\ v[Live]
                  /\ \E m \in Engines \cup {"liveZeek", "liveSuricata"} : v[m]
               \/ i = "netboxUrl" /\ Blank(v, i) /\ v["netboxMode"] = "remote"}

\* _validate_traefik_labels: the host of OpenSearch is asked for even when it
\* is not on the screen.
TraefikIssues(v, s) ==
    IF ~v["traefikLabels"] THEN {}
    ELSE {i \in s \cap {"traefikHost", "traefikEntrypoint", "traefikResolver"} : Blank(v, i)}
         \cup {i \in {"traefikOpenSearchHost"} :
                  /\ LocalStore(v) /\ v["exposeOpenSearch"]
                  /\ Blank(v, i) \/ v[i] = v["traefikHost"]}

\* _validate_live_pcap_capture.
CaptureIssues(v) ==
    (IF \E e, f \in Engines : e # f /\ v[e] /\ v[f] THEN {Live} ELSE {})
    \cup (IF v["liveArkime"] /\ Malcolm(v) /\ LocalStore(v) THEN {"liveArkime"} ELSE {})

\* _validate_old_artifact_cleanup.
CleanUpIssues(v) ==
    {i \in {"indexPruneThreshold"} : Malcolm(v) /\ v["cleanUpOldIndices"] /\ Blank(v, i)}

\* validate_required.
ConfigIssues(v, s) ==
    AddressIssues(v) \cup ShownAndBlank(v, s) \cup TraefikIssues(v, s)
    \cup CaptureIssues(v) \cup CleanUpIssues(v)

-----------------------------------------------------------------------------
Flags == Engines \cup {Live, "liveZeek", "liveSuricata"}
Switches == Ports \ {"openPortsSelection"}
Services == Addresses \ {"reachbackRequestAcl"}

\* What the properties below rest on in the table of rules.
ASSUME RowsAssumption ==
    /\ PresetItem = Orchestration
    /\ {Profile, Orchestration, "autoArkime"} \subseteq Items \ (Ruled \cup Computed)
    /\ Engines \cup {Live, Mode} \subseteq Soft
    /\ Services \cup Switches \subseteq (Ruled \cap Computed) \ Soft
    /\ {"liveZeek", "liveSuricata"} \subseteq Computed \ Soft
    /\ ValueDeps[Mode] = {Profile} /\ ValueDeps[Live] = Flags \ {Live}
    /\ ValueDeps["liveZeek"] = {Live} /\ ValueDeps["liveSuricata"] = {Live}
    /\ \A e \in Engines : ValueDeps[e] = ({Live, Profile, Mode} \cup Engines) \ {e}
    /\ Place[<<"default", "pcapNetSniff">>] < Place[<<"default", "pcapTcpDump">>]
    /\ \A i \in {"remoteMalcolmHost", "logstashHost"} : ShowDeps[i] = {Profile}
    /\ ValueDeps["remoteMalcolmHost"] = {Profile}
    /\ ValueDeps["logstashHost"] = {Profile, "remoteMalcolmHost"}
    /\ ShowDeps["opensearchPrimaryUrl"] = {Profile, Mode}
    /\ ValueDeps["opensearchPrimaryUrl"] = {Profile, Mode, "remoteMalcolmHost"}
    /\ ShowDeps["dashboardsUrl"] = {Profile, Mode} /\ ValueDeps["dashboardsUrl"] = {Mode}
    /\ ShowDeps["arkimeWiseUrl"] = {Profile, "liveArkime"}
    /\ ValueDeps["arkimeWiseUrl"] = {Profile, "liveArkime", "remoteMalcolmHost"}
    /\ \A i \in Switches \ {"exposeOpenSearch"} :
          /\ {"openPortsSelection"} \subseteq ShowDeps[i]
          /\ ShowDeps[i] \subseteq {"openPortsSelection", Orchestration}
          /\ ValueDeps[i] = {"openPortsSelection", Orchestration}
    /\ \A i \in Switches : i \notin {"syslogTcpPort", "syslogUdpPort"} => Orchestration \in ShowDeps[i]
    /\ ShowDeps["exposeOpenSearch"] = {"openPortsSelection", Mode, Orchestration}
    /\ ValueDeps["exposeOpenSearch"] = {"openPortsSelection", Mode, Orchestration}
    /\ Parent[Mode] = Profile /\ Parent["logstashHost"] = Profile /\ Parent["arkimeWiseUrl"] = "autoArkime"
    /\ Parent["opensearchPrimaryUrl"] = Mode /\ Parent["dashboardsUrl"] = Mode
    /\ Initial[Profile] = "malcolm" /\ Initial[Mode] = "opensearch-local"
    /\ \A f \in Flags : Initial[f] = FALSE

\* Which part of the table a key is in; no key is in two.
ASSUME KeysAssumption ==
    /\ {"remoteMalcolmHost", "logstashHost"} \subseteq ProfileKeys
    /\ {Mode, "opensearchPrimaryUrl", "dashboardsUrl"} \subseteq StoreKeys
    /\ "arkimeWiseUrl" \in CaptureKeys
    /\ Switches \subseteq PortKeys
    /\ ProfileKeys \cap (StoreKeys \cup CaptureKeys \cup AnalysisKeys \cup PortKeys \cup CleanUpKeys) = {}
    /\ StoreKeys \cap (CaptureKeys \cup AnalysisKeys \cup PortKeys \cup CleanUpKeys) = {}
    /\ CaptureKeys \cap (AnalysisKeys \cup PortKeys \cup CleanUpKeys) = {}
    /\ AnalysisKeys \cap (PortKeys \cup CleanUpKeys) = {}
    /\ PortKeys \cap CleanUpKeys = {}

\* The files keep what decides on the addresses, and the addresses.
ASSUME FilesAssumption ==
    {Profile, Mode} \cup Engines \cup Services \subseteq Kept /\ Live \notin Kept

\* No address has a value at first; the list of those who may connect is not kept.
ASSUME AddressAssumption ==
    "reachbackRequestAcl" \notin Kept /\ \A i \in Services : Initial[i] = ""

-----------------------------------------------------------------------------
AtMenu == phase = "menu" /\ Idle
Untouched(items) == saves = 0 /\ items \cap modified = {}

\* As long as the user picks none of the programs that write captures, live
\* capture runs exactly the one of the profile and the store: the three rules
\* that switch each other off never leave two of them on, or none, whatever
\* the order in which profile, store and capture were changed.
OneCaptureEngine ==
    AtMenu /\ Untouched(Engines) =>
        {e \in Engines : value[e]} =
            IF ~value[Live] THEN {}
            ELSE IF Malcolm(value) /\ LocalStore(value) THEN {"pcapNetSniff"} ELSE {"liveArkime"}

\* An address the menu no longer shows has lost what the user gave it for the
\* other profile or store: a Malcolm with its own services points to them, also
\* after its configuration was loaded, whatever the order of the .env files.  (For
\* the address of WISE that order matters, so it is looked at before a save only.)
HiddenServicesAreLocal ==
    AtMenu /\ Malcolm(value) =>
        /\ value["remoteMalcolmHost"] = ""
        /\ \A i \in {"logstashHost", "opensearchPrimaryUrl", "dashboardsUrl"} \ visible : value[i] = "local"
        /\ saves = 0 /\ "arkimeWiseUrl" \notin visible => value["arkimeWiseUrl"] = "local"

\* With the ports closed and no Kubernetes nothing listens on one, whatever was
\* opened one by one before.
ClosedPortsAreClosed ==
    AtMenu /\ saves = 0 /\ value["openPortsSelection"] = "no" /\ ~Kubernetes(value) =>
        /\ \A i \in {"exposeLogstash", "exposeFilebeatTcp", "exposeSFTP"} : ~value[i]
        /\ LocalStore(value) => ~value["exposeOpenSearch"]
        /\ value["syslogTcpPort"] = 0 /\ value["syslogUdpPort"] = 0

\* At most one host is named for the services a sensor sends to.
OneHost(files) ==
    \A i, j \in {"remoteMalcolmHost", "logstashHost", "opensearchPrimaryUrl"} :
        \A g \in files[i] \cap Hosts : \A h \in files[j] \cap Hosts : g = h

\* The addresses of a Malcolm, and those of a sensor that sends everything to one
\* host, are found again when the configuration is loaded, although loading one
\* value sets others, and in whatever order the .env files are met.  (Not so the
\* address of WISE: the file that has it may be met before the one that switches
\* liveArkime on, or the one of the store.)
AddressesAreLoaded ==
    phase = "import" /\ Idle /\ toLoad = <<>> =>
        /\ Malcolm(value) \/ OneHost(saved) =>
              \A i \in {"remoteMalcolmHost", "logstashHost", "opensearchPrimaryUrl"} :
                  saved[i] \subseteq {value[i]}
        /\ Malcolm(value) => saved["dashboardsUrl"] \subseteq {value["dashboardsUrl"]}

\* A configuration that was saved is the configuration that is loaded
\* (test_env_full_roundtrip.py: defaults and randomized values).
SavedIsLoaded ==
    phase = "import" /\ Idle /\ toLoad = <<>> =>
        \A i \in Kept : saved[i] \subseteq {value[i]}
=============================================================================
