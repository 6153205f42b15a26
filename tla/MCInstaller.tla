----------------------------- MODULE MCInstaller -----------------------------
(***************************************************************************)
(* Each user edits one group of items: groups that feed each other.        *)
(***************************************************************************)
EXTENDS InstallerConfig

CaptureMenu == {Profile, Mode, Live, "liveArkime"}
EngineMenu == {Profile, Live, "pcapNetSniff", "pcapTcpDump"}
AddressMenu == {Profile, Mode, "remoteMalcolmHost", "logstashHost"}
WiseMenu == {Profile, Live, "liveArkime", "arkimeWiseUrl", "remoteMalcolmHost"}
PortMenu == {Orchestration, Mode, "openPortsSelection", "exposeOpenSearch", "exposeSFTP", "syslogTcpPort"}
CleanUpMenu == {Profile, "cleanUpOldArtifacts", "arkimeManagePCAP", "cleanUpOldIndices",
                "indexPruneThreshold", "malSysPruneLogs"}
ZeekMenu == {"autoZeek", Live, "fileCarveMode", "fileCarveHttpServer",
             "zeekPullIntelligenceFeeds", "zeekIntelOnStartup", "zeekIntelCronExpression"}

StoreMenu == {Profile, Mode, "remoteMalcolmHost", "opensearchPrimaryUrl"}
DashboardsMenu == {Mode, "opensearchPrimaryUrl", "dashboardsUrl"}

StoreSavers == {StoreMenu, DashboardsMenu}
AllMenus ==
    {CaptureMenu, EngineMenu, AddressMenu, WiseMenu, PortMenu, CleanUpMenu, ZeekMenu} \cup StoreSavers

\* The files of the store, the profile and Logstash are met in every order, before
\* the others; the one of Dashboards, which follows the store, first or behind them.
Decisive == {"opensearch", "process", "beats-common"}
Others ==
    <<"arkime", "arkime-live", "arkime-offline", "arkime-secret", "dashboards-helper", "filebeat",
      "filescan", "logstash", "netbox-common", "pcap-capture", "pipeline", "suricata", "suricata-live",
      "suricata-offline", "upload-common", "zeek", "zeek-live", "zeek-offline">>
OrdersTried ==
    UNION {{MetIn(<<"dashboards">> \o first \o Others), MetIn(first \o <<"dashboards">> \o Others)} :
              first \in SetToSeqs(Decisive)}
=============================================================================
