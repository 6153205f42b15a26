\* A sensor's configuration is saved once and loaded again; OpenSearch may be on
\* another host than Logstash.
CONSTANTS
    Iso = TRUE
    Hosts = {"10.0.0.1", "siem"}
    IPs = {"10.0.0.1"}
    MaxSaves = 1
    Savers <- StoreSavers
    Items <- ConfigItems
    NoItem <- TopLevel
    Ruled <- RuledItems
    Computed <- ComputedItems
    Soft <- SoftItems
    Parent <- ParentOf
    ShowDeps <- ShowsOn
    ValueDeps <- DefaultsFrom
    Shown <- RuleShown
    Default <- RuleDefault
    Place <- PlaceOf
    Observers <- ObserversOf
    Children <- ChildrenOf
    Initial <- InitialValue
    Options <- MenuOptions
    PresetItem <- Orchestration
    LoadOrders <- OrdersTried
    Stored <- EnvValue
    Issues <- ConfigIssues
    Menus <- StoreSavers
SPECIFICATION FairSpec
INVARIANT SavedIsLoaded
CHECK_DEADLOCK FALSE
