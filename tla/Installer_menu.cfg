\* The image installed from the ISO, one remote host; each user edits one
\* group of items as often as he likes.
CONSTANTS
    Iso = TRUE
    Hosts = {"10.0.0.1", "siem"}
    IPs = {"10.0.0.1"}
    MaxSaves = 1
    Savers <- StoreSavers
    Items <- ConfigItems
    NoItem <- TopLevel
    Ruled <- RuledItems
    Computed <- ComputedItems
    Soft <- SoftItems
    Parent <- ParentOf
    ShowDeps <- ShowsOn
    ValueDeps <- DefaultsFrom
    Shown <- RuleShown
    Default <- RuleDefault
    Place <- PlaceOf
    Observers <- ObserversOf
    Children <- ChildrenOf
    Initial <- InitialValue
    Options <- MenuOptions
    PresetItem <- Orchestration
    LoadOrders <- OrdersTried
    Stored <- EnvValue
    Issues <- ConfigIssues
    Menus <- AllMenus
PROPERTY CascadeEnds
SPECIFICATION FairSpec
INVARIANTS TypeOK VisibleIsCurrent DefaultsAreCurrent OneCaptureEngine HiddenServicesAreLocal AddressesAreLoaded ClosedPortsAreClosed
CHECK_DEADLOCK FALSE
