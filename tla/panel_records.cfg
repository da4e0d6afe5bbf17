SPECIFICATION Spec
CONSTANTS
    PartNames = {"monitor", "reconcile", "accounting", "destinations", "diagnostics", "kernel", "accounts", "update", "restore", "link", "settings", "transfer"}
    MonitorConfigs <- MCMonitorConfigs
    ReconcileCfgs = {1, 2}  ReconcileMaxHand = 1
    AccountingMaxBytes = 3
    DestinationsKeys = {1, 2}  DestinationsMaxTracked = 1  DestinationsMaxBytes = 3
    DiagnosticsDests = {1, 2}  DiagnosticsMaxFaults = 1
    KernelValues = {1, 2}  KernelMaxHand = 1
    AdmissionRules = {1, 2}  AdmissionProtocols = {"udp", "both"}
    AdmissionAddresses = {"A", "any"}  AdmissionMaxPort = 3  AdmissionPanel = 1
    AdmissionDefaultSsh = 2
    AddressingFamilies <- MCAddressFamilies  AddressingPinned = {1}
    AddressingMaxTunnels = 2  AddressingMaxSpan = 3
    AccountsClients = {"c", "d"}  AccountsLimit = 2  AccountsPasswords = {1, 2}
    AccountsMaxVersion = 2
    UpdateVersions = {1, 2}  UpdateLocal = 0
    AddressPorts = {2, 3}  AddressDefaultPort = 3  AddressPaths = {8, 9}  AddressRoot = 8
    AddressAbsent = 0  AddressEdited = {"port"}  AddressBusy = {2}
    RestoreUploads = {1, 2}  RestoreCli = 3  RestoreMaxFiles = 4  RestoreMaxInstalls = 2
    LinkAskers = {1, 2}  LinkLoads = {1}  LinkMaxLinks = 2  LinkWindow = 2  LinkMaxTime = 3
    SettingsWriters = {1, 2}  SettingsValues = {1, 2}  SettingsDefault <- MCSettingsDefault
    SettingsRetired = 9  SettingsUnset = 0
    TransferNames = {21, 22}  TransferRanges = {11, 12}  TransferPoolIds = {1, 2, 3}
    TransferExported = {1, 2}  TransferNothing = 9  TransferFailures = 1
CHECK_DEADLOCK FALSE
INVARIANTS
    
    NothingCountedTwice
    FloorUnlessTruncated
    DiagnosisIsFair
    SettingsAreKept
    
    
    LinksAreSound
    SettingsAreInForce
    

    
    
