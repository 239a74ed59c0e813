SPECIFICATION FairSpec
CONSTANTS
    Nil = Nil
    sub = sub
    host = host
    auth = auth
    dev = dev
    inb = inb
    wg = wg
    other = other
    on = on
    off = off
    Subscribes = {sub}
    NodeGroups = {}
    RuleSets = {}
    Settings = {host, auth}
    Devices = {dev}
    Inbounds = {inb}
    WireGuards = {wg, other}
    ExtraOutbounds = {}
    Reserved = {auth}
    MaxPeer = 2
    Values = {on, off}
    Zero = off
    Default = on
    Backends = {"database", "supabase"}
    Stores <- SomeStores
    MaxEdits = 1
    Uploads <- OneUpload
    Faults = {"error", "lost_ack", "crash"}
    MaxFaults = 1
INVARIANTS TypeOK ExportIsClosed ReportIsTrue CleanImportCompletes
PROPERTIES NothingOverwritten 
