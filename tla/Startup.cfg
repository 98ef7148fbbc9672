\* Any three faults anywhere, kills included.
CONSTANTS
    Size = 2
    Files <- MCFiles
    Sentinel = "tokens.txt"
    MaxFaults = 3
    SettingsFiles <- MCSettings
    HotkeyFiles <- MCHotkeys
    CommandLines <- MCCommandLines
    Attempts = 3
    MaxTicks = 2
SPECIFICATION FairSpec
INVARIANTS TypeOK InstalledComplete ChordMeaning TypoDegradesOne
PROPERTIES OfflineOnceInstalled RetriesSucceed NothingHangs
