\* Any one fault: an edited file among them.
CONSTANTS
    Size = 2
    Files <- MCFiles
    Sentinel = "tokens.txt"
    MaxFaults = 1
    SettingsFiles <- MCSettings
    HotkeyFiles <- MCHotkeys
    CommandLines <- MCCommandLines
    Attempts = 3
    MaxTicks = 2
SPECIFICATION Spec
INVARIANT BadValuesFallBack
