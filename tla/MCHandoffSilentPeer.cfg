SPECIFICATION SilentPeerSpec
CONSTANTS
    Left = 0
    Width = 5
    RemoteWidth = 2
    Motion <- UnitMotion
    MaxBacklog = 2
    MaxPresses = 1
    WarpCanFail = FALSE
PROPERTY HotkeyAlwaysReleases
