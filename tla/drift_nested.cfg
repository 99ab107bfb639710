SPECIFICATION Spec
CONSTANTS
    Urls <- MCUrls
    Base <- Root
    Disallowed = {}
    Bodies <- MCBodies
    Html <- MCHtml
    Shells = {}
    LinksOf <- MCLinksOf
    AssetsOf <- MCAssetsOf
    Versions <- MCVersions
    Rank <- MCRank
    MaxPages = 3
    MaxChanges = 1
    MaxClones = 1
    Unconvertible = {}
    Nothing = Nothing
PROPERTY NoDriftMeansUnchanged
CHECK_DEADLOCK FALSE
