SPECIFICATION Spec
CONSTANTS
    Urls <- MCUrls
    Base <- Root
    Disallowed = {}
    Bodies <- MCBodies
    Html <- MCHtml
    Shells = {"home2"}
    LinksOf <- MCLinksOf
    AssetsOf <- MCAssetsOf
    Versions <- MCVersions
    Rank <- MCRank
    MaxPages = 3
    MaxChanges = 1
    MaxClones = 2
    Unconvertible = {"news2"}
    Nothing = Nothing
INVARIANTS
    TypeOK
    AccountIsExact
PROPERTIES
    LoadedIsCrawled
CHECK_DEADLOCK FALSE
