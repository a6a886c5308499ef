SPECIFICATION RouteSpec
CONSTANTS
    Names <- MCNames
    MemberNames <- MCMembers
    Trees <- MCTrees
    Contents <- MCContents
    MaxEsc = 2
INVARIANTS
    RouteTypeOK
    LinksLeadHome
    ModeLinksAgree
