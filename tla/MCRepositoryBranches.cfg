CONSTANTS
    u1 = u1
    u2 = u2
    o1 = o1
    n1 = n1
    n2 = n2
    master = master
    dev = dev
    Users <- MCOneUser
    Orgs <- MCOrgs
    OrgOwners <- MCOrgOwners
    Names <- MCNames
    Branches <- MCBranches
    Master = master
    OwnerTypes <- MCOwnerTypes
    w1 = w1
    w2 = w2
    w3 = w3
    w4 = w4
    oGone = oGone
    Whois <- MCWhois
    QueryNames <- MCQueryNames
    DefaultLimit = 3
    MaxRepositories = 1

SYMMETRY MCSymmetry

SPECIFICATION Spec

PROPERTY DefaultBranchStaysABranch
CHECK_DEADLOCK FALSE
