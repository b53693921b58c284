SPECIFICATION Spec
CONSTANTS
    Kind <- MCKind
    Databases <- MCDatabases
    Permissions <- MCPermissions
    DbGrants <- MCDbGrants
    Targets <- MCTargets
    Requests <- MCRequests
    RowCeiling = 4
    TimeoutCeiling = 3
    DefaultRows = 2
    None = None
INVARIANTS OnlyGrantedWrites TightestGrantHolds ListingsAgree
PROPERTY NeverLooser
