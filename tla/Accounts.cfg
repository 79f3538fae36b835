SPECIFICATION Spec
CONSTANTS
    Users = {root, ann}
    Installer = root
    Tenants = {main, other}
    Primary = main
    Roles = {super_admin, admin, employee}
    SuperAdmin = super_admin
    Employee = employee
    Replacements <- OneRole
    Targets = {"suspended", "deleted"}
    Sessions = {s1, s2, s3}
    Requests = {r1, r2}
    Nobody = Nobody
CHECK_DEADLOCK FALSE
SYMMETRY Symmetry
INVARIANTS TypeOK SuperAdminsKept SessionsAccounted
