SPECIFICATION Spec
CONSTANTS
    Roles = {r1, r2}
    Namespaces = {ns1, ns2}
    Pods = {p1, p2}
INVARIANTS
    TypeOK
    NoEmptyMaps
PROPERTY
    ImplementsRoleSet
