\* Two organizations and their admins, who add each other as agents.
SPECIFICATION MembershipSpec
CONSTANTS
    Users = {u1, u2}
    Organizations = {o1, o2}
    Slugs = {s1, s2}
    Spellings = {"ada@x", "Ada@x", "bob@x"}
    Normalize <- Lower
    Requests = {r1, r2}
    None = None
SYMMETRY Symmetry
INVARIANTS
    ActorsAreAdmins
    RegistrationIsWhole
PROPERTY ImplementsTenancy
