SPECIFICATION PlatformSpec
CONSTANTS
    Users = {u1, u2}
    User = {u}
    Emails = {a, b, c}
    Email = {m}
    AdminEmail = admin
    Handlers = {h1, h2}
    Handler = {h}
    Background = background
    Fields = {f1, f2}
    Field = {f1}
    MediaSizes = {1, 3}
    MediaLimit = 3
    None = None
SYMMETRY Interchangeable
CHECK_DEADLOCK FALSE
INVARIANTS
    PendingChangesAgree
    StoredOnce
    LimitsAreCounted
PROPERTIES
    EmailChangesAreConfirmed
    MembershipIsGranted
    DoneAsAsked
