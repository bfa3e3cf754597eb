\* Two users and two tabs in one browser.
SPECIFICATION SessionSpec
CONSTANTS
    Sessions = {s1, s2, s3}
    Users = {u1, u2}
    Requests = {r1, r2}
    Lifetime = 1
    None = None
SYMMETRY Symmetry
CONSTRAINT Explored
INVARIANTS
    EndedSessionIsUseless
    LoginReplacesSession
    FormActsForItsUser
PROPERTIES
    SessionLifecycle
    OnlyLogoutEndsLogin
    AnswerTakesOnlyDeadCookie
