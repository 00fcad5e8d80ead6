SPECIFICATION Spec
CONSTANTS
    ann = ann
    Nobody = Nobody
    Requests <- MCRequests
    Emails <- MCEmails
    Roles = {"readonly", "user"}
    PoolMax = 2
    MaxFailedAttempts = 2
    JwtSecretSet = TRUE
    AuthEnabled = TRUE
INVARIANTS
    AnsweredIsStored
