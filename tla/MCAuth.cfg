SPECIFICATION AuthSpec
CONSTANTS
    tv = tv
    android = android
    other = other
    noClient = noClient
    noToken = noToken
    Clients <- MCClients
    DefaultClientID = tv
    LegacyClientID = android
    NoClient = noClient
    NoToken = noToken
    MaxStarts = 2
    MaxMishaps = 2
INVARIANTS AuthTypeOK AskedPerMishap ClientMatches TokenOnDisk
PROPERTIES SignInEnds
CHECK_DEADLOCK FALSE
