SPECIFICATION StreamSpec
CONSTANTS
    OpenTries = 2
    MaxOpens = 3
INVARIANTS
    AllOfOneFilm
