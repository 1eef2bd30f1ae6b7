SPECIFICATION SpecAsked
CONSTANTS
    Users = {"root", "person"}
    Root = "root"
    Browsers = {b1, b2}
    Passwords = {p, q}
    Emails = {"local", "mail1", "mail2"}
    RootEmail = "local"
    Subjects = {"google"}
    GoogleEmail <- MCGoogleEmail
    None = None
    MaxTokens = 2
    MaxVersion = 3
SYMMETRY Symmetry
INVARIANTS
    SignInPossible
    
    VersionIdentifiesAccount
PROPERTIES
    TokenUseSound
CHECK_DEADLOCK FALSE
