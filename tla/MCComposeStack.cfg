\* Two runs of init_secrets.sh, one of which may be killed, one edit of the
\* environment file, and the gateway, which may be killed once.
CONSTANTS
    Inits = {i1, i2}
    Calls <- TwoCalls
    Services = {"gateway"}
    MaxKills = 1
    MaxEdits = 1
    MaxCrashes = 1
SPECIFICATION FairSpec
CHECK_DEADLOCK FALSE
INVARIANTS
    SuccessMeansProvisioned
    ServesWhatIsProvisioned
    
PROPERTIES
    SecretsKept
    ComesUpByItself
