\* One run of init_secrets.sh and the identity profile.
CONSTANTS
    Inits = {i1}
    Calls <- CreateSecrets
    Services = {"keycloak", "database"}
    MaxKills = 0
    MaxEdits = 0
    MaxCrashes = 0
SPECIFICATION Spec
CHECK_DEADLOCK FALSE
INVARIANTS
    SecretsFitTheirReaders
