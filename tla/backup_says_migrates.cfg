\* A file of another instance, imported into this one twice.
SPECIFICATION Spec
CONSTANTS
    Account <- MCAccount
    SettingKey = {"smtp.host", "smtp.password"}
    SecretKeys = {"smtp.password"}
    Value = {"v1", "v2"}
    HistoryLimit = 1
    Foreign <- MCForeign
    Choices <- Moving
    Default <- MCDefault
    MaxImports = 2
    MaxChanges = 0
    MaxFaults = 0
INVARIANT MigrationKeepsRules
