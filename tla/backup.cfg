\* One administrator exports and imports, twice, what this instance or another
\* wrote, while others work and one statement fails.
SPECIFICATION Spec
CONSTANTS
    Account <- MCAccount
    SettingKey = {"smtp.host", "smtp.password"}
    SecretKeys = {"smtp.password"}
    Value = {"v1", "v2"}
    HistoryLimit = 1
    Foreign <- MCForeign
    Choices <- MCChoices
    Default <- MCDefault
    MaxImports = 2
    MaxChanges = 2
    MaxFaults = 1
INVARIANTS OwnExportChangesNothing RestoreIsComplete RulesOutliveImports
