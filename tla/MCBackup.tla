------------------------------ MODULE MCBackup ------------------------------
(* Instances of Backup for TLC. *)
EXTENDS Backup, TLC

Ann == [email |-> "ann@here", name |-> "ann"]
Bob == [email |-> "bob@here", name |-> "bob"]

\* Another bob, with a rule that has fired, and an older version's idea of secrets.
Elsewhere ==
    [settings |-> [key \in SettingKey |-> "v2"],
     rules    |-> -2 :> Rule(-1, -2),
     history  |-> -3 :> -2,
     users    |-> -1 :> [email |-> "bob@there", name |-> "bob"]]

MCDefault == [key \in SettingKey |-> "v1"]

MCAccount == {Ann, Bob}

MCForeign == {Elsewhere}

MCChoices == { {"settings", "rules", "history", "users"},
               {"rules", "history", "users", "overwrite"},
               {"rules", "overwrite"} }

\* Everything but the history, which another instance refuses with its rules.
Moving == {{"settings", "rules", "users"}}

=============================================================================
