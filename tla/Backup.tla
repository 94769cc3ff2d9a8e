-------------------------------- MODULE Backup --------------------------------
(***************************************************************************)
(* Exporting the database to a file and importing a file, while the rest   *)
(* of the program goes on.                                                 *)
(*                                                                         *)
(*   app/services/backup.py        export_data, import_data                *)
(*   app/api/routes/admin.py       export_backup, import_backup            *)
(*                                                                         *)
(* An export is one SELECT after the other, an import a sequence of        *)
(* commits: settings one by one, rules one by one, the history in one      *)
(* transaction, users one by one.  Nothing holds them together.  The file  *)
(* is one that export_data wrote, here or in another instance, so          *)
(* validate_payload accepts it.                                            *)
(***************************************************************************)
EXTENDS Integers, FiniteSets

CONSTANTS
    Account,       \* e-mail and name of the accounts people have: [email, name]
    SettingKey,    \* keys of the settings table
    SecretKeys,    \* _REDACT_KEYS
    Value,         \* values of a setting, the placeholder REDACTED aside
    HistoryLimit,  \* rows of history an export takes
    Foreign,       \* files exported by other instances
    Choices,       \* the boxes an administrator may tick on the import form
    Default,       \* Default[key]: its value on the first day
    MaxChanges,    \* bound on what everybody else does
    MaxImports,    \* bound on imports
    MaxFaults      \* bound on crashes and failed statements

\* The form's check boxes.
Boxes == {"settings", "rules", "history", "users", "overwrite"}

ASSUME ChoiceAssumption  == Choices \subseteq SUBSET Boxes
ASSUME SettingAssumption == /\ SecretKeys \subseteq SettingKey
                            /\ "REDACTED" \notin Value
                            /\ Default \in [SettingKey -> Value]
ASSUME BoundAssumption   == {MaxChanges, MaxImports, MaxFaults, HistoryLimit} \subseteq Nat

\* The ids of another instance, which never come up here, are negative.
IsForeign(id) == id \in Int /\ id < 0

ASSUME ForeignAssumption ==
    \A f \in Foreign :
        /\ f = [settings |-> f.settings, rules |-> f.rules, history |-> f.history, users |-> f.users]
        /\ DOMAIN f.settings \subseteq SettingKey
        /\ \A id \in DOMAIN f.rules \cup DOMAIN f.history \cup DOMAIN f.users : IsForeign(id)
        /\ \A id \in DOMAIN f.rules : IsForeign(f.rules[id].user)

VARIABLES
    users,     \* users[id]: the account
    rules,     \* rules[id]: its owner, and the id it had before it was first exported
    history,   \* history[id]: the rule that fired
    settings,  \* settings[key]
    next_id,   \* the next uuid
    file,      \* what the administrator would upload
    job,       \* the administrator's request
    changes, imports, faults,
    \* observers
    base,      \* the database when the export of the file began, while untouched
    touched,   \* somebody else changed it since, or rules were to be overwritten
    quiet,     \* nobody else changed it since the import began
    kept,      \* rules, by their first id, that nobody deleted
    cut_short  \* those whose replacement failed half way

database   == << users, rules, history, settings >>
observers  == << base, touched, quiet, kept, cut_short >>
backupVars == << database, next_id, file, job, changes, imports, faults, observers >>

\* A table without rows or a file without a section.
Nothing == [x \in {} |-> 0]

NoFile == [settings |-> Nothing, rules |-> Nothing, history |-> Nothing, users |-> Nothing]

\* todo: what the present section still has to go through; one: the row it is at;
\* flushed: history rows sent to the database and not committed.
Idle == [step |-> "idle", boxes |-> {}, file |-> NoFile, todo |-> {}, one |-> 0, flushed |-> {}]

\* The data base of a started process: one account with a rule that has fired.
Init ==
    /\ \E a \in Account : users = [id \in {1} |-> a]
    /\ rules = [id \in {2} |-> [user |-> 1, origin |-> 2]]
    /\ history = [id \in {3} |-> 2]
    /\ settings = Default
    /\ next_id = 4
    /\ file \in Foreign \cup {NoFile}
    /\ job = Idle
    /\ changes = 0
    /\ imports = 0
    /\ faults = 0
    /\ base = NoFile
    /\ touched = TRUE
    /\ quiet = FALSE
    /\ kept = {2}
    /\ cut_short = {}

-----------------------------------------------------------------------------
At(step) == job.step = step

\* The rule the import is at.
InHand == job.file.rules[job.one]

(* Tables. *)

\* A row more, or another one under the same id.
With(table, id, row) == [x \in DOMAIN table \cup {id} |-> IF x = id THEN row ELSE table[x]]

Without(table, ids) == [x \in DOMAIN table \ ids |-> table[x]]

Rule(user, origin) == [user |-> user, origin |-> origin]

\* The history rows that go with rules: ON DELETE CASCADE.
HistoryOf(ids) == {h \in DOMAIN history : history[h] \in ids}

Origins == {rules[id].origin : id \in DOMAIN rules}

DeleteRules(ids) ==
    /\ rules' = Without(rules, ids)
    /\ history' = Without(history, HistoryOf(ids))

-----------------------------------------------------------------------------
(* Everybody else: users, their rules, the engine that fires them, retention. *)

\* A rule an unfinished transaction refers to cannot be deleted before it ends.
Referred == {job.file.history[h] : h \in job.flushed}

Changed == /\ changes < MaxChanges
           /\ changes' = changes + 1
           /\ touched' = TRUE
           /\ quiet' = FALSE
           /\ base' = NoFile
           /\ UNCHANGED << file, job, imports, faults, cut_short >>

NewId == next_id' = next_id + 1

Register(a) ==
    /\ \A id \in DOMAIN users : users[id].email # a.email /\ users[id].name # a.name
    /\ NewId
    /\ users' = With(users, next_id, a)
    /\ Changed
    /\ UNCHANGED << rules, history, settings, kept >>

DeleteUser(u) ==
    LET own == {id \in DOMAIN rules : rules[id].user = u}
        lost == {rules[id].origin : id \in own}
                    \cup (IF At("rule_create") /\ InHand.user = u THEN {InHand.origin} ELSE {})
    IN  /\ u \in DOMAIN users
        /\ own \cap Referred = {}
        /\ users' = Without(users, {u})
        /\ DeleteRules(own)
        /\ kept' = kept \ lost
        /\ Changed
        /\ UNCHANGED << settings, next_id >>

CreateRule(u) ==
    /\ u \in DOMAIN users
    /\ NewId
    /\ rules' = With(rules, next_id, Rule(u, next_id))
    /\ kept' = kept \cup {next_id}
    /\ Changed
    /\ UNCHANGED << users, history, settings >>

DeleteRule(id) ==
    /\ id \in DOMAIN rules \ Referred
    /\ DeleteRules({id})
    /\ kept' = kept \ {rules[id].origin}
    /\ Changed
    /\ UNCHANGED << users, settings, next_id >>

FireRule(id) ==
    /\ id \in DOMAIN rules
    /\ NewId
    /\ history' = With(history, next_id, id)
    /\ Changed
    /\ UNCHANGED << users, rules, settings, kept >>

\* Retention deletes the oldest rows.
CleanUpHistory(last) ==
    /\ history' = Without(history, {h \in DOMAIN history : h <= last})
    /\ Changed
    /\ UNCHANGED << users, rules, settings, next_id, kept >>

SaveSetting(key, value) ==
    /\ key \notin SecretKeys
    /\ settings' = [settings EXCEPT ![key] = value]
    /\ Changed
    /\ UNCHANGED << users, rules, history, next_id, kept >>

-----------------------------------------------------------------------------
(* The export. *)

OnlyJob == UNCHANGED << database, next_id, changes, imports, faults, observers >>

Redacted == [key \in SettingKey |-> IF key \in SecretKeys THEN "REDACTED" ELSE settings[key]]

\* export_data reads the settings first.
StartExport ==
    /\ At("idle")
    /\ job' = [Idle EXCEPT !.step = "export_rules", !.file = [NoFile EXCEPT !.settings = Redacted]]
    /\ base' = [settings |-> settings, rules |-> rules, history |-> history, users |-> users]
    /\ touched' = FALSE
    /\ file' = NoFile
    /\ UNCHANGED << database, next_id, changes, imports, faults, quiet, kept, cut_short >>

ExportRules ==
    /\ At("export_rules")
    /\ job' = [job EXCEPT !.step = "export_history",
                          !.file = [job.file EXCEPT !.rules = rules]]
    /\ UNCHANGED file
    /\ OnlyJob

\* get_all_history: the latest rows.
Latest == {h \in DOMAIN history :
              Cardinality({g \in DOMAIN history : g > h}) < HistoryLimit}

\* Unless the box is left open.
ExportHistory(taken) ==
    /\ At("export_history")
    /\ job' = [job EXCEPT !.step = "export_users",
                          !.file = [job.file EXCEPT !.history =
                                       [h \in (IF taken THEN Latest ELSE {}) |-> history[h]]]]
    /\ UNCHANGED file
    /\ OnlyJob

ExportUsers(taken) ==
    /\ At("export_users")
    /\ file' = [job.file EXCEPT !.users = IF taken THEN users ELSE Nothing]
    /\ job' = Idle
    /\ OnlyJob

-----------------------------------------------------------------------------
(* The import.  Rows of a section come in the order of the file: any. *)

\* The section that follows, when its box is ticked.
Section(name) ==
    CASE name \notin job.boxes -> {}
      [] name = "settings"     -> DOMAIN job.file.settings
      [] name = "rules"        -> DOMAIN job.file.rules
      [] name = "history"      -> DOMAIN job.file.history
      [] name = "users"        -> DOMAIN job.file.users

After == [settings |-> "rules", rules |-> "history", history |-> "users", users |-> "done"]

\* The row is dealt with.
NextRow == job' = [job EXCEPT !.todo = @ \ {job.one}, !.one = 0,
                              !.step = CASE job.step \in {"rule_owner", "rule_existing", "rule_create"} -> "rules"
                                         [] job.step \in {"user_email", "user_create"}                  -> "users"
                                         [] OTHER                                                       -> job.step]

\* The section is through.
NextSection ==
    /\ job.todo = {}
    /\ job.step \in {"settings", "rules", "users"}
    /\ job' = [job EXCEPT !.step = After[job.step],
                          !.todo = IF job.step = "users" THEN {} ELSE Section(After[job.step])]
    /\ UNCHANGED file
    /\ OnlyJob

StartImport(boxes) ==
    /\ At("idle")
    /\ imports < MaxImports
    /\ imports' = imports + 1
    /\ job' = [Idle EXCEPT !.step = "settings", !.boxes = boxes, !.file = file,
                           !.todo = IF "settings" \in boxes THEN DOMAIN file.settings ELSE {}]
    /\ quiet' = TRUE
    /\ IF "overwrite" \in boxes THEN touched' = TRUE /\ base' = NoFile
                               ELSE UNCHANGED << touched, base >>
    /\ UNCHANGED << database, next_id, file, changes, faults, kept, cut_short >>

Writable(key) == job.file.settings[key] # "REDACTED" /\ key \notin SecretKeys

\* set_value commits.
ImportSetting(key) ==
    /\ At("settings") /\ key \in job.todo
    /\ settings' = IF Writable(key) THEN [settings EXCEPT ![key] = job.file.settings[key]]
                   ELSE settings
    /\ job' = [job EXCEPT !.todo = @ \ {key}]
    /\ UNCHANGED << users, rules, history, next_id, file, changes, imports, faults, observers >>

TakeRule(id) ==
    /\ At("rules") /\ id \in job.todo
    /\ job' = [job EXCEPT !.step = "rule_owner", !.one = id]
    /\ UNCHANGED file
    /\ OnlyJob

\* Rules of accounts that are not here are left out.
RuleOwner ==
    /\ At("rule_owner")
    /\ IF InHand.user \in DOMAIN users
       THEN job' = [job EXCEPT !.step = "rule_existing"]
       ELSE NextRow
    /\ UNCHANGED file
    /\ OnlyJob

\* Mutant: an existing rule gets a twin.
RuleExistingNoSkip ==
    /\ At("rule_existing")
    /\ job' = [job EXCEPT !.step = IF job.one \in DOMAIN rules /\ "overwrite" \in job.boxes
                                   THEN "rule_delete" ELSE "rule_create"]
    /\ UNCHANGED file
    /\ OnlyJob

RuleExisting ==
    /\ At("rule_existing")
    /\ CASE job.one \notin DOMAIN rules -> job' = [job EXCEPT !.step = "rule_create"]
         [] job.one \in DOMAIN rules /\ "overwrite" \in job.boxes ->
                job' = [job EXCEPT !.step = "rule_delete"]
         [] OTHER -> NextRow
    /\ UNCHANGED file
    /\ OnlyJob

\* Mutant: the rule is deleted, and its turn is over.
RuleDeleteSkips ==
    /\ At("rule_delete")
    /\ DeleteRules({job.one})
    /\ job' = [job EXCEPT !.todo = @ \ {job.one}, !.one = 0, !.step = "rules"]
    /\ UNCHANGED << users, settings, next_id, file, changes, imports, faults, observers >>

\* The deletion is committed by itself.
RuleDelete ==
    /\ At("rule_delete")
    /\ DeleteRules({job.one})
    /\ job' = [job EXCEPT !.step = "rule_create"]
    /\ UNCHANGED << users, settings, next_id, file, changes, imports, faults, observers >>

\* The request ends with an exception; what is committed stays.
Fail == job' = [Idle EXCEPT !.step = "failed"]

\* create_rule gives the rule a new id, and no last state.
RuleCreate ==
    /\ At("rule_create")
    /\ InHand.user \in DOMAIN users
    /\ NewId
    /\ rules' = With(rules, next_id, InHand)
    /\ kept' = kept \cup {InHand.origin}
    /\ NextRow
    /\ UNCHANGED << users, history, settings, file, changes, imports, faults, base, touched, quiet, cut_short >>

\* The owner has been deleted in between: the foreign key refuses the rule.
RuleRefused ==
    /\ At("rule_create")
    /\ InHand.user \notin DOMAIN users
    /\ Fail
    /\ UNCHANGED file
    /\ OnlyJob

\* The row that was added last meets its foreign key when it is flushed.
Flushes == job.one # 0 => job.file.history[job.one] \in DOMAIN rules

\* Mutant: the last row is forgotten.
SentFlushed == job.flushed

Sent == IF job.one = 0 THEN job.flushed ELSE job.flushed \cup {job.one}

\* The SELECT for a row flushes the one before.
TakeHistory(h) ==
    /\ At("history") /\ h \in job.todo
    /\ Flushes
    /\ job' = [job EXCEPT !.todo = @ \ {h}, !.flushed = Sent,
                          !.one = IF h \in DOMAIN history THEN 0 ELSE h]
    /\ UNCHANGED file
    /\ OnlyJob

HistoryRefused ==
    /\ At("history") /\ ~Flushes
    /\ Fail
    /\ UNCHANGED file
    /\ OnlyJob

HistoryCommit ==
    /\ At("history") /\ job.todo = {}
    /\ Flushes
    /\ history' = [h \in DOMAIN history \cup Sent |->
                      IF h \in Sent THEN job.file.history[h] ELSE history[h]]
    /\ job' = [job EXCEPT !.step = "users", !.one = 0, !.flushed = {}, !.todo = Section("users")]
    /\ UNCHANGED << users, rules, settings, next_id, file, changes, imports, faults, observers >>

\* Accounts are recognised by their e-mail.
TakeUser(u) ==
    /\ At("users") /\ u \in job.todo
    /\ job' = [job EXCEPT !.step = "user_email", !.one = u]
    /\ UNCHANGED file
    /\ OnlyJob

UserKnown == \E id \in DOMAIN users : users[id].email = job.file.users[job.one].email

UserEmail ==
    /\ At("user_email")
    /\ IF UserKnown THEN NextRow ELSE job' = [job EXCEPT !.step = "user_create"]
    /\ UNCHANGED file
    /\ OnlyJob

NameTaken == \E id \in DOMAIN users : \/ users[id].email = job.file.users[job.one].email
                                      \/ users[id].name = job.file.users[job.one].name

UserCreate ==
    /\ At("user_create")
    /\ ~NameTaken
    /\ NewId
    /\ users' = With(users, next_id, job.file.users[job.one])
    /\ NextRow
    /\ UNCHANGED << rules, history, settings, file, changes, imports, faults, observers >>

\* A name belongs to another e-mail here, or both have come in the meantime.
UserRefused ==
    /\ At("user_create")
    /\ NameTaken
    /\ Fail
    /\ UNCHANGED file
    /\ OnlyJob

\* The rule in hand, when its deletion is committed and its copy is not.
Replacing == IF At("rule_create") THEN {InHand.origin} \cap (kept \ Origins) ELSE {}

\* A statement fails, or the process dies.
Interrupted ==
    /\ job.step \notin {"idle", "failed", "done"}
    /\ faults < MaxFaults
    /\ faults' = faults + 1
    /\ cut_short' = cut_short \cup Replacing
    /\ Fail
    /\ UNCHANGED << database, next_id, file, changes, imports, base, touched, quiet, kept >>

\* The answer.
Close ==
    /\ job.step \in {"failed", "done"}
    /\ job' = Idle
    /\ UNCHANGED file
    /\ OnlyJob

Export == StartExport \/ ExportRules \/ \E taken \in BOOLEAN : ExportHistory(taken) \/ ExportUsers(taken)

Import ==
    \/ \E boxes \in Choices : StartImport(boxes)
    \/ NextSection
    \/ \E key \in SettingKey : ImportSetting(key)
    \/ (\E id \in job.todo : TakeRule(id)) \/ RuleOwner \/ RuleExisting \/ RuleDelete
    \/ RuleCreate \/ RuleRefused
    \/ (\E h \in job.todo : TakeHistory(h)) \/ HistoryRefused \/ HistoryCommit
    \/ (\E u \in job.todo : TakeUser(u)) \/ UserEmail \/ UserCreate \/ UserRefused

Others ==
    \/ \E a \in Account : Register(a)
    \/ \E u \in DOMAIN users : DeleteUser(u) \/ CreateRule(u)
    \/ \E id \in DOMAIN rules : DeleteRule(id) \/ FireRule(id)
    \/ \E h \in DOMAIN history : CleanUpHistory(h)
    \/ \E key \in SettingKey, value \in Value : SaveSetting(key, value)

Next == Export \/ Import \/ Others \/ Interrupted \/ Close

Spec == Init /\ [][Next]_backupVars

-----------------------------------------------------------------------------
(* Properties. *)

\* As long as nobody else changes anything, importing what was exported here
\* changes nothing, whatever sections the file and the form take, however often,
\* and wherever it fails.
OwnExportChangesNothing ==
    ~touched => /\ users = base.users /\ rules = base.rules
                /\ history = base.history /\ settings = base.settings

\* An import that nobody disturbs and that ends well has given back, of the ticked
\* sections, the settings that are no secrets, the rules whose owners are here under
\* the ids of the file, every row of the history, and an account for every e-mail.
\* Rules of other owners are left out, also those whose accounts this very import
\* makes; a rule comes back as it was set up, without its last state.
RestoreIsComplete ==
    At("done") /\ quiet =>
        /\ "settings" \in job.boxes =>
               \A key \in DOMAIN job.file.settings :
                   Writable(key) => settings[key] = job.file.settings[key]
        /\ "rules" \in job.boxes =>
               \A id \in DOMAIN job.file.rules :
                   job.file.rules[id].user \in DOMAIN users => job.file.rules[id].origin \in Origins
        /\ "history" \in job.boxes => DOMAIN job.file.history \subseteq DOMAIN history
        /\ "users" \in job.boxes =>
               \A u \in DOMAIN job.file.users :
                   \E id \in DOMAIN users : users[id].email = job.file.users[u].email

\* A rule that nobody deletes stays, as itself or as the copy that replaced it; it
\* is lost only when an import is cut short between the two commits. Of its history
\* it says nothing: that goes with the old row, and nothing brings it back.
RulesOutliveImports == kept \subseteq Origins \cup cut_short \cup Replacing

\* "Exported files can be used to migrate to another instance": after as many
\* undisturbed imports of everything as one likes, the rules of the file are here.
MigrationKeepsRules ==
    At("done") /\ imports = MaxImports =>
        \A id \in DOMAIN job.file.rules : job.file.rules[id].origin \in Origins

=============================================================================
