---------------------------- MODULE BackupProofs ----------------------------
(***************************************************************************)
(* What holds of exports and imports for any accounts, settings, files,    *)
(* boxes and bounds, whatever others do and wherever a request is cut off. *)
(*                                                                         *)
(* Coherent says of the tables, the files and the request what the other   *)
(* parts of the invariant need: an id is given once, and a rule that is    *)
(* both here and in a file is the same.  Own, Kept and Restored then go    *)
(* with one property each.                                                 *)
(***************************************************************************)
EXTENDS Backup, TLAPS

RuleSteps == {"rules", "rule_owner", "rule_existing", "rule_delete", "rule_create"}
UserSteps == {"users", "user_email", "user_create"}

IsAFunction(f) == f = [x \in DOMAIN f |-> f[x]]

\* A file and a request are records.
FileForm(f) == f = [settings |-> f.settings, rules |-> f.rules, history |-> f.history, users |-> f.users]

JobForm == job = [step |-> job.step, boxes |-> job.boxes, file |-> job.file, todo |-> job.todo,
                  one |-> job.one, flushed |-> job.flushed]

\* The ids of a file were given before n, and a rule that is still in the table is
\* the one in the file.
Known(f, table, n) ==
    /\ FileForm(f)
    /\ DOMAIN f.settings \subseteq SettingKey
    /\ \A id \in DOMAIN f.rules : /\ id \in Int /\ id < n
                                  /\ f.rules[id].user \in Int /\ f.rules[id].user < n
                                  /\ id \in DOMAIN table => f.rules[id] = table[id]
    /\ DOMAIN f.history \subseteq Int \ {0}

\* The tables: ids are below the next one, and a rule has an owner.
Tables ==
    /\ next_id \in Nat \ {0}
    /\ \A id \in DOMAIN users : id \in Nat /\ id < next_id
    /\ \A id \in DOMAIN rules : id \in Nat /\ id < next_id /\ rules[id].user \in DOMAIN users
    /\ DOMAIN history \subseteq Int \ {0} /\ IsAFunction(history)
    /\ settings = [key \in SettingKey |-> settings[key]]

\* What a section goes through are rows of the file.
Progress(step, todo, one, flushed) ==
    /\ step = "settings" => todo \subseteq DOMAIN job.file.settings
    /\ step \in RuleSteps => todo \subseteq DOMAIN job.file.rules
    /\ step \in RuleSteps \ {"rules"} => one \in todo
    /\ step = "history" => /\ todo \subseteq DOMAIN job.file.history
                           /\ one \in DOMAIN job.file.history \cup {0}
                           /\ flushed \subseteq DOMAIN job.file.history
    /\ step # "history" => flushed = {}
    /\ step \in UserSteps => todo \subseteq DOMAIN job.file.users
    /\ step \in UserSteps \ {"users"} => one \in todo
    /\ step \in {"settings", "rules", "users"} => one = 0

Coherent ==
    /\ JobForm /\ Tables
    /\ Known(file, rules, next_id) /\ Known(job.file, rules, next_id)
    /\ Progress(job.step, job.todo, job.one, job.flushed)

\* A file that was exported here, and not touched since.
OwnFile(f) ==
    /\ \A key \in DOMAIN f.settings \ SecretKeys : f.settings[key] = base.settings[key]
    /\ DOMAIN f.rules \subseteq DOMAIN base.rules
    /\ DOMAIN f.history \subseteq DOMAIN base.history
    /\ \A u \in DOMAIN f.users : u \in DOMAIN base.users /\ f.users[u] = base.users[u]

Own ==
    ~touched =>
        /\ OwnExportChangesNothing
        /\ OwnFile(file) /\ OwnFile(job.file)
        /\ "overwrite" \notin job.boxes
        /\ job.step \notin {"rule_delete", "rule_create", "user_create"}
        /\ job.step = "history" => job.one = 0 /\ job.flushed = {}

\* The rule that is about to be made, which keeps what it replaces.
Promised == IF At("rule_create") /\ InHand.user \in DOMAIN users THEN {InHand.origin} ELSE {}

\* What is lost while a rule is replaced comes back if its owner is still here.
Kept == kept \subseteq Origins \cup cut_short \cup Promised

\* Of the sections that are through, and of the part of the present one.
RestoredSettings(left) ==
    "settings" \in job.boxes =>
        \A key \in DOMAIN job.file.settings \ left : Writable(key) => settings[key] = job.file.settings[key]

RestoredRules(left) ==
    "rules" \in job.boxes =>
        \A id \in DOMAIN job.file.rules \ left :
            job.file.rules[id].user \in DOMAIN users =>
                \E r \in DOMAIN rules \ left : rules[r].origin = job.file.rules[id].origin

RestoredHistory(left) ==
    "history" \in job.boxes => DOMAIN job.file.history \subseteq DOMAIN history \cup left

RestoredUsers(left) ==
    "users" \in job.boxes =>
        \A u \in DOMAIN job.file.users \ left :
            \E id \in DOMAIN users : users[id].email = job.file.users[u].email

Restored ==
    quiet =>
        /\ At("settings") => RestoredSettings(job.todo)
        /\ job.step \in RuleSteps => RestoredSettings({}) /\ RestoredRules(job.todo)
        /\ At("history") => /\ RestoredSettings({}) /\ RestoredRules({})
                            /\ RestoredHistory(job.todo \cup Sent)
        /\ job.step \in UserSteps \cup {"done"} =>
              /\ RestoredSettings({}) /\ RestoredRules({}) /\ RestoredHistory({})
              /\ RestoredUsers(IF At("done") THEN {} ELSE job.todo)

-----------------------------------------------------------------------------
(* The request, step by step. *)

\* The request goes on, with the same file and boxes.
Moves(step, todo, one, flushed) ==
    /\ job' = [step |-> step, boxes |-> job.boxes, file |-> job.file, todo |-> todo, one |-> one,
               flushed |-> flushed]
    /\ UNCHANGED file

LEMMA MovesFields ==
  ASSUME NEW step, NEW todo, NEW one, NEW flushed, Moves(step, todo, one, flushed)
  PROVE  /\ job'.step = step /\ job'.boxes = job.boxes /\ job'.file = job.file
         /\ job'.todo = todo /\ job'.one = one /\ job'.flushed = flushed
         /\ JobForm' /\ file' = file
BY DEF Moves, JobForm


\* What each step of an import does to the request.
LEMMA ImportMoves ==
  ASSUME JobForm
  PROVE  /\ NextSection => \/ /\ At("settings") /\ job.todo = {}
                              /\ Moves("rules", Section("rules"), job.one, job.flushed)
                           \/ /\ At("rules") /\ job.todo = {}
                              /\ Moves("history", Section("history"), job.one, job.flushed)
                           \/ /\ At("users") /\ job.todo = {}
                              /\ Moves("done", {}, job.one, job.flushed)
         /\ \A key : ImportSetting(key) => Moves("settings", job.todo \ {key}, job.one, job.flushed)
         /\ \A id : TakeRule(id) => Moves("rule_owner", job.todo, id, job.flushed)
         /\ RuleOwner => IF InHand.user \in DOMAIN users
                         THEN Moves("rule_existing", job.todo, job.one, job.flushed)
                         ELSE Moves("rules", job.todo \ {job.one}, 0, job.flushed)
         /\ RuleExisting =>
                IF job.one \notin DOMAIN rules
                THEN Moves("rule_create", job.todo, job.one, job.flushed)
                ELSE IF "overwrite" \in job.boxes
                THEN Moves("rule_delete", job.todo, job.one, job.flushed)
                ELSE Moves("rules", job.todo \ {job.one}, 0, job.flushed)
         /\ RuleDelete => Moves("rule_create", job.todo, job.one, job.flushed)
         /\ RuleCreate => Moves("rules", job.todo \ {job.one}, 0, job.flushed)
         /\ \A h : TakeHistory(h) =>
                Moves("history", job.todo \ {h}, IF h \in DOMAIN history THEN 0 ELSE h, Sent)
         /\ HistoryCommit => Moves("users", Section("users"), 0, {})
         /\ \A u : TakeUser(u) => Moves("user_email", job.todo, u, job.flushed)
         /\ UserEmail => IF UserKnown THEN Moves("users", job.todo \ {job.one}, 0, job.flushed)
                         ELSE Moves("user_create", job.todo, job.one, job.flushed)
         /\ UserCreate => Moves("users", job.todo \ {job.one}, 0, job.flushed)
<1>1. ASSUME NextSection
      PROVE  \/ /\ At("settings") /\ job.todo = {}
                /\ Moves("rules", Section("rules"), job.one, job.flushed)
             \/ /\ At("rules") /\ job.todo = {}
                /\ Moves("history", Section("history"), job.one, job.flushed)
             \/ /\ At("users") /\ job.todo = {}
                /\ Moves("done", {}, job.one, job.flushed)
  <2>1. /\ After["settings"] = "rules" /\ After["rules"] = "history" /\ After["users"] = "done"
    BY DEF After
  <2>2. CASE At("settings")
    BY <1>1, <2>1, <2>2 DEF JobForm, NextSection, Moves, At
  <2>3. CASE At("rules")
    BY <1>1, <2>1, <2>3 DEF JobForm, NextSection, Moves, At
  <2>4. CASE At("users")
    BY <1>1, <2>1, <2>4 DEF JobForm, NextSection, Moves, At
  <2> QED
    BY <1>1, <2>2, <2>3, <2>4 DEF NextSection, At
<1>2. ASSUME NEW key, ImportSetting(key)
      PROVE  Moves("settings", job.todo \ {key}, job.one, job.flushed)
  BY <1>2 DEF JobForm, ImportSetting, Moves, At
<1>3. ASSUME NEW id, TakeRule(id) PROVE Moves("rule_owner", job.todo, id, job.flushed)
  BY <1>3 DEF JobForm, TakeRule, Moves
<1>4. ASSUME RuleOwner
      PROVE  IF InHand.user \in DOMAIN users
             THEN Moves("rule_existing", job.todo, job.one, job.flushed)
             ELSE Moves("rules", job.todo \ {job.one}, 0, job.flushed)
  BY <1>4 DEF JobForm, RuleOwner, Moves, At, NextRow
<1>5. ASSUME RuleExisting
      PROVE  IF job.one \notin DOMAIN rules
             THEN Moves("rule_create", job.todo, job.one, job.flushed)
             ELSE IF "overwrite" \in job.boxes
             THEN Moves("rule_delete", job.todo, job.one, job.flushed)
             ELSE Moves("rules", job.todo \ {job.one}, 0, job.flushed)
  BY <1>5 DEF JobForm, RuleExisting, Moves, At, NextRow
<1>6. RuleDelete => Moves("rule_create", job.todo, job.one, job.flushed)
  BY DEF JobForm, RuleDelete, Moves
<1>7. RuleCreate => Moves("rules", job.todo \ {job.one}, 0, job.flushed)
  BY DEF JobForm, RuleCreate, Moves, At, NextRow
<1>8. ASSUME NEW h, TakeHistory(h)
      PROVE  Moves("history", job.todo \ {h}, IF h \in DOMAIN history THEN 0 ELSE h, Sent)
  BY <1>8 DEF JobForm, TakeHistory, Moves, At
<1>9. HistoryCommit => Moves("users", Section("users"), 0, {})
  BY DEF JobForm, HistoryCommit, Moves
<1>10. ASSUME NEW u, TakeUser(u) PROVE Moves("user_email", job.todo, u, job.flushed)
  BY <1>10 DEF JobForm, TakeUser, Moves
<1>11. UserEmail => IF UserKnown THEN Moves("users", job.todo \ {job.one}, 0, job.flushed)
                   ELSE Moves("user_create", job.todo, job.one, job.flushed)
  BY DEF JobForm, UserEmail, Moves, At, NextRow
<1>12. UserCreate => Moves("users", job.todo \ {job.one}, 0, job.flushed)
  BY DEF JobForm, UserCreate, Moves, At, NextRow
<1> QED
  BY <1>1, <1>2, <1>3, <1>4, <1>5, <1>6, <1>7, <1>8, <1>9, <1>10, <1>11, <1>12

-----------------------------------------------------------------------------
(* The tables. *)

LEMMA RowAdded ==
  ASSUME NEW table, NEW new, NEW content
  PROVE  /\ DOMAIN With(table, new, content) = DOMAIN table \cup {new}
         /\ With(table, new, content)[new] = content
         /\ \A x \in DOMAIN table : x # new => With(table, new, content)[x] = table[x]
BY DEF With

LEMMA TableRemains ==
  ASSUME NEW table
  PROVE  /\ \A id, row : IsAFunction(With(table, id, row))
         /\ \A ids : IsAFunction(Without(table, ids))
BY DEF With, Without, IsAFunction

LEMMA RowsTaken ==
  ASSUME NEW table, NEW gone
  PROVE  /\ DOMAIN Without(table, gone) = DOMAIN table \ gone
         /\ \A x \in DOMAIN table \ gone : Without(table, gone)[x] = table[x]
BY DEF Without

\* The steps that change a table; the others leave them alone.
LEMMA StepKinds ==
  ASSUME [Next]_backupVars
  PROVE  \/ UNCHANGED << database, next_id >>
         \/ \E key \in SettingKey : ImportSetting(key)
         \/ RuleDelete \/ RuleCreate \/ HistoryCommit \/ UserCreate
         \/ Others
BY DEF Next, Export, Import, OnlyJob, StartExport, ExportRules, ExportHistory, ExportUsers, StartImport,
       NextSection, TakeRule, RuleOwner, RuleExisting, RuleRefused, TakeHistory, HistoryRefused,
       TakeUser, UserEmail, UserRefused, Interrupted, Close, backupVars

\* What a step does to the rules: rows stay as they are or go, and a new one has the
\* next id.
RulesStep ==
    /\ next_id' \in Nat /\ next_id <= next_id'
    /\ \A id \in DOMAIN rules' : \/ id \in DOMAIN rules /\ rules'[id] = rules[id]
                                 \/ id = next_id /\ next_id < next_id'

LEMMA TablesStep ==
  ASSUME Coherent, [Next]_backupVars
  PROVE  Tables' /\ RulesStep
<1>1. Tables
  BY DEF Coherent
<1>2. CASE UNCHANGED << database, next_id >>
  BY <1>1, <1>2 DEF Tables, RulesStep, database
<1>3. ASSUME NEW key \in SettingKey, ImportSetting(key)
      PROVE  Tables' /\ RulesStep
  <2>1. UNCHANGED << users, rules, history, next_id >>
    BY <1>3 DEF ImportSetting
  <2>2. settings' = [k \in SettingKey |-> settings'[k]]
    BY <1>1, <1>3 DEF ImportSetting, Tables
  <2> QED
    BY <1>1, <2>1, <2>2 DEF Tables, RulesStep
<1>4. ASSUME NEW ids, DeleteRules(ids), UNCHANGED << settings, next_id >>,
             DOMAIN users' \subseteq DOMAIN users,
             \A id \in DOMAIN rules \ ids : rules[id].user \in DOMAIN users'
      PROVE  Tables' /\ RulesStep
  <2>1. /\ DOMAIN rules' = DOMAIN rules \ ids
        /\ \A id \in DOMAIN rules \ ids : rules'[id] = rules[id]
    BY <1>4, RowsTaken DEF DeleteRules
  <2>2. DOMAIN history' \subseteq DOMAIN history /\ IsAFunction(history')
    <3>1. history' = Without(history, HistoryOf(ids))
      BY <1>4 DEF DeleteRules
    <3> QED
      BY <3>1, TableRemains DEF Without
  <2> QED
    BY <1>1, <1>4, <2>1, <2>2 DEF Tables, RulesStep
<1>5. ASSUME RuleDelete PROVE Tables' /\ RulesStep
  BY <1>1, <1>4, <1>5 DEF RuleDelete, Tables
<1>6. ASSUME NEW row, row.user \in DOMAIN users, rules' = With(rules, next_id, row), NewId,
             UNCHANGED << users, history, settings >>
      PROVE  Tables' /\ RulesStep
  <2>1. /\ DOMAIN rules' = DOMAIN rules \cup {next_id}
        /\ rules'[next_id] = row
        /\ \A id \in DOMAIN rules : id # next_id => rules'[id] = rules[id]
    <3>1. rules' = With(rules, next_id, row)
      BY <1>6
    <3> QED
      BY <3>1 DEF With
  <2> QED
    BY <1>1, <1>6, <2>1 DEF Tables, RulesStep, NewId
<1>7. ASSUME RuleCreate PROVE Tables' /\ RulesStep
  BY <1>6, <1>7 DEF RuleCreate
<1>8. ASSUME HistoryCommit PROVE Tables' /\ RulesStep
  <2>1. Sent \subseteq Int \ {0}
    BY <1>8 DEF HistoryCommit, Coherent, Progress, Known, Sent, At
  <2>2. history' = [h \in DOMAIN history \cup Sent |->
                      IF h \in Sent THEN job.file.history[h] ELSE history[h]]
    BY <1>8 DEF HistoryCommit
  <2>3. DOMAIN history' = DOMAIN history \cup Sent /\ IsAFunction(history')
    BY <2>2 DEF IsAFunction
  <2>4. UNCHANGED << users, rules, settings, next_id >>
    BY <1>8 DEF HistoryCommit
  <2> QED
    BY <1>1, <2>1, <2>3, <2>4 DEF Tables, RulesStep
<1>9. ASSUME NEW row, users' = With(users, next_id, row), NewId, UNCHANGED << rules, history, settings >>
      PROVE  Tables' /\ RulesStep
  <2>1. DOMAIN users' = DOMAIN users \cup {next_id}
    BY <1>9, RowAdded
  <2> QED
    BY <1>1, <1>9, <2>1 DEF Tables, RulesStep, NewId
<1>10. ASSUME UserCreate PROVE Tables' /\ RulesStep
  BY <1>9, <1>10 DEF UserCreate
<1>11. ASSUME Others PROVE Tables' /\ RulesStep
  <2>1. ASSUME NEW a, Register(a) PROVE Tables' /\ RulesStep
    BY <1>9, <2>1 DEF Register
  <2>2. ASSUME NEW u, DeleteUser(u) PROVE Tables' /\ RulesStep
    <3>1. DOMAIN users' = DOMAIN users \ {u}
      BY <2>2, RowsTaken DEF DeleteUser
    <3> DEFINE own == {id \in DOMAIN rules : rules[id].user = u}
    <3>2. DeleteRules(own) /\ UNCHANGED << settings, next_id >>
      BY <2>2 DEF DeleteUser
    <3>3. \A id \in DOMAIN rules \ own : rules[id].user \in DOMAIN users'
      BY <1>1, <3>1 DEF Tables
    <3> HIDE DEF own
    <3> QED
      BY <1>4, <3>1, <3>2, <3>3
  <2>3. ASSUME NEW u, CreateRule(u) PROVE Tables' /\ RulesStep
    <3>1. Rule(u, next_id).user \in DOMAIN users
      BY <2>3 DEF CreateRule, Rule
    <3> QED
      BY <1>6, <2>3, <3>1 DEF CreateRule
  <2>4. ASSUME NEW id, DeleteRule(id) PROVE Tables' /\ RulesStep
    BY <1>1, <1>4, <2>4 DEF DeleteRule, Tables
  <2>5. ASSUME NEW id, FireRule(id) PROVE Tables' /\ RulesStep
    <3>1. /\ DOMAIN history' = DOMAIN history \cup {next_id}
          /\ IsAFunction(history')
      BY <2>5, RowAdded, TableRemains DEF FireRule
    <3> QED
      BY <1>1, <2>5, <3>1 DEF FireRule, NewId, Tables, RulesStep
  <2>6. ASSUME NEW last, CleanUpHistory(last) PROVE Tables' /\ RulesStep
    <3> DEFINE old == {h \in DOMAIN history : h <= last}
    <3>1. history' = Without(history, old)
      BY <2>6 DEF CleanUpHistory
    <3> HIDE DEF old
    <3>2. DOMAIN history' \subseteq DOMAIN history /\ IsAFunction(history')
      BY <3>1, TableRemains DEF Without
    <3> QED
      BY <1>1, <2>6, <3>2 DEF CleanUpHistory, Tables, RulesStep
  <2>7. ASSUME NEW key, NEW value, SaveSetting(key, value) PROVE Tables' /\ RulesStep
    <3>1. settings' = [k \in SettingKey |-> settings'[k]]
      BY <1>1, <2>7 DEF SaveSetting, Tables
    <3> QED
      BY <1>1, <2>7, <3>1 DEF SaveSetting, Tables, RulesStep
  <2> QED
    BY <1>11, <2>1, <2>2, <2>3, <2>4, <2>5, <2>6, <2>7 DEF Others
<1> QED
  BY StepKinds, <1>2, <1>3, <1>5, <1>7, <1>8, <1>10, <1>11

\* A file stays known.
LEMMA KnownStays ==
  ASSUME Coherent, RulesStep, NEW f, Known(f, rules, next_id)
  PROVE  Known(f, rules', next_id')
<1>1. next_id \in Int
  BY DEF Coherent, Tables
<1>2. ASSUME NEW id \in DOMAIN f.rules
      PROVE  /\ id \in Int /\ id < next_id'
             /\ f.rules[id].user \in Int /\ f.rules[id].user < next_id'
             /\ id \in DOMAIN rules' => f.rules[id] = rules'[id]
  BY <1>1 DEF RulesStep, Known
<1> QED
  BY <1>2 DEF Known

-----------------------------------------------------------------------------
(* Coherent. *)

LEMMA NothingKnown ==
  ASSUME NEW table, NEW n
  PROVE  Known(NoFile, table, n)
<1>1. DOMAIN Nothing = {}
  BY DEF Nothing
<1> QED
  BY <1>1 DEF Known, FileForm, NoFile

LEMMA SectionRows ==
  /\ Section("rules") \subseteq DOMAIN job.file.rules
  /\ Section("history") \subseteq DOMAIN job.file.history
  /\ Section("users") \subseteq DOMAIN job.file.users
<1>1. Section("rules") \subseteq DOMAIN job.file.rules
  BY DEF Section
<1>2. Section("history") \subseteq DOMAIN job.file.history
  BY DEF Section
<1>3. Section("users") \subseteq DOMAIN job.file.users
  BY DEF Section
<1> QED
  BY <1>1, <1>2, <1>3

LEMMA CoherentInit == Init => Coherent
<1> SUFFICES ASSUME Init PROVE Coherent
  OBVIOUS
<1>1. JobForm /\ Progress(job.step, job.todo, job.one, job.flushed)
  BY DEF Init, Idle, JobForm, Progress, RuleSteps, UserSteps
<1>2. Tables
  <2>1. \A id \in DOMAIN users : id \in Nat /\ id < next_id
    BY DEF Init
  <2>2. \A id \in DOMAIN rules : id \in Nat /\ id < next_id /\ rules[id].user \in DOMAIN users
    BY DEF Init
  <2>3. DOMAIN history \subseteq Int \ {0} /\ IsAFunction(history)
    BY DEF Init, IsAFunction
  <2>4. settings = [key \in SettingKey |-> settings[key]]
    BY SettingAssumption DEF Init
  <2> QED
    BY <2>1, <2>2, <2>3, <2>4 DEF Tables, Init
<1>3. ASSUME NEW f \in Foreign PROVE Known(f, rules, next_id)
  <2>1. FileForm(f) /\ DOMAIN f.settings \subseteq SettingKey
    BY ForeignAssumption DEF FileForm
  <2>2. ASSUME NEW id \in DOMAIN f.rules
        PROVE  id \in Int /\ id < 0 /\ f.rules[id].user \in Int /\ f.rules[id].user < 0
    BY ForeignAssumption DEF IsForeign
  <2>3. DOMAIN f.history \subseteq Int \ {0}
    BY ForeignAssumption DEF IsForeign
  <2>4. next_id = 4 /\ DOMAIN rules = {2}
    BY DEF Init
  <2> QED
    BY <2>1, <2>2, <2>3, <2>4 DEF Known
<1>4. Known(file, rules, next_id)
  BY <1>3, NothingKnown DEF Init
<1>5. Known(job.file, rules, next_id)
  BY NothingKnown DEF Init, Idle
<1> QED
  BY <1>1, <1>2, <1>4, <1>5 DEF Coherent

LEMMA CoherentStep ==
  ASSUME Coherent, [Next]_backupVars
  PROVE  Coherent'
<1>1. Tables' /\ RulesStep
  BY TablesStep
<1>2. Known(file, rules', next_id') /\ Known(job.file, rules', next_id')
  BY <1>1, KnownStays DEF Coherent
<1>3. JobForm /\ Progress(job.step, job.todo, job.one, job.flushed)
  BY DEF Coherent
<1>4. ASSUME NEW step, NEW todo, NEW one, NEW flushed, Moves(step, todo, one, flushed),
             Progress(step, todo, one, flushed)
      PROVE  Coherent'
  <2>1. /\ JobForm' /\ file' = file /\ job'.file = job.file
        /\ job'.step = step /\ job'.todo = todo /\ job'.one = one /\ job'.flushed = flushed
    BY <1>3, <1>4, MovesFields
  <2>2. Progress(job.step, job.todo, job.one, job.flushed)'
    BY <1>4, <2>1 DEF Progress
  <2> QED
    BY <1>1, <1>2, <2>1, <2>2 DEF Coherent
<1>5. ASSUME NEW step \in {"idle", "failed"}, job' = [Idle EXCEPT !.step = step],
             Known(file', rules', next_id')
      PROVE  Coherent'
  <2>1. /\ JobForm' /\ job'.file = NoFile
        /\ job'.step = step /\ job'.todo = {} /\ job'.one = 0 /\ job'.flushed = {}
    BY <1>5 DEF Idle, JobForm
  <2>2. Progress(job.step, job.todo, job.one, job.flushed)'
    BY <2>1 DEF Progress, RuleSteps, UserSteps
  <2>3. Known(job'.file, rules', next_id')
    BY <2>1, NothingKnown
  <2> QED
    BY <1>1, <1>5, <2>1, <2>2, <2>3 DEF Coherent
<1>6. ASSUME NEW step, step \notin RuleSteps \cup UserSteps \cup {"history", "settings"},
             JobForm', job'.step = step, job'.flushed = {},
             Known(job'.file, rules', next_id'), Known(file', rules', next_id')
      PROVE  Coherent'
  <2>1. Progress(job.step, job.todo, job.one, job.flushed)'
    BY <1>6 DEF Progress, RuleSteps, UserSteps
  <2> QED
    BY <1>1, <1>6, <2>1 DEF Coherent
<1>7. StartExport => Coherent'
  <2> SUFFICES ASSUME StartExport PROVE Coherent'
    OBVIOUS
  <2>1. /\ JobForm' /\ job'.step = "export_rules" /\ job'.flushed = {} /\ file' = NoFile
        /\ job'.file = [NoFile EXCEPT !.settings = Redacted]
    BY DEF StartExport, Idle, JobForm
  <2>2. /\ job'.file.settings = Redacted /\ DOMAIN Redacted = SettingKey
        /\ job'.file.rules = Nothing /\ job'.file.history = Nothing
        /\ FileForm(job'.file) /\ DOMAIN Nothing = {}
    BY <2>1 DEF NoFile, FileForm, Nothing, Redacted
  <2>3. Known(job'.file, rules', next_id') /\ Known(file', rules', next_id')
    BY <2>1, <2>2, NothingKnown DEF Known
  <2> QED
    BY <1>6, <2>1, <2>3 DEF RuleSteps, UserSteps
<1>8. ExportRules => Coherent'
  <2> SUFFICES ASSUME ExportRules PROVE Coherent'
    OBVIOUS
  <2>1. /\ JobForm' /\ job'.step = "export_history" /\ job'.flushed = job.flushed /\ file' = file
        /\ job'.file = [job.file EXCEPT !.rules = rules]
        /\ UNCHANGED << rules, users, next_id >>
    BY <1>3 DEF ExportRules, JobForm, OnlyJob, database
  <2>2. job.flushed = {}
    BY <1>3 DEF ExportRules, At, Progress
  <2>3. FileForm(job.file) /\ DOMAIN job.file.settings \subseteq SettingKey /\ DOMAIN job.file.history \subseteq Int \ {0}
    BY DEF Coherent, Known
  <2>4. /\ job'.file.rules = rules /\ job'.file.history = job.file.history
        /\ job'.file.settings = job.file.settings /\ FileForm(job'.file)
    BY <2>1, <2>3 DEF FileForm
  <2>5. \A id \in DOMAIN rules : /\ id \in Int /\ id < next_id
                                 /\ rules[id].user \in Int /\ rules[id].user < next_id
    BY DEF Coherent, Tables
  <2>6. Known(job'.file, rules', next_id')
    BY <2>1, <2>3, <2>4, <2>5 DEF Known
  <2> QED
    BY <1>2, <1>6, <2>1, <2>2, <2>6 DEF RuleSteps, UserSteps
<1>9. ASSUME NEW taken \in BOOLEAN, ExportHistory(taken) PROVE Coherent'
  <2> DEFINE rows == [h \in (IF taken THEN Latest ELSE {}) |-> history[h]]
  <2>1. /\ JobForm' /\ job'.step = "export_users" /\ job'.flushed = job.flushed /\ file' = file
        /\ job'.file = [job.file EXCEPT !.history = rows]
    BY <1>3, <1>9 DEF ExportHistory, JobForm
  <2>2. job.flushed = {}
    BY <1>3, <1>9 DEF ExportHistory, At, Progress
  <2>3. DOMAIN rows \subseteq Int \ {0}
    BY DEF Coherent, Tables, Latest
  <2>4. /\ job'.file.rules = job.file.rules /\ job'.file.history = rows
        /\ job'.file.settings = job.file.settings /\ FileForm(job'.file)
    <3> HIDE DEF rows
    <3> QED
      BY <1>2, <2>1 DEF FileForm, Known
  <2>5. Known(job'.file, rules', next_id')
    BY <1>2, <2>3, <2>4 DEF Known
  <2> QED
    BY <1>2, <1>6, <2>1, <2>2, <2>5 DEF RuleSteps, UserSteps
<1>10. ASSUME NEW taken \in BOOLEAN, ExportUsers(taken) PROVE Coherent'
  <2> DEFINE rows == IF taken THEN users ELSE Nothing
  <2>1. job' = [Idle EXCEPT !.step = "idle"] /\ file' = [job.file EXCEPT !.users = rows]
    BY <1>10 DEF ExportUsers, Idle
  <2> HIDE DEF rows
  <2>2. /\ file'.settings = job.file.settings /\ file'.rules = job.file.rules
        /\ file'.history = job.file.history /\ FileForm(file')
    BY <1>2, <2>1 DEF FileForm, Known
  <2>3. Known(file', rules', next_id')
    BY <1>2, <2>2 DEF Known
  <2> QED
    BY <1>5, <2>1, <2>3
<1>11. ASSUME NEW boxes, StartImport(boxes) PROVE Coherent'
  <2>1. /\ JobForm' /\ job'.step = "settings" /\ job'.one = 0 /\ job'.flushed = {}
        /\ job'.file = file /\ file' = file /\ job'.todo \subseteq DOMAIN file.settings
    BY <1>11 DEF StartImport, Idle, JobForm
  <2>2. Progress(job.step, job.todo, job.one, job.flushed)'
    BY <2>1 DEF Progress, RuleSteps, UserSteps
  <2> QED
    BY <1>1, <1>2, <2>1, <2>2 DEF Coherent
<1>12. NextSection => Coherent'
  <2>1. \/ Progress("rules", Section("rules"), job.one, job.flushed) /\ job.step = "settings"
        \/ Progress("history", Section("history"), job.one, job.flushed) /\ job.step = "rules"
        \/ Progress("done", {}, job.one, job.flushed) /\ job.step = "users"
        \/ job.step \notin {"settings", "rules", "users"}
    BY <1>3, SectionRows DEF Progress, RuleSteps, UserSteps
  <2> QED
    BY <1>3, <1>4, <2>1, ImportMoves DEF NextSection, At
<1>13. ASSUME NEW key, ImportSetting(key) PROVE Coherent'
  <2>1. Progress("settings", job.todo \ {key}, job.one, job.flushed)
    BY <1>3, <1>13 DEF ImportSetting, At, Progress, RuleSteps, UserSteps
  <2> QED
    BY <1>3, <1>4, <1>13, <2>1, ImportMoves
<1>14. ASSUME NEW id, TakeRule(id) PROVE Coherent'
  <2>1. Progress("rule_owner", job.todo, id, job.flushed)
    BY <1>3, <1>14 DEF TakeRule, At, Progress, RuleSteps, UserSteps
  <2> QED
    BY <1>3, <1>4, <1>14, <2>1, ImportMoves
<1>15. ASSUME job.step \in RuleSteps \ {"rules"}
       PROVE  /\ \A step \in RuleSteps \ {"rules"} : Progress(step, job.todo, job.one, job.flushed)
              /\ Progress("rules", job.todo \ {job.one}, 0, job.flushed)
  BY <1>3, <1>15 DEF Progress, RuleSteps, UserSteps
<1>16. RuleOwner \/ RuleExisting \/ RuleDelete \/ RuleCreate => Coherent'
  <2> SUFFICES ASSUME RuleOwner \/ RuleExisting \/ RuleDelete \/ RuleCreate PROVE Coherent'
    OBVIOUS
  <2>1. /\ Progress("rule_existing", job.todo, job.one, job.flushed)
        /\ Progress("rule_delete", job.todo, job.one, job.flushed)
        /\ Progress("rule_create", job.todo, job.one, job.flushed)
        /\ Progress("rules", job.todo \ {job.one}, 0, job.flushed)
    BY <1>15 DEF RuleOwner, RuleExisting, RuleDelete, RuleCreate, At, RuleSteps
  <2> QED
    BY <1>3, <1>4, <2>1, ImportMoves
<1>17. ASSUME NEW h, TakeHistory(h) PROVE Coherent'
  <2>1. Progress("history", job.todo \ {h}, IF h \in DOMAIN history THEN 0 ELSE h, Sent)
    BY <1>3, <1>17 DEF TakeHistory, At, Progress, RuleSteps, UserSteps, Sent
  <2> QED
    BY <1>3, <1>4, <1>17, <2>1, ImportMoves
<1>18. HistoryCommit => Coherent'
  <2>1. Progress("users", Section("users"), 0, {})
    BY SectionRows DEF Progress, RuleSteps, UserSteps
  <2> QED
    BY <1>3, <1>4, <2>1, ImportMoves
<1>19. ASSUME NEW u, TakeUser(u) PROVE Coherent'
  <2>1. Progress("user_email", job.todo, u, job.flushed)
    BY <1>3, <1>19 DEF TakeUser, At, Progress, RuleSteps, UserSteps
  <2> QED
    BY <1>3, <1>4, <1>19, <2>1, ImportMoves
<1>20. UserEmail \/ UserCreate => Coherent'
  <2> SUFFICES ASSUME UserEmail \/ UserCreate PROVE Coherent'
    OBVIOUS
  <2>1. /\ Progress("user_create", job.todo, job.one, job.flushed)
        /\ Progress("users", job.todo \ {job.one}, 0, job.flushed)
    BY <1>3 DEF UserEmail, UserCreate, At, Progress, RuleSteps, UserSteps
  <2> QED
    BY <1>3, <1>4, <2>1, ImportMoves
<1>21. RuleRefused \/ HistoryRefused \/ UserRefused \/ Interrupted \/ Close => Coherent'
  <2> SUFFICES ASSUME RuleRefused \/ HistoryRefused \/ UserRefused \/ Interrupted \/ Close
               PROVE  Coherent'
    OBVIOUS
  <2>1. file' = file /\ (job' = [Idle EXCEPT !.step = "failed"] \/ job' = [Idle EXCEPT !.step = "idle"])
    <3>1. file' = file /\ (Fail \/ job' = Idle)
      BY DEF RuleRefused, HistoryRefused, UserRefused, Interrupted, Close
    <3> QED
      BY <3>1 DEF Fail, Idle
  <2> QED
    BY <1>2, <1>5, <2>1
<1>22. (UNCHANGED << file, job >>) => Coherent'
  BY <1>1, <1>2, <1>3 DEF Coherent, JobForm, Progress
<1>23. Others => UNCHANGED << file, job >>
  BY DEF Others, Register, DeleteUser, CreateRule, DeleteRule, FireRule, CleanUpHistory, SaveSetting, Changed
<1> QED
  BY <1>7, <1>8, <1>9, <1>10, <1>11, <1>12, <1>13, <1>14, <1>16, <1>17, <1>18, <1>19, <1>20, <1>21, <1>22,
     <1>23 DEF Next, Export, Import, backupVars

-----------------------------------------------------------------------------
(* Own. *)

LEMMA OwnInit == Init => Own
BY DEF Init, Own

LEMMA OwnStep ==
  ASSUME Coherent, Own, [Next]_backupVars
  PROVE  Own'
<1> SUFFICES ASSUME ~touched' PROVE Own'
  BY DEF Own
<1>1. JobForm /\ Tables /\ Progress(job.step, job.todo, job.one, job.flushed)
  BY DEF Coherent
<1>2. OwnFile(NoFile)'
  BY DEF OwnFile, NoFile, Nothing
<1>3. ASSUME UNCHANGED << database, base, touched >>,
             OwnFile(file)', OwnFile(job.file)', "overwrite" \notin job'.boxes,
             job'.step \notin {"rule_delete", "rule_create", "user_create"},
             job'.step = "history" => job'.one = 0 /\ job'.flushed = {}
      PROVE  Own'
  BY <1>3 DEF Own, OwnExportChangesNothing, database
<1>4. ~touched /\ UNCHANGED base =>
          /\ users = base.users /\ rules = base.rules /\ history = base.history /\ settings = base.settings
          /\ OwnFile(file) /\ OwnFile(job.file)
          /\ \A f : OwnFile(f) => OwnFile(f)'
          /\ "overwrite" \notin job.boxes
          /\ job.step \notin {"rule_delete", "rule_create", "user_create"}
          /\ job.step = "history" => job.one = 0 /\ job.flushed = {}
  BY DEF Own, OwnExportChangesNothing, OwnFile
<1>5. ASSUME NEW step, NEW todo, NEW one, NEW flushed, Moves(step, todo, one, flushed),
             UNCHANGED << database, base, touched >>,
             step \notin {"rule_delete", "rule_create", "user_create"},
             step = "history" => one = 0 /\ flushed = {}
      PROVE  Own'
  <2>1. /\ file' = file /\ job'.file = job.file /\ job'.boxes = job.boxes
        /\ job'.step = step /\ job'.one = one /\ job'.flushed = flushed
    BY <1>1, <1>5, MovesFields
  <2> QED
    BY <1>3, <1>4, <1>5, <2>1 DEF OwnFile
<1>6. ASSUME NEW step \in {"idle", "failed"}, job' = [Idle EXCEPT !.step = step], OwnFile(file)',
             UNCHANGED << database, base, touched >>
      PROVE  Own'
  <2>1. job'.file = NoFile /\ job'.step = step /\ job'.boxes = {}
    BY <1>6 DEF Idle
  <2>2. OwnFile(job.file)'
    BY <1>2, <2>1 DEF OwnFile
  <2> QED
    BY <1>3, <1>6, <2>1, <2>2
<1>7. StartExport => Own'
  <2> SUFFICES ASSUME StartExport PROVE Own'
    OBVIOUS
  <2>1. /\ job'.step = "export_rules" /\ job'.boxes = {} /\ file' = NoFile
        /\ job'.file = [NoFile EXCEPT !.settings = Redacted]
        /\ base' = [settings |-> settings, rules |-> rules, history |-> history, users |-> users]
        /\ UNCHANGED database
    BY DEF StartExport, Idle
  <2>2. /\ job'.file.settings = Redacted /\ job'.file.rules = Nothing
        /\ job'.file.history = Nothing /\ job'.file.users = Nothing
    BY <2>1 DEF NoFile
  <2>3. /\ base'.settings = settings /\ base'.rules = rules
        /\ base'.history = history /\ base'.users = users
    BY <2>1
  <2>4. OwnFile(job.file)'
    BY <2>2, <2>3 DEF OwnFile, Nothing, Redacted
  <2>5. OwnFile(file)'
    BY <1>2, <2>1 DEF OwnFile
  <2> QED
    BY <2>1, <2>3, <2>4, <2>5 DEF Own, OwnExportChangesNothing, database
<1>8. ASSUME ExportRules \/ \E taken \in BOOLEAN : ExportHistory(taken) \/ ExportUsers(taken)
      PROVE  UNCHANGED << database, base, touched >>
  BY <1>8 DEF ExportRules, ExportHistory, ExportUsers, OnlyJob, observers
<1>9. ASSUME ExportRules PROVE Own'
  <2>1. /\ job'.step = "export_history" /\ job'.boxes = job.boxes /\ file' = file
        /\ job'.file = [job.file EXCEPT !.rules = rules]
    BY <1>1, <1>9 DEF ExportRules, JobForm
  <2>2. /\ job'.file.rules = rules /\ job'.file.settings = job.file.settings
        /\ job'.file.history = job.file.history /\ job'.file.users = job.file.users
    BY <2>1 DEF Coherent, Known, FileForm
  <2>3. OwnFile(job.file)' /\ OwnFile(file)'
    BY <1>4, <1>8, <1>9, <2>1, <2>2 DEF OwnFile
  <2> QED
    BY <1>3, <1>4, <1>8, <1>9, <2>1, <2>3
<1>10. ASSUME NEW taken \in BOOLEAN, ExportHistory(taken) PROVE Own'
  <2> DEFINE rows == [h \in (IF taken THEN Latest ELSE {}) |-> history[h]]
  <2>1. /\ job'.step = "export_users" /\ job'.boxes = job.boxes /\ file' = file
        /\ job'.file = [job.file EXCEPT !.history = rows]
    BY <1>1, <1>10 DEF ExportHistory, JobForm
  <2>2. DOMAIN rows \subseteq DOMAIN history
    BY DEF Latest
  <2> HIDE DEF rows
  <2>3. /\ job'.file.rules = job.file.rules /\ job'.file.settings = job.file.settings
        /\ job'.file.history = rows /\ job'.file.users = job.file.users
    BY <2>1 DEF Coherent, Known, FileForm
  <2>4. OwnFile(job.file)' /\ OwnFile(file)'
    BY <1>4, <1>8, <1>10, <2>1, <2>2, <2>3 DEF OwnFile
  <2> QED
    BY <1>3, <1>4, <1>8, <1>10, <2>1, <2>4
<1>11. ASSUME NEW taken \in BOOLEAN, ExportUsers(taken) PROVE Own'
  <2> DEFINE rows == IF taken THEN users ELSE Nothing
  <2>1. job' = [Idle EXCEPT !.step = "idle"] /\ file' = [job.file EXCEPT !.users = rows]
    BY <1>11 DEF ExportUsers, Idle
  <2>2. \A u \in DOMAIN rows : u \in DOMAIN users /\ rows[u] = users[u]
    BY DEF Nothing
  <2> HIDE DEF rows
  <2>3. /\ file'.rules = job.file.rules /\ file'.settings = job.file.settings
        /\ file'.history = job.file.history /\ file'.users = rows
    BY <2>1 DEF Coherent, Known, FileForm
  <2>4. OwnFile(file)'
    BY <1>4, <1>8, <1>11, <2>2, <2>3 DEF OwnFile
  <2> QED
    BY <1>6, <1>8, <1>11, <2>1, <2>4
<1>12. ASSUME NEW boxes, StartImport(boxes) PROVE Own'
  <2>1. /\ "overwrite" \notin boxes
        /\ UNCHANGED << database, base, touched, file >>
    BY <1>12 DEF StartImport
  <2>2. job'.step = "settings" /\ job'.boxes = boxes /\ job'.file = file
    BY <1>12 DEF StartImport, Idle
  <2>3. OwnFile(file)' /\ OwnFile(job.file)'
    BY <1>4, <2>1, <2>2 DEF OwnFile
  <2> QED
    BY <1>3, <2>1, <2>2, <2>3
<1>13. OnlyJob => UNCHANGED << database, base, touched >>
  BY DEF OnlyJob, observers
<1>14. NextSection => Own'
  <2> SUFFICES ASSUME NextSection PROVE Own'
    OBVIOUS
  <2>1. UNCHANGED << database, base, touched >>
    BY <1>13 DEF NextSection
  <2>2. At("rules") => job.one = 0 /\ job.flushed = {}
    BY <1>1 DEF At, Progress, RuleSteps
  <2> QED
    BY <1>1, <1>5, <2>1, <2>2, ImportMoves
<1>15. ASSUME NEW key \in SettingKey, ImportSetting(key) PROVE Own'
  <2>1. UNCHANGED << users, rules, history, base, touched >>
    BY <1>15 DEF ImportSetting, observers
  <2>2. key \in DOMAIN job.file.settings
    BY <1>1, <1>15 DEF ImportSetting, At, Progress
  <2>3. Writable(key) => job.file.settings[key] = settings[key]
    BY <1>4, <2>1, <2>2 DEF Writable, OwnFile
  <2>4. settings' = settings
    BY <1>1, <1>15, <2>3 DEF ImportSetting, Tables
  <2>5. Moves("settings", job.todo \ {key}, job.one, job.flushed)
    BY <1>1, <1>15, ImportMoves
  <2> QED
    BY <1>5, <2>1, <2>4, <2>5 DEF database
<1>16. ASSUME NEW row, TakeRule(row) \/ TakeUser(row) PROVE Own'
  <2>1. UNCHANGED << database, base, touched >>
    BY <1>13, <1>16 DEF TakeRule, TakeUser
  <2> QED
    BY <1>1, <1>5, <1>16, <2>1, ImportMoves
<1>17. RuleOwner => Own'
  <2> SUFFICES ASSUME RuleOwner PROVE Own'
    OBVIOUS
  <2>1. UNCHANGED << database, base, touched >>
    BY <1>13 DEF RuleOwner
  <2>2. \/ Moves("rule_existing", job.todo, job.one, job.flushed)
        \/ Moves("rules", job.todo \ {job.one}, 0, job.flushed)
    BY <1>1, ImportMoves
  <2> QED
    BY <1>5, <2>1, <2>2
\* The rule is one of this database, and rules are not to be overwritten.
<1>18. RuleExisting => Own'
  <2> SUFFICES ASSUME RuleExisting PROVE Own'
    OBVIOUS
  <2>1. UNCHANGED << database, base, touched >>
    BY <1>13 DEF RuleExisting
  <2>2. job.one \in DOMAIN rules
    BY <1>1, <1>4, <2>1 DEF RuleExisting, At, Progress, RuleSteps, OwnFile
  <2>3. "overwrite" \notin job.boxes
    BY <1>4, <2>1
  <2> QED
    BY <1>1, <1>5, <2>1, <2>2, <2>3, ImportMoves
<1>19. ~(RuleDelete \/ RuleCreate \/ UserCreate)
  <2>1. RuleDelete \/ RuleCreate \/ UserCreate => UNCHANGED << base, touched >>
    BY DEF RuleDelete, RuleCreate, UserCreate, observers
  <2> QED
    BY <1>4, <2>1 DEF RuleDelete, RuleCreate, UserCreate, At
<1>20. ASSUME NEW h \in job.todo, TakeHistory(h) PROVE Own'
  <2>1. UNCHANGED << database, base, touched >>
    BY <1>13, <1>20 DEF TakeHistory
  <2>2. h \in DOMAIN history
    BY <1>1, <1>4, <1>20, <2>1 DEF TakeHistory, At, Progress, OwnFile
  <2>3. Sent = {}
    BY <1>4, <1>20, <2>1 DEF TakeHistory, At, Sent
  <2> QED
    BY <1>1, <1>5, <1>20, <2>1, <2>2, <2>3, ImportMoves
<1>21. HistoryCommit => Own'
  <2> SUFFICES ASSUME HistoryCommit PROVE Own'
    OBVIOUS
  <2>1. UNCHANGED << users, rules, settings, base, touched >>
    BY DEF HistoryCommit, observers
  <2>2. Sent = {}
    BY <1>4, <2>1 DEF HistoryCommit, At, Sent
  <2>3. history' = history
    BY <1>1, <2>2 DEF HistoryCommit, Tables, IsAFunction
  <2> QED
    BY <1>1, <1>5, <2>1, <2>3, ImportMoves DEF database
\* The account is one of this database.
<1>22. UserEmail => Own'
  <2> SUFFICES ASSUME UserEmail PROVE Own'
    OBVIOUS
  <2>1. UNCHANGED << database, base, touched >>
    BY <1>13 DEF UserEmail
  <2>2. job.one \in DOMAIN users /\ job.file.users[job.one] = users[job.one]
    BY <1>1, <1>4, <2>1 DEF UserEmail, At, Progress, UserSteps, OwnFile
  <2>3. UserKnown
    BY <2>2 DEF UserKnown
  <2> QED
    BY <1>1, <1>5, <2>1, <2>3, ImportMoves
<1>23. RuleRefused \/ HistoryRefused \/ UserRefused \/ Interrupted \/ Close => Own'
  <2> SUFFICES ASSUME RuleRefused \/ HistoryRefused \/ UserRefused \/ Interrupted \/ Close
               PROVE  Own'
    OBVIOUS
  <2>1. file' = file /\ (job' = [Idle EXCEPT !.step = "failed"] \/ job' = [Idle EXCEPT !.step = "idle"])
    <3>1. file' = file /\ (Fail \/ job' = Idle)
      BY DEF RuleRefused, HistoryRefused, UserRefused, Interrupted, Close
    <3> QED
      BY <3>1 DEF Fail, Idle
  <2>2. UNCHANGED << database, base, touched >>
    BY <1>13 DEF RuleRefused, HistoryRefused, UserRefused, Interrupted, Close
  <2>3. OwnFile(file)'
    BY <1>4, <2>1, <2>2 DEF OwnFile
  <2> QED
    BY <1>6, <2>1, <2>2, <2>3
<1>24. (UNCHANGED backupVars) => Own'
  BY <1>3, <1>4 DEF OwnFile, backupVars, observers
<1>25. ~Others
  BY DEF Others, Register, DeleteUser, CreateRule, DeleteRule, FireRule, CleanUpHistory, SaveSetting, Changed
<1> QED
  BY <1>7, <1>9, <1>10, <1>11, <1>12, <1>14, <1>15, <1>16, <1>17, <1>18, <1>19, <1>20, <1>21, <1>22, <1>23,
     <1>24, <1>25 DEF Next, Export, Import

-----------------------------------------------------------------------------
(* Kept. *)

LEMMA KeptInit == Init => Kept
BY DEF Init, Kept, Origins

LEMMA KeptStep ==
  ASSUME Coherent, Kept, [Next]_backupVars
  PROVE  Kept'
<1>1. JobForm /\ Tables /\ Progress(job.step, job.todo, job.one, job.flushed)
  BY DEF Coherent
<1>2. \A k \in kept : \/ \E r \in DOMAIN rules : rules[r].origin = k
                      \/ k \in cut_short
                      \/ k \in Promised
  BY DEF Kept, Promised, Origins
<1>3. ASSUME \A k \in kept' : \/ \E r \in DOMAIN rules' : rules'[r].origin = k
                              \/ k \in cut_short'
                              \/ k \in Promised'
      PROVE  Kept'
  BY <1>3 DEF Kept, Promised, Origins
<1>4. OnlyJob => UNCHANGED << rules, users, kept, cut_short >>
  BY DEF OnlyJob, database, observers
\* A step that keeps the rules, and the promise if there is one.
<1>5. ASSUME UNCHANGED << rules, kept >>, cut_short \subseteq cut_short', Promised \subseteq Promised' \cup cut_short'
      PROVE  Kept'
  BY <1>2, <1>3, <1>5
<1>6. ~At("rule_create") => Promised = {}
  BY DEF Promised
<1>7. ASSUME Export PROVE Kept'
  <2>1. UNCHANGED << rules, kept, cut_short >> /\ ~At("rule_create")
    BY <1>4, <1>7 DEF Export, StartExport, ExportRules, ExportHistory, ExportUsers, At, database
  <2> QED
    BY <1>5, <1>6, <2>1
<1>8. ASSUME \/ NextSection \/ RuleOwner \/ RuleExisting \/ HistoryRefused \/ UserEmail \/ UserRefused \/ Close
             \/ \E boxes : StartImport(boxes)
             \/ \E id : TakeRule(id) \/ TakeHistory(id) \/ TakeUser(id) \/ ImportSetting(id)
             \/ HistoryCommit \/ UserCreate
      PROVE  Kept'
  <2>1. UNCHANGED << rules, kept, cut_short >>
    BY <1>4, <1>8 DEF NextSection, RuleOwner, RuleExisting, HistoryRefused, UserEmail, UserRefused, Close,
       StartImport, TakeRule, TakeHistory, TakeUser, ImportSetting, HistoryCommit, UserCreate, observers, database
  <2>2. ~At("rule_create")
    BY <1>8 DEF NextSection, RuleOwner, RuleExisting, HistoryRefused, UserEmail, UserRefused, Close,
       StartImport, TakeRule, TakeHistory, TakeUser, ImportSetting, HistoryCommit, UserCreate, At
  <2> QED
    BY <1>5, <1>6, <2>1, <2>2
\* The rule that goes is the one in hand, and its owner is here.
<1>9. ASSUME RuleDelete PROVE Kept'
  <2>1. Moves("rule_create", job.todo, job.one, job.flushed)
    BY <1>1, <1>9, ImportMoves
  <2>2. At("rule_create")' /\ InHand' = InHand
    BY <1>1, <2>1, MovesFields DEF At, InHand
  <2>3. /\ DOMAIN rules' = DOMAIN rules \ {job.one}
        /\ \A r \in DOMAIN rules \ {job.one} : rules'[r] = rules[r]
    BY <1>9, RowsTaken DEF RuleDelete, DeleteRules
  <2>4. UNCHANGED << users, kept, cut_short >>
    BY <1>9 DEF RuleDelete, observers
  <2>5. job.one \in DOMAIN job.file.rules
    BY <1>1, <1>9 DEF RuleDelete, At, Progress, RuleSteps
  <2>6. job.one \in DOMAIN rules => InHand = rules[job.one] /\ InHand.user \in DOMAIN users
    BY <1>1, <2>5 DEF Coherent, Known, InHand, Tables
  <2>7. Promised = {}
    BY <1>6, <1>9 DEF RuleDelete, At
  <2>8. job.one \in DOMAIN rules => rules[job.one].origin \in Promised'
    BY <2>2, <2>4, <2>6 DEF Promised
  <2> QED
    BY <1>2, <1>3, <2>3, <2>4, <2>7, <2>8
<1>10. ASSUME RuleCreate PROVE Kept'
  <2>1. /\ DOMAIN rules' = DOMAIN rules \cup {next_id}
        /\ rules'[next_id] = InHand
        /\ \A r \in DOMAIN rules : r # next_id => rules'[r] = rules[r]
    BY <1>10 DEF RuleCreate, With
  <2>2. next_id \notin DOMAIN rules
    BY <1>1 DEF Tables
  <2>3. kept' = kept \cup {InHand.origin} /\ UNCHANGED cut_short
    BY <1>10 DEF RuleCreate
  <2>4. Promised \subseteq {InHand.origin}
    BY DEF Promised
  <2> QED
    BY <1>2, <1>3, <2>1, <2>2, <2>3, <2>4
<1>11. ASSUME RuleRefused PROVE Kept'
  <2>1. UNCHANGED << rules, kept, cut_short >> /\ Promised = {}
    BY <1>4, <1>11 DEF RuleRefused, Promised
  <2> QED
    BY <1>5, <2>1
<1>12. ASSUME Interrupted PROVE Kept'
  <2>1. UNCHANGED << rules, kept >> /\ cut_short' = cut_short \cup Replacing
    BY <1>12 DEF Interrupted, database
  <2>2. Promised \cap (kept \ Origins) \subseteq Replacing
    BY DEF Promised, Replacing
  <2> QED
    BY <2>1, <2>2 DEF Kept, Origins
<1>13. ASSUME Others PROVE Kept'
  <2>1. UNCHANGED << job, cut_short >>
    BY <1>13 DEF Others, Register, DeleteUser, CreateRule, DeleteRule, FireRule, CleanUpHistory, SaveSetting, Changed
  <2>2. InHand' = InHand /\ At("rule_create")' = At("rule_create")
    BY <2>1 DEF InHand, At
  <2>3. ASSUME DOMAIN users \subseteq DOMAIN users' PROVE Promised \subseteq Promised'
    BY <2>2, <2>3 DEF Promised
  <2>4. ASSUME NEW a, Register(a) PROVE Kept'
    <3>1. UNCHANGED << rules, kept >> /\ DOMAIN users \subseteq DOMAIN users'
      BY <2>4 DEF Register, With
    <3> QED
      BY <1>5, <2>1, <2>3, <3>1
  <2>5. ASSUME NEW u, DeleteUser(u) PROVE Kept'
    <3> DEFINE own == {id \in DOMAIN rules : rules[id].user = u}
    <3>1. /\ DOMAIN rules' = DOMAIN rules \ own
          /\ \A r \in DOMAIN rules \ own : rules'[r] = rules[r]
      BY <2>5, RowsTaken DEF DeleteUser, DeleteRules
    <3>2. DOMAIN users' = DOMAIN users \ {u}
      BY <2>5, RowsTaken DEF DeleteUser
    <3>3. kept' \subseteq kept /\ \A r \in own : rules[r].origin \notin kept'
      BY <2>5 DEF DeleteUser
    <3>4. At("rule_create") /\ InHand.user = u => InHand.origin \notin kept'
      BY <2>5 DEF DeleteUser
    <3>5. \A k \in kept' : k \in Promised => k \in Promised'
      BY <2>2, <3>2, <3>4 DEF Promised
    <3> HIDE DEF own
    <3> QED
      BY <1>2, <1>3, <2>1, <3>1, <3>3, <3>5
  <2>6. ASSUME NEW u, CreateRule(u) PROVE Kept'
    <3>1. /\ DOMAIN rules' = DOMAIN rules \cup {next_id}
          /\ rules'[next_id].origin = next_id
          /\ \A r \in DOMAIN rules : r # next_id => rules'[r] = rules[r]
      BY <2>6 DEF CreateRule, With, Rule
    <3>2. next_id \notin DOMAIN rules
      BY <1>1 DEF Tables
    <3>3. kept' = kept \cup {next_id} /\ users' = users
      BY <2>6 DEF CreateRule
    <3>4. Promised \subseteq Promised'
      BY <2>3, <3>3
    <3> QED
      BY <1>2, <1>3, <2>1, <3>1, <3>2, <3>3, <3>4
  <2>7. ASSUME NEW id, DeleteRule(id) PROVE Kept'
    <3>1. /\ DOMAIN rules' = DOMAIN rules \ {id}
          /\ \A r \in DOMAIN rules \ {id} : rules'[r] = rules[r]
      BY <2>7, RowsTaken DEF DeleteRule, DeleteRules
    <3>2. kept' = kept \ {rules[id].origin} /\ users' = users
      BY <2>7 DEF DeleteRule
    <3>3. Promised \subseteq Promised'
      BY <2>3, <3>2
    <3> QED
      BY <1>2, <1>3, <2>1, <3>1, <3>2, <3>3
  <2>8. ASSUME NEW id, NEW value, FireRule(id) \/ CleanUpHistory(id) \/ SaveSetting(id, value) PROVE Kept'
    <3>1. UNCHANGED << rules, users, kept >>
      BY <2>8 DEF FireRule, CleanUpHistory, SaveSetting
    <3> QED
      BY <1>5, <2>1, <2>3, <3>1
  <2> QED
    BY <1>13, <2>4, <2>5, <2>6, <2>7, <2>8 DEF Others
<1>14. ASSUME UNCHANGED backupVars PROVE Kept'
  <2>1. UNCHANGED << rules, users, kept, cut_short, job >>
    BY <1>14 DEF backupVars, database, observers
  <2>2. Promised' = Promised
    BY <2>1 DEF Promised, At, InHand
  <2> QED
    BY <1>5, <2>1, <2>2
<1> QED
  BY <1>7, <1>8, <1>9, <1>10, <1>11, <1>12, <1>13, <1>14 DEF Next, Import

-----------------------------------------------------------------------------
(* Restored. *)

LEMMA RestoredInit == Init => Restored
BY DEF Init, Restored

LEMMA RestoredStep ==
  ASSUME Coherent, Restored, [Next]_backupVars
  PROVE  Restored'
<1> SUFFICES ASSUME quiet' PROVE Restored'
  BY DEF Restored
<1>1. JobForm /\ Tables /\ Progress(job.step, job.todo, job.one, job.flushed)
  BY DEF Coherent
<1>2. quiet' = quiet =>
          /\ At("settings") => RestoredSettings(job.todo)
          /\ job.step \in RuleSteps => RestoredSettings({}) /\ RestoredRules(job.todo)
          /\ At("history") => /\ RestoredSettings({}) /\ RestoredRules({})
                              /\ RestoredHistory(job.todo \cup Sent)
          /\ job.step \in UserSteps \cup {"done"} =>
                /\ RestoredSettings({}) /\ RestoredRules({}) /\ RestoredHistory({})
                /\ RestoredUsers(IF At("done") THEN {} ELSE job.todo)
  BY DEF Restored
<1>3. ASSUME job'.step \in {"idle", "failed", "export_rules", "export_history", "export_users"}
      PROVE  Restored'
  BY <1>3 DEF Restored, RuleSteps, UserSteps, At
\* The file and the boxes stay, and so does what is restored of the tables that are
\* left alone.
<1>4. ASSUME job'.file = job.file, job'.boxes = job.boxes
      PROVE  /\ settings' = settings => \A left : RestoredSettings(left) => RestoredSettings(left)'
             /\ UNCHANGED << rules, users >> => \A left : RestoredRules(left) => RestoredRules(left)'
             /\ history' = history => \A left : RestoredHistory(left) => RestoredHistory(left)'
             /\ users' = users => \A left : RestoredUsers(left) => RestoredUsers(left)'
  <2>1. settings' = settings => \A left : RestoredSettings(left) => RestoredSettings(left)'
    BY <1>4 DEF RestoredSettings, Writable
  <2>2. UNCHANGED << rules, users >> => \A left : RestoredRules(left) => RestoredRules(left)'
    BY <1>4 DEF RestoredRules
  <2>3. history' = history => \A left : RestoredHistory(left) => RestoredHistory(left)'
    BY <1>4 DEF RestoredHistory
  <2>4. users' = users => \A left : RestoredUsers(left) => RestoredUsers(left)'
    BY <1>4 DEF RestoredUsers
  <2> QED
    BY <2>1, <2>2, <2>3, <2>4
\* What remains to be shown, by the section that follows.
<1>5. ASSUME NEW todo, job'.todo = todo
      PROVE  /\ job'.step = "settings" /\ RestoredSettings(todo)' => Restored'
             /\ job'.step \in RuleSteps /\ RestoredSettings({})' /\ RestoredRules(todo)' => Restored'
             /\ /\ job'.step \in UserSteps
                /\ RestoredSettings({})' /\ RestoredRules({})' /\ RestoredHistory({})' /\ RestoredUsers(todo)'
                => Restored'
             /\ /\ job'.step = "done"
                /\ RestoredSettings({})' /\ RestoredRules({})' /\ RestoredHistory({})' /\ RestoredUsers({})'
                => Restored'
  <2>1. job'.step = "settings" /\ RestoredSettings(todo)' => Restored'
    BY <1>5 DEF Restored, RuleSteps, UserSteps, At, RestoredSettings
  <2>2. job'.step \in RuleSteps /\ RestoredSettings({})' /\ RestoredRules(todo)' => Restored'
    BY <1>5 DEF Restored, RuleSteps, UserSteps, At, RestoredSettings, RestoredRules
  <2>3. /\ job'.step \in UserSteps
        /\ RestoredSettings({})' /\ RestoredRules({})' /\ RestoredHistory({})' /\ RestoredUsers(todo)'
        => Restored'
    BY <1>5 DEF Restored, RuleSteps, UserSteps, At, RestoredSettings, RestoredRules, RestoredHistory, RestoredUsers
  <2>4. /\ job'.step = "done"
        /\ RestoredSettings({})' /\ RestoredRules({})' /\ RestoredHistory({})' /\ RestoredUsers({})'
        => Restored'
    BY DEF Restored, RuleSteps, UserSteps, At, RestoredSettings, RestoredRules, RestoredHistory, RestoredUsers
  <2> QED
    BY <2>1, <2>2, <2>3, <2>4
<1>6. ASSUME NEW todo, NEW one, NEW flushed, Moves("history", todo, one, flushed),
             RestoredSettings({})', RestoredRules({})',
             RestoredHistory(todo \cup (IF one = 0 THEN flushed ELSE flushed \cup {one}))'
      PROVE  Restored'
  <2>1. job'.step = "history" /\ job'.todo = todo /\ job'.one = one /\ job'.flushed = flushed
    BY <1>1, <1>6, MovesFields
  <2>2. RestoredHistory(job.todo \cup Sent)'
    BY <1>6, <2>1 DEF RestoredHistory, Sent
  <2> QED
    BY <1>6, <2>1, <2>2 DEF Restored, RuleSteps, UserSteps, At, RestoredSettings, RestoredRules
<1>7. OnlyJob => UNCHANGED << users, rules, history, settings, quiet >>
  BY DEF OnlyJob, database, observers
<1>8. ASSUME NEW step, NEW todo, NEW one, NEW flushed, Moves(step, todo, one, flushed)
      PROVE  job'.file = job.file /\ job'.boxes = job.boxes /\ job'.step = step /\ job'.todo = todo
  BY <1>1, <1>8, MovesFields
<1>9. ASSUME StartExport \/ ExportRules \/ RuleRefused \/ HistoryRefused \/ UserRefused \/ Interrupted \/ Close
                 \/ \E taken \in BOOLEAN : ExportHistory(taken) \/ ExportUsers(taken)
      PROVE  Restored'
  <2>1. StartExport => job'.step = "export_rules"
    BY DEF StartExport, Idle
  <2>2. ExportRules => job'.step = "export_history"
    BY <1>1 DEF ExportRules, JobForm
  <2>3. ASSUME NEW taken \in BOOLEAN, ExportHistory(taken) PROVE job'.step = "export_users"
    BY <1>1, <2>3 DEF ExportHistory, JobForm
  <2>4. ASSUME NEW taken \in BOOLEAN, ExportUsers(taken) PROVE job'.step = "idle"
    BY <2>4 DEF ExportUsers, Idle
  <2>5. RuleRefused \/ HistoryRefused \/ UserRefused \/ Interrupted => job'.step = "failed"
    BY DEF RuleRefused, HistoryRefused, UserRefused, Interrupted, Fail, Idle
  <2>6. Close => job'.step = "idle"
    BY DEF Close, Idle
  <2> QED
    BY <1>3, <1>9, <2>1, <2>2, <2>3, <2>4, <2>5, <2>6
<1>10. ASSUME NEW boxes, StartImport(boxes) PROVE Restored'
  <2>1. /\ job'.step = "settings" /\ job'.boxes = boxes /\ job'.file = file
        /\ job'.todo = IF "settings" \in boxes THEN DOMAIN file.settings ELSE {}
    BY <1>10 DEF StartImport, Idle
  <2>2. "settings" \in job'.boxes => DOMAIN job'.file.settings \ job'.todo = {}
    BY <2>1
  <2>3. RestoredSettings(job.todo)'
    BY <2>2 DEF RestoredSettings
  <2> QED
    BY <2>1, <2>3 DEF Restored, RuleSteps, UserSteps, At
<1>11. /\ "rules" \in job.boxes => Section("rules") = DOMAIN job.file.rules
       /\ "history" \in job.boxes => Section("history") = DOMAIN job.file.history
       /\ "users" \in job.boxes => Section("users") = DOMAIN job.file.users
  BY DEF Section
<1>12. RestoredRules(Section("rules")) /\ RestoredUsers(Section("users")) /\ RestoredHistory(Section("history"))
  BY <1>11 DEF RestoredRules, RestoredUsers, RestoredHistory
<1>13. NextSection => Restored'
  <2> SUFFICES ASSUME NextSection PROVE Restored'
    OBVIOUS
  <2>1. UNCHANGED << users, rules, history, settings, quiet >>
    BY <1>7 DEF NextSection
  <2>2. CASE At("settings") /\ job.todo = {} /\ Moves("rules", Section("rules"), job.one, job.flushed)
    <3>1. RestoredSettings({})
      BY <1>2, <2>1, <2>2
    <3> QED
      BY <1>4, <1>5, <1>8, <1>12, <2>1, <2>2, <3>1 DEF RuleSteps
  <2>3. CASE At("rules") /\ job.todo = {} /\ Moves("history", Section("history"), job.one, job.flushed)
    <3>1. RestoredSettings({}) /\ RestoredRules({}) /\ job.one = 0 /\ job.flushed = {}
      BY <1>1, <1>2, <2>1, <2>3 DEF At, RuleSteps, Progress
    <3>2. RestoredSettings({})' /\ RestoredRules({})'
      BY <1>4, <1>8, <2>1, <2>3, <3>1
    <3>3. ASSUME NEW left, left = Section("history") \cup (IF job.one = 0 THEN job.flushed ELSE job.flushed \cup {job.one})
          PROVE  RestoredHistory(left)'
      <4>1. left = Section("history")
        BY <3>1, <3>3
      <4> QED
        BY <1>4, <1>8, <1>12, <2>1, <2>3, <4>1
    <3> QED
      BY <1>6, <2>3, <3>2, <3>3
  <2>4. CASE At("users") /\ job.todo = {} /\ Moves("done", {}, job.one, job.flushed)
    <3>1. RestoredSettings({}) /\ RestoredRules({}) /\ RestoredHistory({}) /\ RestoredUsers({})
      BY <1>2, <2>1, <2>4 DEF At, UserSteps
    <3> QED
      BY <1>4, <1>5, <1>8, <2>1, <2>4, <3>1
  <2> QED
    BY <1>1, <2>2, <2>3, <2>4, ImportMoves
<1>14. ASSUME NEW key \in SettingKey, ImportSetting(key) PROVE Restored'
  <2>1. UNCHANGED << users, rules, history, quiet >> /\ At("settings")
    BY <1>14 DEF ImportSetting, observers
  <2>2. RestoredSettings(job.todo)
    BY <1>2, <2>1
  <2>3. Moves("settings", job.todo \ {key}, job.one, job.flushed)
    BY <1>1, <1>14, ImportMoves
  <2>4. /\ \A k \in SettingKey \ {key} : settings'[k] = settings[k]
        /\ Writable(key) => settings'[key] = job.file.settings[key]
        /\ DOMAIN settings = SettingKey /\ DOMAIN settings' = SettingKey
    BY <1>1, <1>14 DEF ImportSetting, Tables
  <2>5. ASSUME NEW todo, todo = job.todo \ {key} PROVE RestoredSettings(todo)'
    <3>1. DOMAIN job.file.settings \subseteq SettingKey
      BY DEF Coherent, Known
    <3> QED
      BY <1>8, <2>2, <2>3, <2>4, <2>5, <3>1 DEF RestoredSettings, Writable
  <2> QED
    BY <1>5, <1>8, <2>3, <2>5
<1>15. ASSUME NEW row, TakeRule(row) PROVE Restored'
  <2>1. UNCHANGED << users, rules, history, settings, quiet >> /\ job.step \in RuleSteps
    BY <1>7, <1>15 DEF TakeRule, At, RuleSteps
  <2>2. Moves("rule_owner", job.todo, row, job.flushed)
    BY <1>1, <1>15, ImportMoves
  <2>3. RestoredSettings({}) /\ RestoredRules(job.todo)
    BY <1>2, <2>1
  <2> QED
    BY <1>4, <1>5, <1>8, <2>1, <2>2, <2>3 DEF RuleSteps
\* A rule is left out because its owner is not here, or because it is here itself.
<1>16. RuleOwner \/ RuleExisting => Restored'
  <2> SUFFICES ASSUME RuleOwner \/ RuleExisting PROVE Restored'
    OBVIOUS
  <2>1. UNCHANGED << users, rules, history, settings, quiet >> /\ job.step \in RuleSteps
    BY <1>7 DEF RuleOwner, RuleExisting, At, RuleSteps
  <2>2. RestoredSettings({}) /\ RestoredRules(job.todo)
    BY <1>2, <2>1
  <2>3. ASSUME InHand.user \notin DOMAIN users \/ job.one \in DOMAIN rules
        PROVE  RestoredRules(job.todo \ {job.one})
    <3>1. \A id \in DOMAIN job.file.rules : id \in DOMAIN rules => job.file.rules[id] = rules[id]
      BY DEF Coherent, Known
    <3> QED
      BY <2>2, <2>3, <3>1 DEF RestoredRules, InHand
  <2>4. \/ \E step \in RuleSteps : Moves(step, job.todo, job.one, job.flushed)
        \/ /\ Moves("rules", job.todo \ {job.one}, 0, job.flushed)
           /\ InHand.user \notin DOMAIN users \/ job.one \in DOMAIN rules
    BY <1>1, ImportMoves DEF RuleSteps
  <2>5. CASE \E step \in RuleSteps : Moves(step, job.todo, job.one, job.flushed)
    BY <1>4, <1>5, <1>8, <2>1, <2>2, <2>5
  <2>6. CASE /\ Moves("rules", job.todo \ {job.one}, 0, job.flushed)
             /\ InHand.user \notin DOMAIN users \/ job.one \in DOMAIN rules
    BY <1>4, <1>5, <1>8, <2>1, <2>2, <2>3, <2>6 DEF RuleSteps
  <2> QED
    BY <2>4, <2>5, <2>6
\* The rule that goes is still to be dealt with.
<1>17. RuleDelete => Restored'
  <2> SUFFICES ASSUME RuleDelete PROVE Restored'
    OBVIOUS
  <2>1. UNCHANGED << users, settings, quiet >> /\ job.step \in RuleSteps
    BY DEF RuleDelete, At, RuleSteps, observers
  <2>2. RestoredSettings({}) /\ RestoredRules(job.todo) /\ job.one \in job.todo
    BY <1>1, <1>2, <2>1 DEF RuleDelete, At, Progress, RuleSteps
  <2>3. Moves("rule_create", job.todo, job.one, job.flushed)
    BY <1>1, ImportMoves
  <2>4. /\ DOMAIN rules' = DOMAIN rules \ {job.one}
        /\ \A r \in DOMAIN rules \ {job.one} : rules'[r] = rules[r]
    BY RowsTaken DEF RuleDelete, DeleteRules
  <2>5. ASSUME NEW todo, todo = job.todo PROVE RestoredRules(todo)'
    BY <1>8, <2>1, <2>2, <2>3, <2>4, <2>5 DEF RestoredRules
  <2> QED
    BY <1>4, <1>5, <1>8, <2>1, <2>2, <2>3, <2>5 DEF RuleSteps
\* The copy has an id that is not in the file.
<1>18. RuleCreate => Restored'
  <2> SUFFICES ASSUME RuleCreate PROVE Restored'
    OBVIOUS
  <2>1. UNCHANGED << users, settings, quiet >> /\ job.step \in RuleSteps
    BY DEF RuleCreate, At, RuleSteps
  <2>2. RestoredSettings({}) /\ RestoredRules(job.todo)
    BY <1>2, <2>1
  <2>3. Moves("rules", job.todo \ {job.one}, 0, job.flushed)
    BY <1>1, ImportMoves
  <2>4. /\ DOMAIN rules' = DOMAIN rules \cup {next_id}
        /\ rules'[next_id] = InHand
        /\ \A r \in DOMAIN rules : r # next_id => rules'[r] = rules[r]
    BY DEF RuleCreate, With
  <2>5. next_id \notin DOMAIN rules /\ next_id \notin job.todo
    BY <1>1, <2>1 DEF Tables, Progress, Coherent, Known
  <2>6. ASSUME NEW todo, todo = job.todo \ {job.one} PROVE RestoredRules(todo)'
    BY <1>8, <2>1, <2>2, <2>3, <2>4, <2>5, <2>6 DEF RestoredRules, InHand
  <2> QED
    BY <1>4, <1>5, <1>8, <2>1, <2>2, <2>3, <2>6 DEF RuleSteps
<1>19. ASSUME NEW h \in job.todo, TakeHistory(h) PROVE Restored'
  <2>1. UNCHANGED << users, rules, history, settings, quiet >> /\ At("history")
    BY <1>7, <1>19 DEF TakeHistory
  <2>2. RestoredSettings({}) /\ RestoredRules({}) /\ RestoredHistory(job.todo \cup Sent)
    BY <1>2, <2>1
  <2> DEFINE one == IF h \in DOMAIN history THEN 0 ELSE h
  <2>3. Moves("history", job.todo \ {h}, one, Sent)
    BY <1>1, <1>19, ImportMoves
  <2>4. h # 0
    BY <1>1, <1>19, <2>1 DEF At, Progress, Coherent, Known
  <2>5. ASSUME NEW left, left = (job.todo \ {h}) \cup (IF one = 0 THEN Sent ELSE Sent \cup {one})
        PROVE  RestoredHistory(left)'
    BY <1>8, <2>1, <2>2, <2>3, <2>4, <2>5 DEF RestoredHistory
  <2> HIDE DEF one
  <2>6. RestoredSettings({})' /\ RestoredRules({})'
    BY <1>4, <1>8, <2>1, <2>2, <2>3
  <2> QED
    BY <1>6, <2>3, <2>5, <2>6
<1>20. HistoryCommit => Restored'
  <2> SUFFICES ASSUME HistoryCommit PROVE Restored'
    OBVIOUS
  <2>1. UNCHANGED << users, rules, settings, quiet >> /\ At("history") /\ job.todo = {}
    BY DEF HistoryCommit, observers
  <2>2. RestoredSettings({}) /\ RestoredRules({}) /\ RestoredHistory(job.todo \cup Sent)
    BY <1>2, <2>1
  <2>3. Moves("users", Section("users"), 0, {})
    BY <1>1, ImportMoves
  <2>4. DOMAIN history' = DOMAIN history \cup Sent
    BY DEF HistoryCommit
  <2>5. RestoredHistory({})'
    BY <1>8, <2>1, <2>2, <2>3, <2>4 DEF RestoredHistory
  <2> QED
    BY <1>4, <1>5, <1>8, <1>12, <2>1, <2>2, <2>3, <2>5 DEF UserSteps
<1>21. ASSUME job.step \in UserSteps, quiet' = quiet
       PROVE  RestoredSettings({}) /\ RestoredRules({}) /\ RestoredHistory({}) /\ RestoredUsers(job.todo)
  BY <1>2, <1>21 DEF UserSteps, At
<1>22. ASSUME NEW row, TakeUser(row) PROVE Restored'
  <2>1. UNCHANGED << users, rules, history, settings, quiet >> /\ job.step \in UserSteps
    BY <1>7, <1>22 DEF TakeUser, At, UserSteps
  <2>2. Moves("user_email", job.todo, row, job.flushed)
    BY <1>1, <1>22, ImportMoves
  <2> QED
    BY <1>4, <1>5, <1>8, <1>21, <2>1, <2>2 DEF UserSteps
<1>23. UserEmail => Restored'
  <2> SUFFICES ASSUME UserEmail PROVE Restored'
    OBVIOUS
  <2>1. UNCHANGED << users, rules, history, settings, quiet >> /\ job.step \in UserSteps
    BY <1>7 DEF UserEmail, At, UserSteps
  <2>2. UserKnown => RestoredUsers(job.todo \ {job.one})
    BY <1>21, <2>1 DEF RestoredUsers, UserKnown
  <2>3. \/ Moves("user_create", job.todo, job.one, job.flushed)
        \/ UserKnown /\ Moves("users", job.todo \ {job.one}, 0, job.flushed)
    BY <1>1, ImportMoves
  <2>4. RestoredSettings({}) /\ RestoredRules({}) /\ RestoredHistory({}) /\ RestoredUsers(job.todo)
    BY <1>21, <2>1
  <2>5. CASE Moves("user_create", job.todo, job.one, job.flushed)
    BY <1>4, <1>5, <1>8, <2>1, <2>4, <2>5 DEF UserSteps
  <2>6. CASE UserKnown /\ Moves("users", job.todo \ {job.one}, 0, job.flushed)
    <3>1. RestoredUsers(job.todo \ {job.one})
      BY <2>2, <2>6
    <3> QED
      BY <1>4, <1>5, <1>8, <2>1, <2>4, <2>6, <3>1 DEF UserSteps
  <2> QED
    BY <2>3, <2>5, <2>6
\* The account has an id that no rule of the file refers to.
<1>24. UserCreate => Restored'
  <2> SUFFICES ASSUME UserCreate PROVE Restored'
    OBVIOUS
  <2>1. UNCHANGED << rules, history, settings, quiet >> /\ job.step \in UserSteps
    BY DEF UserCreate, At, UserSteps, observers
  <2>2. Moves("users", job.todo \ {job.one}, 0, job.flushed)
    BY <1>1, ImportMoves
  <2>3. /\ DOMAIN users' = DOMAIN users \cup {next_id}
        /\ users'[next_id] = job.file.users[job.one]
        /\ \A id \in DOMAIN users : id # next_id => users'[id] = users[id]
    BY DEF UserCreate, With
  <2>4. next_id \notin DOMAIN users
    BY <1>1 DEF Tables
  <2>5. \A id \in DOMAIN job.file.rules : job.file.rules[id].user # next_id
    BY <1>1 DEF Coherent, Known, Tables
  <2>6. RestoredRules({}) /\ RestoredUsers(job.todo)
    BY <1>21, <2>1
  <2>7. RestoredRules({})'
    BY <1>8, <2>1, <2>2, <2>3, <2>5, <2>6 DEF RestoredRules
  <2>8. ASSUME NEW todo, todo = job.todo \ {job.one} PROVE RestoredUsers(todo)'
    BY <1>8, <2>1, <2>2, <2>3, <2>4, <2>6, <2>8 DEF RestoredUsers
  <2> QED
    BY <1>4, <1>5, <1>8, <1>21, <2>1, <2>2, <2>7, <2>8 DEF UserSteps
<1>25. (UNCHANGED backupVars) => Restored'
  BY DEF backupVars, database, observers, Restored, At, RestoredSettings, RestoredRules, RestoredHistory,
         RestoredUsers, Sent, Writable
<1>26. ~Others
  BY DEF Others, Register, DeleteUser, CreateRule, DeleteRule, FireRule, CleanUpHistory, SaveSetting, Changed
<1> QED
  BY <1>9, <1>10, <1>13, <1>14, <1>15, <1>16, <1>17, <1>18, <1>19, <1>20, <1>22, <1>23, <1>24, <1>25, <1>26
     DEF Next, Export, Import

-----------------------------------------------------------------------------
(* The theorems. *)

BackupInv == Coherent /\ Own /\ Kept /\ Restored

LEMMA BackupInvHolds == Spec => []BackupInv
<1>1. Init => BackupInv
  BY CoherentInit, OwnInit, KeptInit, RestoredInit DEF BackupInv
<1>2. BackupInv /\ [Next]_backupVars => BackupInv'
  BY CoherentStep, OwnStep, KeptStep, RestoredStep DEF BackupInv
<1> QED
  BY <1>1, <1>2, PTL DEF Spec

\* Importing what was exported here, in part or as a whole, as often as one likes and
\* wherever it fails, changes nothing as long as nobody else does: every id of the
\* file is found, and nothing but what is not found is written (import_data).
THEOREM OwnExportIsHarmless == Spec => []OwnExportChangesNothing
<1>1. BackupInv => OwnExportChangesNothing
  BY DEF BackupInv, Own, OwnExportChangesNothing
<1> QED
  BY <1>1, BackupInvHolds, PTL

\* A rule that nobody deletes is there, as itself or as its copy, through any number
\* of imports, unless one is cut short between delete_rule and create_rule.
THEOREM RulesAreKept == Spec => []RulesOutliveImports
<1>1. BackupInv => RulesOutliveImports
  BY DEF BackupInv, Kept, RulesOutliveImports, Promised, Replacing
<1> QED
  BY <1>1, BackupInvHolds, PTL

\* An import that ends well and undisturbed has brought back, of the ticked sections,
\* the settings that are no secrets, the rules whose owners are here under the ids of
\* the file, the history, an account for every e-mail. Rules of other owners it leaves
\* out (_import_rules).
THEOREM ImportsAreComplete == Spec => []RestoreIsComplete
<1>1. Restored => RestoreIsComplete
  BY DEF Restored, RestoreIsComplete, At, RuleSteps, UserSteps, RestoredSettings, RestoredRules,
         RestoredHistory, RestoredUsers, Origins
<1>2. BackupInv => RestoreIsComplete
  BY <1>1 DEF BackupInv
<1> QED
  BY <1>2, BackupInvHolds, PTL

=============================================================================
