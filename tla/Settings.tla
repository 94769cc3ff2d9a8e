------------------------------ MODULE Settings ------------------------------
(***************************************************************************)
(* The key/value table of system settings, and the administrators who save *)
(* a form of several keys: one SELECT and one commit for each key.         *)
(*                                                                         *)
(*   app/crud/system_settings.py   set_value, save_*_config                *)
(*   app/api/routes/settings.py    the handlers                            *)
(*                                                                         *)
(* A key is a section and a field, <<"ntfy", "enabled">>.  Rows are never  *)
(* deleted, so the refresh after a commit changes nothing.                 *)
(***************************************************************************)
EXTENDS Sequences, Integers

CONSTANTS
    Admin,       \* administrators' requests in flight
    Section,     \* SMTP and each push channel has a form of its own
    Field,       \* its fields
    Value,       \* what a field can hold
    Absent,      \* no row for this key
    Stored,      \* what earlier saves may have left in the table
    Forms,       \* what an administrator can submit: fields in the order they are saved
    MaxFaults    \* bound on failed statements and crashes

Key   == Section \X Field
Entry == [field : Field, value : Value]
Form  == [section : Section, entries : Seq(Entry)]

ASSUME AbsentAssumption == Absent \notin Value
ASSUME StoredAssumption == Stored \subseteq [Key -> Value \cup {Absent}]
ASSUME FormsAssumption  ==
    /\ Forms \subseteq Form
    /\ \A f \in Forms :
           /\ f.entries # << >>
           /\ \A i, j \in DOMAIN f.entries :
                  i # j => f.entries[i].field # f.entries[j].field
ASSUME FaultsAssumption == MaxFaults \in Nat

VARIABLES
    settings,   \* the table
    save,       \* save[a]: a form of which entries `at`, at + 1, ... are still to be saved
    faults,
    \* observers
    last,       \* last[s]: the form of section s submitted last
    spoiled     \* sections in which two saves overlapped, or one was cut off, since

settingsVars == << settings, save, faults, last, spoiled >>

NoForm == [section |-> CHOOSE s \in Section : TRUE, entries |-> << >>]
NoSave == [step |-> "idle", form |-> NoForm, at |-> 1, loaded |-> Absent]
Save   == [step : {"idle", "select", "commit"}, form : Forms \cup {NoForm},
           at : Nat \ {0}, loaded : Value \cup {Absent}]

SettingsTypeOK ==
    /\ settings \in [Key -> Value \cup {Absent}]
    /\ save \in [Admin -> Save]
    /\ faults \in 0 .. MaxFaults
    /\ last \in [Section -> Forms \cup {NoForm}]
    /\ spoiled \subseteq Section
    /\ \A a \in Admin : save[a].step # "idle" =>
           save[a].form \in Forms /\ save[a].at \in DOMAIN save[a].form.entries

SettingsInit ==
    /\ settings \in Stored
    /\ save = [a \in Admin |-> NoSave]
    /\ faults = 0
    /\ last = [s \in Section |-> NoForm]
    /\ spoiled = {}

Saving(a, s)  == save[a].step # "idle" /\ save[a].form.section = s
InProgress(s) == \E a \in Admin : Saving(a, s)

EntryOf(a) == save[a].form.entries[save[a].at]
KeyOf(a)   == << save[a].form.section, EntryOf(a).field >>

\* The handler has validated the form.
StartSave(a, form) ==
    /\ save[a].step = "idle"
    /\ save' = [save EXCEPT ![a] = [step |-> "select", form |-> form, at |-> 1, loaded |-> Absent]]
    /\ last' = [last EXCEPT ![form.section] = form]
    /\ spoiled' = IF InProgress(form.section) THEN spoiled \cup {form.section}
                  ELSE spoiled \ {form.section}
    /\ UNCHANGED << settings, faults >>

\* set_value: is there a row, and what does it hold?
Select(a) ==
    /\ save[a].step = "select"
    /\ save' = [save EXCEPT ![a].step = "commit", ![a].loaded = settings[KeyOf(a)]]
    /\ UNCHANGED << settings, faults, last, spoiled >>

\* Mutant: a key that has no row yet is not inserted.
WrittenOnly(a) ==
    IF save[a].loaded \in {Absent, EntryOf(a).value} THEN settings
    ELSE [settings EXCEPT ![KeyOf(a)] = EntryOf(a).value]

\* An UPDATE is sent only when the new value differs from the one loaded.
Written(a) ==
    IF save[a].loaded = EntryOf(a).value THEN settings
    ELSE [settings EXCEPT ![KeyOf(a)] = EntryOf(a).value]

\* An INSERT meets a row that another request has inserted meanwhile.
Conflict(a) == save[a].loaded = Absent /\ settings[KeyOf(a)] # Absent

\* The loop over the form: its next entry, or the end.
NextEntry(r) ==
    IF r.at = Len(r.form.entries) THEN NoSave
    ELSE [r EXCEPT !.step = "select", !.at = r.at + 1]

CommitKey(a) ==
    /\ save[a].step = "commit"
    /\ ~Conflict(a)
    /\ settings' = Written(a)
    /\ save' = [save EXCEPT ![a] = NextEntry(save[a])]
    /\ UNCHANGED << faults, last, spoiled >>

\* The unique key refuses the INSERT: the rest of the form is not saved.
CommitRefused(a) ==
    /\ save[a].step = "commit"
    /\ Conflict(a)
    /\ save' = [save EXCEPT ![a] = NoSave]
    /\ UNCHANGED << settings, faults, last, spoiled >>

\* A statement fails: the keys before it stay saved, the rest is not.
SaveFails(a) ==
    /\ save[a].step # "idle"
    /\ faults < MaxFaults
    /\ faults' = faults + 1
    /\ save' = [save EXCEPT ![a] = NoSave]
    /\ spoiled' = spoiled \cup {save[a].form.section}
    /\ UNCHANGED << settings, last >>

\* The process dies, with every request in flight.
SavesLost ==
    /\ faults < MaxFaults
    /\ faults' = faults + 1
    /\ save' = [a \in Admin |-> NoSave]
    /\ spoiled' = spoiled \cup {s \in Section : InProgress(s)}
    /\ UNCHANGED << settings, last >>

SettingsNext ==
    \E a \in Admin : \/ \E form \in Forms : StartSave(a, form)
                     \/ Select(a) \/ CommitKey(a) \/ CommitRefused(a) \/ SaveFails(a)

-----------------------------------------------------------------------------
(* Properties. *)

\* When no save of a section is under way, the section holds the form submitted
\* last, not a mixture of two, unless that save overlapped another or was cut
\* off; and saving once more, undisturbed, repairs a mixture.
SettledIsOneSave ==
    \A s \in Section \ spoiled : ~InProgress(s) =>
        \A i \in DOMAIN last[s].entries :
            settings[<< s, last[s].entries[i].field >>] = last[s].entries[i].value

=============================================================================
