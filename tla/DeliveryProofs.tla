---------------------------- MODULE DeliveryProofs ----------------------------
(***************************************************************************)
(* For every set of administrators, forms, channels and severities and for *)
(* every bound on retries and faults: the history row tells the truth      *)
(* about the channels, no channel is passed over, and a section of the     *)
(* settings is one form.                                                   *)
(***************************************************************************)
EXTENDS Delivery, TLAPS

-----------------------------------------------------------------------------
(* The settings: what one step of an administrator, or a crash, can do. *)

\* What a request under way points at.
LEMMA EntryTyped ==
  ASSUME SettingsTypeOK, NEW a \in Admin, save[a].step # "idle"
  PROVE  /\ save[a].form \in Forms
         /\ save[a].form.section \in Section
         /\ save[a].form.entries \in Seq(Entry)
         /\ save[a].at \in 1 .. Len(save[a].form.entries)
         /\ EntryOf(a) = save[a].form.entries[save[a].at]
         /\ EntryOf(a).field \in Field /\ EntryOf(a).value \in Value
         /\ KeyOf(a) = << save[a].form.section, EntryOf(a).field >>
         /\ KeyOf(a) \in Key
<1>1. save[a].form \in Forms /\ save[a].at \in DOMAIN save[a].form.entries
  BY DEF SettingsTypeOK
<1>2. save[a].form.section \in Section /\ save[a].form.entries \in Seq(Entry)
  BY <1>1, FormsAssumption DEF Form
<1>3. save[a].at \in 1 .. Len(save[a].form.entries)
  BY <1>1, <1>2
<1>4. EntryOf(a) = save[a].form.entries[save[a].at] /\ EntryOf(a) \in Entry
  BY <1>2, <1>3 DEF EntryOf
<1>5. EntryOf(a).field \in Field /\ EntryOf(a).value \in Value
  BY <1>4 DEF Entry
<1>6. KeyOf(a) = << save[a].form.section, EntryOf(a).field >> /\ KeyOf(a) \in Key
  BY <1>2, <1>5 DEF KeyOf, Key
<1> QED
  BY <1>1, <1>2, <1>3, <1>4, <1>5, <1>6

\* The loop goes on to the next entry of the same form, or it ends.
LEMMA NextEntryTyped ==
  ASSUME NEW r \in Save, r.form \in Forms, r.form.entries \in Seq(Entry),
         r.at \in 1 .. Len(r.form.entries)
  PROVE  /\ NextEntry(r) \in Save
         /\ r.at = Len(r.form.entries) => NextEntry(r) = NoSave
         /\ r.at # Len(r.form.entries) =>
                NextEntry(r) = [step |-> "select", form |-> r.form, at |-> r.at + 1,
                                loaded |-> r.loaded]
         /\ NextEntry(r).step # "idle" =>
                /\ NextEntry(r).form \in Forms
                /\ NextEntry(r).at \in DOMAIN NextEntry(r).form.entries
<1>1. CASE r.at = Len(r.form.entries)
  <2>1. NextEntry(r) = NoSave
    BY <1>1 DEF NextEntry
  <2> QED
    BY <1>1, <2>1 DEF NoSave, Save
<1>2. CASE r.at # Len(r.form.entries)
  <2>1. NextEntry(r) = [step |-> "select", form |-> r.form, at |-> r.at + 1,
                        loaded |-> r.loaded]
    BY <1>2 DEF NextEntry, Save
  <2>2. r.at + 1 \in DOMAIN r.form.entries
    BY <1>2
  <2>3. NextEntry(r) \in Save
    BY <2>1 DEF Save
  <2> QED
    BY <1>2, <2>1, <2>2, <2>3
<1> QED
  BY <1>1, <1>2

\* The table and the requests, typed; a request points at an entry of its form.
LEMMA SettingsTyped ==
  ASSUME SettingsTypeOK, SettingsNext \/ SavesLost \/ Fault \/ UNCHANGED settingsVars
  PROVE  SettingsTypeOK'
<1> USE AbsentAssumption, FormsAssumption, FaultsAssumption
<1>0. NoSave \in Save
  BY DEF NoSave, Save
<1>1. ASSUME NEW a \in Admin, NEW form \in Forms, StartSave(a, form) PROVE SettingsTypeOK'
  <2>1. form.section \in Section /\ form.entries # << >> /\ form.entries \in Seq(Entry)
    BY DEF Form
  <2>2. 1 \in DOMAIN form.entries
    BY <2>1
  <2>3. save' \in [Admin -> Save]
    BY <1>1 DEF StartSave, SettingsTypeOK, Save
  <2>4. last' \in [Section -> Forms \cup {NoForm}] /\ spoiled' \subseteq Section
    BY <1>1, <2>1 DEF StartSave, SettingsTypeOK
  <2>5. \A b \in Admin : save'[b].step # "idle" =>
            save'[b].form \in Forms /\ save'[b].at \in DOMAIN save'[b].form.entries
    BY <1>1, <2>2 DEF StartSave, SettingsTypeOK
  <2> QED
    BY <1>1, <2>3, <2>4, <2>5 DEF StartSave, SettingsTypeOK
<1>2. ASSUME NEW a \in Admin, Select(a) PROVE SettingsTypeOK'
  <2>1. KeyOf(a) \in Key
    BY <1>2, EntryTyped DEF Select
  <2>2. save' \in [Admin -> Save]
    BY <1>2, <2>1, ZenonT(60) DEF Select, SettingsTypeOK, Save
  <2>3. \A b \in Admin : save'[b].step # "idle" =>
            save'[b].form \in Forms /\ save'[b].at \in DOMAIN save'[b].form.entries
    BY <1>2 DEF Select, SettingsTypeOK, Save
  <2> QED
    BY <1>2, <2>2, <2>3 DEF Select, SettingsTypeOK
<1>3. ASSUME NEW a \in Admin, CommitKey(a) PROVE SettingsTypeOK'
  <2>1. /\ KeyOf(a) \in Key /\ EntryOf(a).value \in Value
        /\ save[a].form \in Forms /\ save[a].form.entries \in Seq(Entry)
        /\ save[a].at \in 1 .. Len(save[a].form.entries)
    BY <1>3, EntryTyped DEF CommitKey
  <2>2. settings' \in [Key -> Value \cup {Absent}]
    BY <1>3, <2>1 DEF CommitKey, Written, SettingsTypeOK
  <2>0. save' = [save EXCEPT ![a] = NextEntry(save[a])]
    BY <1>3 DEF CommitKey
  <2>7. save[a] \in Save
    BY DEF SettingsTypeOK
  <2>5. /\ NextEntry(save[a]) \in Save
        /\ NextEntry(save[a]).step # "idle" =>
               /\ NextEntry(save[a]).form \in Forms
               /\ NextEntry(save[a]).at \in DOMAIN NextEntry(save[a]).form.entries
    BY <2>1, <2>7, <1>0, NextEntryTyped
  <2>3. save' \in [Admin -> Save]
    BY <2>0, <2>5 DEF SettingsTypeOK
  <2>4. \A b \in Admin : save'[b].step # "idle" =>
            save'[b].form \in Forms /\ save'[b].at \in DOMAIN save'[b].form.entries
    BY <2>0, <2>5 DEF SettingsTypeOK
  <2> QED
    BY <1>3, <2>2, <2>3, <2>4 DEF CommitKey, SettingsTypeOK
<1>4. ASSUME NEW a \in Admin, CommitRefused(a) \/ SaveFails(a) PROVE SettingsTypeOK'
  <2>1. save' = [save EXCEPT ![a] = NoSave]
    BY <1>4 DEF CommitRefused, SaveFails
  <2>2. \A b \in Admin : save'[b].step # "idle" => b # a /\ save'[b] = save[b]
    BY <2>1 DEF SettingsTypeOK, NoSave
  <2>3. spoiled' \subseteq Section
    BY <1>4 DEF CommitRefused, SaveFails, SettingsTypeOK, Form
  <2> QED
    BY <1>4, <1>0, <2>1, <2>2, <2>3 DEF CommitRefused, SaveFails, SettingsTypeOK
<1>5. CASE SavesLost
  <2>1. \A b \in Admin : save'[b] = NoSave
    BY <1>5 DEF SavesLost
  <2> QED
    BY <1>5, <1>0, <2>1 DEF SavesLost, SettingsTypeOK, NoSave
<1>6. CASE Fault \/ UNCHANGED settingsVars
  BY <1>6 DEF Fault, settingsVars, SettingsTypeOK
<1> QED
  BY <1>1, <1>2, <1>3, <1>4, <1>5, <1>6 DEF SettingsNext

-----------------------------------------------------------------------------
(* A section is one form. *)

\* A section that no overlap and no fault has spoiled has one saver at most,
\* whose form is the one submitted last; the entries it has passed are stored,
\* and what it has loaded is still there. With no saver, all entries are stored.
OneSaver ==
    \A s \in Section \ spoiled : \A a \in Admin :
        Saving(a, s) =>
            /\ \A b \in Admin : Saving(b, s) => a = b
            /\ save[a].form = last[s]
            /\ \A i \in 1 .. save[a].at - 1 :
                   settings[<< s, last[s].entries[i].field >>] = last[s].entries[i].value
            /\ save[a].step = "commit" => save[a].loaded = settings[KeyOf(a)]

Whole == OneSaver /\ SettledIsOneSave

LEMMA WholeKept ==
  ASSUME SettingsTypeOK, Whole,
         SettingsNext \/ SavesLost \/ Fault \/ UNCHANGED settingsVars
  PROVE  Whole'
<1> USE AbsentAssumption
<1>1. ASSUME NEW a \in Admin, NEW form \in Forms, StartSave(a, form) PROVE Whole'
  <2>1. /\ form.section \in Section /\ form.entries \in Seq(Entry)
        /\ save[a].step = "idle"
        /\ \A b \in Admin : b # a => save'[b] = save[b]
        /\ save'[a] = [step |-> "select", form |-> form, at |-> 1, loaded |-> Absent]
        /\ \A s \in Section : s # form.section => last'[s] = last[s]
        /\ last'[form.section] = form
        /\ settings' = settings
        /\ form.section \notin spoiled' => ~InProgress(form.section)
        /\ \A s \in Section : s # form.section => (s \in spoiled' <=> s \in spoiled)
    BY <1>1, FormsAssumption DEF StartSave, SettingsTypeOK, Form
  <2>2. \A s \in Section \ spoiled' : \A b \in Admin :
            Saving(b, s)' => IF s = form.section THEN b = a ELSE b # a /\ Saving(b, s)
    BY <2>1 DEF Saving, InProgress
  <2>3. \A s \in Section : s # form.section /\ ~InProgress(s)' => ~InProgress(s)
    BY <2>1 DEF Saving, InProgress
  <2>4. Saving(a, form.section)'
    BY <2>1 DEF Saving
  <2>5. OneSaver'
    <3> SUFFICES ASSUME NEW s \in Section \ spoiled', NEW b \in Admin, Saving(b, s)'
                 PROVE  /\ \A c \in Admin : Saving(c, s)' => b = c
                        /\ save'[b].form = last'[s]
                        /\ \A i \in 1 .. save'[b].at - 1 :
                               settings'[<< s, last'[s].entries[i].field >>]
                                   = last'[s].entries[i].value
                        /\ save'[b].step = "commit" => save'[b].loaded = settings'[KeyOf(b)']
      BY DEF OneSaver
    <3>1. CASE s = form.section
      BY <3>1, <2>1, <2>2
    <3>2. CASE s # form.section
      <4>1. b # a /\ s \in Section \ spoiled /\ Saving(b, s)
        BY <3>2, <2>1, <2>2
      <4>2. KeyOf(b)' = KeyOf(b)
        BY <4>1, <2>1 DEF KeyOf, EntryOf
      <4> QED
        BY <3>2, <4>1, <4>2, <2>1, <2>2 DEF Whole, OneSaver
    <3> QED
      BY <3>1, <3>2
  <2>6. SettledIsOneSave'
    <3> SUFFICES ASSUME NEW s \in Section \ spoiled', ~InProgress(s)'
                 PROVE  \A i \in DOMAIN last'[s].entries :
                            settings'[<< s, last'[s].entries[i].field >>]
                                = last'[s].entries[i].value
      BY DEF SettledIsOneSave
    <3>1. s # form.section
      BY <2>4 DEF InProgress
    <3>2. s \notin spoiled /\ ~InProgress(s) /\ last'[s] = last[s]
      BY <3>1, <2>1, <2>3
    <3>3. \A i \in DOMAIN last[s].entries :
              settings[<< s, last[s].entries[i].field >>] = last[s].entries[i].value
      BY <3>2 DEF Whole, SettledIsOneSave
    <3> QED
      BY <3>2, <3>3, <2>1
  <2> QED
    BY <2>5, <2>6 DEF Whole
<1>2. ASSUME NEW a \in Admin, Select(a) PROVE Whole'
  <2>1. /\ save[a].step = "select"
        /\ \A b \in Admin : b # a => save'[b] = save[b]
        /\ save'[a] = [save[a] EXCEPT !.step = "commit", !.loaded = settings[KeyOf(a)]]
        /\ save[a] \in Save
        /\ UNCHANGED << settings, faults, last, spoiled >>
    BY <1>2 DEF Select, SettingsTypeOK
  <2>2. /\ save'[a].form = save[a].form /\ save'[a].at = save[a].at
        /\ save'[a].step = "commit" /\ save'[a].loaded = settings[KeyOf(a)]
    BY <2>1 DEF Save
  <2>3. \A b \in Admin : KeyOf(b)' = KeyOf(b)
    BY <2>1, <2>2 DEF KeyOf, EntryOf
  <2>4. \A b \in Admin, s \in Section : Saving(b, s)' <=> Saving(b, s)
    BY <2>1, <2>2 DEF Saving
  <2>5. \A s \in Section : InProgress(s)' <=> InProgress(s)
    BY <2>4 DEF InProgress
  <2>6. OneSaver'
    <3> SUFFICES ASSUME NEW s \in Section \ spoiled, NEW b \in Admin, Saving(b, s)'
                 PROVE  /\ \A c \in Admin : Saving(c, s)' => b = c
                        /\ save'[b].form = last[s]
                        /\ \A i \in 1 .. save'[b].at - 1 :
                               settings[<< s, last[s].entries[i].field >>]
                                   = last[s].entries[i].value
                        /\ save'[b].step = "commit" => save'[b].loaded = settings[KeyOf(b)']
      BY <2>1 DEF OneSaver
    <3>1. Saving(b, s) /\ KeyOf(b)' = KeyOf(b)
      BY <2>3, <2>4
    <3>2. save'[b].form = save[b].form /\ save'[b].at = save[b].at
      BY <2>1, <2>2
    <3>3. save'[b].step = "commit" => save'[b].loaded = settings[KeyOf(b)']
      <4>1. CASE b = a
        BY <4>1, <3>1, <2>2
      <4>2. CASE b # a
        BY <4>2, <3>1, <2>1 DEF Whole, OneSaver
      <4> QED
        BY <4>1, <4>2
    <3> QED
      BY <3>1, <3>2, <3>3, <2>4 DEF Whole, OneSaver
  <2> QED
    BY <2>1, <2>5, <2>6 DEF Whole, SettledIsOneSave
<1>3. ASSUME NEW a \in Admin, CommitKey(a) PROVE Whole'
  <2> DEFINE t == save[a].form.section
             n == Len(save[a].form.entries)
  <2>1. /\ save[a].form \in Forms /\ t \in Section
        /\ save[a].form.entries \in Seq(Entry)
        /\ save[a].at \in 1 .. n
        /\ EntryOf(a) = save[a].form.entries[save[a].at]
        /\ KeyOf(a) = << t, EntryOf(a).field >>
        /\ KeyOf(a) \in Key
        /\ save[a] \in Save /\ save[a].step = "commit"
    BY <1>3, EntryTyped DEF CommitKey, SettingsTypeOK
  <2>2. /\ \A b \in Admin : b # a => save'[b] = save[b]
        /\ save'[a] = NextEntry(save[a])
        /\ UNCHANGED << last, spoiled >>
    BY <1>3 DEF CommitKey, SettingsTypeOK
  <2>3. /\ save[a].at = n => save'[a] = NoSave
        /\ save[a].at # n => save'[a] = [step |-> "select", form |-> save[a].form,
                                         at |-> save[a].at + 1, loaded |-> save[a].loaded]
    BY <2>1, <2>2, NextEntryTyped
  <2>4. /\ \A k \in Key : k # KeyOf(a) => settings'[k] = settings[k]
        /\ save[a].loaded # EntryOf(a).value => settings'[KeyOf(a)] = EntryOf(a).value
        /\ save[a].loaded = EntryOf(a).value => settings'[KeyOf(a)] = settings[KeyOf(a)]
    BY <1>3, <2>1 DEF CommitKey, Written, SettingsTypeOK
  <2>5. Saving(a, t) /\ \A s \in Section : Saving(a, s) => s = t
    BY <2>1 DEF Saving
  <2>6. \A s \in Section, b \in Admin : Saving(b, s)' => Saving(b, s)
    BY <2>1, <2>2, <2>3 DEF Saving, NoSave
  <2>7. \A s \in Section, f \in Field : s # t => settings'[<< s, f >>] = settings[<< s, f >>]
    BY <2>1, <2>4 DEF Key
  <2>8. \A b \in Admin : b # a => KeyOf(b)' = KeyOf(b)
    BY <2>2 DEF KeyOf, EntryOf
  <2>9. \A s \in Section : last'[s] = last[s]
    BY <2>2
  <2>10. \A s \in Section : \A i \in DOMAIN last[s].entries : last[s].entries[i].field \in Field
    <3> SUFFICES ASSUME NEW s \in Section, NEW i \in DOMAIN last[s].entries
                 PROVE  last[s].entries[i].field \in Field
      OBVIOUS
    <3>1. last[s] \in Forms
      BY DEF SettingsTypeOK, NoForm
    <3>2. last[s].entries \in Seq(Entry)
      BY <3>1, FormsAssumption DEF Form
    <3>3. last[s].entries[i] \in Entry
      BY <3>2
    <3> QED
      BY <3>3 DEF Entry
  <2>11. t \notin spoiled =>
            /\ save[a].form = last[t]
            /\ \A b \in Admin : Saving(b, t) => b = a
            /\ \A i \in 1 .. save[a].at :
                   settings'[<< t, last[t].entries[i].field >>] = last[t].entries[i].value
    <3> SUFFICES ASSUME t \notin spoiled
                 PROVE  /\ save[a].form = last[t]
                        /\ \A b \in Admin : Saving(b, t) => b = a
                        /\ \A i \in 1 .. save[a].at :
                               settings'[<< t, last[t].entries[i].field >>]
                                   = last[t].entries[i].value
      OBVIOUS
    <3>1. /\ save[a].form = last[t]
          /\ \A b \in Admin : Saving(b, t) => b = a
          /\ \A i \in 1 .. save[a].at - 1 :
                 settings[<< t, last[t].entries[i].field >>] = last[t].entries[i].value
          /\ save[a].loaded = settings[KeyOf(a)]
      BY <2>1, <2>5, ZenonT(60) DEF Whole, OneSaver
    <3>2. settings'[KeyOf(a)] = EntryOf(a).value
      BY <2>4, <3>1
    <3>3. ASSUME NEW i \in 1 .. save[a].at
          PROVE  settings'[<< t, last[t].entries[i].field >>] = last[t].entries[i].value
      <4>1. CASE i = save[a].at
        BY <4>1, <3>1, <3>2, <2>1
      <4>2. CASE i # save[a].at
        <5>1. i \in 1 .. save[a].at - 1 /\ i \in DOMAIN save[a].form.entries
          BY <4>2, <2>1
        <5>2. last[t].entries[i].field # EntryOf(a).field
          <6> DEFINE entries == save[a].form.entries
          <6>1. \A j, k \in DOMAIN entries : j # k => entries[j].field # entries[k].field
            BY <2>1, FormsAssumption
          <6>2. save[a].at \in DOMAIN entries /\ last[t].entries = entries
            BY <3>1, <2>1
          <6>3. EntryOf(a) = entries[save[a].at] /\ i \in DOMAIN entries
            BY <5>1, <2>1
          <6> HIDE DEF entries
          <6> QED
            BY <6>1, <6>2, <6>3, <4>2
        <5>3. << t, last[t].entries[i].field >> # KeyOf(a)
          BY <5>2, <2>1
        <5>4. << t, last[t].entries[i].field >> \in Key
          BY <5>1, <3>1, <2>1, <2>10 DEF Key
        <5> QED
          BY <5>1, <5>3, <5>4, <3>1, <2>4
      <4> QED
        BY <4>1, <4>2
    <3> QED
      BY <3>1, <3>3
  <2>12. OneSaver'
    <3> SUFFICES ASSUME NEW s \in Section \ spoiled, NEW b \in Admin, Saving(b, s)'
                 PROVE  /\ \A c \in Admin : Saving(c, s)' => b = c
                        /\ save'[b].form = last[s]
                        /\ \A i \in 1 .. save'[b].at - 1 :
                               settings'[<< s, last[s].entries[i].field >>]
                                   = last[s].entries[i].value
                        /\ save'[b].step = "commit" => save'[b].loaded = settings'[KeyOf(b)']
      BY <2>2, <2>9 DEF OneSaver
    <3>0. Saving(b, s)
      BY <2>6
    <3>1. CASE b = a
      <4>1. s = t
        BY <3>0, <3>1, <2>5
      <4>2. save[a].at # n
        BY <3>1, <2>3 DEF Saving, NoSave
      <4>3. /\ save'[a].form = save[a].form /\ save'[a].at = save[a].at + 1
            /\ save'[a].step = "select"
        BY <4>2, <2>3
      <4>4. save'[a].at - 1 = save[a].at
        BY <4>3, <2>1
      <4> QED
        BY <3>1, <4>1, <4>3, <4>4, <2>6, <2>11
    <3>2. CASE b # a
      <4>1. s # t
        BY <3>0, <3>2, <2>11
      <4>2. /\ \A c \in Admin : Saving(c, s) => b = c
            /\ save[b].form = last[s]
            /\ \A i \in 1 .. save[b].at - 1 :
                   settings[<< s, last[s].entries[i].field >>] = last[s].entries[i].value
            /\ save[b].step = "commit" => save[b].loaded = settings[KeyOf(b)]
        BY <3>0 DEF Whole, OneSaver
      <4>3. /\ save[b].step # "idle" /\ save[b].form.section = s
        BY <3>0 DEF Saving
      <4>4. /\ save[b].at \in 1 .. Len(last[s].entries)
            /\ last[s].entries \in Seq(Entry)
            /\ KeyOf(b) = << s, EntryOf(b).field >> /\ EntryOf(b).field \in Field
        BY <4>2, <4>3, EntryTyped
      <4>5. \A i \in 1 .. save[b].at - 1 : last[s].entries[i].field \in Field
        BY <4>4, <2>10
      <4>6. settings'[KeyOf(b)] = settings[KeyOf(b)]
        BY <4>1, <4>4, <2>7
      <4>7. \A i \in 1 .. save[b].at - 1 :
                settings'[<< s, last[s].entries[i].field >>] = last[s].entries[i].value
        BY <4>1, <4>2, <4>5, <2>7
      <4> QED
        BY <3>2, <4>2, <4>6, <4>7, <2>2, <2>6, <2>8
    <3> QED
      BY <3>1, <3>2
  <2>13. SettledIsOneSave'
    <3> SUFFICES ASSUME NEW s \in Section \ spoiled, ~InProgress(s)',
                        NEW i \in DOMAIN last[s].entries
                 PROVE  settings'[<< s, last[s].entries[i].field >>] = last[s].entries[i].value
      BY <2>2, <2>9 DEF SettledIsOneSave
    <3>1. CASE s = t
      <4>1. save'[a].step = "idle"
        BY <3>1, <2>1, <2>2, <2>3 DEF InProgress, Saving, NoSave
      <4>2. save[a].at = n
        BY <4>1, <2>3
      <4>3. i \in 1 .. save[a].at
        BY <4>2, <3>1, <2>1, <2>11
      <4> QED
        BY <3>1, <4>3, <2>11
    <3>2. CASE s # t
      <4>1. ~InProgress(s)
        BY <3>2, <2>2, <2>5 DEF InProgress, Saving
      <4> QED
        BY <3>2, <4>1, <2>7, <2>10 DEF Whole, SettledIsOneSave
    <3> QED
      BY <3>1, <3>2
  <2> QED
    BY <2>12, <2>13 DEF Whole
<1>4. ASSUME NEW a \in Admin, CommitRefused(a) \/ SaveFails(a) PROVE Whole'
  <2>1. /\ save[a].step # "idle" /\ save' = [save EXCEPT ![a] = NoSave]
        /\ UNCHANGED << settings, last >>
        /\ spoiled \subseteq spoiled'
    BY <1>4 DEF CommitRefused, SaveFails
  <2>2. save[a].form.section \in spoiled'
    <3>1. CASE SaveFails(a)
      BY <3>1 DEF SaveFails
    <3>2. CASE CommitRefused(a)
      <4>1. save[a].form.section \in Section /\ Saving(a, save[a].form.section)
        BY <2>1, EntryTyped DEF Saving
      <4>2. save[a].loaded # settings[KeyOf(a)] /\ save[a].step = "commit"
        BY <3>2 DEF CommitRefused, Conflict
      <4>3. save[a].form.section \in spoiled
        BY <4>1, <4>2 DEF Whole, OneSaver
      <4> QED
        BY <4>3, <2>1
    <3> QED
      BY <1>4, <3>1, <3>2
  <2>3. \A b \in Admin : save'[b] = IF b = a THEN NoSave ELSE save[b]
    BY <2>1 DEF SettingsTypeOK
  <2>4. \A s \in Section, b \in Admin : Saving(b, s)' => b # a /\ Saving(b, s)
    BY <2>3 DEF Saving, NoSave
  <2>5. \A s \in Section \ spoiled' : InProgress(s) => InProgress(s)'
    BY <2>2, <2>3 DEF InProgress, Saving
  <2>6. \A b \in Admin : b # a => KeyOf(b)' = KeyOf(b)
    BY <2>3 DEF KeyOf, EntryOf
  <2>7. OneSaver'
    <3> SUFFICES ASSUME NEW s \in Section \ spoiled', NEW b \in Admin, Saving(b, s)'
                 PROVE  /\ \A c \in Admin : Saving(c, s)' => b = c
                        /\ save'[b].form = last'[s]
                        /\ \A i \in 1 .. save'[b].at - 1 :
                               settings'[<< s, last'[s].entries[i].field >>]
                                   = last'[s].entries[i].value
                        /\ save'[b].step = "commit" => save'[b].loaded = settings'[KeyOf(b)']
      BY DEF OneSaver
    <3>1. s \in Section \ spoiled /\ Saving(b, s) /\ save'[b] = save[b] /\ KeyOf(b)' = KeyOf(b)
      BY <2>1, <2>3, <2>4, <2>6
    <3> QED
      BY <3>1, <2>1, <2>4 DEF Whole, OneSaver
  <2>8. SettledIsOneSave'
    BY <2>1, <2>5 DEF Whole, SettledIsOneSave
  <2> QED
    BY <2>7, <2>8 DEF Whole
<1>5. CASE SavesLost
  <2>1. \A s \in Section, b \in Admin : ~Saving(b, s)'
    BY <1>5 DEF SavesLost, Saving, NoSave
  <2>2. \A s \in Section \ spoiled' : ~InProgress(s) /\ s \notin spoiled
    BY <1>5 DEF SavesLost
  <2> QED
    BY <1>5, <2>1, <2>2 DEF SavesLost, Whole, OneSaver, SettledIsOneSave
<1>6. CASE Fault \/ UNCHANGED settingsVars
  <2>1. UNCHANGED << settings, save, last, spoiled >>
    BY <1>6 DEF Fault, settingsVars
  <2>2. OneSaver'
    BY <2>1 DEF Whole, OneSaver, Saving, KeyOf, EntryOf
  <2> QED
    BY <2>1, <2>2 DEF Whole, SettledIsOneSave, InProgress, Saving
<1> QED
  BY <1>1, <1>2, <1>3, <1>4, <1>5, <1>6 DEF SettingsNext

-----------------------------------------------------------------------------
(* Every step of the specification, as a step of the settings. *)

LEMMA SettingsMove ==
  ASSUME [Next]_vars
  PROVE  SettingsNext \/ SavesLost \/ Fault \/ UNCHANGED settingsVars
<1>1. ASSUME NEW sev \in Severity, NEW address \in BOOLEAN, StartAlert(sev, address)
      PROVE  UNCHANGED settingsVars
  BY <1>1 DEF StartAlert
<1>2. CASE EmailStep
  BY <1>2 DEF EmailStep, EmailConfig, EmailSkipped, EmailSent, EmailRefused,
              EmailAnswerLost, Stamp, StampUnread, EmailStatementFails
<1>3. CASE PushStep
  BY <1>3 DEF PushStep, PushConfig, PushConfigFails, PushSent, PushRefused,
              PushAnswerLost, Tried
<1>4. CASE Record \/ Patch \/ RecordFails
  BY <1>4 DEF Record, Patch, RecordFails
<1>5. CASE Crash \/ Administer
  BY <1>5 DEF Crash, Administer
<1>6. CASE UNCHANGED vars
  BY <1>6 DEF vars
<1> QED
  BY <1>1, <1>2, <1>3, <1>4, <1>5, <1>6 DEF Next, DispatchStep

\* Initially the table is what earlier saves left, and nobody saves.
LEMMA SettingsStart == SettingsInit => SettingsTypeOK /\ Whole
<1> SUFFICES ASSUME SettingsInit PROVE SettingsTypeOK /\ Whole
  OBVIOUS
<1>1. NoSave \in Save
  BY DEF NoSave, Save
<1>2. SettingsTypeOK
  BY <1>1, StoredAssumption, FaultsAssumption DEF SettingsInit, SettingsTypeOK, NoSave
<1>3. \A s \in Section : last[s].entries = << >>
  BY DEF SettingsInit, NoForm
<1>4. SettledIsOneSave
  BY <1>3 DEF SettledIsOneSave
<1>5. OneSaver
  BY DEF SettingsInit, OneSaver, Saving, NoSave
<1> QED
  BY <1>2, <1>4, <1>5 DEF Whole

\* A settled section of the settings is the form submitted last, unless saves
\* overlapped or were cut off: whatever forms there are and however many requests.
THEOREM OneForm == Spec => []SettledIsOneSave
<1>1. Init => SettingsTypeOK /\ Whole
  BY SettingsStart DEF Init
<1>2. SettingsTypeOK /\ Whole /\ [Next]_vars => (SettingsTypeOK /\ Whole)'
  BY SettingsMove, SettingsTyped, WholeKept
<1>3. SettingsTypeOK /\ Whole => SettledIsOneSave
  BY DEF Whole
<1> QED
  BY <1>1, <1>2, <1>3, PTL DEF Spec

-----------------------------------------------------------------------------
(* Types. *)

\* The mail server has taken at most one copy for each attempt that is over.
CopiesBounded ==
    /\ step = "email_config" => attempt = 1 /\ copies = 0
    /\ step = "send" => copies < attempt

\* The part of TypeOK that is not about the settings.
AlertTypeOK ==
    /\ step \in Ends \cup Working
    /\ severity \in Severity
    /\ addressed \in BOOLEAN
    /\ attempt \in 1 .. MaxRetries
    /\ pending \subseteq Channel
    /\ targets \in [Channel -> Value \cup {Absent}]
    /\ results \in [Ways -> Result]
    /\ broken \in BOOLEAN
    /\ row \in Row
    /\ taken \subseteq Ways /\ lost \subseteq taken
    /\ unnoted \in BOOLEAN
    /\ copies \in 0 .. MaxRetries
    /\ steady \subseteq Channel

Typed == SettingsTypeOK /\ AlertTypeOK /\ CopiesBounded

\* The steps that end the e-mail.
LEMMA EmailDoneTyped ==
  ASSUME AlertTypeOK, NEW result \in Result, EmailDone(result)
  PROVE  /\ step' \in {"push_config", "record"} /\ attempt' \in 1 .. MaxRetries
         /\ results' \in [Ways -> Result]
  BY RetriesAssumption DEF AlertTypeOK, EmailDone, AfterEmail, Ways

\* The steps that end the dispatch without a result.
LEMMA UnwoundTyped ==
  ASSUME AlertTypeOK, NEW end \in {"raised", "aborted"}, Unwound(end)
  PROVE  AlertTypeOK' /\ CopiesBounded'
<1>1. attempt' \in 1 .. MaxRetries
  BY RetriesAssumption DEF Unwound
<1>2. results' \in [Ways -> Result] /\ targets' \in [Channel -> Value \cup {Absent}]
  BY DEF Unwound, Result
<1>3. /\ step' = end /\ pending' = {}
      /\ UNCHANGED << severity, addressed, broken, row, taken, lost, unnoted, copies, steady >>
  BY DEF Unwound, observers
<1> QED
  BY <1>1, <1>2, <1>3 DEF AlertTypeOK, CopiesBounded, Ends

LEMMA AlertTyped ==
  ASSUME Typed, [Next]_vars
  PROVE  AlertTypeOK' /\ CopiesBounded'
<1> USE RetriesAssumption DEF Typed
<1>0. Ends \cup Working = {"idle", "recorded", "raised", "aborted", "email_config", "send",
                           "stamp", "push_config", "push", "record", "patch"}
  BY DEF Ends, Working
<1>1. ASSUME NEW sev \in Severity, NEW address \in BOOLEAN, StartAlert(sev, address)
      PROVE  AlertTypeOK' /\ CopiesBounded'
  <2>1. step' \in {"email_config", "push_config", "record"} /\ attempt' = 1 /\ copies' = 0
    BY <1>1 DEF StartAlert, AfterEmail
  <2>2. results' \in [Ways -> Result] /\ targets' \in [Channel -> Value \cup {Absent}]
    BY <1>1 DEF StartAlert, Result
  <2>3. row' \in Row
    BY <1>1 DEF StartAlert, Row, NoRow
  <2>4. steady' \subseteq Channel /\ pending' = {} /\ taken' = {} /\ lost' = {}
        /\ unnoted' \in BOOLEAN /\ severity' \in Severity /\ addressed' \in BOOLEAN /\ broken' \in BOOLEAN
    BY <1>1 DEF StartAlert
  <2> QED
    BY <1>0, <2>1, <2>2, <2>3, <2>4 DEF AlertTypeOK, CopiesBounded
<1>2. CASE EmailConfig
  BY <1>0, <1>2 DEF EmailConfig, AlertTypeOK, CopiesBounded, observers
<1>3. CASE EmailSkipped
  <2>1. EmailDone("failed") /\ UNCHANGED << broken, taken, lost, unnoted, copies >>
    BY <1>3 DEF EmailSkipped
  <2> QED
    BY <1>0, <2>1, EmailDoneTyped DEF EmailDone, AlertTypeOK, CopiesBounded, Result
<1>4. CASE EmailSent
  BY <1>0, <1>4 DEF EmailSent, MailTaken, AlertTypeOK, CopiesBounded, Ways
<1>5. CASE EmailRefused \/ EmailAnswerLost
  <2>1. /\ step = "send" /\ UNCHANGED << broken, unnoted >>
        /\ \/ UNCHANGED << taken, lost, copies >>
           \/ taken' = taken \cup {Email} /\ lost' = lost \cup {Email} /\ copies' = copies + 1
    BY <1>5 DEF EmailRefused, EmailAnswerLost, MailTaken
  <2>2. copies' \in 0 .. attempt /\ taken' \subseteq Ways /\ lost' \subseteq taken'
    BY <2>1 DEF AlertTypeOK, CopiesBounded, Ways
  <2>3. Retry
    BY <1>5 DEF EmailRefused, EmailAnswerLost
  <2>4. CASE /\ attempt < MaxRetries /\ attempt' = attempt + 1 /\ step' = "send"
             /\ UNCHANGED << severity, addressed, pending, targets, results, row, steady >>
    BY <1>0, <2>1, <2>2, <2>4 DEF AlertTypeOK, CopiesBounded
  <2>5. CASE attempt = MaxRetries /\ EmailDone("failed")
    BY <1>0, <2>1, <2>2, <2>5, EmailDoneTyped DEF EmailDone, AlertTypeOK, CopiesBounded, Result
  <2> QED
    BY <2>3, <2>4, <2>5 DEF Retry
<1>6. CASE Stamp
  <2>1. EmailDone("ok") /\ UNCHANGED << broken, taken, lost, unnoted, copies >>
    BY <1>6 DEF Stamp
  <2> QED
    BY <1>0, <2>1, EmailDoneTyped DEF EmailDone, AlertTypeOK, CopiesBounded, Result
<1>7. CASE EmailStatementFails \/ StampUnread
  <2>1. /\ EmailDone("failed") /\ UNCHANGED << taken, lost, copies >>
        /\ broken' \in BOOLEAN /\ unnoted' \in BOOLEAN
    BY <1>7 DEF EmailStatementFails, StampUnread, AlertTypeOK
  <2> QED
    BY <1>0, <2>1, EmailDoneTyped DEF EmailDone, AlertTypeOK, CopiesBounded, Result
<1>8. CASE PushConfig
  <2>1. \A c \in Channel : << c, "target" >> \in Key
    BY SectionAssumption, FieldAssumption DEF Key, Ways
  <2>2. targets' \in [Channel -> Value \cup {Absent}] /\ pending' \subseteq Channel
    BY <1>8, <2>1 DEF PushConfig, SettingsTypeOK
  <2>3. step' \in {"push", "record"}
    BY <1>8 DEF PushConfig
  <2> QED
    BY <1>0, <1>8, <2>2, <2>3 DEF PushConfig, AlertTypeOK, CopiesBounded, observers
<1>9. CASE PushConfigFails \/ RecordFails \/ Crash
  <2>1. PICK end \in {"raised", "aborted"} : Unwound(end)
    BY <1>9 DEF PushConfigFails, RecordFails, Crash
  <2> QED
    BY <2>1, UnwoundTyped
<1>10. ASSUME NEW c \in Channel, PushSent(c) \/ PushRefused(c) \/ PushAnswerLost(c)
       PROVE  AlertTypeOK' /\ CopiesBounded'
  <2>1. taken' \subseteq Ways /\ lost' \subseteq taken'
    BY <1>10 DEF PushSent, PushRefused, PushAnswerLost, AlertTypeOK, Ways
  <2>2. PICK result \in Result : Tried(c, result)
    BY <1>10 DEF PushSent, PushRefused, PushAnswerLost, Result
  <2>3. step' \in {"push", "record"}
    BY <2>2 DEF Tried
  <2>4. results' \in [Ways -> Result] /\ pending' \subseteq Channel
    BY <2>2 DEF Tried, AlertTypeOK
  <2> QED
    BY <1>0, <2>1, <2>2, <2>3, <2>4 DEF Tried, AlertTypeOK, CopiesBounded
<1>11. CASE Record \/ Patch
  <2>1. PICK delivered \in BOOLEAN, channels \in SUBSET (Ways \cup {Provisional}) :
            row' = [delivered |-> delivered, channels |-> channels]
    <3>1. CASE Record
      BY <3>1 DEF Record
    <3>2. CASE Patch
      BY <3>2 DEF Patch
    <3> QED
      BY <1>11, <3>1, <3>2
  <2>2. /\ step' \in {"patch", "recorded"}
        /\ UNCHANGED << severity, addressed, attempt, pending, targets, results, broken,
                        taken, lost, unnoted, copies, steady >>
    BY <1>11 DEF Record, Patch, observers
  <2>3. row' \in Row
    BY <2>1 DEF Row
  <2> QED
    BY <1>0, <2>2, <2>3 DEF AlertTypeOK, CopiesBounded
<1>12. CASE Administer
  BY <1>0, <1>12 DEF Administer, AlertTypeOK, CopiesBounded, alert
<1>13. CASE UNCHANGED vars
  BY <1>0, <1>13 DEF vars, alert, observers, AlertTypeOK, CopiesBounded
<1> QED
  BY <1>1, <1>2, <1>3, <1>4, <1>5, <1>6, <1>7, <1>8, <1>9, <1>10, <1>11, <1>12, <1>13
     DEF Next, DispatchStep, EmailStep, PushStep

LEMMA TypedStart == Init => Typed
<1> SUFFICES ASSUME Init PROVE Typed
  OBVIOUS
<1>1. SettingsTypeOK
  BY SettingsStart DEF Init
<1>2. results \in [Ways -> Result] /\ targets \in [Channel -> Value \cup {Absent}]
  BY DEF Init, Result
<1>3. row \in Row
  BY DEF Init, Row, NoRow
<1>4. attempt \in 1 .. MaxRetries /\ copies \in 0 .. MaxRetries
  BY RetriesAssumption DEF Init
<1>5. step \in Ends \cup Working /\ CopiesBounded
  BY DEF Init, Ends, CopiesBounded
<1> QED
  BY <1>1, <1>2, <1>3, <1>4, <1>5 DEF Init, Typed, AlertTypeOK

LEMMA TypedAlways == Spec => []Typed
<1>1. Typed /\ [Next]_vars => Typed'
  BY SettingsMove, SettingsTyped, AlertTyped DEF Typed
<1> QED
  BY <1>1, TypedStart, PTL DEF Spec

\* Every reachable state of the settings and the dispatcher is well typed.
THEOREM TypeCorrect == Spec => []TypeOK
<1>1. Typed => TypeOK
  BY DEF Typed, AlertTypeOK, TypeOK
<1> QED
  BY <1>1, TypedAlways, PTL

-----------------------------------------------------------------------------
(* The record tells the truth. *)

\* A result "ok" stands for a message taken; a message taken stands for a result
\* "ok", a lost answer, an e-mail on the way to its result or one that could not be
\* noted, unless a statement failed, after which no row is patched. A channel still
\* to be tried has no result yet. An abandoned dispatch has forgotten its results.
Honest ==
    /\ \A w \in Ways : results[w] = "ok" => w \in taken
    /\ step \notin {"raised", "aborted"} =>
           /\ \A c \in Channel : c \in taken \ lost => results[c] = "ok"
           /\ \A c \in Channel : results[c] = "untried" => c \notin taken
    /\ Email \in taken \ lost =>
           \/ results[Email] = "ok" \/ unnoted
           \/ step \in {"stamp", "raised", "aborted"} \/ broken
    /\ step \in {"email_config", "send", "stamp", "push_config"} =>
           \A c \in Channel : results[c] = "untried"
    /\ step = "push" => \A c \in pending : results[c] = "untried"
    /\ step = "stamp" => Email \in taken
    /\ step \in {"email_config", "send"} /\ Email \in taken => Email \in lost
    /\ copies > 0 => Email \in taken
    /\ copies > 1 => Email \in lost
    /\ step = "patch" => ~broken
    /\ step = "recorded" =>
           /\ row.channels = {w \in Ways : results[w] = "ok"}
           /\ row.delivered <=> row.channels # {}
           /\ ~broken

LEMMA HonestKept ==
  ASSUME Typed, Honest, [Next]_vars
  PROVE  Honest'
<1> USE ChannelAssumption DEF Typed
<1>0. copies \in Nat /\ Ways = Channel \cup {Email} /\ results \in [Ways -> Result]
  BY DEF AlertTypeOK, Ways
<1>1. ASSUME NEW sev \in Severity, NEW address \in BOOLEAN, StartAlert(sev, address)
      PROVE  Honest'
  <2>1. /\ step' \notin {"stamp", "push", "patch", "recorded"} /\ taken' = {} /\ copies' = 0
        /\ \A w \in Ways : results'[w] = "untried"
    BY <1>1 DEF StartAlert, AfterEmail
  <2> QED
    BY <1>0, <2>1 DEF Honest
<1>2. CASE EmailConfig
  BY <1>0, <1>2 DEF EmailConfig, Honest, observers
<1>3. CASE EmailSkipped
  <2>1. /\ step' \in {"push_config", "record"} /\ UNCHANGED << broken, taken, lost, unnoted, copies >>
        /\ \A c \in Channel : results'[c] = results[c]
        /\ results'[Email] = "failed" /\ step = "email_config"
    BY <1>0, <1>3 DEF EmailSkipped, EmailDone, AfterEmail
  <2> QED
    BY <1>0, <2>1 DEF Honest
<1>4. CASE EmailSent
  BY <1>0, <1>4 DEF EmailSent, MailTaken, Honest
<1>5. CASE EmailRefused \/ EmailAnswerLost
  <2>1. /\ step = "send" /\ UNCHANGED << broken, unnoted >>
        /\ \/ UNCHANGED << taken, lost, copies >>
           \/ taken' = taken \cup {Email} /\ lost' = lost \cup {Email} /\ copies' = copies + 1
    BY <1>5 DEF EmailRefused, EmailAnswerLost, MailTaken
  <2>2. Retry
    BY <1>5 DEF EmailRefused, EmailAnswerLost
  <2>3. CASE step' = "send" /\ results' = results
    BY <1>0, <2>1, <2>3 DEF Honest
  <2>4. CASE EmailDone("failed")
    <3>1. /\ step' \in {"push_config", "record"} /\ results'[Email] = "failed"
          /\ \A c \in Channel : results'[c] = results[c]
      BY <1>0, <2>4 DEF EmailDone, AfterEmail
    <3> QED
      BY <1>0, <2>1, <3>1 DEF Honest
  <2> QED
    BY <2>2, <2>3, <2>4 DEF Retry
<1>6. CASE Stamp
  <2>1. /\ step' \in {"push_config", "record"} /\ UNCHANGED << broken, taken, lost, unnoted, copies >>
        /\ \A c \in Channel : results'[c] = results[c]
        /\ results'[Email] = "ok" /\ step = "stamp"
    BY <1>0, <1>6 DEF Stamp, EmailDone, AfterEmail
  <2> QED
    BY <1>0, <2>1 DEF Honest
<1>7. CASE EmailStatementFails \/ StampUnread
  <2>1. /\ step' \in {"push_config", "record"} /\ UNCHANGED << taken, lost, copies >>
        /\ \A c \in Channel : results'[c] = results[c]
        /\ results'[Email] = "failed" /\ step \in {"email_config", "stamp"}
        /\ broken' \/ unnoted'
    BY <1>0, <1>7 DEF EmailStatementFails, StampUnread, EmailDone, AfterEmail
  <2> QED
    BY <1>0, <2>1 DEF Honest
<1>8. CASE PushConfig
  <2>1. /\ step = "push_config" /\ step' \in {"push", "record"} /\ pending' \subseteq Channel
        /\ UNCHANGED << results, broken, observers >>
    BY <1>8 DEF PushConfig
  <2> QED
    BY <1>0, <2>1 DEF Honest, observers
<1>9. CASE PushConfigFails \/ RecordFails \/ Crash
  <2>1. /\ step' \in {"raised", "aborted"} /\ UNCHANGED observers
        /\ \A w \in Ways : results'[w] = "untried"
    BY <1>9 DEF PushConfigFails, RecordFails, Crash, Unwound
  <2> QED
    BY <1>0, <2>1 DEF Honest, observers
<1>10. ASSUME NEW c \in Channel, PushSent(c) \/ PushRefused(c) \/ PushAnswerLost(c)
       PROVE  Honest'
  <2>1. PICK result : Tried(c, result)
    BY <1>10 DEF PushSent, PushRefused, PushAnswerLost
  <2>2. /\ step = "push" /\ step' \in {"push", "record"} /\ UNCHANGED << broken, unnoted >>
        /\ copies' = copies /\ c # Email /\ c \in pending /\ pending' = pending \ {c}
        /\ \A w \in Ways : w # c => results'[w] = results[w]
    BY <1>0, <2>1 DEF Tried
  <2>3. \/ results'[c] = "ok" /\ taken' = taken \cup {c} /\ lost' = lost
        \/ results'[c] = "failed" /\ UNCHANGED << taken, lost >>
        \/ results'[c] = "failed" /\ taken' = taken \cup {c} /\ lost' = lost \cup {c}
    BY <1>0, <1>10 DEF PushSent, PushRefused, PushAnswerLost, Tried
  <2>4. results[c] = "untried" /\ c \notin taken
    BY <2>2 DEF Honest
  <2>5. pending \subseteq Channel
    BY DEF AlertTypeOK
  <2> QED
    BY <1>0, <2>2, <2>3, <2>4, <2>5 DEF Honest
<1>11. CASE Record
  <2>1. /\ step = "record" /\ ~broken /\ step' = "patch"
        /\ UNCHANGED << results, broken, observers >>
    BY <1>11 DEF Record
  <2> QED
    BY <1>0, <2>1 DEF Honest, observers
<1>12. CASE Patch
  <2>1. /\ step = "patch" /\ step' = "recorded"
        /\ row'.channels = {w \in Ways : results[w] = "ok"}
        /\ row'.delivered <=> row'.channels # {}
        /\ UNCHANGED << results, broken, observers >>
    BY <1>12 DEF Patch
  <2> QED
    BY <1>0, <2>1 DEF Honest, observers
<1>13. CASE Administer
  BY <1>0, <1>13 DEF Administer, Honest, alert
<1>14. CASE UNCHANGED vars
  BY <1>0, <1>14 DEF vars, alert, observers, Honest
<1> QED
  BY <1>1, <1>2, <1>3, <1>4, <1>5, <1>6, <1>7, <1>8, <1>9, <1>10, <1>11, <1>12, <1>13, <1>14
     DEF Next, DispatchStep, EmailStep, PushStep

LEMMA HonestStart == Init => Honest
<1> SUFFICES ASSUME Init PROVE Honest
  OBVIOUS
<1>1. step = "idle" /\ taken = {} /\ copies = 0 /\ \A w \in Ways : results[w] = "untried"
  BY DEF Init
<1> QED
  BY <1>1 DEF Honest, Ways

LEMMA HonestAlways == Spec => [](Typed /\ Honest)
<1>1. Typed /\ Honest /\ [Next]_vars => Honest'
  BY HonestKept
<1> QED
  BY <1>1, HonestStart, TypedAlways, PTL DEF Spec

\* A patched row names only channels whose servers took the message, and misses
\* one of those only if the answer was lost, or the mail could not be noted.
THEOREM RecordAlwaysHonest == Spec => []RecordIsHonest
<1>1. Typed /\ Honest => RecordIsHonest
  <2> SUFFICES ASSUME Typed, Honest, step = "recorded" PROVE RecordIsHonest
    BY DEF RecordIsHonest
  <2>1. \A w \in taken \ lost : results[w] = "ok" \/ (w = Email /\ unnoted)
    BY DEF Honest, Typed, AlertTypeOK, Ways
  <2> QED
    BY <2>1 DEF RecordIsHonest, Honest, Typed, AlertTypeOK
<1> QED
  BY <1>1, HonestAlways, PTL

\* A second copy of a mail leaves only after an answer was lost.
THEOREM SecondCopyOnlyAfterLoss == Spec => []OneMailUnlessLost
<1>1. Honest => OneMailUnlessLost
  BY DEF Honest, OneMailUnlessLost
<1> QED
  BY <1>1, HonestAlways, PTL

-----------------------------------------------------------------------------
(* No channel is passed over. *)

\* What was enabled all along is enabled now; during the push phase it is still
\* to be tried or has been tried, and after it, it has been tried. Once past
\* the mail, the mail of an owner with an address has a result.
NoneMissed ==
    /\ \A c \in steady : Enabled(c)
    /\ step = "push" => \A c \in steady : c \in pending \/ results[c] # "untried"
    /\ step \in {"record", "patch", "recorded"} /\ severity \in PushSeverities =>
           \A c \in steady : results[c] # "untried"
    /\ step \in {"push_config", "push", "record", "patch", "recorded"} /\ addressed =>
           results[Email] # "untried"

LEMMA NoneMissedKept ==
  ASSUME Typed, NoneMissed, [Next]_vars
  PROVE  NoneMissed'
<1> USE ChannelAssumption DEF Typed
<1>0. /\ Ways = Channel \cup {Email} /\ results \in [Ways -> Result]
      /\ steady \subseteq Channel /\ pending \subseteq Channel
  BY DEF AlertTypeOK, Ways
<1>1. ASSUME NEW sev \in Severity, NEW address \in BOOLEAN, StartAlert(sev, address)
      PROVE  NoneMissed'
  <2>1. /\ step' = IF address THEN "email_config" ELSE AfterEmail(sev)
        /\ severity' = sev /\ addressed' = address /\ settings' = settings
        /\ steady' = {c \in Channel : Enabled(c)}
    BY <1>1 DEF StartAlert, settingsVars
  <2>2. \A c \in steady' : Enabled(c)'
    BY <2>1 DEF Enabled
  <2>3. step' = "record" => severity' \notin PushSeverities
    BY <2>1 DEF AfterEmail
  <2> QED
    BY <2>1, <2>2, <2>3 DEF NoneMissed, AfterEmail
<1>2. CASE EmailConfig \/ EmailSent
  <2>1. step' \in {"send", "stamp"} /\ settings' = settings /\ steady' = steady
    BY <1>2 DEF EmailConfig, EmailSent, settingsVars, observers
  <2> QED
    BY <2>1 DEF NoneMissed, Enabled
<1>3. ASSUME NEW result \in {"ok", "failed"}, EmailDone(result), settings' = settings
      PROVE  NoneMissed'
  <2>1. /\ step' = AfterEmail(severity) /\ steady' = steady
        /\ severity' = severity /\ results'[Email] # "untried"
    BY <1>0, <1>3 DEF EmailDone
  <2> QED
    BY <1>3, <2>1 DEF NoneMissed, Enabled, AfterEmail
<1>4. CASE EmailSkipped \/ Stamp \/ StampUnread \/ EmailStatementFails
  <2>1. settings' = settings
    BY <1>4 DEF EmailSkipped, Stamp, StampUnread, EmailStatementFails, Fault, settingsVars
  <2> QED
    BY <1>3, <1>4, <2>1 DEF EmailSkipped, Stamp, StampUnread, EmailStatementFails
<1>5. CASE EmailRefused \/ EmailAnswerLost
  <2>1. Retry /\ settings' = settings
    BY <1>5 DEF EmailRefused, EmailAnswerLost, settingsVars
  <2>2. CASE step' = "send" /\ steady' = steady
    BY <2>1, <2>2 DEF NoneMissed, Enabled
  <2> QED
    BY <1>3, <2>1, <2>2 DEF Retry
<1>6. CASE PushConfig
  <2>1. /\ settings' = settings /\ steady' = steady /\ results' = results
        /\ addressed' = addressed /\ step = "push_config"
        /\ pending' = {c \in Channel : Enabled(c)}
        /\ step' = IF pending' = {} THEN "record" ELSE "push"
    BY <1>6 DEF PushConfig, settingsVars, observers
  <2>2. \A c \in steady' : Enabled(c)' /\ c \in pending'
    BY <1>0, <2>1 DEF NoneMissed, Enabled
  <2> QED
    BY <2>1, <2>2 DEF NoneMissed
<1>7. CASE PushConfigFails \/ RecordFails \/ Crash
  <2>1. step' \in {"raised", "aborted"} /\ settings' = settings /\ steady' = steady
    BY <1>7 DEF PushConfigFails, RecordFails, Crash, Unwound, SavesLost, Fault, settingsVars,
                observers
  <2> QED
    BY <2>1 DEF NoneMissed, Enabled
<1>8. ASSUME NEW c \in Channel, PushSent(c) \/ PushRefused(c) \/ PushAnswerLost(c)
      PROVE  NoneMissed'
  <2>1. PICK result \in {"ok", "failed"} : Tried(c, result)
    BY <1>8 DEF PushSent, PushRefused, PushAnswerLost
  <2>2. /\ settings' = settings /\ steady' = steady /\ addressed' = addressed
        /\ step = "push" /\ results' = [results EXCEPT ![c] = result]
        /\ pending' = pending \ {c}
        /\ step' = IF pending' = {} THEN "record" ELSE "push"
    BY <2>1 DEF Tried, settingsVars
  <2>3. \A d \in steady' : Enabled(d)' /\ (d \in pending' \/ results'[d] # "untried")
    BY <1>0, <2>2 DEF NoneMissed, Enabled
  <2>4. addressed' => results'[Email] # "untried"
    BY <1>0, <2>2 DEF NoneMissed
  <2> QED
    BY <2>2, <2>3, <2>4 DEF NoneMissed
<1>9. CASE Record \/ Patch
  <2>1. /\ \/ step = "record" /\ step' = "patch"
           \/ step = "patch" /\ step' = "recorded"
        /\ UNCHANGED << settings, steady, results, addressed, severity >>
    BY <1>9 DEF Record, Patch, settingsVars, observers
  <2> QED
    BY <2>1 DEF NoneMissed, Enabled
<1>10. CASE Administer
  <2>1. /\ steady' = {c \in steady : Enabled(c)'}
        /\ UNCHANGED << step, severity, addressed, pending, results >>
    BY <1>10 DEF Administer, alert
  <2> QED
    BY <2>1 DEF NoneMissed
<1>11. CASE UNCHANGED vars
  BY <1>11 DEF vars, settingsVars, alert, observers, NoneMissed, Enabled
<1> QED
  BY <1>1, <1>2, <1>4, <1>5, <1>6, <1>7, <1>8, <1>9, <1>10, <1>11
     DEF Next, DispatchStep, EmailStep, PushStep

\* Whatever fails and whatever administrators save, a written row comes after an
\* attempt on every channel that was enabled all along.
THEOREM EveryChannelAlwaysTried == Spec => []EveryChannelTried
<1>1. Init => NoneMissed
  BY DEF Init, NoneMissed
<1>2. Typed /\ NoneMissed /\ [Next]_vars => NoneMissed'
  BY NoneMissedKept
<1>3. NoneMissed => EveryChannelTried
  BY DEF NoneMissed, EveryChannelTried
<1> QED
  BY <1>1, <1>2, <1>3, TypedAlways, PTL DEF Spec

=============================================================================
