------------------------------ MODULE Delivery ------------------------------
(***************************************************************************)
(* One alert on its way out: the e-mail with its retries, then the push    *)
(* channels, then the history row that says what was delivered; while      *)
(* administrators save the settings that the dispatcher reads.             *)
(*                                                                         *)
(*   app/services/notification.py    NotificationDispatcher.send_alert     *)
(*   app/services/email_service.py   send_alert_email, _send_with_retry    *)
(*   app/services/alert_engine.py    _fire, for the history row            *)
(*                                                                         *)
(* The dispatcher works in the session of the tick.  Once a statement has  *)
(* failed there, every later one fails too until the session is closed.    *)
(* A commit gives the connection back: a statement that gets no other one  *)
(* fails too, and leaves the session as it was.                            *)
(***************************************************************************)
EXTENDS Settings

CONSTANTS
    Channel,          \* push channels
    Order,            \* Order[c]: the place of c in send_alert
    Severity,         \* what the escalation engine can say
    PushSeverities,   \* PUSH_SEVERITIES
    MaxRetries        \* MAX_RETRIES

Email == "email"
Ways  == Channel \cup {Email}

\* What the history row says between its two commits.
Provisional == "log"

ASSUME ChannelAssumption  == {Email, Provisional} \cap Channel = {}
ASSUME SectionAssumption  == Section = Ways
ASSUME FieldAssumption    == {"host", "enabled", "target"} \subseteq Field
ASSUME ValueAssumption    == {"", "true"} \subseteq Value
ASSUME OrderAssumption    == Order \in [Channel -> Int]
ASSUME SeverityAssumption == PushSeverities \subseteq Severity
ASSUME RetriesAssumption  == MaxRetries \in Nat \ {0}

VARIABLES
    step,         \* where send_alert and its caller are
    severity,
    addressed,    \* has the owner an e-mail address?
    attempt,      \* of _send_with_retry
    pending,      \* enabled channels still to be tried
    targets,      \* the notification config, as loaded
    results,      \* channel_results
    broken,       \* a statement of this session has failed
    row,          \* the delivery status of the history row
    \* observers
    taken,        \* ways whose server took the message
    lost,         \* ways whose server took it and whose answer did not arrive
    unnoted,      \* the mail was taken and answered, and noting so failed
    copies,       \* how many times the mail server took it
    steady        \* channels enabled ever since the dispatch began

alert     == << step, severity, addressed, attempt, pending, targets, results, broken, row >>
observers == << taken, lost, unnoted, copies, steady >>
vars      == << settingsVars, alert, observers >>

NoRow   == [delivered |-> FALSE, channels |-> {}]
Row     == [delivered : BOOLEAN, channels : SUBSET (Ways \cup {Provisional})]
Ends    == {"idle", "recorded", "raised", "aborted"}
Working == {"email_config", "send", "stamp", "push_config", "push", "record", "patch"}
Result  == {"untried", "ok", "failed"}

TypeOK ==
    /\ SettingsTypeOK
    /\ step \in Ends \cup Working
    /\ severity \in Severity
    /\ addressed \in BOOLEAN
    /\ attempt \in 1 .. MaxRetries
    /\ pending \subseteq Channel
    /\ targets \in [Channel -> Value \cup {Absent}]
    /\ results \in [Ways -> Result]
    /\ broken \in BOOLEAN
    /\ row \in Row
    /\ taken \subseteq Ways /\ lost \subseteq taken
    /\ unnoted \in BOOLEAN
    /\ copies \in 0 .. MaxRetries
    /\ steady \subseteq Channel

Init ==
    /\ SettingsInit
    /\ step = "idle"
    /\ severity \in Severity
    /\ addressed = FALSE
    /\ attempt = 1
    /\ pending = {}
    /\ targets = [c \in Channel |-> Absent]
    /\ results = [w \in Ways |-> "untried"]
    /\ broken = FALSE
    /\ row = NoRow
    /\ taken = {} /\ lost = {} /\ unnoted = FALSE /\ copies = 0 /\ steady = {}

\* The dispatch is over without a result; what it held in its local variables is gone.
Unwound(end) ==
    /\ step' = end
    /\ attempt' = 1
    /\ pending' = {}
    /\ targets' = [c \in Channel |-> Absent]
    /\ results' = [w \in Ways |-> "untried"]
    /\ UNCHANGED << severity, addressed, broken, row, observers >>

Enabled(c)  == settings[<< c, "enabled" >>] = "true"
Configured  == settings[<< Email, "host" >>] \notin {Absent, ""}
Missing(v)  == v \in {Absent, ""}

-----------------------------------------------------------------------------
(* The e-mail. *)

AfterEmail(sev) == IF sev \in PushSeverities THEN "push_config" ELSE "record"

\* _fire calls send_alert, in the session of a new tick or of one that goes on.
StartAlert(sev, address) ==
    /\ step \in Ends
    /\ severity' = sev
    /\ addressed' = address
    /\ step' = IF address THEN "email_config" ELSE AfterEmail(sev)
    /\ attempt' = 1
    /\ pending' = {}
    /\ targets' = [c \in Channel |-> Absent]
    /\ results' = [w \in Ways |-> "untried"]
    /\ broken' = FALSE
    /\ row' = NoRow
    /\ taken' = {} /\ lost' = {} /\ unnoted' = FALSE /\ copies' = 0
    /\ steady' = {c \in Channel : Enabled(c)}
    /\ UNCHANGED settingsVars

EmailDone(result) ==
    /\ results' = [results EXCEPT ![Email] = result]
    /\ step' = AfterEmail(severity)
    /\ attempt' = 1
    /\ UNCHANGED << severity, addressed, pending, targets, row, steady >>

\* The SMTP settings are read; without a host there is nothing to send with.
EmailConfig ==
    /\ step = "email_config"
    /\ Configured
    /\ step' = "send"
    /\ UNCHANGED << settingsVars, severity, addressed, attempt, pending, targets, results,
                    broken, row, observers >>

EmailSkipped ==
    /\ step = "email_config"
    /\ ~Configured
    /\ EmailDone("failed")
    /\ UNCHANGED << settingsVars, broken, taken, lost, unnoted, copies >>

MailTaken == taken' = taken \cup {Email} /\ copies' = copies + 1

\* Mutant: a delivered mail does not leave the retry loop.
EmailSentAgain ==
    /\ step = "send"
    /\ MailTaken
    /\ IF attempt < MaxRetries THEN step' = "send" /\ attempt' = attempt + 1
                               ELSE step' = "stamp" /\ attempt' = attempt
    /\ UNCHANGED << settingsVars, severity, addressed, pending, targets, results,
                    broken, row, lost, unnoted, steady >>

EmailSent ==
    /\ step = "send"
    /\ MailTaken
    /\ step' = "stamp"
    /\ UNCHANGED << settingsVars, severity, addressed, attempt, pending, targets, results,
                    broken, row, lost, unnoted, steady >>

\* Mutant: the last failure is not raised.
RetryGivesUp == \/ /\ attempt < MaxRetries /\ attempt' = attempt + 1 /\ step' = "send"
                   /\ UNCHANGED << severity, addressed, pending, targets, results, row, steady >>
                \/ attempt = MaxRetries /\ EmailDone("ok")

\* After a failed attempt: another one, or the exception that ends the e-mail.
Retry ==
    \/ /\ attempt < MaxRetries /\ attempt' = attempt + 1 /\ step' = "send"
       /\ UNCHANGED << severity, addressed, pending, targets, results, row, steady >>
    \/ attempt = MaxRetries /\ EmailDone("failed")

\* An attempt raises, the server having refused the mail, or taken it.
EmailRefused ==
    /\ step = "send"
    /\ Retry
    /\ UNCHANGED << settingsVars, broken, taken, lost, unnoted, copies >>

EmailAnswerLost ==
    /\ step = "send"
    /\ Retry
    /\ MailTaken
    /\ lost' = lost \cup {Email}
    /\ UNCHANGED << settingsVars, broken, unnoted >>

\* smtp.last_send_ok is saved, a key nobody else writes.
Stamp ==
    /\ step = "stamp"
    /\ EmailDone("ok")
    /\ UNCHANGED << settingsVars, broken, taken, lost, unnoted, copies >>

Fault == /\ faults < MaxFaults
         /\ faults' = faults + 1
         /\ UNCHANGED << settings, save, last, spoiled >>

\* A statement of the e-mail part fails on the connection of the session:
\* caught, and the session is lost.
EmailStatementFails ==
    /\ step \in {"email_config", "stamp"}
    /\ Fault
    /\ EmailDone("failed")
    /\ broken' = TRUE
    /\ UNCHANGED << taken, lost, unnoted, copies >>

\* smtp.last_send_ok is committed, and the refresh that follows gets no
\* connection: caught as a failure of the e-mail, and the session goes on.
StampUnread ==
    /\ step = "stamp"
    /\ Fault
    /\ EmailDone("failed")
    /\ unnoted' = TRUE
    /\ UNCHANGED << broken, taken, lost, copies >>

-----------------------------------------------------------------------------
(* The push channels. *)

PushConfig ==
    /\ step = "push_config"
    /\ ~broken
    /\ pending' = {c \in Channel : Enabled(c)}
    /\ targets' = [c \in Channel |-> settings[<< c, "target" >>]]
    /\ step' = IF pending' = {} THEN "record" ELSE "push"
    /\ UNCHANGED << settingsVars, severity, addressed, attempt, results, broken, row, observers >>

\* Nothing catches this one: send_alert raises, and the tick ends.
PushConfigFails ==
    /\ step = "push_config"
    /\ \/ broken /\ UNCHANGED settingsVars
       \/ Fault
    /\ Unwound("raised")

\* Mutant: a channel that fails is the last one to be tried.
TriedStopping(c, result) ==
    /\ step = "push" /\ c \in pending /\ \A d \in pending : Order[c] <= Order[d]
    /\ results' = [results EXCEPT ![c] = result]
    /\ pending' = IF result = "ok" THEN pending \ {c} ELSE {}
    /\ step' = IF pending' = {} THEN "record" ELSE "push"
    /\ UNCHANGED << settingsVars, severity, addressed, attempt, targets, broken, row,
                    unnoted, copies, steady >>

\* Mutant: a channel that fails is tried again.
TriedForever(c, result) ==
    /\ step = "push" /\ c \in pending /\ \A d \in pending : Order[c] <= Order[d]
    /\ results' = [results EXCEPT ![c] = result]
    /\ pending' = IF result = "ok" THEN pending \ {c} ELSE pending
    /\ step' = IF pending' = {} THEN "record" ELSE "push"
    /\ UNCHANGED << settingsVars, severity, addressed, attempt, targets, broken, row,
                    unnoted, copies, steady >>

\* The next channel has been tried, whatever came of it.
Tried(c, result) ==
    /\ step = "push" /\ c \in pending /\ \A d \in pending : Order[c] <= Order[d]
    /\ results' = [results EXCEPT ![c] = result]
    /\ pending' = pending \ {c}
    /\ step' = IF pending' = {} THEN "record" ELSE "push"
    /\ UNCHANGED << settingsVars, severity, addressed, attempt, targets, broken, row,
                    unnoted, copies, steady >>

PushSent(c) ==
    /\ ~Missing(targets[c])
    /\ Tried(c, "ok")
    /\ taken' = taken \cup {c}
    /\ UNCHANGED lost

\* No address to send to, or an error before the service took the message.
PushRefused(c) == Tried(c, "failed") /\ UNCHANGED << taken, lost >>

PushAnswerLost(c) ==
    /\ ~Missing(targets[c])
    /\ Tried(c, "failed")
    /\ taken' = taken \cup {c}
    /\ lost' = lost \cup {c}

-----------------------------------------------------------------------------
(* The history row, and what can end the dispatch before it. *)

\* create_history_record commits a row that claims a delivery to the log,
Record ==
    /\ step = "record"
    /\ ~broken
    /\ row' = [delivered |-> TRUE, channels |-> {Provisional}]
    /\ step' = "patch"
    /\ UNCHANGED << settingsVars, severity, addressed, attempt, pending, targets, results,
                    broken, observers >>

\* and _fire commits what the dispatcher returned over it.
Patch ==
    LET channels == {w \in Ways : results[w] = "ok"}
    IN  /\ step = "patch"
        /\ row' = [delivered |-> channels # {}, channels |-> channels]
        /\ step' = "recorded"
        /\ UNCHANGED << settingsVars, severity, addressed, attempt, pending, targets, results,
                        broken, observers >>

\* Either commit fails, or the refresh between them: the row stays as it is.
RecordFails ==
    /\ step \in {"record", "patch"}
    /\ \/ broken /\ UNCHANGED settingsVars
       \/ Fault
    /\ Unwound("aborted")

Crash ==
    /\ SavesLost
    /\ Unwound("aborted")

Administer ==
    /\ SettingsNext
    /\ steady' = {c \in steady : Enabled(c)'}
    /\ UNCHANGED << alert, taken, lost, unnoted, copies >>

-----------------------------------------------------------------------------
EmailStep == \/ EmailConfig \/ EmailSkipped \/ EmailSent \/ EmailRefused
             \/ EmailAnswerLost \/ Stamp \/ StampUnread \/ EmailStatementFails

PushStep == \/ PushConfig \/ PushConfigFails
            \/ \E c \in Channel : PushSent(c) \/ PushRefused(c) \/ PushAnswerLost(c)

DispatchStep == EmailStep \/ PushStep \/ Record \/ Patch \/ RecordFails

Next == \/ \E sev \in Severity, address \in BOOLEAN : StartAlert(sev, address)
        \/ DispatchStep
        \/ Crash
        \/ Administer

Spec == Init /\ [][Next]_vars

\* Every await of the dispatcher returns or raises: SMTP and HTTP have timeouts.
FairSpec == Spec /\ WF_vars(DispatchStep)

-----------------------------------------------------------------------------
(* Properties. *)

\* Once patched, the history row names a channel only if its server took the
\* message.  It misses one that did in two cases: the answer was lost, or the
\* mail was answered and the note of it could not be read back.  A statement that
\* breaks the session after the mail was taken leaves no row at all.
RecordIsHonest ==
    step = "recorded" =>
        /\ row.channels \subseteq taken
        /\ taken \ row.channels \subseteq lost \cup (IF unnoted THEN {Email} ELSE {})
        /\ row.delivered <=> row.channels # {}

\* By the time the row is written, the e-mail of an owner with an address and
\* every channel that was enabled all along were tried, whichever of them
\* failed and whatever administrators saved meanwhile.
EveryChannelTried ==
    step = "recorded" =>
        /\ addressed => results[Email] # "untried"
        /\ severity \in PushSeverities => \A c \in steady : results[c] # "untried"

\* The retries send a second copy of a mail only when an answer was lost.
OneMailUnlessLost == copies > 1 => Email \in lost

\* Every dispatch comes to an end.
DispatchEnds == step \in Working ~> step \in Ends

=============================================================================
