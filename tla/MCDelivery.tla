----------------------------- MODULE MCDelivery -----------------------------
(* Constants of Delivery for TLC. *)
EXTENDS Delivery

MCOrder == [c \in Channel |-> IF c = "ntfy" THEN 1 ELSE 2]

Submit(section, entries) == [section |-> section, entries |-> entries]
Put(field, value)        == [field |-> field, value |-> value]

On(channel)   == Submit(channel, << Put("enabled", "true"), Put("target", "there") >>)
Off(channel)  == Submit(channel, << Put("enabled", "false"), Put("target", "there") >>)

\* One channel is turned on, and turned off with its target kept.
MCForms == {On("ntfy"), Off("ntfy")}

\* A mail server and a second channel, or a fresh database.
MCStored == {[k \in Key |-> CASE k = << "email", "host" >>      -> "host"
                              [] k = << "discord", "enabled" >> -> "true"
                              [] k = << "discord", "target" >>  -> "there"
                              [] OTHER                          -> Absent],
             [k \in Key |-> Absent]}
=============================================================================
