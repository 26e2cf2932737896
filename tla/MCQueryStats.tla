----------------------------- MODULE MCQueryStats -----------------------------
(* Small instances of QueryStats for TLC. *)
EXTENDS UiPanels

Name == [host |-> "db", dots |-> 0, dot |-> FALSE]
DottedName == [host |-> "db", dots |-> 0, dot |-> TRUE]
LongName == [host |-> "db.example", dots |-> 1, dot |-> FALSE]

OneName == <<Name>>
NameTwice == <<Name, DottedName>>
ShortAndLong == <<Name, LongName>>
OneMode == <<"absolute_fqdn">>
SearchMode == <<"system">>
BothModes == <<"system", "absolute_fqdn">>
OneType == <<"A">>
BothTypes == <<"A", "AAAA">>

\* dnspython raises NoAnswer for an empty answer, which is an ERROR; an ERROR is counted as
\* a TIMEOUT is, but for the timeouts by mode.
ThreeOutcomes == {"success", "nxdomain", "timeout"}
FoundOrNot == {"success", "nxdomain"}
Found == {"success"}

OneLatency == {1}
SomeLatencies == {1, 3, 8}
=============================================================================
