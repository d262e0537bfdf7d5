---------------------------- MODULE MCAdvManager ----------------------------
(* Instances of AdvManager for TLC: a few stored configurations, and writes  *)
(* that set, clear and spoil a slot.                                         *)
EXTENDS AdvManager

Empty == [type |-> "UID", conf |-> FALSE, valid |-> TRUE]
Url == [type |-> "URL", conf |-> TRUE, valid |-> TRUE]
Tlm == [type |-> "TLM", conf |-> TRUE, valid |-> TRUE]
Eid == [type |-> "EID", conf |-> TRUE, valid |-> TRUE]
LongUrl == [type |-> "URL", conf |-> TRUE, valid |-> FALSE]
BadEid == [type |-> "EID", conf |-> TRUE, valid |-> FALSE]
Other == [type |-> "OTHER", conf |-> TRUE, valid |-> TRUE]

\* Factory: slot 0 is the default URL.
Factory == [s \in Slots |-> IF s = 0 THEN Url ELSE Empty]
\* Telemetry in slot 0 and one EID, and an all EID beacon with telemetry.
OneEid == [s \in Slots |-> IF s = 0 THEN Tlm ELSE IF s = 1 THEN Eid ELSE Empty]
AllEid == [s \in Slots |-> IF s = 0 THEN Tlm ELSE Eid]
BootsDef == {Factory, OneEid, AllEid}
BootsOne == {OneEid}

WritesDef == {Empty, Url, LongUrl, Tlm, Eid, BadEid}
WritesFew == {Empty, Eid}
WritesOther == {Other}
WritesLong == {LongUrl}
WritesHard == {Empty, LongUrl, Tlm, Eid, BadEid, Other}
=============================================================================
