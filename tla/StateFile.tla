------------------------------ MODULE StateFile ------------------------------
(***************************************************************************)
(* The JSON state files of silence_nudge.rs, deaf_escalation.rs and digest.rs *)
(* all live the same life: absent at first, read whole, replaced by           *)
(* std::fs::write, which truncates the file before it writes it.  A file left *)
(* truncated does not parse.                                                 *)
(***************************************************************************)
CONSTANTS
    Values,     \* what the file can say
    Default     \* what an absent file stands for, one of Values

File == [state : {"absent", "torn", "whole"}, value : Values]

Absent == [state |-> "absent", value |-> Default]
Torn == [state |-> "torn", value |-> Default]
Whole(v) == [state |-> "whole", value |-> v]

\* load_state returns Ok: the file is absent or parses.
Loads(f) == f.state # "torn"
=============================================================================
