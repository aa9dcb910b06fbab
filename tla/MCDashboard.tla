---------------------------- MODULE MCDashboard ----------------------------
(* Instances of Dashboard for TLC. *)
EXTENDS Dashboard

CONSTANT OpenPages      \* the pages this instance opens

None2 == <<"NONE", "NONE">>

MCStarts ==
  {[page |-> p, status |-> None2] : p \in OpenPages \cap {"settings", "recipients"}}
  \cup [page : OpenPages \cap {"schedule"},
        status : {None2, <<"QUEUED", "NONE">>}]
  \cup [page : OpenPages \cap {"dashboard"},
        status : {<<"FAILED", "NONE">>}]
=============================================================================
