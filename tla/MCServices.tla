----------------------------- MODULE MCServices -----------------------------
(***************************************************************************)
(* Seven services for TLC: Sessions with two requests in flight,           *)
(* BulkImport with a file of two rows and two calls in flight, EdmAlerts   *)
(* with one stage and two scans, EdmTemplates with two updates in flight,  *)
(* OrgUnits with three units and two requests in flight, FileStore with    *)
(* one key and three requests in flight, and ChatRooms with one tab.  They *)
(* share no variable, so a behaviour is of one of them, which part         *)
(* chooses, and the states add up instead of multiplying.                  *)
(***************************************************************************)
EXTENDS Sessions, BulkImport, EdmAlerts, EdmTemplates, OrgUnits, FileStore, ChatRooms

CONSTANTS e1, e2, d1, o1, o2, o3

VARIABLE part

MCRow(e, role, password) == [email |-> e, role |-> role, password |-> password, place |-> d1]
MCUser(role, place)      == [profile |-> "old", role |-> role, place |-> place]

MCFiles == {<<MCRow(e1, "admin", TRUE), MCRow(e2, "regular", FALSE)>>}

\* The second is there, with another role than the file has.
MCUsersAtFirst == {[e \in {e1, e2} |-> IF e = e1 THEN Absent ELSE MCUser("admin", NoPlace)]}

MCUsersEdited == {[profile |-> "edited", role |-> "regular", place |-> NoPlace]}

\* One stage, due after two hours; ann has it, and is its department's head.
MCDueAt     == [s \in Stages |-> 2]
MCAssigned  == [s \in Stages |-> {"ann"}]
MCSuperiors == [s \in Stages |-> {"ann"}]

\* A chain of three; a step makes it a root with two units below it.
MCUnit(parent, path) == [slug |-> "a", parent |-> parent, path |-> path]
MCFirstUnits ==
  {[u \in Units |-> CASE u = o1 -> MCUnit(NoUnit, <<"a">>)
                      [] u = o2 -> MCUnit(o1, <<"a", "a">>)
                      [] u = o3 -> MCUnit(o2, <<"a", "a", "a">>)]}

MCInit ==
  /\ part \in {"session", "import", "alerts", "templates", "org", "files", "chat"}
  /\ SessionsInit
  /\ ImportInit
  /\ AlertsInit
  /\ TemplatesInit
  /\ OrgInit
  /\ FilesInit
  /\ ChatInit
  /\ part # "chat" => viewing = [t \in Tabs |-> "global"]

MCNext ==
  /\ UNCHANGED part
  /\ \/ /\ part = "session" /\ SessionsNext
        /\ UNCHANGED <<import, alerting, templating, orgVars, filesVars, chatVars>>
     \/ /\ part = "import" /\ ImportNext
        /\ UNCHANGED <<sessionVars, alerting, templating, orgVars, filesVars, chatVars>>
     \/ /\ part = "alerts" /\ AlertsNext
        /\ UNCHANGED <<sessionVars, import, templating, orgVars, filesVars, chatVars>>
     \/ /\ part = "templates" /\ TemplatesNext
        /\ UNCHANGED <<sessionVars, import, alerting, orgVars, filesVars, chatVars>>
     \/ /\ part = "org" /\ OrgNext
        /\ UNCHANGED <<sessionVars, import, alerting, templating, filesVars, chatVars>>
     \/ /\ part = "files" /\ FilesNext
        /\ UNCHANGED <<sessionVars, import, alerting, templating, orgVars, chatVars>>
     \/ /\ part = "chat" /\ ChatNext
        /\ UNCHANGED <<sessionVars, import, alerting, templating, orgVars, filesVars>>

MCSpec ==
  /\ MCInit
  /\ [][MCNext]_<<sessionVars, import, alerting, templating, orgVars, filesVars, chatVars, part>>
  /\ \A c \in Requests : WF_sessionVars(part = "session" /\ Answer(c))
  /\ WF_alerting(part = "alerts" /\ AlertScheduler)

\* The types of the parts.
ServicesTypeOK ==
  /\ SessionsTypeOK /\ ImportTypeOK /\ AlertsTypeOK /\ TemplatesTypeOK
  /\ OrgTypeOK /\ FilesTypeOK /\ ChatTypeOK

\* A stage that calls for an alert gets it, whatever scans fail, and once more when it was read:
\* the alert is there, or the stage is decided, or, for a reminder, its deadline has passed.
AlertComes ==
  \A a \in Alert : (part = "alerts" /\ a \in Called) ~> (unread[a] > 0 \/ a \notin Called)
=============================================================================
