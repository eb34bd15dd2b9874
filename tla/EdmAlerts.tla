------------------------------ MODULE EdmAlerts ------------------------------
(***************************************************************************)
(* The deadline alerts of the first EDM.  A scan reads the open stages     *)
(* that have a deadline and, for every alert they call for, looks for an   *)
(* unread one and inserts one when there is none: two statements, and one  *)
(* scan after the other only when the scheduler starts them.  A request    *)
(* starts a scan as well.                                                  *)
(*                                                                         *)
(*   open    the stages of edm_route_stages that are pending or in progress *)
(*   now     the time, in hours                                            *)
(*   unread  edm_alerts: how many unread rows there are of each alert      *)
(*   scans   the scans that are running                                    *)
(*   met     history: scans started by a request that overlapped another   *)
(*   used    what is used of the bounds                                    *)
(*                                                                         *)
(* An alert is a stage, a recipient and a kind, which is what the check    *)
(* compares.  Rows that were read are left out, since nothing looks at     *)
(* them again.  Who is assigned or superior to a stage does not change.    *)
(* applyRouteProgress asks for an alert too, but of the recipient 0, since *)
(* it has not loaded the assignees: no such user, no alert.                *)
(***************************************************************************)
EXTENDS Integers, FiniteSets

CONSTANTS Stages, People, Scans,
          DueAt,                  \* stage -> its deadline
          Assigned, Superiors,    \* stage -> the people resolved as recipients
          ReminderWindow, EscalationThreshold,
          MaxNow,                 \* bound: the time
          MaxAsked,               \* bound: scans that requests start
          MaxReads,               \* bound: alerts that are read
          MaxLost                 \* bound: scans that end with an error or a restart

ASSUME AlertsAssumption ==
  /\ DueAt \in [Stages -> Nat]
  /\ Assigned \in [Stages -> SUBSET People] /\ Superiors \in [Stages -> SUBSET People]
  /\ ReminderWindow \in Nat /\ EscalationThreshold \in Nat
  /\ MaxNow \in Nat /\ MaxReads \in Nat /\ MaxLost \in Nat
  /\ MaxAsked \in Nat /\ IsFiniteSet(Scans) /\ MaxAsked < Cardinality(Scans)

VARIABLES open, now, unread, scans, met, used

alerting == <<open, now, unread, scans, met, used>>

Alert   == [stage : Stages, to : People, kind : {"due_soon", "overdue", "escalation"}]
Scanning == DOMAIN scans

\* The alerts a scan of this moment is about.
Called ==
  {a \in Alert :
     /\ a.stage \in open
     /\ LET due == DueAt[a.stage]
        IN \/ a.kind = "due_soon" /\ a.to \in Assigned[a.stage]
                /\ now < due /\ due <= now + ReminderWindow
           \/ a.kind = "overdue" /\ a.to \in Assigned[a.stage] /\ due <= now
           \/ a.kind = "escalation" /\ a.to \in Superiors[a.stage]
                /\ due <= now - EscalationThreshold}

\* Bug: the check does not ask for the kind.
ToldSomething(a) == \E b \in Alert : b.stage = a.stage /\ b.to = a.to /\ unread[b] > 0

Told(a) == unread[a] > 0

-----------------------------------------------------------------------------

StartScan(p, by) ==
  LET unmet == {q \in Scanning : scans[q].by = "request" /\ ~scans[q].met}
      isMet == Scanning # {}
  IN /\ p \notin Scanning
     /\ scans' = [q \in Scanning \cup {p} |->
                    IF q = p THEN [by |-> by, todo |-> Called, missing |-> {}, met |-> isMet]
                    ELSE [scans[q] EXCEPT !.met = TRUE]]
     /\ met' = met + Cardinality(unmet) + (IF by = "request" /\ isMet THEN 1 ELSE 0)

\* Bug: a tick does not ask whether the last one has ended.
TickAnyway(p) ==
  /\ StartScan(p, "cron")
  /\ UNCHANGED <<open, now, unread, used>>

\* runTick, unless isRunning.
Tick(p) ==
  /\ \A q \in Scanning : scans[q].by # "cron"
  /\ StartScan(p, "cron")
  /\ UNCHANGED <<open, now, unread, used>>

AskForScan(p) ==
  /\ used.asked < MaxAsked
  /\ used' = [used EXCEPT !.asked = @ + 1]
  /\ StartScan(p, "request")
  /\ UNCHANGED <<open, now, unread>>

\* createAlertIfMissing looks for an unread alert...
LookForAlert(p) ==
  /\ scans[p].missing = {}
  /\ \E a \in scans[p].todo :
       scans' = [scans EXCEPT ![p].todo = @ \ {a},
                              ![p].missing = IF Told(a) THEN {} ELSE {a}]
  /\ UNCHANGED <<open, now, unread, met, used>>

\* ... and inserts one when it found none.
InsertAlert(p) ==
  /\ scans[p].missing # {}
  /\ unread' = [a \in Alert |-> unread[a] + (IF a \in scans[p].missing THEN 1 ELSE 0)]
  /\ scans' = [scans EXCEPT ![p].missing = {}]
  /\ UNCHANGED <<open, now, met, used>>

WithoutScan(p) == scans' = [q \in Scanning \ {p} |-> scans[q]]

FinishScan(p) ==
  /\ scans[p].todo = {} /\ scans[p].missing = {}
  /\ WithoutScan(p)
  /\ UNCHANGED <<open, now, unread, met, used>>

\* An error ends the scan, and so does a restart; isRunning is false afterwards.
LoseScan(p) ==
  /\ used.lost < MaxLost
  /\ used' = [used EXCEPT !.lost = @ + 1]
  /\ WithoutScan(p)
  /\ UNCHANGED <<open, now, unread, met>>

-----------------------------------------------------------------------------

\* acknowledgeAlert.
Acknowledge(a) ==
  /\ unread[a] > 0 /\ used.reads < MaxReads
  /\ unread' = [unread EXCEPT ![a] = @ - 1]
  /\ used' = [used EXCEPT !.reads = @ + 1]
  /\ UNCHANGED <<open, now, scans, met>>

\* A stage is decided or skipped.
DecideStage(s) ==
  /\ s \in open
  /\ open' = open \ {s}
  /\ UNCHANGED <<now, unread, scans, met, used>>

HourPasses ==
  /\ now < MaxNow
  /\ now' = now + 1
  /\ UNCHANGED <<open, unread, scans, met, used>>

-----------------------------------------------------------------------------

AlertsInit ==
  /\ open = Stages
  /\ now = 0
  /\ unread = [a \in Alert |-> 0]
  /\ scans = [p \in {} |-> 0]
  /\ met = 0
  /\ used = [asked |-> 0, reads |-> 0, lost |-> 0]

AlertScheduler ==
  \E p \in Scans :
    \/ Tick(p)
    \/ p \in Scanning /\ scans[p].by = "cron" /\ (LookForAlert(p) \/ InsertAlert(p) \/ FinishScan(p))

AlertsNext ==
  \/ \E p \in Scans : Tick(p) \/ AskForScan(p)
  \/ \E p \in Scanning : LookForAlert(p) \/ InsertAlert(p) \/ FinishScan(p) \/ LoseScan(p)
  \/ \E a \in Alert : Acknowledge(a)
  \/ \E s \in Stages : DecideStage(s)
  \/ HourPasses

\* The cron job fires for ever, and every statement of a scan returns or throws.
AlertsSpec == AlertsInit /\ [][AlertsNext]_alerting /\ WF_alerting(AlertScheduler)

-----------------------------------------------------------------------------

AlertsTypeOK ==
  /\ open \subseteq Stages /\ now \in 0..MaxNow /\ met \in 0..MaxAsked
  /\ unread \in [Alert -> Nat]
  /\ Scanning \subseteq Scans
  /\ \A p \in Scanning :
       /\ scans[p].by \in {"cron", "request"} /\ scans[p].met \in BOOLEAN
       /\ scans[p].todo \subseteq Alert /\ scans[p].missing \subseteq Alert
  /\ used \in [asked : 0..MaxAsked, reads : 0..MaxReads, lost : 0..MaxLost]

\* createAlertIfMissing: nobody has the same unread alert twice, but for one more at most for
\* every scan that a request started while another one was running: the scheduler does not run
\* into itself, also after errors and restarts.
AlertsAreSingle == \A a \in Alert : unread[a] <= 1 + met

=============================================================================
