----------------------------- MODULE AlertDelivery -----------------------------
(***************************************************************************)
(* How an alert of the live loop reaches an operator: _send_alert() hands  *)
(* it to an executor of two threads (live_trading/runner.py), which mail   *)
(* it (monitoring/email_alerter.py) and post it to Slack unless the same   *)
(* alert was posted a short while ago (monitoring/slack_alerter.py).       *)
(* The threads share last_alert_time without a lock: it is read before the *)
(* request is posted and written after its answer.                         *)
(***************************************************************************)
EXTENDS Integers, Sequences

CONSTANTS Workers,       \* the threads of _alert_executor
          Alerts,        \* level and title of an alert
          Mailed,        \* keys of level ERROR or CRITICAL
          SaveJob,       \* the save of the ML combiner, which the executor runs too
          Throttle,      \* throttle_seconds, in ticks of the clock
          PostTimeout,   \* timeout_seconds of the request to Slack
          MailTimeout,   \* the longest a mail takes: smtp_timeout for each exchange
          QueueBound     \* bound: jobs waiting for a thread

ASSUME AlertAssumption ==
    /\ Mailed \subseteq Alerts /\ SaveJob \notin Alerts
    /\ Throttle \in Nat \ {0} /\ PostTimeout \in Nat /\ MailTimeout \in Nat
    /\ 2 * PostTimeout <= Throttle
    /\ QueueBound \in Nat

VARIABLES
    jobs,       \* the queue of the executor
    doing,      \* per thread: "idle", "save", "mail", "slack" or "post"
    alert,      \* per thread: the job it is at
    spent,      \* per thread: time since it began to mail or to post
    silence,    \* per key: time since last_alert_time, Throttle when there is none
    closed,     \* the executor is shut down
    sent        \* history: per thread and key, posts acknowledged at most a ticks ago

alertVars == <<jobs, doing, alert, spent, silence, closed, sent>>

Ages == 0 .. Throttle - 1
Never == [a \in Ages |-> 0]

AlertInit ==
    /\ jobs = <<>> /\ closed = FALSE
    /\ doing = [w \in Workers |-> "idle"]
    /\ alert = [w \in Workers |-> SaveJob]
    /\ spent = [w \in Workers |-> 0]
    /\ silence = [k \in Alerts |-> Throttle]
    /\ sent = [w \in Workers |-> [k \in Alerts |-> Never]]

--------------------------------------------------------------------------------
\* A thread is done with its job.
Rest(w) ==
    /\ doing' = [doing EXCEPT ![w] = "idle"]
    /\ alert' = [alert EXCEPT ![w] = SaveJob]
    /\ spent' = [spent EXCEPT ![w] = 0]

(***************************************************************************)
(* The loop submits an alert, or every hundred ticks the save.             *)
(***************************************************************************)
Submit(j) ==
    /\ ~closed
    /\ Len(jobs) < QueueBound
    /\ jobs' = Append(jobs, j)
    /\ UNCHANGED <<doing, alert, spent, silence, closed, sent>>

(***************************************************************************)
(* stop(): no more jobs are accepted, those in the queue are kept. A later *)
(* _send_alert() raises.                                                   *)
(***************************************************************************)
Close ==
    /\ closed' = TRUE
    /\ UNCHANGED <<jobs, doing, alert, spent, silence, sent>>

(***************************************************************************)
(* _do_send_alert() starts with the mail, which is sent for errors only.   *)
(***************************************************************************)
FirstStep(j) == IF j = SaveJob THEN "save" ELSE IF j \in Mailed THEN "mail" ELSE "slack"

\* Mutant: the queue is dropped with the executor.
TakeWhileOpen(w) ==
    /\ ~closed
    /\ doing[w] = "idle" /\ jobs # <<>>
    /\ jobs' = Tail(jobs)
    /\ alert' = [alert EXCEPT ![w] = Head(jobs)]
    /\ doing' = [doing EXCEPT ![w] = FirstStep(Head(jobs))]
    /\ UNCHANGED <<spent, silence, closed, sent>>

(***************************************************************************)
(* A thread takes the first job.                                           *)
(***************************************************************************)
Take(w) ==
    /\ doing[w] = "idle" /\ jobs # <<>>
    /\ jobs' = Tail(jobs)
    /\ alert' = [alert EXCEPT ![w] = Head(jobs)]
    /\ doing' = [doing EXCEPT ![w] = FirstStep(Head(jobs))]
    /\ UNCHANGED <<spent, silence, closed, sent>>

SaveEnds(w) ==
    /\ doing[w] = "save"
    /\ Rest(w)
    /\ UNCHANGED <<jobs, silence, closed, sent>>

(***************************************************************************)
(* The mail was sent or failed: Slack comes next all the same.             *)
(***************************************************************************)
MailEnds(w) ==
    /\ doing[w] = "mail"
    /\ doing' = [doing EXCEPT ![w] = "slack"]
    /\ spent' = [spent EXCEPT ![w] = 0]
    /\ UNCHANGED <<jobs, alert, silence, closed, sent>>

Throttled(k) == silence[k] < Throttle

(***************************************************************************)
(* SlackAlerter.send_alert() up to the request: the time it will record is *)
(* that of this step.                                                      *)
(***************************************************************************)
CheckThrottle(w) ==
    /\ doing[w] = "slack"
    /\ IF Throttled(alert[w])
       THEN Rest(w)
       ELSE doing' = [doing EXCEPT ![w] = "post"] /\ UNCHANGED <<alert, spent>>
    /\ UNCHANGED <<jobs, silence, closed, sent>>

Acknowledged(w, k) ==
    sent' = [sent EXCEPT ![w] = [sent[w] EXCEPT ![k] = [a \in Ages |-> sent[w][k][a] + 1]]]

\* Mutant: the time of the post is not recorded.
PostSucceedsUnrecorded(w) ==
    /\ doing[w] = "post"
    /\ Rest(w)
    /\ Acknowledged(w, alert[w])
    /\ UNCHANGED <<jobs, silence, closed>>

(***************************************************************************)
(* The answer is 200: the time read before the request is recorded, even   *)
(* over a later one of the other thread.                                   *)
(***************************************************************************)
PostSucceeds(w) ==
    /\ doing[w] = "post"
    /\ Rest(w)
    /\ silence' = [silence EXCEPT ![alert[w]] = spent[w]]
    /\ Acknowledged(w, alert[w])
    /\ UNCHANGED <<jobs, closed>>

\* Mutant: the time is recorded although the post failed.
PostFailsRecorded(w) ==
    /\ doing[w] = "post"
    /\ Rest(w)
    /\ silence' = [silence EXCEPT ![alert[w]] = spent[w]]
    /\ UNCHANGED <<jobs, closed, sent>>

(***************************************************************************)
(* Another status, no connection, or no answer in time: the alert is       *)
(* dropped, and nothing is recorded.                                       *)
(***************************************************************************)
PostFails(w) ==
    /\ doing[w] = "post"
    /\ Rest(w)
    /\ UNCHANGED <<jobs, silence, closed, sent>>

(***************************************************************************)
(* reset_throttle() of one alert; its history starts anew. A call without  *)
(* arguments is this for each of them.                                     *)
(***************************************************************************)
ResetThrottle(k) ==
    /\ silence' = [silence EXCEPT ![k] = Throttle]
    /\ sent' = [w \in Workers |-> [sent[w] EXCEPT ![k] = Never]]
    /\ UNCHANGED <<jobs, doing, alert, spent, closed>>

(***************************************************************************)
(* Time passes; no request outlives its timeout.                           *)
(***************************************************************************)
AlertTick ==
    /\ \A w \in Workers :
        /\ doing[w] = "mail" => spent[w] < MailTimeout
        /\ doing[w] = "post" => spent[w] < PostTimeout
    /\ spent' = [w \in Workers |-> spent[w] + (IF doing[w] \in {"mail", "post"} THEN 1 ELSE 0)]
    /\ silence' = [k \in Alerts |-> IF Throttled(k) THEN silence[k] + 1 ELSE Throttle]
    /\ sent' = [w \in Workers |-> [k \in Alerts |->
                    [a \in Ages |-> IF a = 0 THEN 0 ELSE sent[w][k][a - 1]]]]
    /\ UNCHANGED <<jobs, doing, alert, closed>>

Work(w) ==
    \/ Take(w) \/ SaveEnds(w) \/ MailEnds(w)
    \/ CheckThrottle(w) \/ PostSucceeds(w) \/ PostFails(w)

AlertNext ==
    \/ \E j \in Alerts \union {SaveJob} : Submit(j)
    \/ Close
    \/ \E w \in Workers : Work(w)
    \/ \E k \in Alerts : ResetThrottle(k)
    \/ AlertTick

AlertSpec == AlertInit /\ [][AlertNext]_alertVars

--------------------------------------------------------------------------------
Steps == {"idle", "save", "mail", "slack", "post"}

(***************************************************************************)
(* Threads, queue and times have their types; who mails or posts is at an  *)
(* alert, and nothing else takes time.                                     *)
(***************************************************************************)
AlertTypeOK ==
    /\ jobs \in Seq(Alerts \union {SaveJob}) /\ closed \in BOOLEAN
    /\ doing \in [Workers -> Steps]
    /\ alert \in [Workers -> Alerts \union {SaveJob}]
    /\ spent \in [Workers -> Nat]
    /\ silence \in [Alerts -> 0 .. Throttle]
    /\ sent \in [Workers -> [Alerts -> [Ages -> Nat]]]
    /\ \A w \in Workers :
        /\ doing[w] \in {"mail", "slack", "post"} => alert[w] \in Alerts
        /\ doing[w] = "post" => spent[w] <= PostTimeout
        /\ doing[w] \notin {"mail", "post"} => spent[w] = 0

(***************************************************************************)
(* An alert that is dropped as a repeat was acknowledged before: no key is *)
(* silent without a post that succeeded within the period, whatever posts  *)
(* failed meanwhile and in whatever order their answers came.              *)
(***************************************************************************)
SilenceIsEarned ==
    \A k \in Alerts : Throttled(k) => \E w \in Workers : sent[w][k][silence[k]] > 0

(***************************************************************************)
(* "Minimum seconds between duplicate alerts" is not what the throttle     *)
(* gives with several threads; what it gives all the same: in any period   *)
(* of that length no thread has a key acknowledged more than twice,        *)
(* provided that two posts fit into the period.                            *)
(***************************************************************************)
RepeatsAreBounded ==
    \A w \in Workers, k \in Alerts : sent[w][k][Throttle - 1] <= 2

(***************************************************************************)
(* The alerts that were accepted before stop() are still handled, although *)
(* stop() does not wait for the executor: the queue runs empty and every   *)
(* thread comes to rest.                                                   *)
(***************************************************************************)
QueuedAlertsAreHandled ==
    closed ~> (jobs = <<>> /\ \A w \in Workers : doing[w] = "idle")
================================================================================
