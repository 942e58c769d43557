------------------------------ MODULE Notification ------------------------------
(***************************************************************************)
(* How a one-time code gets to its owner by mail.  A code for the second   *)
(* factor is announced by an event, put on the e-mail queue by a listener, *)
(* and mailed by the worker of the queue, which tries three times.  A code *)
(* for a new password is mailed by the request itself, once.  Where OTP    *)
(* mock is on, as it is by default in development, no mail is sent and no  *)
(* settings are asked for: the job is done as soon as it is taken.         *)
(*                                                                         *)
(* The queue is BullMQ's: a job whose attempt throws is delayed and tried  *)
(* again until its attempts are used up; a job whose worker has died is    *)
(* found stalled and is given back once, then failed.  The process that    *)
(* serves the requests is also the worker, and may be restarted.           *)
(***************************************************************************)
EXTENDS Smtp

CONSTANTS
    Jobs,           \* codes for the second factor that may be sent
    Worker,         \* the worker of the e-mail queue, one of the Senders
    Attempts,       \* the attempts a job is given
    MaxFails,       \* bound: calls of Redis or the mail server that may fail
    MaxRestarts     \* bound: restarts of the process

VARIABLES
    job,            \* each code's job on the queue
    active,         \* the job the worker is at
    mock,           \* isOtpMockEnabled: the environment the process is started with
    fails,
    restarts

queue == <<job, active>>
vars  == <<settings, copy, clock, sender, queue, mock, fails, restarts>>

ASSUME NotificationAssumption ==
    /\ Worker \in Senders
    /\ None \notin Jobs
    /\ Attempts \in Nat \ {0}
    /\ {MaxFails, MaxRestarts} \subseteq Nat

\* BullMQ's maxStalledCount.
MaxStalls == 1

Requests == Senders \ {Worker}

NoJob == [state |-> "none", tries |-> 0, stalls |-> 0, mails |-> 0]

Init ==
    /\ SmtpInit
    /\ job = [j \in Jobs |-> NoJob]
    /\ active = None
    /\ mock \in BOOLEAN
    /\ fails = 0 /\ restarts = 0

SetJob(j, r) == job' = [job EXCEPT ![j] = r]
Move(j, state) == SetJob(j, [job[j] EXCEPT !.state = state])

Rest == <<settings, copy, clock, mock>>

--------------------------------------------------------------------------------
\* TwoFactorService emits the event once the code is saved.
Emit(j) ==
    /\ job[j].state = "none"
    /\ Move(j, "emitted")
    /\ UNCHANGED <<Rest, sender, active, fails, restarts>>

\* The listener puts the job on the queue; if Redis fails, nobody is told.
Enqueue(j) ==
    /\ job[j].state = "emitted"
    /\ \/ Move(j, "waiting") /\ UNCHANGED fails
       \/ fails < MaxFails /\ fails' = fails + 1 /\ Move(j, "lost")
    /\ UNCHANGED <<Rest, sender, active, restarts>>

\* sendTwoFactorCode and sendForgotPasswordResetCode return at once in mock mode; otherwise
\* they ask for the settings first.
Begin == [Quiet EXCEPT !.pc = IF mock THEN "sent" ELSE "ask"]

Take(j) ==
    /\ active = None
    /\ job[j].state = "waiting"
    /\ active' = j
    /\ Move(j, "active")
    /\ Become(Worker, Begin)
    /\ UNCHANGED <<Rest, fails, restarts>>

\* A request for a new password mails its code itself.
Mail(x) ==
    /\ x \in Requests
    /\ sender[x].pc = "idle"
    /\ Become(x, Begin)
    /\ UNCHANGED <<Rest, queue, fails, restarts>>

Mailed(x) == IF x = Worker THEN SetJob(active, [job[active] EXCEPT !.mails = @ + 1])
                           ELSE UNCHANGED job

\* The mail is accepted, refused, or accepted without our hearing of it.
SendMail(x) ==
    /\ sender[x].pc = "send"
    /\ \/ Mailed(x) /\ Become(x, [Quiet EXCEPT !.pc = "sent"]) /\ UNCHANGED fails
       \/ /\ fails < MaxFails
          /\ fails' = fails + 1
          /\ Mailed(x) \/ UNCHANGED job
          /\ Become(x, [Quiet EXCEPT !.pc = "failed"])
    /\ UNCHANGED <<Rest, active, restarts>>

\* The request answers, whatever came of the mail.
Answer(x) ==
    /\ x \in Requests
    /\ sender[x].pc \in {"sent", "failed"}
    /\ Become(x, Quiet)
    /\ UNCHANGED <<Rest, queue, fails, restarts>>

Complete ==
    /\ sender[Worker].pc = "sent"
    /\ Move(active, "completed")
    /\ active' = None
    /\ Become(Worker, Quiet)
    /\ UNCHANGED <<Rest, fails, restarts>>

\* Variant: the error is logged and not thrown on.
Swallowed(j) == [job[j] EXCEPT !.state = "completed"]

\* Variant: one attempt too many.
FailedLate(j) ==
    [job[j] EXCEPT !.tries = @ + 1,
                   !.state = IF job[j].tries < Attempts THEN "delayed" ELSE "failed"]

\* Variant: the attempt is not counted.
Uncounted(j) == [job[j] EXCEPT !.state = "delayed"]

Failed(j) ==
    [job[j] EXCEPT !.tries = @ + 1,
                   !.state = IF job[j].tries + 1 < Attempts THEN "delayed" ELSE "failed"]

Fail ==
    /\ sender[Worker].pc = "failed"
    /\ SetJob(active, Failed(active))
    /\ active' = None
    /\ Become(Worker, Quiet)
    /\ UNCHANGED <<Rest, fails, restarts>>

\* Bound: the exponential backoff is over at some time.
Retry(j) ==
    /\ job[j].state = "delayed"
    /\ Move(j, "waiting")
    /\ UNCHANGED <<Rest, sender, active, fails, restarts>>

\* What was in memory is gone: the copy of the settings, events on their way and requests.
Restart ==
    /\ restarts < MaxRestarts
    /\ restarts' = restarts + 1
    /\ cache' = None /\ cachedAt' = 0
    /\ sender' = [x \in Senders |-> Quiet]
    /\ writing' = [w \in Writers |-> NotWriting]
    /\ job' = [j \in Jobs |-> IF job[j].state = "emitted" THEN [job[j] EXCEPT !.state = "lost"]
                              ELSE job[j]]
    /\ active' = None
    /\ UNCHANGED <<smtp, held, clock, mock, fails>>

Stalled(j) ==
    /\ job[j].state = "active" /\ active # j
    /\ SetJob(j, [job[j] EXCEPT !.stalls = @ + 1,
                                !.state = IF job[j].stalls < MaxStalls THEN "waiting" ELSE "failed"])
    /\ UNCHANGED <<Rest, sender, active, fails, restarts>>

--------------------------------------------------------------------------------
WorkerStep ==
    \/ \E j \in Jobs : Take(j)
    \/ SenderStep(Worker) /\ UNCHANGED <<queue, mock, fails, restarts>>
    \/ SendMail(Worker) \/ Complete \/ Fail

QueueStep(j) == Enqueue(j) \/ Retry(j) \/ Stalled(j)

RequestStep(x) ==
    \/ Mail(x) \/ SendMail(x) \/ Answer(x)
    \/ SenderStep(x) /\ UNCHANGED <<queue, mock, fails, restarts>>

Next ==
    \/ SmtpStep /\ UNCHANGED <<queue, mock, fails, restarts>>
    \/ WorkerStep \/ Restart
    \/ \E j \in Jobs : Emit(j) \/ QueueStep(j)
    \/ \E x \in Requests : RequestStep(x)

\* The worker and the queue keep going; nothing makes anybody send a code, save settings, fail
\* or restart the process.
Fairness == WF_vars(WorkerStep) /\ \A j \in Jobs : WF_vars(QueueStep(j))

Spec == Init /\ [][Next]_vars /\ Fairness

--------------------------------------------------------------------------------
JobState == {"none", "emitted", "lost", "waiting", "active", "delayed", "completed", "failed"}

Sender == [pc : {"idle", "ask", "find", "store", "send", "sent", "failed"}, first : BOOLEAN,
           now : 0..MaxClock, seen : Config]

\* The shape of the settings, of their copy and of everything that is sending a mail.
SmtpTypeOK ==
    /\ smtp \in Config
    /\ writing \in [Writers -> [version : Values, part : Parts \cup {"done"}]]
    /\ cache \in {None} \cup Config /\ cachedAt \in 0..MaxClock
    /\ clock \in 0..MaxClock
    /\ sender \in [Senders -> Sender]
    /\ held \in [Parts -> [Values -> -1..MaxClock]]

\* The shape of the jobs: an attempt is counted once, and a job that has none left is not tried.
TypeOK ==
    /\ SmtpTypeOK
    /\ job \in [Jobs -> [state : JobState, tries : 0..Attempts, stalls : 0..(MaxStalls + 1),
                         mails : 0..(Attempts + MaxStalls + 1)]]
    /\ \A j \in Jobs : job[j].state # "failed" => job[j].tries < Attempts
    /\ active \in Jobs \cup {None}
    /\ mock \in BOOLEAN
    /\ fails \in 0..MaxFails /\ restarts \in 0..MaxRestarts

\* The table holds v, or held it at t or later.
HeldSince(p, v, t) == smtp[p] = v \/ held[p][v] >= t

\* However reads, saves and expiry of the copy interleave, settings are taken from the copy only
\* while the table still holds each of their values, or held it less than one TTL ago
\* (email-service.utils.ts:55-92: the copy is stamped with the time before the query).
RecentSettings ==
    CopyIsFresh => \A p \in Parts : HeldSince(p, cache[p], clock - TTL + 1)

\* A job is completed only when its code has been mailed, and a code is mailed again only after an
\* attempt that failed or a worker that died (email-service.utils.ts:122-143).  In mock mode a job
\* is completed without a mail, and none is ever sent (117-120).
CompletedIsMailed ==
    \A j \in Jobs :
        /\ job[j].state = "completed" => job[j].mails > 0 \/ mock
        /\ mock => job[j].mails = 0
        /\ job[j].mails <= job[j].tries + job[j].stalls + 1

\* A code that is put on the queue is mailed or given up in the end; it does not wait for ever,
\* even while mail is disabled.
EveryJobEnds ==
    \A j \in Jobs : job[j].state = "waiting" ~> job[j].state \in {"completed", "failed"}

--------------------------------------------------------------------------------
\* Why the copy is recent: what it holds, and what a sender is about to make it hold, was in the
\* table at the time it is stamped with or later.
CopyFits ==
    /\ cachedAt <= clock
    /\ cache # None => \A p \in Parts : HeldSince(p, cache[p], cachedAt)

SenderFits(x) ==
    /\ sender[x].pc \in {"find", "store"} => sender[x].now <= clock
    /\ sender[x].pc = "store" => \A p \in Parts : HeldSince(p, sender[x].seen[p], sender[x].now)

\* Why nothing is mailed too often: a mail is paid for by a failed attempt or a stall, but for the
\* one of the attempt under way, or of the last one.
Spent(j) == job[j].tries + job[j].stalls

Unpaid(j) ==
    \/ job[j].state = "completed"
    \/ job[j].state = "active" /\ (active = j => sender[Worker].pc \in {"sent", "failed"})

JobFits(j) ==
    /\ job[j].mails <= Spent(j) + (IF Unpaid(j) THEN 1 ELSE 0)
    /\ job[j].state # "failed" => job[j].tries < Attempts /\ job[j].stalls <= MaxStalls
    /\ Spent(j) <= Attempts + MaxStalls
    /\ job[j].state = "completed" => job[j].mails > 0 \/ mock
    /\ active = j => job[j].state = "active"
                     /\ (sender[Worker].pc = "sent" => job[j].mails > 0 \/ mock)
    /\ mock => job[j].mails = 0

\* The inductive invariant behind RecentSettings and CompletedIsMailed.
NotificationInv ==
    /\ TypeOK /\ CopyFits
    /\ \A x \in Senders : SenderFits(x)
    /\ \A j \in Jobs : JobFits(j)
    /\ active = None <=> sender[Worker].pc = "idle"
    /\ mock => sender[Worker].pc \in {"idle", "sent"}
================================================================================
