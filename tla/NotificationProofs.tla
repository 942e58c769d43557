--------------------------- MODULE NotificationProofs ---------------------------
(***************************************************************************)
(* Notification for any number of senders, writers, versions and jobs: the *)
(* settings a mail is sent with are recent, and a code that was mailed is  *)
(* mailed again only for a failed attempt or a dead worker.                *)
(***************************************************************************)
EXTENDS Notification, TLAPS

\* The halves of NotificationInv: the settings with their copy, and the queue.
SettingsInv == SmtpTypeOK /\ CopyFits /\ \A x \in Senders : SenderFits(x)

JobRecord == [state : JobState, tries : 0..Attempts, stalls : 0..(MaxStalls + 1),
              mails : 0..(Attempts + MaxStalls + 1)]

QueueInv ==
    /\ job \in [Jobs -> JobRecord] /\ active \in Jobs \cup {None}
    /\ \A j \in Jobs : JobFits(j)
    /\ active = None <=> sender[Worker].pc = "idle"
    /\ mock \in BOOLEAN /\ (mock => sender[Worker].pc \in {"idle", "sent"})
    /\ fails \in 0..MaxFails /\ restarts \in 0..MaxRestarts

LEMMA Halves == NotificationInv <=> SettingsInv /\ QueueInv
  BY DEF NotificationInv, SettingsInv, QueueInv, TypeOK, JobFits, JobRecord

LEMMA QuietOK == Quiet \in Sender
  BY SmtpAssumption DEF Quiet, Sender, NoConfig, Config, Values

\* A mail begins with the settings, or is over at once in mock mode.
LEMMA BeginOK == /\ Begin \in Sender /\ Begin.pc \in {"ask", "sent"}
                 /\ mock => Begin.pc = "sent"
                 /\ ~mock => Begin.pc = "ask"
<1>1. \A pc \in {"ask", "sent"} : /\ [Quiet EXCEPT !.pc = pc] \in Sender
                                   /\ [Quiet EXCEPT !.pc = pc].pc = pc
  BY QuietOK DEF Sender
<1> QED BY <1>1 DEF Begin

--------------------------------------------------------------------------------
\* The settings and their copy

\* A sender that has not asked the table moves.
LEMMA SenderMoves ==
    ASSUME SettingsInv, NEW x \in Senders, NEW r \in Sender, r.pc \notin {"find", "store"},
           Become(x, r), UNCHANGED <<smtp, writing, cache, cachedAt, clock, held>>
    PROVE  SettingsInv'
<1>1. /\ sender' \in [Senders -> Sender]
      /\ \A y \in Senders : sender'[y] = IF y = x THEN r ELSE sender[y]
  BY DEF Become, SettingsInv, SmtpTypeOK
<1>2. SmtpTypeOK' /\ CopyFits'
  BY <1>1 DEF SettingsInv, SmtpTypeOK, CopyFits, HeldSince
<1>3. \A y \in Senders : SenderFits(y)'
  BY <1>1 DEF SettingsInv, SenderFits, HeldSince
<1> QED BY <1>2, <1>3 DEF SettingsInv

LEMMA SettingsIdle ==
    ASSUME SettingsInv, UNCHANGED <<smtp, writing, cache, cachedAt, clock, held, sender>>
    PROVE  SettingsInv'
  BY DEF SettingsInv, SmtpTypeOK, CopyFits, SenderFits, HeldSince

\* What becomes of the settings is no longer about them.
LEMMA ObtainedOK ==
    ASSUME NEW x \in Senders, NEW c
    PROVE  /\ Obtained(x, c) \in Sender
           /\ Obtained(x, c).pc \in {"send", "failed", "ask"}
<1>1. \A pc \in {"send", "failed", "ask"}, first \in BOOLEAN :
         LET r == [Quiet EXCEPT !.pc = pc, !.first = first]
             q == [Quiet EXCEPT !.pc = pc]
         IN  r \in Sender /\ r.pc = pc /\ q \in Sender /\ q.pc = pc
  BY QuietOK DEF Sender
<1> QED BY <1>1 DEF Obtained

\* A value that leaves the table is held until now; no other is forgotten.
LEMMA WrittenOK == ASSUME SettingsInv, NEW w \in Writers, WritePart(w) PROVE SettingsInv'
<1> DEFINE p == writing[w].part
           v == writing[w].version
<1>1. /\ p \in Parts /\ v \in Values /\ Then[p] \in Parts \cup {"done"}
  BY DEF WritePart, SettingsInv, SmtpTypeOK, Then, Parts
<1>2. /\ smtp' = [smtp EXCEPT ![p] = v]
      /\ held' = [held EXCEPT ![p][smtp[p]] = clock]
      /\ writing' = [writing EXCEPT ![w].part = Then[p]]
      /\ UNCHANGED <<cache, cachedAt, clock, sender>>
  BY DEF WritePart, copy
<1>t. /\ smtp \in [Parts -> Values] /\ held \in [Parts -> [Values -> -1..MaxClock]]
      /\ clock \in 0..MaxClock /\ smtp[p] \in Values
      /\ writing[w] \in [version : Values, part : Parts \cup {"done"}]
  BY <1>1 DEF SettingsInv, SmtpTypeOK, Config
<1> HIDE DEF p, v
<1>3. smtp' \in Config
  BY <1>1, <1>2, <1>t DEF Config
<1>4. held' \in [Parts -> [Values -> -1..MaxClock]]
  BY <1>1, <1>2, <1>t, SmtpAssumption
<1>5. writing' \in [Writers -> [version : Values, part : Parts \cup {"done"}]]
  <2>1. [writing[w] EXCEPT !.part = Then[p]] \in [version : Values, part : Parts \cup {"done"}]
    BY <1>1, <1>t
  <2> QED BY <1>2, <2>1 DEF SettingsInv, SmtpTypeOK
<1>6. SmtpTypeOK'
  BY <1>2, <1>3, <1>4, <1>5 DEF SettingsInv, SmtpTypeOK
<1>7. \A q \in Parts, t \in 0..MaxClock : \A u :
         t <= clock /\ HeldSince(q, u, t) => smtp'[q] = u \/ held'[q][u] >= t
  <2> SUFFICES ASSUME NEW q \in Parts, NEW t \in 0..MaxClock, NEW u, t <= clock, HeldSince(q, u, t)
               PROVE  smtp'[q] = u \/ held'[q][u] >= t
    OBVIOUS
  <2>1. CASE q = p /\ u = smtp[p]
    BY <1>1, <1>2, <1>t, <2>1 DEF HeldSince
  <2>2. CASE q # p
    BY <1>1, <1>2, <1>t, <2>2 DEF HeldSince
  <2>3. CASE q = p /\ u # smtp[p]
    BY <1>1, <1>2, <1>t, <2>3 DEF HeldSince
  <2> QED BY <2>1, <2>2, <2>3
<1>8. CopyFits'
  BY <1>2, <1>7 DEF SettingsInv, SmtpTypeOK, CopyFits, HeldSince
<1>9. \A x \in Senders : SenderFits(x)'
  BY <1>2, <1>7 DEF SettingsInv, SmtpTypeOK, SenderFits, Sender, HeldSince
<1> QED BY <1>6, <1>8, <1>9 DEF SettingsInv

LEMMA SmtpStepOK == ASSUME SettingsInv, SmtpStep PROVE SettingsInv'
<1>1. CASE Tick
  BY <1>1, SmtpAssumption
     DEF Tick, SettingsInv, SmtpTypeOK, CopyFits, SenderFits, HeldSince, settings, copy, Sender
<1>2. ASSUME NEW w \in Writers, SaveSettings(w) PROVE SettingsInv'
  <2>1. writing' \in [Writers -> [version : Values, part : Parts \cup {"done"}]]
    BY <1>2 DEF SaveSettings, SettingsInv, SmtpTypeOK, Values, Parts
  <2> QED
    BY <1>2, <2>1 DEF SaveSettings, copy, SettingsInv, SmtpTypeOK, CopyFits, SenderFits, HeldSince
<1> QED BY <1>1, <1>2, WrittenOK DEF SmtpStep

\* The copy is stamped with a time before the query, so what the query found was there then.
LEMMA SenderStepOK ==
    ASSUME SettingsInv, NEW x \in Senders, SenderStep(x) PROVE SettingsInv'
<1>0. sender[x] \in Sender /\ SenderFits(x)
  BY DEF SettingsInv, SmtpTypeOK
<1>1. CASE AskCached(x)
  BY <1>1, ObtainedOK, SenderMoves DEF AskCached, settings, copy
<1>2. CASE AskTable(x) \/ Find(x)
  <2>1. PICK r \in Sender :
           /\ Become(x, r) /\ UNCHANGED <<smtp, writing, cache, cachedAt, clock, held>>
           /\ r.pc \in {"find", "store"} /\ r.now <= clock
           /\ r.pc = "store" => r.seen = smtp
    <3>1. CASE AskTable(x)
      <4> DEFINE r == [sender[x] EXCEPT !.pc = "find", !.now = clock]
      <4>0. clock \in 0..MaxClock /\ clock <= clock
        BY SmtpAssumption DEF SettingsInv, SmtpTypeOK
      <4>1. r \in Sender /\ r.pc = "find" /\ r.now = clock
        BY <1>0, <4>0 DEF Sender
      <4>2. Become(x, r) /\ UNCHANGED <<smtp, writing, cache, cachedAt, clock, held>>
        BY <3>1 DEF AskTable, settings, copy
      <4> HIDE DEF r
      <4> QED BY <4>0, <4>1, <4>2
    <3>2. CASE Find(x)
      <4>1. [sender[x] EXCEPT !.pc = "store", !.seen = smtp] \in Sender
        BY <1>0 DEF Sender, SettingsInv, SmtpTypeOK
      <4> QED
        BY <1>0, <3>2, <4>1 DEF Find, settings, copy, Sender, SenderFits
    <3> QED BY <1>2, <3>1, <3>2
  <2>2. /\ sender' \in [Senders -> Sender]
        /\ \A y \in Senders : sender'[y] = IF y = x THEN r ELSE sender[y]
    BY <2>1 DEF Become, SettingsInv, SmtpTypeOK
  <2>3. SmtpTypeOK' /\ CopyFits'
    BY <2>1, <2>2 DEF SettingsInv, SmtpTypeOK, CopyFits, HeldSince
  <2>4. \A y \in Senders : SenderFits(y)'
    BY <2>1, <2>2 DEF SettingsInv, SenderFits, HeldSince
  <2> QED BY <2>3, <2>4 DEF SettingsInv
<1>3. CASE Store(x)
  <2>1. /\ cache' = sender[x].seen /\ cachedAt' = sender[x].now
        /\ Become(x, Obtained(x, sender[x].seen))
        /\ UNCHANGED <<smtp, writing, clock, held>>
    BY <1>3 DEF Store, Stamp, settings
  <2>2. PICK r \in Sender : r = Obtained(x, sender[x].seen) /\ r.pc \notin {"find", "store"}
    BY ObtainedOK
  <2>3. /\ sender' \in [Senders -> Sender]
        /\ \A y \in Senders : sender'[y] = IF y = x THEN r ELSE sender[y]
    BY <2>1, <2>2 DEF Become, SettingsInv, SmtpTypeOK
  <2>4. SmtpTypeOK'
    BY <1>0, <2>1, <2>3 DEF SettingsInv, SmtpTypeOK, Sender
  <2>5. CopyFits'
    BY <1>0, <1>3, <2>1 DEF Store, CopyFits, SenderFits, HeldSince
  <2>6. \A y \in Senders : SenderFits(y)'
    BY <2>1, <2>2, <2>3 DEF SettingsInv, SenderFits, HeldSince
  <2> QED BY <2>4, <2>5, <2>6 DEF SettingsInv
<1> QED BY <1>1, <1>2, <1>3 DEF SenderStep

LEMMA SettingsKept == ASSUME SettingsInv, [Next]_vars PROVE SettingsInv'
<1>0. Worker \in Senders /\ Requests \subseteq Senders
  BY NotificationAssumption DEF Requests
<1>b. Begin \in Sender /\ Begin.pc \in {"ask", "sent"}
  BY BeginOK
<1>q. \A pc \in {"ask", "sent", "failed"} : /\ [Quiet EXCEPT !.pc = pc] \in Sender
                                            /\ [Quiet EXCEPT !.pc = pc].pc = pc
  BY QuietOK DEF Sender
<1>i. Quiet.pc = "idle"
  BY DEF Quiet
<1>1. CASE SmtpStep
  BY <1>1, SmtpStepOK
<1>2. ASSUME NEW x \in Senders, SenderStep(x) PROVE SettingsInv'
  BY <1>2, SenderStepOK
<1>3. ASSUME NEW x \in Senders, SendMail(x) \/ Mail(x) \/ Answer(x) PROVE SettingsInv'
  BY <1>3, <1>b, <1>q, <1>i, QuietOK, SenderMoves DEF SendMail, Mail, Answer, Rest, settings, copy
<1>4. CASE Complete \/ Fail \/ \E j \in Jobs : Take(j)
  BY <1>0, <1>4, <1>b, <1>q, <1>i, QuietOK, SenderMoves DEF Complete, Fail, Take, Rest, settings, copy
<1>5. CASE (\E j \in Jobs : Emit(j) \/ QueueStep(j)) \/ UNCHANGED vars
  BY <1>5, SettingsIdle
     DEF Emit, QueueStep, Enqueue, Retry, Stalled, Rest, settings, copy, vars
<1>6. CASE Restart
  <2>1. /\ sender' = [x \in Senders |-> Quiet] /\ writing' = [w \in Writers |-> NotWriting]
        /\ cache' = None /\ cachedAt' = 0 /\ UNCHANGED <<smtp, held, clock>>
    BY <1>6 DEF Restart
  <2>2. SmtpTypeOK'
    BY <2>1, QuietOK, SmtpAssumption
       DEF SettingsInv, SmtpTypeOK, NotWriting, Values, Parts
  <2>3. CopyFits' /\ \A x \in Senders : SenderFits(x)'
    BY <1>i, <2>1 DEF SettingsInv, SmtpTypeOK, CopyFits, SenderFits
  <2> QED BY <2>2, <2>3 DEF SettingsInv
<1> QED
  BY <1>0, <1>1, <1>2, <1>3, <1>4, <1>5, <1>6 DEF Next, WorkerStep, RequestStep

--------------------------------------------------------------------------------
\* The queue

\* The queue and the state the worker is in stay.
LEMMA QueueIdle ==
    ASSUME QueueInv, UNCHANGED <<job, active, mock, restarts>>, fails' \in 0..MaxFails,
           sender'[Worker].pc = sender[Worker].pc
    PROVE  QueueInv'
  BY DEF QueueInv, JobFits, Unpaid, Spent

\* The worker moves, short of sending.
LEMMA WorkerMoves ==
    ASSUME QueueInv, UNCHANGED <<job, active, mock, fails, restarts>>,
           sender[Worker].pc \notin {"idle", "sent", "failed"},
           sender'[Worker].pc \notin {"idle", "sent"}
    PROVE  QueueInv'
<1>1. \A j \in Jobs : JobFits(j)'
  BY DEF QueueInv, JobFits, Unpaid, Spent, JobRecord
<1> QED BY <1>1 DEF QueueInv

\* One job is written, and it is in order; what the others are owed stays.
LEMMA JobMoves ==
    ASSUME QueueInv, NEW j \in Jobs, NEW b \in JobRecord, SetJob(j, b), JobFits(j)',
           active' \in Jobs \cup {None}, active' = None <=> sender'[Worker].pc = "idle",
           fails' \in 0..MaxFails, UNCHANGED <<mock, restarts>>,
           mock => sender'[Worker].pc \in {"idle", "sent"},
           \A i \in Jobs \ {j} : /\ active' = i => active = i
                                 /\ active = i => active' = i /\ UNCHANGED sender
    PROVE  QueueInv'
<1>1. /\ job' \in [Jobs -> JobRecord]
      /\ \A i \in Jobs : job'[i] = IF i = j THEN b ELSE job[i]
  BY DEF SetJob, QueueInv
<1>2. ASSUME NEW i \in Jobs \ {j} PROVE JobFits(i)'
  BY <1>1, <1>2 DEF QueueInv, JobFits, Unpaid, Spent, JobRecord
<1> QED BY <1>1, <1>2 DEF QueueInv

LEMMA EmitOK ==
    ASSUME QueueInv, NEW j \in Jobs, Emit(j) \/ Enqueue(j) \/ Retry(j) PROVE QueueInv'
<1>0. job[j] \in JobRecord /\ JobFits(j)
  BY DEF QueueInv
<1>1. PICK st \in {"emitted", "waiting", "lost"} :
         SetJob(j, [job[j] EXCEPT !.state = st]) /\ UNCHANGED <<active, sender, mock, restarts>>
  BY DEF Emit, Enqueue, Retry, Move, Rest
<1>2. job[j].state \in {"none", "emitted", "delayed"} /\ fails' \in 0..MaxFails
  BY NotificationAssumption DEF Emit, Enqueue, Retry, QueueInv
<1> DEFINE b == [job[j] EXCEPT !.state = st]
<1>3. /\ b \in JobRecord /\ b.state = st /\ b.tries = job[j].tries
      /\ b.stalls = job[j].stalls /\ b.mails = job[j].mails
  BY <1>0 DEF JobRecord, JobState
<1> HIDE DEF b
<1>4. job'[j] = b
  BY <1>1 DEF SetJob, QueueInv, b
<1>5. JobFits(j)'
  BY <1>0, <1>1, <1>2, <1>3, <1>4 DEF JobFits, Unpaid, Spent, JobRecord
<1> QED BY <1>1, <1>2, <1>3, <1>5, JobMoves DEF QueueInv, b

LEMMA TakeOK ==
    ASSUME QueueInv, sender \in [Senders -> Sender], NEW j \in Jobs, Take(j) PROVE QueueInv'
<1>0. job[j] \in JobRecord /\ JobFits(j) /\ j # None /\ Worker \in Senders
  BY NotificationAssumption DEF QueueInv
<1> DEFINE b == [job[j] EXCEPT !.state = "active"]
<1>1. /\ b \in JobRecord /\ b.state = "active" /\ b.tries = job[j].tries
      /\ b.stalls = job[j].stalls /\ b.mails = job[j].mails
  BY <1>0 DEF JobRecord, JobState
<1>2. /\ sender'[Worker].pc \in {"ask", "sent"}
      /\ IF mock THEN sender'[Worker].pc = "sent" ELSE sender'[Worker].pc = "ask"
  BY <1>0, BeginOK DEF Take, Become
<1>3. /\ job[j].state = "waiting" /\ SetJob(j, b) /\ active = None /\ active' = j
      /\ UNCHANGED <<mock, fails, restarts>>
  BY DEF Take, Move, Rest
<1> HIDE DEF b
<1>4. job'[j] = b
  BY <1>3 DEF SetJob, QueueInv
<1>5. JobFits(j)'
  BY <1>0, <1>1, <1>2, <1>3, <1>4 DEF JobFits, Unpaid, Spent, JobRecord
<1>6. \A i \in Jobs : i # None
  BY NotificationAssumption
<1> QED BY <1>0, <1>1, <1>2, <1>3, <1>5, <1>6, JobMoves DEF QueueInv

\* The worker's mail: accepted, perhaps without its hearing of it, or refused.
LEMMA SendMailOK ==
    ASSUME QueueInv, sender \in [Senders -> Sender], SendMail(Worker) PROVE QueueInv'
<1>0. Worker \in Senders /\ sender[Worker].pc = "send" /\ UNCHANGED <<active, mock, restarts>>
      /\ ~mock
  BY NotificationAssumption DEF SendMail, Rest, QueueInv
<1> DEFINE j == active
           b == [job[j] EXCEPT !.mails = @ + 1]
<1>1. j \in Jobs /\ job[j] \in JobRecord /\ JobFits(j) /\ job[j].state = "active" /\ j # None
  BY <1>0 DEF QueueInv, JobFits
<1>2. \/ Mailed(Worker) /\ sender'[Worker].pc = "sent" /\ fails' = fails
      \/ /\ sender'[Worker].pc = "failed" /\ fails' = fails + 1 /\ fails < MaxFails
         /\ Mailed(Worker) \/ UNCHANGED job
  BY <1>0, QuietOK DEF SendMail, Become, Sender
<1>3. fails' \in 0..MaxFails /\ sender'[Worker].pc \in {"sent", "failed"}
  BY <1>2, NotificationAssumption DEF QueueInv
<1>4. CASE Mailed(Worker)
  <2>1. SetJob(j, b)
    BY <1>4 DEF Mailed
  <2>2. job[j].mails <= Spent(j) /\ Spent(j) <= Attempts + MaxStalls
    BY <1>0, <1>1 DEF JobFits, Unpaid, JobRecord, Spent
  <2>3. job[j].mails + 1 \in 0..(Attempts + MaxStalls + 1)
    BY <1>1, <2>2, NotificationAssumption DEF JobRecord, Spent, MaxStalls
  <2>4. /\ b \in JobRecord /\ b.state = "active" /\ b.tries = job[j].tries
        /\ b.stalls = job[j].stalls /\ b.mails = job[j].mails + 1
    BY <1>1, <2>3 DEF JobRecord
  <2> HIDE DEF b
  <2>5. job'[j] = b
    BY <1>1, <2>1 DEF SetJob, QueueInv
  <2>6. JobFits(j)'
    BY <1>0, <1>1, <1>3, <2>2, <2>4, <2>5 DEF JobFits, Unpaid, Spent, JobRecord
  <2> QED BY <1>0, <1>1, <1>3, <2>1, <2>4, <2>6, JobMoves DEF QueueInv
<1>5. CASE UNCHANGED job /\ sender'[Worker].pc = "failed"
  <2>1. \A i \in Jobs : JobFits(i)'
    BY <1>0, <1>5 DEF QueueInv, JobFits, Unpaid, Spent, JobRecord
  <2> QED BY <1>0, <1>1, <1>3, <1>5, <2>1 DEF QueueInv
<1> QED BY <1>2, <1>4, <1>5

\* The attempt is over: the job is done, or the failed attempt pays for the mail.
LEMMA EndOK ==
    ASSUME QueueInv, sender \in [Senders -> Sender], Complete \/ Fail PROVE QueueInv'
<1>0. Worker \in Senders /\ sender[Worker].pc \in {"sent", "failed"}
  BY NotificationAssumption DEF Complete, Fail
<1>1. PICK j \in Jobs : /\ active = j /\ job[j] \in JobRecord /\ JobFits(j)
                        /\ job[j].state = "active" /\ j # None
  BY <1>0 DEF QueueInv, JobFits
<1>2. active' = None /\ sender'[Worker].pc = "idle" /\ UNCHANGED <<mock, fails, restarts>>
  BY <1>0 DEF Complete, Fail, Become, Quiet, Rest
<1>n. \A i \in Jobs : i # None
  BY NotificationAssumption
<1>3. CASE Complete
  <2> DEFINE b == [job[j] EXCEPT !.state = "completed"]
  <2>1. /\ b \in JobRecord /\ b.state = "completed" /\ b.tries = job[j].tries
        /\ b.stalls = job[j].stalls /\ b.mails = job[j].mails
    BY <1>1 DEF JobRecord, JobState
  <2>2. SetJob(j, b) /\ (job[j].mails > 0 \/ mock)
    BY <1>1, <1>3 DEF Complete, Move, JobFits
  <2> HIDE DEF b
  <2>3. job'[j] = b
    BY <1>1, <2>2 DEF SetJob, QueueInv
  <2>4. JobFits(j)'
    BY <1>0, <1>1, <1>2, <2>1, <2>2, <2>3 DEF JobFits, Unpaid, Spent, JobRecord
  <2> QED BY <1>1, <1>2, <1>n, <2>1, <2>2, <2>4, JobMoves DEF QueueInv
<1>4. CASE Fail
  <2> DEFINE b == Failed(j)
  <2>1. job[j].tries < Attempts /\ job[j].stalls <= MaxStalls
    BY <1>1 DEF JobFits
  <2> DEFINE st == IF job[j].tries + 1 < Attempts THEN "delayed" ELSE "failed"
  <2>a. /\ st \in {"delayed", "failed"} /\ st \in JobState
        /\ st # "failed" => job[j].tries + 1 < Attempts
    BY DEF JobState
  <2>b. job[j].tries + 1 \in 0..Attempts
    BY <1>1, <2>1, NotificationAssumption DEF JobRecord
  <2>c. b = [job[j] EXCEPT !.tries = job[j].tries + 1, !.state = st]
    BY <1>1 DEF Failed, JobRecord
  <2> HIDE DEF b, st
  <2>2. /\ b \in JobRecord /\ b.state = st
        /\ b.tries = job[j].tries + 1 /\ b.stalls = job[j].stalls /\ b.mails = job[j].mails
    BY <1>1, <2>a, <2>b, <2>c DEF JobRecord
  <2>3. SetJob(j, b)
    BY <1>1, <1>4 DEF Fail, b
  <2>4. job'[j] = b
    BY <1>1, <2>3 DEF SetJob, QueueInv
  <2>5. JobFits(j)'
    BY <1>0, <1>1, <1>2, <2>a, <2>1, <2>2, <2>4, NotificationAssumption
       DEF JobFits, Unpaid, Spent, JobRecord, MaxStalls
  <2> QED BY <1>1, <1>2, <1>n, <2>2, <2>3, <2>5, JobMoves DEF QueueInv
<1> QED BY <1>3, <1>4

\* A job whose worker died is given back, which pays for a mail it may have sent.
LEMMA StalledOK == ASSUME QueueInv, NEW j \in Jobs, Stalled(j) PROVE QueueInv'
<1>0. job[j] \in JobRecord /\ JobFits(j) /\ job[j].state = "active" /\ active # j
  BY DEF QueueInv, Stalled
<1> DEFINE st == IF job[j].stalls < MaxStalls THEN "waiting" ELSE "failed"
           b == [job[j] EXCEPT !.stalls = job[j].stalls + 1, !.state = st]
<1>a. /\ st \in {"waiting", "failed"} /\ st \in JobState
      /\ st = "waiting" => job[j].stalls + 1 <= MaxStalls
  BY <1>0 DEF JobState, JobRecord, MaxStalls
<1>b. job[j].stalls + 1 \in 0..(MaxStalls + 1)
  BY <1>0 DEF JobFits, JobRecord, MaxStalls
<1>2. SetJob(j, b) /\ UNCHANGED <<active, sender, mock, fails, restarts>>
  BY <1>0 DEF Stalled, JobRecord, Rest
<1> HIDE DEF st
<1>1. /\ b \in JobRecord /\ b.state = st /\ b.tries = job[j].tries
      /\ b.stalls = job[j].stalls + 1 /\ b.mails = job[j].mails
  BY <1>0, <1>a, <1>b DEF JobRecord
<1> HIDE DEF b
<1>3. job'[j] = b
  BY <1>2 DEF SetJob, QueueInv
<1>4. JobFits(j)'
  BY <1>0, <1>a, <1>1, <1>2, <1>3, NotificationAssumption
     DEF JobFits, Unpaid, Spent, JobRecord, MaxStalls
<1> QED BY <1>1, <1>2, <1>4, JobMoves DEF QueueInv

LEMMA RestartOK == ASSUME QueueInv, Restart PROVE QueueInv'
<1>0. Worker \in Senders /\ \A j \in Jobs : j # None
  BY NotificationAssumption
<1>1. /\ sender'[Worker].pc = "idle" /\ active' = None /\ fails' = fails
      /\ restarts' \in 0..MaxRestarts /\ mock' = mock
  BY <1>0, NotificationAssumption DEF Restart, Quiet, QueueInv
<1>2. ASSUME NEW j \in Jobs PROVE job'[j] \in JobRecord /\ JobFits(j)'
  <2>0. job[j] \in JobRecord /\ JobFits(j)
    BY <1>2 DEF QueueInv
  <2>1. CASE job[j].state = "emitted"
    <3> DEFINE b == [job[j] EXCEPT !.state = "lost"]
    <3>1. /\ b \in JobRecord /\ b.state = "lost" /\ b.tries = job[j].tries
          /\ b.stalls = job[j].stalls /\ b.mails = job[j].mails
      BY <2>0 DEF JobRecord, JobState
    <3>2. job'[j] = b
      BY <2>1 DEF Restart
    <3> HIDE DEF b
    <3> QED BY <1>0, <1>1, <2>0, <2>1, <3>1, <3>2 DEF JobFits, Unpaid, Spent, JobRecord
  <2>2. CASE job[j].state # "emitted"
    <3>1. job'[j] = job[j]
      BY <2>2 DEF Restart
    <3> QED BY <1>0, <1>1, <2>0, <3>1 DEF JobFits, Unpaid, Spent, JobRecord
  <2> QED BY <2>1, <2>2
<1>3. job' \in [Jobs -> JobRecord]
  BY <1>2 DEF Restart
<1> QED BY <1>1, <1>2, <1>3 DEF QueueInv

\* A request's own mail leaves the worker and the queue alone.
LEMMA OthersOK ==
    ASSUME QueueInv, sender \in [Senders -> Sender], NEW x \in Requests,
           RequestStep(x)
    PROVE  QueueInv'
<1>0. x \in Senders /\ x # Worker /\ Worker \in Senders
  BY NotificationAssumption DEF Requests
<1>1. PICK r : Become(x, r)
  BY DEF RequestStep, Mail, SendMail, Answer, SenderStep, AskCached, AskTable, Find, Store
<1>2. sender'[Worker].pc = sender[Worker].pc
  BY <1>0, <1>1 DEF Become
<1>3. UNCHANGED <<job, active, mock, restarts>>
  BY <1>0 DEF RequestStep, Mail, SendMail, Answer, Mailed, queue, Rest
<1>4. fails' \in 0..MaxFails
  BY NotificationAssumption DEF RequestStep, Mail, SendMail, Answer, QueueInv
<1> QED BY <1>2, <1>3, <1>4, QueueIdle

LEMMA QueueKept == ASSUME SettingsInv, QueueInv, [Next]_vars PROVE QueueInv'
<1>0. sender \in [Senders -> Sender] /\ Worker \in Senders
  BY NotificationAssumption DEF SettingsInv, SmtpTypeOK
<1>1. CASE SmtpStep /\ UNCHANGED <<queue, mock, fails, restarts>>
  BY <1>1, QueueIdle DEF SmtpStep, Tick, SaveSettings, WritePart, queue, QueueInv
<1>2. CASE SenderStep(Worker) /\ UNCHANGED <<queue, mock, fails, restarts>>
  <2>1. sender[Worker].pc \notin {"idle", "sent", "failed"}
    BY <1>2 DEF SenderStep, AskCached, AskTable, Find, Store
  <2>2. sender'[Worker].pc \notin {"idle", "sent"}
    <3>1. CASE AskCached(Worker) \/ Store(Worker)
      BY <1>0, <3>1, ObtainedOK DEF AskCached, Store, Become
    <3>2. CASE AskTable(Worker) \/ Find(Worker)
      BY <1>0, <3>2 DEF AskTable, Find, Become, Sender
    <3> QED BY <1>2, <3>1, <3>2 DEF SenderStep
  <2> QED BY <1>2, <2>1, <2>2, WorkerMoves DEF queue
<1>3. CASE (\E j \in Jobs : Take(j)) \/ SendMail(Worker) \/ Complete \/ Fail
  BY <1>0, <1>3, TakeOK, SendMailOK, EndOK
<1>4. ASSUME NEW j \in Jobs, Emit(j) \/ QueueStep(j) PROVE QueueInv'
  BY <1>4, EmitOK, StalledOK DEF QueueStep
<1>5. CASE UNCHANGED vars
  BY <1>5, QueueIdle DEF vars, queue, QueueInv
<1> QED
  BY <1>0, <1>1, <1>2, <1>3, <1>4, <1>5, RestartOK, OthersOK DEF Next, WorkerStep

--------------------------------------------------------------------------------
LEMMA InitOK == Init => NotificationInv
<1> SUFFICES ASSUME Init PROVE NotificationInv
  OBVIOUS
<1>0. Worker \in Senders /\ None \notin Jobs
  BY NotificationAssumption
<1>1. SmtpTypeOK
  BY QuietOK, SmtpAssumption
     DEF Init, SmtpInit, SmtpTypeOK, Config, Values, Parts, NoConfig, NotWriting
<1>2. CopyFits /\ \A x \in Senders : SenderFits(x)
  BY DEF Init, SmtpInit, CopyFits, SenderFits, Quiet
<1>3. job \in [Jobs -> JobRecord]
  BY NotificationAssumption DEF Init, NoJob, JobRecord, JobState, MaxStalls
<1>4. \A j \in Jobs : JobFits(j)
  BY <1>0, NotificationAssumption DEF Init, NoJob, JobFits, Unpaid, Spent, MaxStalls
<1>5. active = None /\ sender[Worker].pc = "idle"
  BY <1>0 DEF Init, SmtpInit, Quiet
<1>6. mock \in BOOLEAN /\ fails \in 0..MaxFails /\ restarts \in 0..MaxRestarts
  BY NotificationAssumption DEF Init
<1> QED BY <1>1, <1>2, <1>3, <1>4, <1>5, <1>6, Halves DEF SettingsInv, QueueInv

\* The inductive invariant holds in every state.
THEOREM NotificationKept == Spec => []NotificationInv
<1>1. NotificationInv /\ [Next]_vars => NotificationInv'
  <2>1. NotificationInv /\ [Next]_vars => SettingsInv' /\ QueueInv'
    BY Halves, SettingsKept, QueueKept
  <2>2. SettingsInv' /\ QueueInv' => NotificationInv'
    BY DEF NotificationInv, SettingsInv, QueueInv, TypeOK, JobFits, JobRecord
  <2> QED BY <2>1, <2>2
<1> QED BY <1>1, InitOK, PTL DEF Spec

\* The settings, their copy, the queue and everything that sends a mail always have their shape.
THEOREM NotificationTyped == Spec => []TypeOK
<1>1. NotificationInv => TypeOK
  BY DEF NotificationInv
<1> QED BY <1>1, NotificationKept, PTL

\* For any number of senders and writers, a mail is sent with settings that the table holds or held
\* less than SMTP_CACHE_TTL_MS ago, although a copy may be taken between two writes of a save and
\* nobody calls invalidateSmtpCache (email-service.utils.ts:55-92).
THEOREM SettingsAreRecent == Spec => []RecentSettings
<1>1. NotificationInv => RecentSettings
  <2> SUFFICES ASSUME NotificationInv, CopyIsFresh, NEW p \in Parts
               PROVE  HeldSince(p, cache[p], clock - TTL + 1)
    BY DEF RecentSettings
  <2>1. HeldSince(p, cache[p], cachedAt) /\ clock - TTL + 1 <= cachedAt
    BY SmtpAssumption DEF NotificationInv, CopyFits, CopyIsFresh, TypeOK, SmtpTypeOK
  <2>2. smtp[p] # cache[p] => held[p][cache[p]] >= clock - TTL + 1
    <3>1. CASE cache[p] \in Values
      BY <2>1, <3>1, SmtpAssumption DEF HeldSince, NotificationInv, TypeOK, SmtpTypeOK
    <3>2. CASE cache[p] \notin Values
      BY <2>1, <3>2, SmtpAssumption DEF CopyIsFresh, NotificationInv, TypeOK, SmtpTypeOK, Config
    <3> QED BY <3>1, <3>2
  <2> QED BY <2>2 DEF HeldSince
<1> QED BY <1>1, NotificationKept, PTL

\* However often attempts fail, the process restarts and jobs stall, a job is completed only when
\* its code was mailed, and a code is mailed at most once more than its attempts failed or its
\* worker died; in mock mode jobs are completed too, and no code is mailed at all
\* (email-service.utils.ts:117-143).
THEOREM CodesAreMailed == Spec => []CompletedIsMailed
<1>1. NotificationInv => CompletedIsMailed
  BY NotificationAssumption
     DEF NotificationInv, TypeOK, JobFits, Unpaid, Spent, CompletedIsMailed, MaxStalls
<1> QED BY <1>1, NotificationKept, PTL

================================================================================
