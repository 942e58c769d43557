---------------------------------- MODULE Smtp ----------------------------------
(***************************************************************************)
(* The SMTP settings and the copy of them that EmailServiceUtils keeps for *)
(* SMTP_CACHE_TTL_MS.  The settings are rows of a key-value table, written *)
(* one after another; the copy is taken with one query.  Nobody calls      *)
(* invalidateSmtpCache.  To send a mail the settings are asked for twice,  *)
(* first for the transporter and then for the sender of the mail.          *)
(*                                                                         *)
(* The eight keys are two parts: the mailer, which is the server with its  *)
(* account and the name and address mails are sent from, and whether mail  *)
(* is enabled at all.  A part holds the version it was saved with.         *)
(***************************************************************************)
EXTENDS Integers

CONSTANTS
    Senders,        \* what may be sending a mail at the same time
    Writers,        \* requests that may be saving settings at the same time
    Versions,       \* versions of the settings that may be saved
    Working,        \* those of them that enable mail
    None,           \* the settings before any was saved, or nothing
    TTL,            \* SMTP_CACHE_TTL_MS, in ticks of the clock
    MaxClock        \* bound: ticks of the clock

VARIABLES
    smtp,           \* the table settings
    writing,        \* the save each writer has in flight
    cache,          \* smtpConfigCache
    cachedAt,       \* smtpConfigCachedAt
    clock,
    sender,         \* the call of sendTwoFactorCode or sendForgotPasswordResetCode each sender is in
    held            \* history: when the table last held a value it no longer holds

settings == <<smtp, writing, held>>
copy     == <<cache, cachedAt>>

ASSUME SmtpAssumption ==
    /\ None \notin Versions /\ Working \subseteq Versions
    /\ TTL \in Nat \ {0} /\ MaxClock \in Nat

Values == Versions \cup {None}
Parts  == {"mailer", "enabled"}
Config == [Parts -> Values]

\* The order in which createSMTPSettings writes the keys.
Then == [mailer |-> "enabled", enabled |-> "done"]

NotWriting == [version |-> None, part |-> "done"]

NoConfig == [p \in Parts |-> None]

Quiet == [pc |-> "idle", first |-> TRUE, now |-> 0, seen |-> NoConfig]

SmtpInit ==
    /\ smtp = NoConfig
    /\ writing = [w \in Writers |-> NotWriting]
    /\ cache = None /\ cachedAt = 0
    /\ clock = 0
    /\ sender = [x \in Senders |-> Quiet]
    /\ held = [p \in Parts |-> [v \in Values |-> -1]]

Tick ==
    /\ clock < MaxClock
    /\ clock' = clock + 1
    /\ UNCHANGED <<settings, copy, sender>>

\* Bound: a version is saved once.
IsNew(v) ==
    /\ smtp["mailer"] # v /\ held["mailer"][v] = -1
    /\ \A w \in Writers : writing[w].version # v

SaveSettings(w) ==
    /\ writing[w].part = "done"
    /\ \E v \in Versions :
          /\ IsNew(v)
          /\ writing' = [writing EXCEPT ![w] = [version |-> v, part |-> "mailer"]]
    /\ UNCHANGED <<smtp, copy, clock, sender, held>>

WritePart(w) ==
    /\ writing[w].part # "done"
    /\ LET p == writing[w].part
       IN  /\ smtp' = [smtp EXCEPT ![p] = writing[w].version]
           /\ held' = [held EXCEPT ![p][smtp[p]] = clock]
           /\ writing' = [writing EXCEPT ![w].part = Then[p]]
    /\ UNCHANGED <<copy, clock, sender>>

--------------------------------------------------------------------------------
Become(x, r) == sender' = [sender EXCEPT ![x] = r]

\* Variant: while mail is disabled the settings are asked for again.
AskAgain(x, c) ==
    IF ~sender[x].first THEN [Quiet EXCEPT !.pc = "send"]
    ELSE IF c["enabled"] \notin Working THEN [Quiet EXCEPT !.pc = "ask"]
    ELSE [Quiet EXCEPT !.pc = "ask", !.first = FALSE]

\* What becomes of the settings: the first time a server is taken from them, unless mail is
\* disabled, the second time a name and address.
Obtained(x, c) ==
    IF ~sender[x].first THEN [Quiet EXCEPT !.pc = "send"]
    ELSE IF c["enabled"] \notin Working THEN [Quiet EXCEPT !.pc = "failed"]
    ELSE [Quiet EXCEPT !.pc = "ask", !.first = FALSE]

CopyIsFresh == cache # None /\ clock - cachedAt < TTL

AskCached(x) ==
    /\ sender[x].pc = "ask"
    /\ CopyIsFresh
    /\ Become(x, Obtained(x, cache))
    /\ UNCHANGED <<settings, copy, clock>>

AskTable(x) ==
    /\ sender[x].pc = "ask"
    /\ ~CopyIsFresh
    /\ Become(x, [sender[x] EXCEPT !.pc = "find", !.now = clock])
    /\ UNCHANGED <<settings, copy, clock>>

Find(x) ==
    /\ sender[x].pc = "find"
    /\ Become(x, [sender[x] EXCEPT !.pc = "store", !.seen = smtp])
    /\ UNCHANGED <<settings, copy, clock>>

\* Variant: the copy is stamped when it has arrived.
StampOnArrival(x) == clock

\* The copy is stamped with the time it was asked for.
Stamp(x) == sender[x].now

Store(x) ==
    /\ sender[x].pc = "store"
    /\ cache' = sender[x].seen
    /\ cachedAt' = Stamp(x)
    /\ Become(x, Obtained(x, sender[x].seen))
    /\ UNCHANGED <<settings, clock>>

SenderStep(x) == AskCached(x) \/ AskTable(x) \/ Find(x) \/ Store(x)

SmtpStep == Tick \/ \E w \in Writers : SaveSettings(w) \/ WritePart(w)
================================================================================
