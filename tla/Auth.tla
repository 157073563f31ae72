-------------------------------- MODULE Auth --------------------------------
(***************************************************************************)
(* Signing in: DeviceFlow (internal/auth), the token file (TokenStore,      *)
(* internal/store) and the two commands that use them, "run"                *)
(* (app.go:253-303) and "login" (cmd/tdropfarmer/main.go:105-133), over any *)
(* number of processes started one after the other on the same file, each   *)
(* with the configuration of that moment.                                   *)
(*                                                                          *)
(* Each request and each file operation is a step that can fail, lose its   *)
(* answer, or be the last one before a crash: a mishap.  What the service   *)
(* does is external: it issues tokens, numbered in the order of issue; a    *)
(* refresh token is good for one exchange, by the client it was issued to;  *)
(* access tokens expire in the order of issue.  Intervals between polls and *)
(* the contents of a token beyond its client are left out.                  *)
(***************************************************************************)
EXTENDS Integers, Sequences

CONSTANTS
    Clients,            \* OAuth client IDs
    DefaultClientID, LegacyClientID,
    NoClient,           \* the empty client ID, in files of older versions
    NoToken,            \* the absence of a token or of a file
    MaxStarts,          \* bound: processes started
    MaxMishaps          \* bound: requests and operations that fail, crashes, not
                        \* counting users too slow, at most one in a process

Ids == 1..(1 + 3 * MaxStarts)
Tokens == [id : Ids, client : Clients \cup {NoClient}]

ASSUME ClientsAssumption ==
    {DefaultClientID, LegacyClientID} \subseteq Clients /\ NoClient \notin Clients
ASSUME TokensAssumption == NoToken \notin Tokens
ASSUME SignInBounds == MaxStarts \in Nat /\ MaxMishaps \in Nat

VARIABLES
    configured,     \* auth.client_id, as the last process has read it
    pc,             \* where the process is; "off" when none runs
    job,            \* its local variables
    used,           \* client and access token of the API clients, or NoToken
    target, bak, tmp, \* token.json, token.json.bak, the temporary file
    orphans,        \* temporary files that crashes have left behind
    owner,          \* the service: the client each token was issued to,
    near,           \*   tokens up to this one have less than a minute left,
    dead,           \*   tokens up to this one are rejected,
    refreshable,    \*   tokens whose refresh token can still be exchanged
    starts, mishaps, \* bounded counters
    asked,          \* history: how often the user was given a code,
    due,            \*   one login is due when there is no token of a compatible
                    \*   client at first, and one when a change of the
                    \*   configuration has made one incompatible,
    stored          \*   a token has been on the disk

disk == <<target, bak, tmp, orphans>>
service == <<owner, near, dead, refreshable>>
history == <<asked, due, stored>>
authVars == <<configured, pc, job, used, disk, service, starts, mishaps, history>>

Idle == [cmd |-> "none", round |-> 0, token |-> NoToken, fresh |-> NoToken,
         todo |-> <<>>, saving |-> NoToken, from |-> "none", overdue |-> FALSE]

Goto(where) == pc' = where
Set(f, v) == job' = [job EXCEPT ![f] = v]
Exit == pc' = "off" /\ job' = Idle
Mishap == mishaps < MaxMishaps /\ mishaps' = mishaps + 1

-----------------------------------------------------------------------------
(* Clients                                                                   *)

isClientCompatible(c) ==
    \/ c \in {NoClient, configured, LegacyClientID}
    \/ {configured, c} \subseteq {DefaultClientID, LegacyClientID}

\* add: each client is tried once.
Add(got, c) == IF \E i \in DOMAIN got : got[i] = c THEN got ELSE Append(got, c)

\* Those that every token is tried with, after the ones of got.
WithDefaults(got) ==
    LET both == Add(Add(got, configured), LegacyClientID)
    IN  IF configured = LegacyClientID THEN Add(both, DefaultClientID) ELSE both

\* Variant: the client of the file is tried even when the file names none.
CandidatesOfAnyFile(c) ==
    WithDefaults(IF isClientCompatible(c) THEN <<c>> ELSE <<>>)

\* The clients a refresh is tried with, in order: first the one in the file.
refreshClientCandidates(c) ==
    WithDefaults(IF c # NoClient /\ isClientCompatible(c) THEN <<c>> ELSE <<>>)

\* The first process may find a token that any client has obtained before.
AuthInit ==
    /\ configured \in Clients
    /\ pc = "off" /\ job = Idle /\ used = NoToken
    /\ \/ target = NoToken /\ owner = <<>>
       \/ \E c \in Clients : /\ owner = <<c>>
                             /\ target \in [id : {1}, client : {c, NoClient}]
    /\ bak = NoToken /\ tmp = NoToken /\ orphans = {}
    /\ near = 0 /\ dead = 0
    /\ refreshable = 1..Len(owner)
    /\ starts = 0 /\ mishaps = 0 /\ asked = 0
    /\ due = IF target # NoToken /\ isClientCompatible(owner[1]) THEN 0 ELSE 1
    /\ stored = (target # NoToken)

-----------------------------------------------------------------------------
(* The service                                                               *)

Issue(c) == owner' = Append(owner, c)

Accepted(id) == id > dead

\* Less than a minute is left of every token issued so far.
Age ==
    /\ near < Len(owner)
    /\ near' = Len(owner)
    /\ UNCHANGED <<configured, pc, job, used, disk, owner, dead, refreshable,
                   starts, mishaps, history>>

\* They expire.  Not while ValidToken is at work: its one validation takes less
\* than the minute it requires a token to have left.
Expire ==
    /\ pc \in {"off", "running", "checking", "waiting", "posting"}
    /\ dead < near
    /\ dead' = near
    /\ UNCHANGED <<configured, pc, job, used, disk, owner, near, refreshable,
                   starts, mishaps, history>>

\* The user disconnects the application.
Revoke ==
    /\ dead < Len(owner)
    /\ Mishap
    /\ dead' = Len(owner) /\ refreshable' = {}
    /\ UNCHANGED <<configured, pc, job, used, disk, owner, near, starts, history>>

\* The device code runs out.
CodeExpires ==
    /\ pc \in {"checking", "waiting", "posting"} /\ ~job.overdue
    /\ Set("overdue", TRUE)
    /\ UNCHANGED <<configured, pc, used, disk, service, starts, mishaps, history>>

-----------------------------------------------------------------------------
(* Processes                                                                 *)

\* The token in the file can no longer be used, by a change of the configuration.
Lost ==
    /\ target # NoToken
    /\ isClientCompatible(owner[target.id]) /\ ~isClientCompatible(owner[target.id])'

\* A new process, with the configuration as it is now.
Start(cmd) ==
    /\ pc = "off" /\ starts < MaxStarts
    /\ starts' = starts + 1
    /\ job' = [Idle EXCEPT !.cmd = cmd, !.round = 1] /\ Goto("loading")
    /\ configured' \in Clients
    /\ UNCHANGED <<used, disk, service, mishaps, asked, stored>>
    /\ due' = IF Lost THEN due + 1 ELSE due

\* A running farmer is stopped.
Stop ==
    /\ pc = "running"
    /\ Exit /\ used' = NoToken
    /\ UNCHANGED <<configured, disk, service, starts, mishaps, history>>

\* A process is killed while it signs in.
Crash ==
    /\ pc \notin {"off", "running"}
    /\ Mishap
    /\ orphans' = orphans \cup ({tmp} \ {NoToken}) /\ tmp' = NoToken
    /\ Exit
    /\ UNCHANGED <<configured, used, target, bak, service, starts, history>>

\* ValidToken returns an error: to the device flow, or, after it, to the user.
Invalid ==
    IF job.round = 1 THEN Goto("asking") /\ UNCHANGED job ELSE Exit

\* Variant: the configured client is kept.
ValidKeepingClient(t) ==
    IF job.cmd = "login"
    THEN Exit /\ UNCHANGED used
    ELSE /\ Goto("running")
         /\ used' = [id |-> IF job.round = 1 THEN t.id ELSE job.fresh.id,
                     client |-> configured]
         /\ job' = [Idle EXCEPT !.cmd = "run"]

\* ValidToken returns the token t and its client.  After a device login the
\* farmer runs on the token of that login, whichever token was validated.
Valid(t) ==
    IF job.cmd = "login"
    THEN Exit /\ UNCHANGED used
    ELSE /\ Goto("running")
         /\ used' = [id |-> IF job.round = 1 THEN t.id ELSE job.fresh.id,
                     client |-> t.client]
         /\ job' = [Idle EXCEPT !.cmd = "run"]

-----------------------------------------------------------------------------
(* ValidToken                                                                *)

\* The file is missing, or cannot be read.
LoadFails ==
    /\ pc = "loading"
    /\ IF target = NoToken THEN UNCHANGED mishaps ELSE Mishap
    /\ Invalid
    /\ UNCHANGED <<configured, used, disk, service, starts, history>>

Load ==
    /\ pc = "loading" /\ target # NoToken
    /\ IF target.id <= near
       THEN /\ job' = [job EXCEPT !.token = target,
                                  !.todo = refreshClientCandidates(target.client)]
            /\ Goto("refreshing")
       ELSE Set("token", target) /\ Goto("validating")
    /\ UNCHANGED <<configured, used, disk, service, starts, mishaps, history>>

Exchangeable ==
    job.token.id \in refreshable /\ owner[job.token.id] = Head(job.todo)

\* The service exchanges the refresh token.
Exchange ==
    /\ pc = "refreshing" /\ Exchangeable
    /\ Issue(Head(job.todo))
    /\ refreshable' = (refreshable \ {job.token.id}) \cup {Len(owner) + 1}

NextCandidate ==
    /\ Set("todo", Tail(job.todo))
    /\ IF Len(job.todo) = 1 THEN Goto("validating") ELSE UNCHANGED pc

\* Variant: the new token is used and not saved.
RefreshUnsaved ==
    /\ Exchange
    /\ job' = [job EXCEPT !.token = [id |-> Len(owner) + 1, client |-> Head(job.todo)],
                          !.todo = <<>>]
    /\ Goto("validating")
    /\ UNCHANGED <<configured, used, disk, near, dead, starts, mishaps, history>>

Refresh ==
    /\ Exchange
    /\ job' = [job EXCEPT !.saving = [id |-> Len(owner) + 1, client |-> Head(job.todo)],
                          !.from = "refresh", !.todo = <<>>]
    /\ Goto("writing")
    /\ UNCHANGED <<configured, used, disk, near, dead, starts, mishaps, history>>

\* The token has been exchanged, but the answer does not arrive.
RefreshLost ==
    /\ Exchange /\ Mishap
    /\ NextCandidate
    /\ UNCHANGED <<configured, used, disk, near, dead, starts, history>>

\* The service refuses, or the request does not reach it; after the last candidate
\* ValidToken goes on with the old token.
RefreshFails ==
    /\ pc = "refreshing"
    /\ IF Exchangeable THEN Mishap ELSE UNCHANGED mishaps
    /\ NextCandidate
    /\ UNCHANGED <<configured, used, disk, service, starts, history>>

\* The token is good: returned at once, or after the file has its client.
Validate ==
    /\ pc = "validating"
    /\ LET c == owner[job.token.id]
       IN  /\ Accepted(job.token.id) /\ isClientCompatible(c)
           /\ IF job.token.client = c
              THEN Valid(job.token)
              ELSE /\ job' = [job EXCEPT !.token.client = c, !.from = "client",
                                         !.saving = [job.token EXCEPT !.client = c]]
                   /\ Goto("writing") /\ UNCHANGED used
    /\ UNCHANGED <<configured, disk, service, starts, mishaps, history>>

\* It is rejected, or another client's, or the request fails.
ValidateFails ==
    /\ pc = "validating"
    /\ IF Accepted(job.token.id) /\ isClientCompatible(owner[job.token.id])
       THEN Mishap ELSE UNCHANGED mishaps
    /\ Invalid
    /\ UNCHANGED <<configured, used, disk, service, starts, history>>

-----------------------------------------------------------------------------
(* Login                                                                     *)

requestDeviceCode ==
    /\ pc = "asking"
    /\ \/ asked' = asked + 1 /\ Goto("checking") /\ UNCHANGED <<job, mishaps>>
       \/ Mishap /\ Exit /\ UNCHANGED asked
    /\ UNCHANGED <<configured, used, disk, service, starts, due, stored>>

\* Variant: polls as long as the answer is to wait.
PollForEver ==
    /\ pc = "checking"
    /\ Goto("waiting") /\ UNCHANGED <<job, mishaps>>
    /\ UNCHANGED <<configured, used, disk, service, starts, history>>

\* Another poll, unless the code has run out: then the user was too slow.
CheckDeadline ==
    /\ pc = "checking"
    /\ IF job.overdue
       THEN mishaps' = mishaps + 1 /\ Exit
       ELSE Goto("waiting") /\ UNCHANGED <<job, mishaps>>
    /\ UNCHANGED <<configured, used, disk, service, starts, history>>

SleepOver ==
    /\ pc = "waiting"
    /\ Goto("posting")
    /\ UNCHANGED <<configured, job, used, disk, service, starts, mishaps, history>>

\* authorization_pending or slow_down.
PollPending ==
    /\ pc = "posting"
    /\ Goto("checking")
    /\ UNCHANGED <<configured, job, used, disk, service, starts, mishaps, history>>

Grant ==
    /\ pc = "posting"
    /\ Issue(configured) /\ refreshable' = refreshable \cup {Len(owner) + 1}

\* The user has approved.
PollGranted ==
    /\ Grant
    /\ job' = [job EXCEPT !.from = "login",
                          !.saving = [id |-> Len(owner) + 1, client |-> configured]]
    /\ Goto("writing")
    /\ UNCHANGED <<configured, used, disk, near, dead, starts, mishaps, history>>

PollGrantLost ==
    /\ Grant /\ Mishap
    /\ Exit
    /\ UNCHANGED <<configured, used, disk, near, dead, starts, history>>

\* Denied, expired at the service, any other error of it, or of the connection;
\* and a sleep that ends with the context.
PollFails ==
    /\ pc \in {"waiting", "posting"}
    /\ Mishap
    /\ Exit
    /\ UNCHANGED <<configured, used, disk, service, starts, history>>

-----------------------------------------------------------------------------
(* TokenStore.Save and replaceFile                                           *)

WriteTemp ==
    /\ pc = "writing"
    /\ tmp' = job.saving /\ Goto("dropping")
    /\ UNCHANGED <<configured, job, used, target, bak, orphans, service, starts,
                   mishaps, history>>

\* The backup is removed; that it may fail is ignored.
RemoveBackup ==
    \/ bak' = NoToken /\ UNCHANGED mishaps
    \/ bak # NoToken /\ Mishap /\ UNCHANGED bak

DropBackup ==
    /\ pc = "dropping"
    /\ RemoveBackup /\ Goto("backing")
    /\ UNCHANGED <<configured, job, used, target, tmp, orphans, service, starts, history>>

\* Variant: the old file is removed.
RemoveOld ==
    /\ pc = "backing"
    /\ target' = NoToken /\ Goto("installing") /\ UNCHANGED bak
    /\ UNCHANGED <<configured, job, used, tmp, orphans, service, starts, mishaps,
                   history>>

Backup ==
    /\ pc = "backing"
    /\ IF target = NoToken THEN UNCHANGED <<target, bak>>
       ELSE bak' = target /\ target' = NoToken
    /\ Goto("installing")
    /\ UNCHANGED <<configured, job, used, tmp, orphans, service, starts, mishaps,
                   history>>

Install ==
    /\ pc = "installing"
    /\ target' = tmp /\ tmp' = NoToken /\ stored' = TRUE
    /\ Goto("cleaning")
    /\ UNCHANGED <<configured, job, used, bak, orphans, service, starts, mishaps,
                   asked, due>>

\* Save returns an error, which only the update of the client ID ignores.
SaveFailed ==
    IF job.from = "client" THEN Valid(job.token)
    ELSE /\ UNCHANGED used
         /\ IF job.from = "refresh" THEN Invalid ELSE Exit

\* An operation fails: the temporary file is removed.
SaveFails ==
    /\ pc \in {"writing", "backing"}
    /\ Mishap
    /\ tmp' = NoToken /\ SaveFailed
    /\ UNCHANGED <<configured, target, bak, orphans, service, starts, history>>

\* The new file cannot be put in place; the old one is put back, if it can be.
InstallFails ==
    /\ pc = "installing"
    /\ \/ /\ Mishap
          /\ IF bak = NoToken THEN UNCHANGED <<target, bak>>
             ELSE target' = bak /\ bak' = NoToken
       \/ /\ bak # NoToken /\ mishaps + 1 < MaxMishaps
          /\ mishaps' = mishaps + 2
          /\ UNCHANGED <<target, bak>>
    /\ tmp' = NoToken /\ SaveFailed
    /\ UNCHANGED <<configured, orphans, service, starts, history>>

\* The backup is removed and Save returns.
Saved ==
    /\ pc = "cleaning"
    /\ RemoveBackup
    /\ CASE job.from = "client" -> Valid(job.token)
         [] job.from = "refresh" -> /\ job' = [job EXCEPT !.token = job.saving,
                                                 !.saving = NoToken]
                                    /\ Goto("validating") /\ UNCHANGED used
         [] job.from = "login" /\ job.cmd = "login" -> Exit /\ UNCHANGED used
         [] OTHER -> /\ job' = [Idle EXCEPT !.cmd = "run", !.round = 2,
                                            !.fresh = job.saving]
                     /\ Goto("loading") /\ UNCHANGED used
    /\ UNCHANGED <<configured, target, tmp, orphans, service, starts, history>>

-----------------------------------------------------------------------------
Process ==
    \/ LoadFails \/ Load
    \/ Refresh \/ RefreshLost \/ RefreshFails
    \/ Validate \/ ValidateFails
    \/ requestDeviceCode \/ CheckDeadline \/ SleepOver
    \/ PollPending \/ PollGranted \/ PollGrantLost \/ PollFails
    \/ WriteTemp \/ DropBackup \/ Backup \/ Install \/ SaveFails \/ InstallFails
    \/ Saved

AuthNext ==
    \/ \E cmd \in {"run", "login"} : Start(cmd)
    \/ Stop \/ Crash
    \/ Age \/ Expire \/ Revoke \/ CodeExpires
    \/ Process

\* Requests time out, sleeps end and the clock reaches the code's expiry.
AuthSpec ==
    AuthInit /\ [][AuthNext]_authVars /\ WF_authVars(Process) /\ WF_authVars(CodeExpires)

-----------------------------------------------------------------------------
(* Properties                                                                *)

\* Every variable holds a value of its type; a refresh is tried with real clients.
AuthTypeOK ==
    /\ configured \in Clients
    /\ pc \in {"off", "loading", "refreshing", "validating", "asking", "checking",
               "waiting", "posting", "writing", "dropping", "backing",
               "installing", "cleaning", "running"}
    /\ job.cmd \in {"none", "run", "login"} /\ job.round \in 0..2
    /\ {job.token, job.fresh, job.saving, target, bak, tmp}
         \subseteq Tokens \cup {NoToken}
    /\ job.todo \in Seq(Clients)
    /\ job.from \in {"none", "refresh", "client", "login"} /\ job.overdue \in BOOLEAN
    /\ used \in Tokens \cup {NoToken} /\ orphans \subseteq Tokens
    /\ owner \in Seq(Clients) /\ Len(owner) <= 1 + 3 * MaxStarts
    /\ near \in 0..Len(owner) /\ dead \in 0..Len(owner)
    /\ refreshable \subseteq 1..Len(owner)
    /\ starts \in 0..MaxStarts /\ mishaps \in 0..(MaxMishaps + MaxStarts)
    /\ asked \in Nat /\ due \in 0..(MaxStarts + 1) /\ stored \in BOOLEAN

\* The user is asked to log in again only for something that went wrong, or for a
\* change of the configured client that the token cannot serve, and once for each:
\* tokens that are exchanged, rewritten and reloaded over any number of processes
\* carry the session on (device_flow.go:151-192, token_store.go:97-118).
AskedPerMishap == asked <= due + mishaps

\* The API clients send the client ID their access token was issued to, whichever
\* client obtained the token, refreshed it or is configured (app.go:288-303).
ClientMatches == used # NoToken => used.client = owner[used.id]

\* Once there has been a token on the disk, no single failure or crash takes the last
\* copy of one away: the file, its backup or a temporary file has it.
TokenOnDisk ==
    stored /\ mishaps <= 1 =>
        {target, bak, tmp} \ {NoToken} # {} \/ orphans # {}

\* A process that signs in comes to an end: it runs, or gives up
\* (device_flow.go:264-307).
SignInEnds == pc # "off" ~> pc \in {"off", "running"}
=============================================================================
