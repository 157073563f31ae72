----------------------------- MODULE AuthProofs -----------------------------
(* Theorems about Auth, for any number of clients, processes and mishaps.    *)
EXTENDS Auth, TLAPS

-----------------------------------------------------------------------------
(* The clients a refresh is tried with.                                      *)

Tried(s, c) == \E i \in DOMAIN s : s[i] = c

LEMMA AddTries ==
    ASSUME NEW got \in Seq(Clients), NEW c \in Clients
    PROVE  /\ Add(got, c) \in Seq(Clients) /\ Tried(Add(got, c), c)
           /\ \A d : Tried(got, d) => Tried(Add(got, c), d)
<1>1. CASE \E i \in DOMAIN got : got[i] = c
  BY <1>1 DEF Add, Tried
<1>2. CASE ~ \E i \in DOMAIN got : got[i] = c
  <2> DEFINE s == Append(got, c)
  <2>1. /\ s \in Seq(Clients) /\ Len(got) + 1 \in DOMAIN s /\ s[Len(got) + 1] = c
        /\ \A i \in DOMAIN got : i \in DOMAIN s /\ s[i] = got[i]
    OBVIOUS
  <2>2. Add(got, c) = s
    BY <1>2 DEF Add
  <2> HIDE DEF s
  <2> QED BY <2>1, <2>2 DEF Tried
<1> QED
  BY <1>1, <1>2

\* Whatever the file says of its client, the clients a refresh is tried with include
\* every compatible one the token can belong to (device_flow.go:91-118).
LEMMA CandidatesCover ==
    ASSUME configured \in Clients, NEW c \in Clients \cup {NoClient}
    PROVE  /\ refreshClientCandidates(c) \in Seq(Clients)
           /\ refreshClientCandidates(c) # <<>>
           /\ \A d \in Clients :
                 isClientCompatible(d) /\ c \in {d, NoClient}
                    => Tried(refreshClientCandidates(c), d)
<1> DEFINE first == IF c # NoClient /\ isClientCompatible(c) THEN <<c>> ELSE <<>>
           two == Add(first, configured)
           three == Add(two, LegacyClientID)
           all == IF configured = LegacyClientID THEN Add(three, DefaultClientID) ELSE three
<1>1. all = refreshClientCandidates(c)
  BY DEF refreshClientCandidates, WithDefaults
<1>2. first \in Seq(Clients) /\ (c # NoClient /\ isClientCompatible(c) => Tried(first, c))
  <2>1. CASE c # NoClient /\ isClientCompatible(c)
    <3>1. c \in Clients
      BY <2>1
    <3>2. <<c>> \in Seq(Clients) /\ 1 \in DOMAIN <<c>> /\ <<c>>[1] = c
      BY <3>1
    <3> QED BY <2>1, <3>2 DEF Tried
  <2>2. CASE ~ (c # NoClient /\ isClientCompatible(c))
    BY <2>2
  <2> QED BY <2>1, <2>2
<1> HIDE DEF first
<1>3. /\ two \in Seq(Clients) /\ Tried(two, configured)
      /\ \A d : Tried(first, d) => Tried(two, d)
  BY <1>2, AddTries
<1> HIDE DEF two
<1>4. /\ three \in Seq(Clients) /\ Tried(three, LegacyClientID)
      /\ \A d : Tried(two, d) => Tried(three, d)
  BY <1>3, AddTries, ClientsAssumption
<1> HIDE DEF three
<1>5. /\ all \in Seq(Clients)
      /\ configured = LegacyClientID => Tried(all, DefaultClientID)
      /\ \A d : Tried(three, d) => Tried(all, d)
  BY <1>4, AddTries, ClientsAssumption
<1> HIDE DEF all
<1>6. all # <<>>
  <2>1. Tried(all, LegacyClientID)
    BY <1>4, <1>5
  <2>2. \E i \in DOMAIN all : all[i] = LegacyClientID
    BY <2>1 DEF Tried
  <2>3. ~ \E i \in DOMAIN <<>> : TRUE
    OBVIOUS
  <2> QED BY <2>2, <2>3
<1>7. ASSUME NEW d \in Clients, isClientCompatible(d), c \in {d, NoClient}
      PROVE  Tried(all, d)
  <2>1. CASE d \in {configured, LegacyClientID}
    BY <1>3, <1>4, <1>5, <2>1
  <2>2. CASE configured = LegacyClientID /\ d = DefaultClientID
    BY <1>5, <2>2
  <2>3. CASE c = d
    BY <1>2, <1>3, <1>4, <1>5, <1>7, <2>3, ClientsAssumption
  <2>4. CASE c = NoClient
    <3>1. \/ d \in {configured, LegacyClientID}
          \/ {configured, d} \subseteq {DefaultClientID, LegacyClientID}
      BY <1>7, ClientsAssumption DEF isClientCompatible
    <3> QED BY <2>1, <2>2, <3>1
  <2> QED BY <1>7, <2>3, <2>4
<1> QED
  BY <1>1, <1>5, <1>6, <1>7

-----------------------------------------------------------------------------
(* The invariant: where a process is says what it holds.                     *)

\* A token of the service, under its client or, in an old file, under none.
Issued == {t \in Tokens : /\ t.id \in 1..Len(owner)
                          /\ t.client \in {owner[t.id], NoClient}}

MaybeIssued == Issued \cup {NoToken}

Rounds == 0..2

JobsWith(T) == [cmd : {"none", "run", "login"}, round : Rounds, token : T, fresh : T,
                todo : Seq(Clients), saving : T,
                from : {"none", "refresh", "client", "login"}, overdue : BOOLEAN]

Jobs == JobsWith(MaybeIssued)

SavingPCs == {"writing", "dropping", "backing", "installing", "cleaning"}
LoginPCs == {"asking", "checking", "waiting", "posting"}
ValidPCs == {"loading", "refreshing", "validating"}

Holdings ==
    /\ configured \in Clients
    /\ owner \in Seq(Clients)
    /\ pc \in {"off", "running"} \cup SavingPCs \cup LoginPCs \cup ValidPCs
    /\ job \in Jobs
    /\ {target, bak, tmp} \subseteq MaybeIssued /\ orphans \subseteq Issued
    /\ near \in 0..Len(owner) /\ dead \in 0..Len(owner)
    /\ refreshable \subseteq 1..Len(owner)
    /\ starts \in 0..MaxStarts /\ mishaps \in Nat
    /\ asked \in Nat /\ due \in 0..(starts + 1) /\ stored \in BOOLEAN

\* What the steps of one process hand to one another.
Stages ==
    /\ pc \in LoginPCs => job.round = 1
    /\ pc \in ValidPCs \cup SavingPCs => job.round \in {1, 2}
    /\ pc \in {"refreshing", "validating"} => job.token \in Issued
    /\ pc = "refreshing" => job.todo # <<>>
    /\ pc \in SavingPCs => /\ job.saving \in Issued /\ job.from # "none"
                           /\ job.saving.client = owner[job.saving.id]
                           /\ job.from = "client" => job.token = job.saving
                           /\ job.from = "login" =>
                                 job.round = 1 /\ job.saving.client = configured
    /\ pc \in {"dropping", "backing", "installing"} => tmp = job.saving
    /\ pc = "cleaning" => target = job.saving

\* After a device login everything belongs to the configured client.
SecondRound ==
    (pc \in ValidPCs \cup SavingPCs /\ job.round = 2) =>
        /\ job.fresh \in Issued /\ job.fresh.client = configured
        /\ pc = "loading" => target = job.fresh
        /\ pc \in {"refreshing", "validating"} => job.token.client = configured
        /\ pc \in SavingPCs => job.saving.client = configured

\* The client of the API calls is the one their token was issued to.
Matched == used \in {t \in Issued : t.client = owner[t.id]} \cup {NoToken}

\* How many tokens a process may still be issued.
Left ==
    CASE pc \in {"off", "running"} -> 0
      [] pc = "loading" -> IF job.round = 1 THEN 3 ELSE 1
      [] pc = "refreshing" -> (IF job.token.id \in refreshable THEN 1 ELSE 0)
                               + (IF job.round = 1 THEN 2 ELSE 0)
      [] pc = "validating" -> IF job.round = 1 THEN 2 ELSE 0
      [] pc \in LoginPCs -> 2
      [] pc \in SavingPCs -> IF job.from = "login" THEN 1
                             ELSE IF job.round = 1 THEN 2 ELSE 0

Busy == pc \notin {"off", "running"}

Counts ==
    /\ Len(owner) + Left <= 1 + 3 * starts
    /\ mishaps + (IF Busy THEN 1 ELSE 0) <= MaxMishaps + starts
    /\ Busy => starts >= 1

\* The token is on the disk, or about to be put back there.
Kept ==
    (stored /\ mishaps <= 1 /\ orphans = {}) =>
        IF pc = "installing" THEN bak # NoToken /\ tmp # NoToken ELSE target # NoToken

\* A session that ValidToken can carry on: its refresh token is good, for a client
\* that is tried.
Usable(t) ==
    /\ t # NoToken
    /\ t.id \in refreshable /\ isClientCompatible(owner[t.id])

Credit == due + mishaps - asked

\* Whoever must ask the user has something that went wrong to show for it.
Accounted ==
    /\ \A i \in refreshable : i <= near \/ i > dead
    /\ Credit >= 0
    /\ pc \notin {"checking", "waiting", "posting"} \cup SavingPCs =>
          Credit >= 1 \/ Usable(target)
    /\ pc = "refreshing" =>
          Credit >= 1 \/ (Usable(job.token) /\ \E i \in DOMAIN job.todo :
                                                   job.todo[i] = owner[job.token.id])
    /\ pc = "validating" =>
          Credit >= 1 \/ (Usable(job.token) /\ job.token.id > dead)
    /\ pc = "asking" => Credit >= 1
    /\ pc \in SavingPCs =>
          Credit >= 1 \/ (Usable(job.saving) /\ job.saving.id > dead)

AuthInv == Holdings /\ Stages /\ SecondRound /\ Matched /\ Counts /\ Kept /\ Accounted

-----------------------------------------------------------------------------
(* What a state holds.                                                       *)

LEMMA IssuedFields ==
    ASSUME owner \in Seq(Clients), NEW t \in Issued
    PROVE  /\ t \in Tokens /\ t # NoToken
           /\ t.id \in 1..Len(owner) /\ t.id \in Nat
           /\ owner[t.id] \in Clients
           /\ t.client \in {owner[t.id], NoClient}
  BY TokensAssumption DEF Issued

LEMMA JobFields ==
    ASSUME job \in Jobs
    PROVE  /\ job.cmd \in {"none", "run", "login"} /\ job.round \in 0..2
           /\ {job.token, job.fresh, job.saving} \subseteq MaybeIssued
           /\ job.todo \in Seq(Clients)
           /\ job.from \in {"none", "refresh", "client", "login"}
           /\ job.overdue \in BOOLEAN
  BY DEF Jobs, JobsWith, Rounds

LEMMA IssuedNext ==
    ASSUME NEW t \in Issued' PROVE t # NoToken
  BY TokensAssumption DEF Issued

\* What was issued stays issued when the service issues more, or nothing.
LEMMA StillIssued ==
    ASSUME owner \in Seq(Clients),
           owner' = owner \/ \E c \in Clients : owner' = Append(owner, c)
    PROVE  /\ Issued \subseteq Issued' /\ owner' \in Seq(Clients)
           /\ Len(owner) <= Len(owner')
           /\ \A i \in 1..Len(owner) : owner'[i] = owner[i]
<1>1. CASE owner' = owner
  BY <1>1 DEF Issued
<1>2. ASSUME NEW c \in Clients, owner' = Append(owner, c)
      PROVE  /\ Issued \subseteq Issued' /\ owner' \in Seq(Clients)
             /\ Len(owner) <= Len(owner')
             /\ \A i \in 1..Len(owner) : owner'[i] = owner[i]
  <2>1. /\ owner' \in Seq(Clients) /\ Len(owner') = Len(owner) + 1
        /\ \A i \in 1..Len(owner) : owner'[i] = owner[i]
    BY <1>2
  <2>2. Issued \subseteq Issued'
    BY <2>1 DEF Issued
  <2> QED BY <2>1, <2>2
<1> QED
  BY <1>1, <1>2

LEMMA NothingTodo == <<>> \in Seq(Clients)
  OBVIOUS

LEMMA ShorterTail ==
    ASSUME NEW s \in Seq(Clients), s # <<>>, Len(s) # 1
    PROVE  Tail(s) # <<>>
<1>1. Len(Tail(s)) = Len(s) - 1 /\ Len(s) \in Nat /\ Len(s) # 0
  OBVIOUS
<1>2. Len(Tail(s)) # 0
  BY <1>1
<1>3. Len(<<>>) = 0
  OBVIOUS
<1> QED
  BY <1>2, <1>3

LEMMA IdleJob == ASSUME NEW T, NoToken \in T PROVE Idle \in JobsWith(T)
  BY NothingTodo DEF Idle, JobsWith, Rounds

\* The records a process continues with are again jobs.
LEMMA RecordSteps ==
    ASSUME NEW T, NEW j \in JobsWith(T), NEW k
    PROVE  /\ k = [j EXCEPT !.cmd = "run"] => k \in JobsWith(T)
           /\ \A cmd \in {"run", "login"}, r \in Rounds :
                 k = [j EXCEPT !.cmd = cmd, !.round = r] => k \in JobsWith(T)
           /\ \A t \in T, r \in Rounds :
                 k = [j EXCEPT !.cmd = "run", !.round = r, !.fresh = t] => k \in JobsWith(T)
<1>1. k = [j EXCEPT !.cmd = "run"] => k \in JobsWith(T)
  BY DEF JobsWith
<1>2. ASSUME NEW cmd \in {"run", "login"}, NEW r \in Rounds,
             k = [j EXCEPT !.cmd = cmd, !.round = r]
      PROVE  k \in JobsWith(T)
  BY <1>2 DEF JobsWith
<1>3. ASSUME NEW t \in T, NEW r \in Rounds,
             k = [j EXCEPT !.cmd = "run", !.round = r, !.fresh = t]
      PROVE  k \in JobsWith(T)
  BY <1>3 DEF JobsWith
<1> QED
  BY <1>1, <1>2, <1>3

LEMMA AuthInitInv == AuthInit => AuthInv
<1> SUFFICES ASSUME AuthInit PROVE AuthInv
  OBVIOUS
<1>0. /\ configured \in Clients /\ pc = "off" /\ job = Idle /\ used = NoToken
      /\ bak = NoToken /\ tmp = NoToken /\ orphans = {} /\ near = 0 /\ dead = 0
      /\ refreshable = 1..Len(owner) /\ starts = 0 /\ mishaps = 0 /\ asked = 0
      /\ due \in {0, 1}
      /\ due = 1 \/ (target # NoToken /\ isClientCompatible(owner[1]))
      /\ stored = (target # NoToken)
  BY DEF AuthInit
<1>1. /\ owner \in Seq(Clients) /\ target \in MaybeIssued
      /\ Len(owner) \in {0, 1}
      /\ target # NoToken => Len(owner) = 1 /\ target.id = 1
  <2>1. CASE target = NoToken /\ owner = <<>>
    BY <2>1 DEF MaybeIssued
  <2>2. ASSUME NEW c \in Clients, owner = <<c>>, target \in [id : {1}, client : {c, NoClient}]
        PROVE  /\ owner \in Seq(Clients) /\ target \in MaybeIssued
               /\ Len(owner) = 1 /\ target.id = 1
    <3>1. owner \in Seq(Clients) /\ Len(owner) = 1 /\ owner[1] = c
      BY <2>2
    <3>2. target \in Tokens
      BY <2>2, SignInBounds DEF Tokens, Ids
    <3>3. target \in Issued
      BY <2>2, <3>1, <3>2 DEF Issued
    <3> QED BY <2>2, <3>1, <3>3 DEF MaybeIssued
  <2> QED BY <2>1, <2>2 DEF AuthInit
<1>2. pc = "off" /\ job \in Jobs
  BY <1>0, IdleJob DEF Jobs, MaybeIssued
<1>3. Holdings
  <2>1. {target, bak, tmp} \subseteq MaybeIssued /\ orphans \subseteq Issued
    BY <1>0, <1>1 DEF MaybeIssued
  <2>2. /\ near \in 0..Len(owner) /\ dead \in 0..Len(owner)
        /\ refreshable \subseteq 1..Len(owner)
    BY <1>0, <1>1
  <2>3. /\ starts \in 0..MaxStarts /\ mishaps \in Nat
        /\ asked \in Nat /\ due \in 0..(starts + 1) /\ stored \in BOOLEAN
    BY <1>0, SignInBounds
  <2> QED BY <1>0, <1>1, <1>2, <2>1, <2>2, <2>3 DEF Holdings
<1>4. Stages /\ SecondRound /\ Matched
  <2>1. pc = "off" /\ used = NoToken
    BY <1>0
  <2>2. pc \notin LoginPCs \cup ValidPCs \cup SavingPCs
    BY <2>1 DEF LoginPCs, ValidPCs, SavingPCs
  <2>3. Stages
    BY <2>1, <2>2 DEF Stages, LoginPCs, ValidPCs, SavingPCs
  <2>4. SecondRound
    BY <2>2 DEF SecondRound
  <2>5. Matched
    BY <2>1 DEF Matched
  <2> QED BY <2>3, <2>4, <2>5
<1>5. Counts
  <2>1. Left = 0 /\ starts = 0 /\ mishaps = 0
    BY <1>0 DEF Left, LoginPCs, SavingPCs
  <2>2. Len(owner) + Left <= 1 + 3 * starts
    <3>1. Len(owner) = 0 \/ Len(owner) = 1
      BY <1>1, Zenon
    <3> DEFINE n == Len(owner)
    <3>2. n = 0 \/ n = 1
      BY <3>1
    <3> HIDE DEF n
    <3>3. n + Left <= 1 + 3 * starts
      BY <2>1, <3>2
    <3> QED BY <3>3 DEF n
  <2>3. mishaps + 0 <= MaxMishaps + starts
    BY <2>1, SignInBounds
  <2> QED BY <1>0, <2>2, <2>3 DEF Counts, Busy
<1>6. Kept
  BY <1>0 DEF Kept
<1>7. Accounted
  <2>1. refreshable = 1..Len(owner) /\ near = 0 /\ dead = 0 /\ Credit = due + 0 - 0
    BY <1>0 DEF Credit
  <2>3. due = 1 \/ Usable(target)
    BY <1>0, <1>1 DEF Usable
  <2>4. \A i \in refreshable : i <= near \/ i > dead
    BY <1>0, <1>1
  <2>5. Credit >= 0 /\ (Credit >= 1 \/ Usable(target))
    BY <1>0, <2>1, <2>3
  <2> QED BY <1>0, <2>4, <2>5 DEF Accounted, SavingPCs
<1> QED
  BY <1>3, <1>4, <1>5, <1>6, <1>7 DEF AuthInv

-----------------------------------------------------------------------------
(* Types and stages.                                                         *)

\* What the service issues in a step.
NewToken(c) ==
    /\ owner' = Append(owner, c) /\ UNCHANGED <<near, dead>>
    /\ \/ Exchange /\ c = Head(job.todo)
       \/ Grant /\ c = configured

LEMMA RefreshIssues ==
    ASSUME AuthInv, Refresh \/ RefreshLost
    PROVE  Head(job.todo) \in Clients /\ NewToken(Head(job.todo))
<1>1. Exchange /\ UNCHANGED <<near, dead>> /\ pc = "refreshing"
  BY DEF Refresh, RefreshLost, Exchange
<1>2. job.todo \in Seq(Clients) /\ job.todo # <<>>
  BY <1>1, JobFields DEF AuthInv, Holdings, Stages
<1> QED
  BY <1>1, <1>2 DEF NewToken, Exchange, Issue

LEMMA GrantIssues ==
    ASSUME AuthInv, PollGranted \/ PollGrantLost
    PROVE  configured \in Clients /\ NewToken(configured)
<1>1. Grant /\ UNCHANGED <<near, dead>>
  BY DEF PollGranted, PollGrantLost
<1> QED
  BY <1>1 DEF NewToken, Grant, Issue, AuthInv, Holdings

LEMMA OwnerStep ==
    ASSUME AuthInv, [AuthNext]_authVars
    PROVE  owner' = owner \/ \E c \in Clients : NewToken(c)
<1>1. CASE Refresh \/ RefreshLost
  BY <1>1, RefreshIssues
<1>2. CASE PollGranted \/ PollGrantLost
  BY <1>2, GrantIssues
<1>3. CASE LoadFails \/ Load \/ RefreshFails \/ Validate \/ ValidateFails
           \/ requestDeviceCode \/ CheckDeadline \/ SleepOver \/ PollPending \/ PollFails
  BY <1>3 DEF LoadFails, Load, RefreshFails, Validate, ValidateFails, requestDeviceCode,
     CheckDeadline, SleepOver, PollPending, PollFails, service
<1>4. CASE WriteTemp \/ DropBackup \/ Backup \/ Install \/ SaveFails \/ InstallFails \/ Saved
  BY <1>4 DEF WriteTemp, DropBackup, Backup, Install, SaveFails, InstallFails, Saved, service
<1>5. CASE \/ \E cmd \in {"run", "login"} : Start(cmd)
           \/ Stop \/ Crash \/ Age \/ Expire \/ Revoke \/ CodeExpires \/ UNCHANGED authVars
  BY <1>5 DEF Start, Stop, Crash, Age, Expire, Revoke, CodeExpires, service, authVars
<1> QED
  BY <1>1, <1>2, <1>3, <1>4, <1>5 DEF AuthNext, Process

\* A step in which a token is issued has room for it.
LEMMA Room ==
    ASSUME AuthInv, NEW c \in Clients, NewToken(c)
    PROVE  /\ Len(owner) \in Nat /\ Len(owner) < 1 + 3 * MaxStarts
           /\ [id |-> Len(owner) + 1, client |-> c] \in Issued'
           /\ owner'[Len(owner) + 1] = c
           /\ refreshable' \subseteq 1..(Len(owner) + 1)
           /\ Len(owner) + 1 \in refreshable'
<1>0. /\ owner \in Seq(Clients) /\ Len(owner) \in Nat /\ starts \in 0..MaxStarts
      /\ refreshable \subseteq 1..Len(owner)
  BY DEF AuthInv, Holdings
<1>1. Left >= 1 /\ Left \in Nat
  <2>1. CASE Exchange
    <3>1. pc = "refreshing" /\ job.token.id \in refreshable
      BY <2>1 DEF Exchange, Exchangeable
    <3> QED BY <3>1 DEF Left, LoginPCs, SavingPCs
  <2>2. CASE Grant
    <3>1. pc = "posting"
      BY <2>2 DEF Grant
    <3> QED BY <3>1 DEF Left, LoginPCs, SavingPCs
  <2> QED BY <2>1, <2>2 DEF NewToken
<1>2. Len(owner) + Left <= 1 + 3 * starts
  BY DEF AuthInv, Counts
<1>3. Len(owner) < 1 + 3 * MaxStarts
  BY <1>0, <1>1, <1>2, SignInBounds
<1>4. /\ owner' = Append(owner, c) /\ Len(owner') = Len(owner) + 1
      /\ owner'[Len(owner) + 1] = c
  BY <1>0 DEF NewToken
<1>5. Len(owner) + 1 \in Ids
  BY <1>0, <1>3, SignInBounds DEF Ids
<1>6. [id |-> Len(owner) + 1, client |-> c] \in Issued'
  <2> DEFINE t == [id |-> Len(owner) + 1, client |-> c]
  <2>1. t \in Tokens /\ t.id = Len(owner) + 1 /\ t.client = c
    BY <1>5 DEF Tokens
  <2>2. t.id \in 1..Len(owner') /\ t.client \in {owner'[t.id], NoClient}
    BY <1>0, <1>4, <2>1
  <2> HIDE DEF t
  <2>3. t \in Issued'
    BY <2>1, <2>2 DEF Issued
  <2> QED BY <2>3 DEF t
<1>7. refreshable' \subseteq 1..(Len(owner) + 1) /\ Len(owner) + 1 \in refreshable'
  <2> DEFINE n == Len(owner)
             old == refreshable \ {job.token.id}
  <2>1. n \in Nat /\ refreshable \subseteq 1..n /\ old \subseteq 1..n
    BY <1>0
  <2>2. refreshable' = old \cup {n + 1} \/ refreshable' = refreshable \cup {n + 1}
    BY DEF NewToken, Exchange, Grant
  <2> HIDE DEF n, old
  <2>3. 1..n \subseteq 1..(n + 1) /\ n + 1 \in 1..(n + 1)
    BY <2>1
  <2>4. refreshable' \subseteq 1..(n + 1) /\ n + 1 \in refreshable'
    BY <2>1, <2>2, <2>3
  <2> QED BY <2>4 DEF n
<1> QED
  BY <1>0, <1>3, <1>4, <1>6, <1>7

LEMMA NextJob == ASSUME AuthInv, [AuthNext]_authVars PROVE job' \in Jobs'
<1> USE DEF Goto, Exit, Set
<1> DEFINE T == MaybeIssued'
<1>0. Holdings /\ Stages /\ job \in Jobs /\ owner \in Seq(Clients) /\ target \in MaybeIssued
  BY DEF AuthInv, Holdings
<1>1. MaybeIssued \subseteq T /\ NoToken \in T
  BY <1>0, StillIssued, OwnerStep DEF NewToken, MaybeIssued
<1>2. /\ job \in JobsWith(T) /\ Idle \in JobsWith(T)
      /\ target \in T /\ job.saving \in T /\ job.token \in MaybeIssued
  <2>1. job \in JobsWith(MaybeIssued)
    BY <1>0 DEF Jobs
  <2> QED BY <1>0, <1>1, <2>1, IdleJob DEF JobsWith
<1>3. \A c \in Clients : NewToken(c) => [id |-> Len(owner) + 1, client |-> c] \in T
  BY Room DEF MaybeIssued
<1> HIDE DEF T
<1> SUFFICES job' \in JobsWith(T)
  BY DEF T, Jobs
<1>4. CASE job' = job \/ job' = Idle \/ job' = [Idle EXCEPT !.cmd = "run"]
  <2>1. CASE job' = [Idle EXCEPT !.cmd = "run"]
    BY <1>2, <2>1, RecordSteps
  <2> QED BY <1>2, <1>4, <2>1
<1>5. CASE \E cmd \in {"run", "login"} : Start(cmd)
  <2>1. PICK r \in Rounds : r = 1
    BY DEF Rounds
  <2>2. PICK cmd \in {"run", "login"} : job' = [Idle EXCEPT !.cmd = cmd, !.round = r]
    BY <1>5, <2>1 DEF Start
  <2> QED BY <1>2, <2>2, RecordSteps
<1>6. CASE CodeExpires
  BY <1>2, <1>6 DEF CodeExpires, JobsWith
<1>7. CASE Load
  <2>1. target \in Issued
    BY <1>0, <1>7 DEF Load, MaybeIssued
  <2>2. refreshClientCandidates(target.client) \in Seq(Clients)
    BY <1>0, <2>1, CandidatesCover, IssuedFields DEF Holdings
  <2> HIDE DEF Set
  <2>3. \/ job' = [job EXCEPT !.token = target,
                            !.todo = refreshClientCandidates(target.client)]
        \/ job' = [job EXCEPT !["token"] = target]
    BY <1>7 DEF Load, Set
  <2> QED BY <1>2, <2>2, <2>3 DEF JobsWith
<1>8. CASE NextCandidate /\ pc = "refreshing"
  <2>1. job.todo \in Seq(Clients) /\ job.todo # <<>>
    BY <1>0, <1>8, JobFields DEF Stages
  <2>2. Tail(job.todo) \in Seq(Clients)
    BY <2>1
  <2> QED BY <1>2, <1>8, <2>2 DEF NextCandidate, JobsWith
<1>9. CASE Refresh
  <2> DEFINE t == [id |-> Len(owner) + 1, client |-> Head(job.todo)]
  <2>1. t \in T
    BY <1>3, <1>9, RefreshIssues
  <2>2. job' = [job EXCEPT !.saving = t, !.from = "refresh", !.todo = <<>>]
    BY <1>9 DEF Refresh
  <2> HIDE DEF t
  <2> QED BY <1>2, <2>1, <2>2, NothingTodo DEF JobsWith
<1>10. CASE PollGranted
  <2> DEFINE t == [id |-> Len(owner) + 1, client |-> configured]
  <2>1. t \in T
    BY <1>3, <1>10, GrantIssues
  <2>2. job' = [job EXCEPT !.from = "login", !.saving = t]
    BY <1>10 DEF PollGranted
  <2> HIDE DEF t
  <2> QED BY <1>2, <2>1, <2>2 DEF JobsWith
<1>11. CASE Validate
  <2> DEFINE c == owner[job.token.id]
             t == [job.token EXCEPT !.client = c]
  <2>1. job.token \in Issued
    BY <1>0, <1>11 DEF Validate, Stages
  <2>2. t \in T /\ t.client = c
    <3>1. job.token.id \in 1..Len(owner) /\ c \in Clients
      BY <1>0, <2>1, IssuedFields
    <3>2. t \in Tokens /\ t.id = job.token.id /\ t.client = c
      BY <2>1, <3>1 DEF Issued, Tokens
    <3> HIDE DEF t, c
    <3>3. t \in Issued
      BY <3>1, <3>2 DEF Issued, c
    <3> QED BY <1>1, <3>2, <3>3 DEF MaybeIssued
  <2>3. CASE job.token.client = c
    <3>1. Valid(job.token)
      BY <1>11, <2>3 DEF Validate
    <3> QED BY <1>4, <3>1 DEF Valid
  <2>4. CASE job.token.client # c
    <3>1. job' = [job EXCEPT !.token.client = c, !.from = "client", !.saving = t]
      BY <1>11, <2>4 DEF Validate
    <3>2. job' = [job EXCEPT !.token = t, !.from = "client", !.saving = t]
      BY <1>2, <3>1 DEF JobsWith
    <3> HIDE DEF t
    <3> QED BY <1>2, <2>2, <3>2 DEF JobsWith
  <2> QED BY <2>3, <2>4
<1>12. CASE Saved
  <2>1. CASE job.from = "client"
    BY <1>4, <1>12, <2>1 DEF Saved, Valid
  <2>2. CASE job.from = "refresh"
    <3>1. job' = [job EXCEPT !.token = job.saving, !.saving = NoToken]
      BY <1>12, <2>2 DEF Saved
    <3> DEFINE t == job.saving
    <3>2. t \in T /\ job' = [job EXCEPT !.token = t, !.saving = NoToken]
      BY <1>2, <3>1
    <3> HIDE DEF t
    <3> QED BY <1>1, <1>2, <3>2 DEF JobsWith
  <2>3. CASE job.from = "login"
    <3>1. job' = Idle \/ job' = [Idle EXCEPT !.cmd = "run", !.round = 2, !.fresh = job.saving]
      BY <1>12, <2>3 DEF Saved
    <3> DEFINE t == job.saving
    <3>2. PICK r \in Rounds : r = 2
      BY DEF Rounds
    <3>3. /\ t \in T
          /\ job' = Idle \/ job' = [Idle EXCEPT !.cmd = "run", !.round = r, !.fresh = t]
      BY <1>2, <3>1, <3>2
    <3> HIDE DEF t
    <3> QED BY <1>2, <3>3, RecordSteps
  <2>4. job.from # "none"
    BY <1>0, <1>12 DEF Saved, Stages, SavingPCs
  <2> QED BY <1>0, <2>1, <2>2, <2>3, <2>4, JobFields
<1>13. CASE LoadFails \/ ValidateFails \/ SaveFails \/ InstallFails
  BY <1>4, <1>13 DEF LoadFails, ValidateFails, SaveFails, InstallFails, SaveFailed, Invalid, Valid
<1>14. CASE RefreshLost \/ RefreshFails
  BY <1>8, <1>14 DEF RefreshLost, RefreshFails, Exchange
<1>15. CASE requestDeviceCode \/ CheckDeadline \/ SleepOver \/ PollPending \/ PollGrantLost
            \/ PollFails \/ WriteTemp \/ DropBackup \/ Backup \/ Install
  BY <1>4, <1>15 DEF requestDeviceCode, CheckDeadline, SleepOver, PollPending, PollGrantLost,
     PollFails, WriteTemp, DropBackup, Backup, Install
<1>16. CASE Stop \/ Crash \/ Age \/ Expire \/ Revoke \/ UNCHANGED authVars
  BY <1>4, <1>16 DEF Stop, Crash, Age, Expire, Revoke, authVars
<1> QED
  BY <1>5, <1>6, <1>7, <1>9, <1>10, <1>11, <1>12, <1>13, <1>14, <1>15, <1>16
     DEF AuthNext, Process

\* What the steps do to the fields of the job.
LEMMA JobSteps ==
    ASSUME AuthInv, [AuthNext]_authVars
    PROVE  /\ \A cmd \in {"run", "login"} : Start(cmd) => job'.round = 1
           /\ Load => /\ job'.token = target /\ job'.round = job.round /\ job'.fresh = job.fresh
                      /\ target.id <= near =>
                            job'.todo = refreshClientCandidates(target.client)
           /\ NextCandidate =>
                 /\ job'.todo = Tail(job.todo) /\ job'.token = job.token
                 /\ job'.round = job.round /\ job'.fresh = job.fresh
           /\ CodeExpires => job'.round = job.round
           /\ Refresh => /\ job'.saving.id = Len(owner) + 1 /\ job'.saving.client = Head(job.todo)
                         /\ job'.from = "refresh" /\ job'.round = job.round /\ job'.fresh = job.fresh
           /\ PollGranted =>
                 /\ job'.saving.id = Len(owner) + 1 /\ job'.saving.client = configured
                 /\ job'.from = "login" /\ job'.round = job.round
<1> USE DEF Goto, Set
<1>0. job \in JobsWith(MaybeIssued)
  BY DEF AuthInv, Holdings, Jobs
<1>1. ASSUME NEW cmd \in {"run", "login"}, Start(cmd) PROVE job'.round = 1
  BY <1>1 DEF Start, Idle
<1>2. ASSUME Load
      PROVE  /\ job'.token = target /\ job'.round = job.round /\ job'.fresh = job.fresh
             /\ target.id <= near => job'.todo = refreshClientCandidates(target.client)
  BY <1>0, <1>2 DEF Load, JobsWith
<1>3. ASSUME NextCandidate
      PROVE  /\ job'.todo = Tail(job.todo) /\ job'.token = job.token
             /\ job'.round = job.round /\ job'.fresh = job.fresh
  BY <1>0, <1>3 DEF NextCandidate, JobsWith
<1>4. ASSUME CodeExpires PROVE job'.round = job.round
  BY <1>0, <1>4 DEF CodeExpires, JobsWith
<1>5. ASSUME Refresh
      PROVE  /\ job'.saving.id = Len(owner) + 1 /\ job'.saving.client = Head(job.todo)
             /\ job'.from = "refresh" /\ job'.round = job.round /\ job'.fresh = job.fresh
  BY <1>0, <1>5 DEF Refresh, JobsWith
<1>6. ASSUME PollGranted
      PROVE  /\ job'.saving.id = Len(owner) + 1 /\ job'.saving.client = configured
             /\ job'.from = "login" /\ job'.round = job.round
  BY <1>0, <1>6 DEF PollGranted, JobsWith
<1> QED
  BY <1>1, <1>2, <1>3, <1>4, <1>5, <1>6

\* A token that is good either is returned, or is saved first under its client.
LEMMA ValidateSteps ==
    ASSUME AuthInv, Validate
    PROVE  \/ job.token.client = owner[job.token.id] /\ Valid(job.token)
           \/ /\ pc' = "writing" /\ UNCHANGED used
              /\ job'.saving.id = job.token.id /\ job'.saving.client = owner[job.token.id]
              /\ job'.token = job'.saving /\ job'.saving \in Issued
              /\ job'.from = "client" /\ job'.round = job.round /\ job'.fresh = job.fresh
<1>0. job \in JobsWith(MaybeIssued) /\ job.token \in Issued
  BY DEF AuthInv, Holdings, Jobs, Stages, Validate
<1>1. CASE job.token.client = owner[job.token.id]
  BY <1>1 DEF Validate
<1>2. CASE job.token.client # owner[job.token.id]
  <2> DEFINE c == owner[job.token.id]
             t == [job.token EXCEPT !.client = c]
  <2>1. /\ job' = [job EXCEPT !.token.client = c, !.from = "client", !.saving = t]
        /\ pc' = "writing" /\ UNCHANGED used
    BY <1>2 DEF Validate, Goto
  <2>2. job' = [job EXCEPT !.token = t, !.from = "client", !.saving = t]
    BY <1>0, <2>1 DEF JobsWith
  <2>3. t \in Tokens /\ t.id = job.token.id /\ t.client = c
    BY <1>0, IssuedFields DEF Issued, Tokens, AuthInv, Holdings
  <2>5. t.id \in 1..Len(owner) /\ t.client = owner[t.id]
    BY <1>0, <2>3, IssuedFields DEF AuthInv, Holdings
  <2> HIDE DEF t
  <2>6. t \in Issued
    BY <2>3, <2>5 DEF Issued
  <2> HIDE DEF c
  <2>4. /\ job'.saving = t /\ job'.token = t /\ job'.from = "client"
        /\ job'.round = job.round /\ job'.fresh = job.fresh
    BY <1>0, <2>2 DEF JobsWith
  <2> QED BY <2>1, <2>3, <2>4, <2>6 DEF c
<1> QED
  BY <1>1, <1>2

\* What Save returns to.
LEMMA SavedSteps ==
    ASSUME AuthInv, Saved
    PROVE  \/ job.from = "client" /\ Valid(job.token)
           \/ /\ job.from = "refresh" /\ pc' = "validating" /\ UNCHANGED used
              /\ job'.token = job.saving
              /\ job'.round = job.round /\ job'.fresh = job.fresh
           \/ job.from = "login" /\ pc' = "off" /\ UNCHANGED used
           \/ /\ job.from = "login" /\ pc' = "loading" /\ UNCHANGED used
              /\ job'.fresh = job.saving /\ job'.round = 2
<1>0. job \in JobsWith(MaybeIssued) /\ job.from \in {"refresh", "client", "login"}
  BY JobFields DEF AuthInv, Holdings, Jobs, Stages, Saved, SavingPCs
<1>1. CASE job.from = "client"
  BY <1>1 DEF Saved
<1>2. CASE job.from = "refresh"
  <2>1. /\ job' = [job EXCEPT !.token = job.saving, !.saving = NoToken]
        /\ pc' = "validating" /\ UNCHANGED used
    BY <1>2 DEF Saved, Goto
  <2>2. job'.token = job.saving /\ job'.round = job.round /\ job'.fresh = job.fresh
    BY <1>0, <2>1 DEF JobsWith
  <2> QED BY <1>2, <2>1, <2>2
<1>3. CASE job.from = "login" /\ job.cmd = "login"
  BY <1>3 DEF Saved, Exit
<1>4. CASE job.from = "login" /\ job.cmd # "login"
  <2>1. /\ job' = [Idle EXCEPT !.cmd = "run", !.round = 2, !.fresh = job.saving]
        /\ pc' = "loading" /\ UNCHANGED used
    BY <1>4 DEF Saved, Goto
  <2>2. job'.round = 2 /\ job'.fresh = job.saving
    BY <2>1 DEF Idle
  <2> QED BY <1>4, <2>1, <2>2
<1> QED
  BY <1>0, <1>1, <1>2, <1>3, <1>4

\* What the steps leave alone, and where the files and the counters go.
LEMMA PlainSteps ==
    ASSUME AuthInv, [AuthNext]_authVars
    PROVE  /\ configured' \in Clients
           /\ \/ UNCHANGED <<configured, due>>
              \/ \E cmd \in {"run", "login"} : Start(cmd)
           /\ due' = due \/ (due' = due + 1 /\ starts' = starts + 1)
           /\ pc' \in {"off", "running"} \cup SavingPCs \cup LoginPCs \cup ValidPCs
           /\ target' \in {target, tmp, bak, NoToken} /\ bak' \in {bak, target, NoToken}
           /\ tmp' \in {tmp, job.saving, NoToken}
           /\ orphans' = orphans \/ orphans' = orphans \cup ({tmp} \ {NoToken})
           /\ near' \in {near, Len(owner)} /\ dead' \in {dead, near, Len(owner)}
           /\ \/ refreshable' = refreshable \/ refreshable' = {}
              \/ owner' # owner
           /\ starts' = starts \/ (starts < MaxStarts /\ starts' = starts + 1)
           /\ mishaps' \in {mishaps, mishaps + 1, mishaps + 2}
           /\ asked' \in {asked, asked + 1} /\ stored' \in {stored, TRUE}
<1> USE DEF Goto, Exit, Mishap, Invalid, SavingPCs, LoginPCs, ValidPCs
<1>0. /\ pc \in {"off", "running"} \cup SavingPCs \cup LoginPCs \cup ValidPCs
      /\ configured \in Clients
  BY DEF AuthInv, Holdings
<1>1. CASE Refresh \/ RefreshLost
  <2>1. owner' # owner
    <3>1. owner \in Seq(Clients) /\ Head(job.todo) \in Clients
      BY <1>1, RefreshIssues DEF AuthInv, Holdings
    <3>2. owner' = Append(owner, Head(job.todo))
      BY <1>1 DEF Refresh, RefreshLost, Exchange, Issue
    <3> QED BY <3>1, <3>2
  <2> QED BY <1>0, <1>1, <2>1 DEF Refresh, RefreshLost, Exchange, NextCandidate, disk, history
<1>2. CASE PollGranted \/ PollGrantLost
  <2>1. owner' # owner
    <3>1. owner \in Seq(Clients) /\ configured \in Clients
      BY DEF AuthInv, Holdings
    <3>2. owner' = Append(owner, configured)
      BY <1>2 DEF PollGranted, PollGrantLost, Grant, Issue
    <3> QED BY <3>1, <3>2
  <2> QED BY <1>0, <1>2, <2>1 DEF PollGranted, PollGrantLost, Grant, disk, history
<1>3. CASE LoadFails \/ Load \/ RefreshFails
  BY <1>0, <1>3 DEF LoadFails, Load, RefreshFails, NextCandidate, disk, service, history
<1>4. CASE Validate \/ ValidateFails
  BY <1>0, <1>4 DEF Validate, ValidateFails, Valid, disk, service, history
<1>5. CASE requestDeviceCode \/ CheckDeadline \/ SleepOver \/ PollPending \/ PollFails
  BY <1>0, <1>5 DEF requestDeviceCode, CheckDeadline, SleepOver, PollPending, PollFails,
     disk, service, history
<1>6. CASE WriteTemp \/ DropBackup \/ Backup \/ Install
  BY <1>0, <1>6 DEF WriteTemp, DropBackup, RemoveBackup, Backup, Install, service, history
<1>7. CASE SaveFails \/ InstallFails
  BY <1>0, <1>7 DEF SaveFails, InstallFails, SaveFailed, Valid, service, history
<1>8. CASE Saved
  BY <1>0, <1>8 DEF Saved, RemoveBackup, Valid, service, history
<1>9. CASE \E cmd \in {"run", "login"} : Start(cmd)
  <2>1. PICK cmd \in {"run", "login"} : Start(cmd)
    BY <1>9
  <2>2. /\ configured' \in Clients /\ starts < MaxStarts /\ starts' = starts + 1
        /\ due' \in {due, due + 1} /\ pc' = "loading"
        /\ UNCHANGED <<target, bak, tmp, orphans, near, dead, refreshable, mishaps, asked,
                       stored>>
    BY <2>1 DEF Start, disk, service
  <2> QED BY <1>9, <2>2
<1>10. CASE Stop \/ Crash \/ CodeExpires
  BY <1>0, <1>10 DEF Stop, Crash, CodeExpires, disk, service, history
<1>11. CASE Age \/ Expire \/ Revoke \/ UNCHANGED authVars
  BY <1>0, <1>11 DEF Age, Expire, Revoke, authVars, disk, service, history
<1> QED
  BY <1>1, <1>2, <1>3, <1>4, <1>5, <1>6, <1>7, <1>8, <1>9, <1>10, <1>11
     DEF AuthNext, Process

LEMMA NextHoldings == ASSUME AuthInv, [AuthNext]_authVars PROVE Holdings'
<1>0. /\ owner \in Seq(Clients) /\ Holdings
      /\ job.saving \in MaybeIssued
  BY JobFields DEF AuthInv, Holdings
<1>1. /\ owner' = owner \/ \E c \in Clients : NewToken(c)
      /\ Issued \subseteq Issued' /\ owner' \in Seq(Clients) /\ Len(owner) <= Len(owner')
  BY <1>0, OwnerStep, StillIssued DEF NewToken
<1>2. configured' \in Clients
      /\ pc' \in {"off", "running"} \cup SavingPCs \cup LoginPCs \cup ValidPCs
  BY <1>0, PlainSteps DEF Holdings
<1>3. {target', bak', tmp'} \subseteq MaybeIssued' /\ orphans' \subseteq Issued'
  <2>1. {target, bak, tmp, job.saving, NoToken} \subseteq MaybeIssued'
        /\ orphans \cup ({tmp} \ {NoToken}) \subseteq Issued'
    BY <1>0, <1>1 DEF Holdings, MaybeIssued
  <2> QED BY <2>1, PlainSteps
<1>4. near' \in 0..Len(owner') /\ dead' \in 0..Len(owner')
  <2> DEFINE n == Len(owner)
             m == Len(owner')
  <2>1. n \in Nat /\ m \in Nat /\ n <= m /\ near \in 0..n /\ dead \in 0..n
    BY <1>0, <1>1 DEF Holdings
  <2>2. near' \in {near, n} /\ dead' \in {dead, near, n}
    BY PlainSteps
  <2> HIDE DEF n, m
  <2>3. near' \in 0..m /\ dead' \in 0..m
    BY <2>1, <2>2
  <2> QED BY <2>3 DEF m
<1>5. refreshable' \subseteq 1..Len(owner')
  <2>1. CASE owner' = owner
    BY <1>0, <2>1, PlainSteps DEF Holdings
  <2>2. ASSUME NEW c \in Clients, NewToken(c) PROVE refreshable' \subseteq 1..Len(owner')
    <3>1. owner' = Append(owner, c)
      BY <2>2 DEF NewToken
    <3>2. Len(owner') = Len(owner) + 1
      BY <1>0, <3>1
    <3> QED BY <2>2, <3>2, Room
  <2> QED BY <1>1, <2>1, <2>2
<1>6. /\ starts' \in 0..MaxStarts /\ mishaps' \in Nat
      /\ asked' \in Nat /\ due' \in 0..(starts' + 1) /\ stored' \in BOOLEAN
  <2>1. starts' \in 0..MaxStarts
    <3>1. starts \in 0..MaxStarts
      BY <1>0 DEF Holdings
    <3>2. starts' = starts \/ (starts < MaxStarts /\ starts' = starts + 1)
      BY PlainSteps
    <3> QED BY <3>1, <3>2, SignInBounds
  <2>2. mishaps' \in Nat /\ asked' \in Nat
    <3>1. mishaps \in Nat /\ asked \in Nat
      BY <1>0 DEF Holdings
    <3>2. mishaps' \in {mishaps, mishaps + 1, mishaps + 2} /\ asked' \in {asked, asked + 1}
      BY PlainSteps
    <3> QED BY <3>1, <3>2
  <2>3. due' \in 0..(starts' + 1) /\ stored' \in BOOLEAN
    <3>1. due \in 0..(starts + 1) /\ stored \in BOOLEAN /\ starts \in Nat
      BY <1>0, SignInBounds DEF Holdings
    <3>2. /\ due' = due \/ (due' = due + 1 /\ starts' = starts + 1)
          /\ starts' = starts \/ starts' = starts + 1
          /\ stored' \in {stored, TRUE}
      BY PlainSteps
    <3>3. due' \in 0..(starts' + 1)
      BY <3>1, <3>2, SMT
    <3>4. stored' \in BOOLEAN
      BY <3>1, <3>2, Zenon
    <3> QED BY <3>3, <3>4
  <2> QED BY <2>1, <2>2, <2>3
<1> QED
  BY <1>1, <1>2, <1>3, <1>4, <1>5, <1>6, NextJob DEF Holdings

\* A process that has ended, or is about to ask the user, holds nothing more to check.
LEMMA EndedOrAsking ==
    ASSUME pc' \in {"off", "running"} \/ (pc' = "asking" /\ job'.round = 1)
    PROVE  Stages' /\ SecondRound'
  BY DEF Stages, SecondRound, LoginPCs, ValidPCs, SavingPCs

\* What ValidToken and Save do when they fail.
LEMMA FailureSteps ==
    ASSUME AuthInv, LoadFails \/ ValidateFails \/ SaveFails \/ InstallFails
    PROVE  pc' \in {"off", "running"} \/ (pc' = "asking" /\ job'.round = 1)
  BY DEF LoadFails, ValidateFails, SaveFails, InstallFails, SaveFailed, Invalid, Valid, Goto, Exit

LEMMA StagesInProcess ==
    ASSUME AuthInv, [AuthNext]_authVars, UNCHANGED configured
    PROVE  Stages' /\ SecondRound'
<1> USE DEF Goto, Exit, Set
<1> DEFINE Good == Stages' /\ SecondRound'
<1>0. /\ Holdings /\ Stages /\ SecondRound /\ owner \in Seq(Clients)
      /\ job.round \in 0..2 /\ job.from \in {"none", "refresh", "client", "login"}
      /\ configured \in Clients /\ configured' = configured
  BY JobFields DEF AuthInv, Holdings
<1>1. \A t \in Issued : t \in Issued' /\ owner'[t.id] = owner[t.id]
  BY <1>0, StillIssued, OwnerStep, IssuedFields DEF NewToken
<1>2. CASE pc' \in {"off", "running"} \/ (pc' = "asking" /\ job'.round = 1)
  BY <1>2, EndedOrAsking
<1>3. CASE /\ UNCHANGED <<pc, target, tmp>>
           /\ \/ UNCHANGED job
              \/ pc \in {"checking", "waiting", "posting"} /\ job'.round = job.round
  <2>1. Stages'
    BY <1>0, <1>1, <1>3 DEF Stages, LoginPCs, ValidPCs, SavingPCs
  <2>2. SecondRound'
    BY <1>0, <1>1, <1>3 DEF SecondRound, LoginPCs, ValidPCs, SavingPCs
  <2> QED BY <2>1, <2>2
<1>4. CASE pc \in LoginPCs /\ pc' \in LoginPCs /\ UNCHANGED job
  <2>1. Stages'
    BY <1>0, <1>1, <1>4 DEF Stages, LoginPCs, ValidPCs, SavingPCs
  <2>2. SecondRound'
    BY <1>0, <1>1, <1>4 DEF SecondRound, LoginPCs, ValidPCs, SavingPCs
  <2> QED BY <2>1, <2>2
<1>5. ASSUME NEW cmd \in {"run", "login"}, Start(cmd) PROVE Good
  <2>1. pc' = "loading" /\ job'.round = 1
    BY <1>5, JobSteps DEF Start
  <2> QED BY <2>1 DEF Stages, SecondRound, LoginPCs, ValidPCs, SavingPCs
<1>6. CASE Load
  <2>1. /\ pc = "loading" /\ target \in Issued /\ pc' \in {"refreshing", "validating"}
        /\ job'.token = target /\ job'.round = job.round /\ job'.fresh = job.fresh
        /\ pc' = "refreshing" => job'.todo = refreshClientCandidates(target.client)
    BY <1>0, <1>6, JobSteps DEF Load, Holdings, MaybeIssued
  <2>2. target.client \in Clients \cup {NoClient}
    BY <1>0, <2>1, IssuedFields
  <2>3. pc' = "refreshing" => job'.todo # <<>>
    BY <1>0, <2>1, <2>2, CandidatesCover
  <2>4. Stages'
    BY <1>0, <1>1, <2>1, <2>3 DEF Stages, LoginPCs, ValidPCs, SavingPCs
  <2>5. SecondRound'
    BY <1>0, <1>1, <2>1 DEF SecondRound, ValidPCs, SavingPCs
  <2> QED BY <2>4, <2>5
<1>7. CASE RefreshLost \/ RefreshFails
  <2>1. /\ pc = "refreshing" /\ pc' \in {"refreshing", "validating"} /\ NextCandidate
        /\ job.todo \in Seq(Clients) /\ job.todo # <<>> /\ job.token \in Issued
    BY <1>0, <1>7, JobFields DEF RefreshLost, RefreshFails, Exchange, NextCandidate, Stages,
       Holdings
  <2>2. /\ job'.todo = Tail(job.todo) /\ job'.token = job.token
        /\ job'.round = job.round /\ job'.fresh = job.fresh
    BY <2>1, JobSteps
  <2>3. pc' = "refreshing" => job'.todo # <<>>
    <3>1. pc' = "refreshing" => Len(job.todo) # 1
      BY <2>1 DEF NextCandidate
    <3>2. Len(job.todo) # 1 => Tail(job.todo) # <<>>
      BY <2>1, ShorterTail
    <3> QED BY <2>2, <3>1, <3>2
  <2>4. Stages'
    BY <1>0, <1>1, <2>1, <2>2, <2>3 DEF Stages, LoginPCs, ValidPCs, SavingPCs
  <2>5. SecondRound'
    BY <1>0, <1>1, <2>1, <2>2 DEF SecondRound, ValidPCs, SavingPCs
  <2> QED BY <2>4, <2>5
<1>8. CASE Refresh
  <2> DEFINE c == Head(job.todo)
  <2>1. /\ pc = "refreshing" /\ pc' = "writing" /\ owner[job.token.id] = c
        /\ job.token \in Issued /\ c \in Clients /\ NewToken(c)
    BY <1>0, <1>8, RefreshIssues DEF Refresh, Exchange, Exchangeable, Stages
  <2>2. /\ job'.saving.id = Len(owner) + 1 /\ job'.saving.client = c
        /\ job'.from = "refresh" /\ job'.round = job.round /\ job'.fresh = job.fresh
    BY <1>8, JobSteps
  <2>3. job'.saving \in Issued' /\ owner'[job'.saving.id] = c
    <3>1. job'.saving = [id |-> Len(owner) + 1, client |-> c]
      BY <1>0, <1>8 DEF Refresh, Holdings, Jobs, JobsWith
    <3> QED BY <2>1, <2>2, <3>1, Room
  <2>4. Stages'
    BY <1>0, <2>1, <2>2, <2>3 DEF Stages, LoginPCs, ValidPCs, SavingPCs
  <2>5. job.round = 2 => c = configured
    BY <1>0, <2>1, IssuedFields, ClientsAssumption DEF SecondRound, ValidPCs
  <2>6. SecondRound'
    BY <1>0, <1>1, <2>1, <2>2, <2>5 DEF SecondRound, ValidPCs, SavingPCs
  <2> QED BY <2>4, <2>6
<1>9. CASE PollGranted
  <2>1. /\ pc = "posting" /\ pc' = "writing" /\ job.round = 1 /\ NewToken(configured)
    BY <1>0, <1>9, GrantIssues DEF PollGranted, Grant, Stages, LoginPCs
  <2>2. /\ job'.saving.id = Len(owner) + 1 /\ job'.saving.client = configured
        /\ job'.from = "login" /\ job'.round = job.round
    BY <1>9, JobSteps
  <2>3. job'.saving \in Issued' /\ owner'[job'.saving.id] = configured
    <3>1. job'.saving = [id |-> Len(owner) + 1, client |-> configured]
      BY <1>0, <1>9 DEF PollGranted, Holdings, Jobs, JobsWith
    <3> QED BY <1>0, <2>1, <2>2, <3>1, Room
  <2>4. Stages'
    BY <1>0, <2>1, <2>2, <2>3 DEF Stages, LoginPCs, ValidPCs, SavingPCs
  <2>5. SecondRound'
    BY <2>1, <2>2 DEF SecondRound
  <2> QED BY <2>4, <2>5
<1>10. CASE Validate
  <2>1. pc = "validating" /\ job.token \in Issued /\ owner' = owner
    BY <1>0, <1>10 DEF Validate, Stages, service
  <2>2. CASE Valid(job.token)
    BY <1>2, <2>2 DEF Valid
  <2>3. CASE /\ pc' = "writing" /\ UNCHANGED used
             /\ job'.saving.id = job.token.id /\ job'.saving.client = owner[job.token.id]
             /\ job'.token = job'.saving /\ job'.saving \in Issued
             /\ job'.from = "client" /\ job'.round = job.round /\ job'.fresh = job.fresh
    <3>1. job'.saving \in Issued'
      BY <1>1, <2>3
    <3>2. Stages'
      BY <1>0, <1>1, <2>1, <2>3, <3>1 DEF Stages, LoginPCs, ValidPCs, SavingPCs
    <3>3. job.round = 2 => owner[job.token.id] = configured
      BY <1>0, <2>1, IssuedFields, ClientsAssumption DEF SecondRound, ValidPCs
    <3>4. SecondRound'
      BY <1>0, <1>1, <2>1, <2>3, <3>3 DEF SecondRound, ValidPCs, SavingPCs
    <3> QED BY <3>2, <3>4
  <2> QED BY <1>10, <2>2, <2>3, ValidateSteps
<1>11. CASE WriteTemp \/ DropBackup \/ Backup \/ Install
  <2>1. /\ pc \in SavingPCs /\ pc' \in SavingPCs /\ UNCHANGED <<job, owner>>
        /\ pc' \in {"dropping", "backing", "installing"} => tmp' = job.saving
        /\ pc' = "cleaning" => target' = job.saving
    BY <1>0, <1>11 DEF WriteTemp, DropBackup, Backup, Install, Stages, SavingPCs, service
  <2>2. Stages'
    BY <1>0, <1>1, <2>1 DEF Stages, LoginPCs, ValidPCs, SavingPCs
  <2>3. SecondRound'
    BY <1>0, <1>1, <2>1 DEF SecondRound, ValidPCs, SavingPCs
  <2> QED BY <2>2, <2>3
<1>12. CASE Saved
  <2>1. /\ pc = "cleaning" /\ job.saving \in Issued /\ target = job.saving /\ target' = target
        /\ job.round \in {1, 2}
        /\ job.from = "login" => job.saving.client = configured
    BY <1>0, <1>12 DEF Saved, Stages, SavingPCs
  <2>2. CASE Valid(job.token) \/ pc' = "off"
    BY <1>2, <2>2 DEF Valid
  <2>3. CASE /\ job.from = "refresh" /\ pc' = "validating" /\ UNCHANGED used
             /\ job'.token = job.saving
             /\ job'.round = job.round /\ job'.fresh = job.fresh
    <3>1. Stages'
      BY <1>0, <1>1, <2>1, <2>3 DEF Stages, LoginPCs, ValidPCs, SavingPCs
    <3>2. SecondRound'
      BY <1>0, <1>1, <2>1, <2>3 DEF SecondRound, ValidPCs, SavingPCs
    <3> QED BY <3>1, <3>2
  <2>4. CASE /\ job.from = "login" /\ pc' = "loading" /\ UNCHANGED used
             /\ job'.fresh = job.saving /\ job'.round = 2
    <3>1. Stages'
      BY <1>0, <1>1, <2>1, <2>4 DEF Stages, LoginPCs, ValidPCs, SavingPCs
    <3>2. SecondRound'
      BY <1>0, <1>1, <2>1, <2>4 DEF SecondRound, ValidPCs, SavingPCs
    <3> QED BY <3>1, <3>2
  <2> QED BY <1>12, <2>2, <2>3, <2>4, SavedSteps
<1>13. CASE LoadFails \/ ValidateFails \/ SaveFails \/ InstallFails
  BY <1>2, <1>13, FailureSteps
<1>14. CASE requestDeviceCode \/ CheckDeadline \/ SleepOver \/ PollPending
  BY <1>2, <1>4, <1>14 DEF requestDeviceCode, CheckDeadline, SleepOver, PollPending, LoginPCs
<1>15. CASE PollGrantLost \/ PollFails \/ Stop \/ Crash
  BY <1>2, <1>15 DEF PollGrantLost, PollFails, Stop, Crash
<1>16. CASE Age \/ Expire \/ Revoke \/ CodeExpires \/ UNCHANGED authVars
  BY <1>3, <1>16, JobSteps DEF Age, Expire, Revoke, CodeExpires, authVars, disk
<1> QED
  BY <1>5, <1>6, <1>7, <1>8, <1>9, <1>10, <1>11, <1>12, <1>13, <1>14, <1>15, <1>16
     DEF AuthNext, Process

\* A new process, whatever its configuration, has nothing but the file.
LEMMA NextStages == ASSUME AuthInv, [AuthNext]_authVars PROVE Stages' /\ SecondRound'
<1>1. CASE UNCHANGED configured
  BY <1>1, StagesInProcess
<1>2. ASSUME NEW cmd \in {"run", "login"}, Start(cmd) PROVE Stages' /\ SecondRound'
  <2>1. pc' = "loading" /\ job'.round = 1
    BY <1>2, JobSteps DEF Start, Goto
  <2> QED BY <2>1 DEF Stages, SecondRound, LoginPCs, ValidPCs, SavingPCs
<1> QED
  BY <1>1, <1>2, PlainSteps

-----------------------------------------------------------------------------
(* The client in use, the number of tokens and of mishaps, the files.        *)

LEMMA ValidUse ==
    ASSUME AuthInv, UNCHANGED owner, NEW t \in Issued, t.client = owner[t.id], Valid(t),
           job.round \in {1, 2},
           job.round = 2 => /\ job.fresh \in Issued /\ job.fresh.client = configured
                            /\ t.client = configured
    PROVE  Matched'
<1>0. /\ owner \in Seq(Clients) /\ configured \in Clients /\ Issued' = Issued
      /\ used \in {u \in Issued : u.client = owner[u.id]} \cup {NoToken}
  BY DEF AuthInv, Holdings, Matched, Issued
<1>1. CASE job.cmd = "login"
  BY <1>0, <1>1 DEF Valid, Matched
<1>2. CASE job.cmd # "login"
  <2> DEFINE n == IF job.round = 1 THEN t.id ELSE job.fresh.id
             c == t.client
             u == [id |-> n, client |-> c]
  <2>1. used' = u
    BY <1>2 DEF Valid
  <2>2. n \in 1..Len(owner) /\ n \in Ids /\ owner[n] = c /\ c \in Clients
    <3>1. t.id \in 1..Len(owner) /\ t.id \in Ids /\ c \in Clients
      BY <1>0, IssuedFields DEF Tokens
    <3>2. CASE job.round = 1
      BY <3>1, <3>2
    <3>3. CASE job.round = 2
      BY <1>0, <3>1, <3>3, IssuedFields, ClientsAssumption DEF Tokens
    <3> QED BY <3>2, <3>3
  <2> HIDE DEF n, c
  <2>3. u \in Tokens /\ u.id = n /\ u.client = c
    BY <2>2 DEF Tokens
  <2> HIDE DEF u
  <2>4. u \in Issued /\ u.client = owner[u.id]
    BY <2>2, <2>3 DEF Issued
  <2> QED BY <1>0, <2>1, <2>4 DEF Matched
<1> QED
  BY <1>1, <1>2

LEMMA NextMatched == ASSUME AuthInv, [AuthNext]_authVars PROVE Matched'
<1> USE DEF Goto, Exit, Set
<1>0. /\ Holdings /\ Stages /\ SecondRound /\ owner \in Seq(Clients)
      /\ used \in {t \in Issued : t.client = owner[t.id]} \cup {NoToken}
      /\ configured \in Clients
  BY DEF AuthInv, Holdings, Matched
<1>1. \A t \in Issued : t \in Issued' /\ owner'[t.id] = owner[t.id]
  BY <1>0, StillIssued, OwnerStep, IssuedFields DEF NewToken
<1>2. CASE UNCHANGED used \/ used' = NoToken
  BY <1>0, <1>1, <1>2 DEF Matched
<1>3. ASSUME pc = "validating", Valid(job.token), job.token.client = owner[job.token.id],
             UNCHANGED owner
      PROVE  Matched'
  <2>1. /\ job.token \in Issued /\ job.round \in {1, 2}
        /\ job.round = 2 => /\ job.fresh \in Issued /\ job.fresh.client = configured
                            /\ job.token.client = configured
    BY <1>0, <1>3 DEF Stages, SecondRound, ValidPCs
  <2> QED BY <1>3, <2>1, ValidUse
<1>4. ASSUME pc \in SavingPCs, job.from = "client", Valid(job.token), UNCHANGED owner
      PROVE  Matched'
  <2>1. /\ job.token \in Issued /\ job.round \in {1, 2} /\ job.token.client = owner[job.token.id]
        /\ job.round = 2 => /\ job.fresh \in Issued /\ job.fresh.client = configured
                            /\ job.token.client = configured
    BY <1>0, <1>4 DEF Stages, SecondRound, ValidPCs
  <2> QED BY <1>4, <2>1, ValidUse
<1>5. CASE Validate
  BY <1>2, <1>3, <1>5, ValidateSteps DEF Validate, service
<1>6. CASE SaveFails \/ InstallFails
  BY <1>2, <1>4, <1>6 DEF SaveFails, InstallFails, SaveFailed, service, SavingPCs
<1>7. CASE Saved
  BY <1>2, <1>4, <1>7, SavedSteps DEF Saved, service, SavingPCs
<1>8. CASE LoadFails \/ Load \/ Refresh \/ RefreshLost \/ RefreshFails \/ ValidateFails
           \/ requestDeviceCode \/ CheckDeadline \/ SleepOver \/ PollPending \/ PollGranted
           \/ PollGrantLost \/ PollFails \/ WriteTemp \/ DropBackup \/ Backup \/ Install
  BY <1>2, <1>8 DEF LoadFails, Load, Refresh, RefreshLost, RefreshFails, ValidateFails,
     requestDeviceCode, CheckDeadline, SleepOver, PollPending, PollGranted, PollGrantLost,
     PollFails, WriteTemp, DropBackup, Backup, Install
<1>9. CASE \/ \E cmd \in {"run", "login"} : Start(cmd)
           \/ Stop \/ Crash \/ Age \/ Expire \/ Revoke \/ CodeExpires \/ UNCHANGED authVars
  BY <1>2, <1>9 DEF Start, Stop, Crash, Age, Expire, Revoke, CodeExpires, authVars
<1> QED
  BY <1>5, <1>6, <1>7, <1>8, <1>9 DEF AuthNext, Process

LEMMA NextKept == ASSUME AuthInv, [AuthNext]_authVars PROVE Kept'
<1> USE DEF Goto, Exit, Set, Mishap
<1>0. /\ Kept /\ mishaps \in Nat
      /\ pc \in SavingPCs => job.saving # NoToken
      /\ pc \in {"dropping", "backing", "installing"} => tmp = job.saving
      /\ mishaps' \in {mishaps, mishaps + 1, mishaps + 2}
      /\ orphans' = orphans \/ orphans' = orphans \cup ({tmp} \ {NoToken})
  BY IssuedFields, PlainSteps DEF AuthInv, Holdings, Stages
<1>1. CASE UNCHANGED <<target, stored>> /\ pc # "installing" /\ pc' # "installing"
  BY <1>0, <1>1 DEF Kept
<1>2. CASE UNCHANGED <<pc, target, bak, tmp, stored>>
  BY <1>0, <1>2 DEF Kept
<1>3. CASE Backup
  BY <1>0, <1>3 DEF Backup, Kept, SavingPCs, history
<1>4. CASE Install
  BY <1>0, <1>4 DEF Install, Kept, SavingPCs
<1>5. CASE InstallFails
  <2>1. pc' # "installing" /\ stored' = stored /\ orphans' = orphans /\ pc = "installing"
    BY <1>5 DEF InstallFails, SaveFailed, Valid, Invalid, history
  <2>2. \/ bak # NoToken => target' = bak
        \/ mishaps' = mishaps + 2
    BY <1>5 DEF InstallFails
  <2> QED BY <1>0, <2>1, <2>2 DEF Kept
<1>6. CASE Crash
  <2>1. CASE pc = "installing"
    BY <1>0, <1>6, <2>1 DEF Crash, Kept, SavingPCs
  <2>2. CASE pc # "installing"
    BY <1>1, <1>6, <2>2 DEF Crash, history
  <2> QED BY <2>1, <2>2
<1>7. CASE LoadFails \/ Load \/ Refresh \/ RefreshLost \/ RefreshFails
  BY <1>1, <1>7 DEF LoadFails, Load, Refresh, RefreshLost, RefreshFails, Exchange, NextCandidate,
     Invalid, disk, history
<1>8. CASE Validate \/ ValidateFails \/ SaveFails \/ Saved
  BY <1>1, <1>8 DEF Validate, ValidateFails, SaveFails, Saved, SaveFailed, Valid, Invalid,
     disk, history
<1>9. CASE requestDeviceCode \/ CheckDeadline \/ SleepOver \/ PollPending \/ PollGranted
           \/ PollGrantLost \/ PollFails \/ WriteTemp \/ DropBackup
  BY <1>1, <1>9 DEF requestDeviceCode, CheckDeadline, SleepOver, PollPending, PollGranted,
     PollGrantLost, PollFails, Grant, WriteTemp, DropBackup, disk, history
<1>10. CASE (\E cmd \in {"run", "login"} : Start(cmd)) \/ Stop
  BY <1>1, <1>10 DEF Start, Stop, disk, history
<1>11. CASE Age \/ Expire \/ Revoke \/ CodeExpires \/ UNCHANGED authVars
  BY <1>2, <1>11 DEF Age, Expire, Revoke, CodeExpires, authVars, disk, history
<1> QED
  BY <1>3, <1>4, <1>5, <1>6, <1>7, <1>8, <1>9, <1>10, <1>11 DEF AuthNext, Process

\* The tokens a process may still be issued, stage by stage; the same in the next state.
LEMMA LeftStages ==
    /\ pc \in {"off", "running"} => Left = 0
    /\ pc = "loading" => Left = IF job.round = 1 THEN 3 ELSE 1
    /\ pc = "refreshing" => Left = (IF job.token.id \in refreshable THEN 1 ELSE 0)
                                    + (IF job.round = 1 THEN 2 ELSE 0)
    /\ pc = "validating" => Left = IF job.round = 1 THEN 2 ELSE 0
    /\ pc \in LoginPCs => Left = 2
    /\ pc \in SavingPCs => Left = IF job.from = "login" THEN 1
                                   ELSE IF job.round = 1 THEN 2 ELSE 0
  BY DEF Left, LoginPCs, SavingPCs

LEMMA LeftStagesNext ==
    /\ pc' \in {"off", "running"} => Left' = 0
    /\ pc' = "loading" => Left' = IF job'.round = 1 THEN 3 ELSE 1
    /\ pc' = "refreshing" => Left' = (IF job'.token.id \in refreshable' THEN 1 ELSE 0)
                                      + (IF job'.round = 1 THEN 2 ELSE 0)
    /\ pc' = "validating" => Left' = IF job'.round = 1 THEN 2 ELSE 0
    /\ pc' \in LoginPCs => Left' = 2
    /\ pc' \in SavingPCs => Left' = IF job'.from = "login" THEN 1
                                     ELSE IF job'.round = 1 THEN 2 ELSE 0
  BY DEF Left, LoginPCs, SavingPCs

\* No step raises the number of tokens issued and to be issued, save a start.
LEMMA NextLeft ==
    ASSUME AuthInv, [AuthNext]_authVars, ~ \E cmd \in {"run", "login"} : Start(cmd)
    PROVE  Len(owner') + Left' <= Len(owner) + Left
<1> USE DEF Goto, Exit, Set
<1> DEFINE n == Len(owner)
           m == Len(owner')
<1>0. /\ Holdings /\ Stages /\ n \in Nat /\ owner \in Seq(Clients) /\ job.round \in 0..2
      /\ refreshable \subseteq 1..n
      /\ pc \in {"off", "running"} \cup SavingPCs \cup LoginPCs \cup ValidPCs
      /\ job.from \in {"none", "refresh", "client", "login"}
  BY JobFields DEF AuthInv, Holdings
<1>1. owner' = owner => m = n
  OBVIOUS
<1>2. \A c \in Clients : NewToken(c) => m = n + 1
  BY <1>0 DEF NewToken
<1> HIDE DEF n, m
<1>3. Left \in 0..3
  BY <1>0, LeftStages DEF LoginPCs, SavingPCs, ValidPCs
<1>4. CASE owner' = owner /\ pc' \in {"off", "running"}
  BY <1>0, <1>1, <1>3, <1>4, LeftStagesNext
<1>5. CASE owner' = owner /\ pc' = "asking" /\ job.round = 1
           /\ pc \in ValidPCs \cup SavingPCs /\ (pc \in SavingPCs => job.from # "login")
  BY <1>0, <1>1, <1>5, LeftStages, LeftStagesNext DEF LoginPCs, SavingPCs, ValidPCs
<1>6. CASE UNCHANGED <<pc, owner>> /\ refreshable' \subseteq refreshable
           /\ (UNCHANGED job \/ pc \in LoginPCs)
  <2>1. CASE pc \in LoginPCs
    BY <1>0, <1>1, <1>6, <2>1, LeftStages, LeftStagesNext
  <2>2. CASE pc = "refreshing" /\ UNCHANGED job
    <3> DEFINE i == job.token.id
               r == job.round
               l == Left
               k == Left'
    <3>1. /\ l = (IF i \in refreshable THEN 1 ELSE 0) + (IF r = 1 THEN 2 ELSE 0)
          /\ k = (IF i \in refreshable' THEN 1 ELSE 0) + (IF r = 1 THEN 2 ELSE 0)
      BY <1>6, <2>2, LeftStages, LeftStagesNext
    <3> HIDE DEF i, r, l, k
    <3>2. (i \in refreshable' => i \in refreshable) /\ m = n
      BY <1>1, <1>6
    <3>3. m + k <= n + l
      BY <1>0, <3>1, <3>2
    <3> QED BY <3>3 DEF l, k, n, m
  <2>3. CASE pc \in {"off", "running", "loading", "validating"} \cup SavingPCs /\ UNCHANGED job
    BY <1>0, <1>1, <1>6, <2>3, LeftStages, LeftStagesNext
  <2> QED BY <1>0, <1>6, <2>1, <2>2, <2>3 DEF ValidPCs
<1>7. CASE owner' = owner /\ pc \in LoginPCs /\ pc' \in LoginPCs
  BY <1>0, <1>1, <1>7, LeftStages, LeftStagesNext
<1>8. CASE owner' = owner /\ UNCHANGED job /\ pc \in SavingPCs /\ pc' \in SavingPCs
  BY <1>0, <1>1, <1>8, LeftStages, LeftStagesNext
<1>9. CASE Load
  <2>1. /\ pc = "loading" /\ pc' \in {"refreshing", "validating"} /\ owner' = owner
        /\ job'.round = job.round
    BY <1>9, JobSteps DEF Load, service
  <2> QED BY <1>0, <1>1, <2>1, LeftStages, LeftStagesNext
<1>10. CASE RefreshFails
  <2>1. /\ pc = "refreshing" /\ pc' \in {"refreshing", "validating"} /\ UNCHANGED <<owner, refreshable>>
        /\ job'.round = job.round /\ job'.token = job.token
    BY <1>10, JobSteps DEF RefreshFails, NextCandidate, service
  <2> QED BY <1>0, <1>1, <2>1, LeftStages, LeftStagesNext
<1>11. CASE RefreshLost
  <2>1. /\ pc = "refreshing" /\ pc' \in {"refreshing", "validating"}
        /\ job.token.id \in refreshable
        /\ refreshable' = (refreshable \ {job.token.id}) \cup {n + 1}
        /\ job'.round = job.round /\ job'.token = job.token
    BY <1>11, JobSteps DEF RefreshLost, Exchange, Exchangeable, NextCandidate, n
  <2>2. m = n + 1
    BY <1>2, <1>11, RefreshIssues
  <2>3. job'.token.id \notin refreshable'
    BY <1>0, <2>1
  <2> QED BY <1>0, <2>1, <2>2, <2>3, LeftStages, LeftStagesNext DEF n, m
<1>12. CASE Refresh
  <2>1. /\ pc = "refreshing" /\ pc' = "writing" /\ job.token.id \in refreshable
        /\ job'.round = job.round /\ job'.from = "refresh"
    BY <1>12, JobSteps DEF Refresh, Exchange, Exchangeable
  <2>2. m = n + 1
    BY <1>2, <1>12, RefreshIssues
  <2> QED BY <1>0, <2>1, <2>2, LeftStages, LeftStagesNext DEF n, m, SavingPCs
<1>13. CASE PollGranted \/ PollGrantLost
  <2>1. /\ pc = "posting"
        /\ pc' = "off" \/ (pc' = "writing" /\ job'.from = "login")
    BY <1>13, JobSteps DEF PollGranted, PollGrantLost, Grant
  <2>2. m = n + 1
    BY <1>2, <1>13, GrantIssues
  <2> QED BY <1>0, <2>1, <2>2, LeftStages, LeftStagesNext DEF n, m, SavingPCs, LoginPCs
<1>14. CASE Validate
  <2>1. pc = "validating" /\ owner' = owner
    BY <1>14 DEF Validate, service
  <2>2. CASE Valid(job.token)
    BY <1>4, <2>1, <2>2 DEF Valid
  <2>3. CASE pc' = "writing" /\ job'.from = "client" /\ job'.round = job.round
    BY <1>0, <1>1, <2>1, <2>3, LeftStages, LeftStagesNext DEF SavingPCs
  <2> QED BY <1>14, <2>2, <2>3, ValidateSteps
<1>15. CASE Saved
  <2>1. pc = "cleaning" /\ owner' = owner
    BY <1>15 DEF Saved, service
  <2>2. CASE Valid(job.token) \/ pc' = "off"
    BY <1>4, <2>1, <2>2 DEF Valid
  <2>3. CASE job.from = "refresh" /\ pc' = "validating" /\ job'.round = job.round
    BY <1>0, <1>1, <2>1, <2>3, LeftStages, LeftStagesNext DEF SavingPCs
  <2>4. CASE job.from = "login" /\ pc' = "loading" /\ job'.round = 2
    BY <1>0, <1>1, <2>1, <2>4, LeftStages, LeftStagesNext DEF SavingPCs
  <2> QED BY <1>15, <2>2, <2>3, <2>4, SavedSteps
<1>16. CASE LoadFails \/ ValidateFails \/ SaveFails \/ InstallFails
  BY <1>4, <1>5, <1>16 DEF LoadFails, ValidateFails, SaveFails, InstallFails, SaveFailed, Invalid,
     Valid, service, ValidPCs, SavingPCs
<1>17. CASE requestDeviceCode \/ CheckDeadline \/ SleepOver \/ PollPending \/ PollFails
  BY <1>4, <1>7, <1>17 DEF requestDeviceCode, CheckDeadline, SleepOver, PollPending, PollFails,
     service, LoginPCs
<1>18. CASE WriteTemp \/ DropBackup \/ Backup \/ Install
  BY <1>8, <1>18 DEF WriteTemp, DropBackup, Backup, Install, service, SavingPCs
<1>19. CASE Stop \/ Crash
  BY <1>4, <1>19 DEF Stop, Crash, service
<1>20. CASE Age \/ Expire \/ Revoke \/ CodeExpires \/ UNCHANGED authVars
  BY <1>6, <1>20 DEF Age, Expire, Revoke, CodeExpires, authVars, service, LoginPCs
<1> QED
  BY <1>9, <1>10, <1>11, <1>12, <1>13, <1>14, <1>15, <1>16, <1>17, <1>18, <1>19, <1>20
     DEF AuthNext, Process, n, m

\* How far each step goes towards the bound on mishaps.
LEMMA MishapSteps ==
    ASSUME AuthInv, [AuthNext]_authVars
    PROVE  \/ mishaps' = mishaps /\ (Busy' => Busy) /\ starts' = starts
           \/ mishaps' = mishaps + 1 /\ mishaps < MaxMishaps /\ (Busy' => Busy) /\ starts' = starts
           \/ mishaps' = mishaps + 2 /\ mishaps + 1 < MaxMishaps /\ (Busy' => Busy)
                 /\ starts' = starts
           \/ mishaps' = mishaps + 1 /\ Busy /\ ~Busy' /\ starts' = starts
           \/ mishaps' = mishaps /\ starts' = starts + 1
<1> USE DEF Goto, Exit, Mishap, Busy
<1>1. CASE LoadFails \/ Load \/ Refresh \/ RefreshLost \/ RefreshFails
  BY <1>1 DEF LoadFails, Load, Refresh, RefreshLost, RefreshFails, Exchange
<1>2. CASE Validate \/ ValidateFails \/ requestDeviceCode \/ CheckDeadline \/ SleepOver
  BY <1>2 DEF Validate, ValidateFails, requestDeviceCode, CheckDeadline, SleepOver
<1>3. CASE PollPending \/ PollGranted \/ PollGrantLost \/ PollFails
  BY <1>3 DEF PollPending, PollGranted, PollGrantLost, PollFails, Grant
<1>4. CASE WriteTemp \/ DropBackup \/ Backup \/ Install \/ SaveFails \/ InstallFails \/ Saved
  BY <1>4 DEF WriteTemp, DropBackup, RemoveBackup, Backup, Install, SaveFails, InstallFails, Saved
<1>5. CASE (\E cmd \in {"run", "login"} : Start(cmd)) \/ Stop \/ Crash \/ Age \/ Expire
           \/ Revoke \/ CodeExpires \/ UNCHANGED authVars
  BY <1>5 DEF Start, Stop, Crash, Age, Expire, Revoke, CodeExpires, authVars
<1> QED
  BY <1>1, <1>2, <1>3, <1>4, <1>5 DEF AuthNext, Process

LEMMA NextCounts == ASSUME AuthInv, [AuthNext]_authVars PROVE Counts'
<1> DEFINE n == Len(owner)
           m == Len(owner')
           l == Left
           k == Left'
           s == starts
           z == starts'
<1>0. /\ n + l <= 1 + 3 * s /\ n \in Nat /\ m \in Nat
      /\ s \in 0..MaxStarts /\ z \in 0..MaxStarts /\ mishaps \in Nat
      /\ mishaps + (IF Busy THEN 1 ELSE 0) <= MaxMishaps + s
      /\ Busy => s >= 1
  BY NextHoldings DEF AuthInv, Holdings, Counts
<1>1. l \in 0..3 /\ k \in 0..3
  <2>1. /\ pc \in {"off", "running"} \cup SavingPCs \cup LoginPCs \cup ValidPCs
        /\ pc' \in {"off", "running"} \cup SavingPCs \cup LoginPCs \cup ValidPCs
    BY PlainSteps DEF AuthInv, Holdings
  <2> QED BY <2>1, LeftStages, LeftStagesNext DEF ValidPCs
<1> HIDE DEF n, m, l, k, s, z
<1>2. CASE ~ \E cmd \in {"run", "login"} : Start(cmd)
  <2>1. m + k <= n + l
    BY <1>2, NextLeft DEF n, m, l, k
  <2>2. z = s \/ z = s + 1
    BY MishapSteps DEF s, z
  <2>3. m + k <= 1 + 3 * z
    BY <1>0, <1>1, <2>1, <2>2, SignInBounds
  <2>4. /\ mishaps' + (IF Busy' THEN 1 ELSE 0) <= MaxMishaps + z
        /\ Busy' => z >= 1
    BY <1>0, MishapSteps, SignInBounds DEF s, z
  <2> QED BY <2>3, <2>4 DEF Counts, m, k, z
<1>3. CASE \E cmd \in {"run", "login"} : Start(cmd)
  <2>1. /\ z = s + 1 /\ mishaps' = mishaps /\ pc = "off" /\ pc' = "loading"
        /\ owner' = owner
    BY <1>3 DEF Start, Goto, service, s, z
  <2>2. l = 0 /\ m = n
    BY <2>1, LeftStages DEF n, m, l
  <2>3. m + k <= 1 + 3 * z /\ z >= 1
    BY <1>0, <1>1, <2>1, <2>2, SignInBounds
  <2>4. mishaps' + (IF Busy' THEN 1 ELSE 0) <= MaxMishaps + z
    BY <1>0, <2>1, SignInBounds DEF Busy
  <2> QED BY <2>3, <2>4 DEF Counts, m, k, z
<1> QED
  BY <1>2, <1>3

-----------------------------------------------------------------------------
(* The user is asked once for each mishap.                                   *)

LEMMA CreditSteps ==
    ASSUME AuthInv, [AuthNext]_authVars, UNCHANGED due
    PROVE  /\ Credit \in Nat /\ Credit' \in Int
           /\ UNCHANGED asked => Credit' >= Credit /\ (mishaps' # mishaps => Credit' >= 1)
           /\ UNCHANGED <<asked, mishaps>> => Credit' = Credit
<1>1. /\ due \in Nat /\ mishaps \in Nat /\ asked \in Nat /\ Credit >= 0
  BY SignInBounds DEF AuthInv, Holdings, Accounted
<1>2. /\ due' = due /\ mishaps' \in {mishaps, mishaps + 1, mishaps + 2}
      /\ asked' \in {asked, asked + 1}
  BY PlainSteps
<1>3. Credit = due + mishaps - asked /\ Credit' = due' + mishaps' - asked'
  BY DEF Credit
<1>4. Credit \in Nat /\ Credit' \in Int
  BY <1>1, <1>2, <1>3
<1>5. ASSUME UNCHANGED asked PROVE Credit' >= Credit /\ (mishaps' # mishaps => Credit' >= 1)
  <2> DEFINE c == Credit
             k == Credit'
             m == mishaps
             n == mishaps'
             a == asked
  <2>1. c = due + m - a /\ k = due + n - a /\ n \in {m, m + 1, m + 2}
    BY <1>2, <1>3, <1>5
  <2>2. due \in Nat /\ m \in Nat /\ a \in Nat /\ c >= 0
    BY <1>1
  <2> HIDE DEF c, k, m, n, a
  <2>3. k >= c /\ (n # m => k >= 1)
    BY <2>1, <2>2
  <2> QED BY <2>3 DEF c, k, m, n
<1>6. UNCHANGED <<asked, mishaps>> => Credit' = Credit
  BY <1>2, <1>3
<1> QED
  BY <1>4, <1>5, <1>6

LEMMA AskedStep ==
    ASSUME [AuthNext]_authVars PROVE requestDeviceCode \/ UNCHANGED asked
<1>1. CASE LoadFails \/ Load \/ Refresh \/ RefreshLost \/ RefreshFails
           \/ Validate \/ ValidateFails \/ CheckDeadline \/ SleepOver \/ PollPending
           \/ PollGranted \/ PollGrantLost \/ PollFails
  BY <1>1 DEF LoadFails, Load, Refresh, RefreshLost, RefreshFails, Validate, ValidateFails,
     CheckDeadline, SleepOver, PollPending, PollGranted, PollGrantLost, PollFails, history
<1>2. CASE WriteTemp \/ DropBackup \/ Backup \/ Install \/ SaveFails \/ InstallFails \/ Saved
  BY <1>2 DEF WriteTemp, DropBackup, Backup, Install, SaveFails, InstallFails, Saved, history
<1>3. CASE \/ \E cmd \in {"run", "login"} : Start(cmd)
           \/ Stop \/ Crash \/ Age \/ Expire \/ Revoke \/ CodeExpires \/ UNCHANGED authVars
  BY <1>3 DEF Start, Stop, Crash, Age, Expire, Revoke, CodeExpires, history, authVars
<1> QED
  BY <1>1, <1>2, <1>3 DEF AuthNext, Process

\* A token that can be exchanged is either about to be, or still accepted.
LEMMA NextFresh ==
    ASSUME AuthInv, [AuthNext]_authVars
    PROVE  \A i \in refreshable' : i <= near' \/ i > dead'
<1> DEFINE n == Len(owner)
<1>0. /\ n \in Nat /\ near \in 0..n /\ dead \in 0..n /\ refreshable \subseteq 1..n
      /\ \A i \in refreshable : i <= near \/ i > dead
  BY DEF AuthInv, Holdings, Accounted
<1> HIDE DEF n
<1>1. CASE UNCHANGED <<near, dead, refreshable>>
  BY <1>0, <1>1
<1>2. CASE Refresh \/ RefreshLost \/ PollGranted \/ PollGrantLost
  <2>1. /\ refreshable' \subseteq refreshable \cup {n + 1} /\ UNCHANGED <<near, dead>>
    BY <1>2 DEF Refresh, RefreshLost, PollGranted, PollGrantLost, Exchange, Grant, n
  <2> QED BY <1>0, <2>1
<1>3. CASE Age
  BY <1>0, <1>3 DEF Age, n
<1>4. CASE Expire
  BY <1>0, <1>4 DEF Expire
<1>5. CASE Revoke
  BY <1>5 DEF Revoke
<1>6. CASE LoadFails \/ Load \/ RefreshFails \/ Validate \/ ValidateFails
           \/ requestDeviceCode \/ CheckDeadline \/ SleepOver \/ PollPending \/ PollFails
  BY <1>1, <1>6 DEF LoadFails, Load, RefreshFails, Validate, ValidateFails, requestDeviceCode,
     CheckDeadline, SleepOver, PollPending, PollFails, service
<1>7. CASE WriteTemp \/ DropBackup \/ Backup \/ Install \/ SaveFails \/ InstallFails \/ Saved
  BY <1>1, <1>7 DEF WriteTemp, DropBackup, Backup, Install, SaveFails, InstallFails, Saved, service
<1>8. CASE \/ \E cmd \in {"run", "login"} : Start(cmd)
           \/ Stop \/ Crash \/ CodeExpires \/ UNCHANGED authVars
  BY <1>1, <1>8 DEF Start, Stop, Crash, CodeExpires, service, authVars
<1> QED
  BY <1>2, <1>3, <1>4, <1>5, <1>6, <1>7, <1>8 DEF AuthNext, Process

\* The client a refresh fails with for no mishap is not the one of the token.
LEMMA AnotherCandidate ==
    ASSUME NEW todo \in Seq(Clients), todo # <<>>, NEW d,
           \E i \in DOMAIN todo : todo[i] = d, d # Head(todo)
    PROVE  Len(todo) # 1 /\ \E i \in DOMAIN Tail(todo) : Tail(todo)[i] = d
<1>1. PICK i \in DOMAIN todo : todo[i] = d
  OBVIOUS
<1>2. i \in 1..Len(todo) /\ Len(todo) \in Nat /\ Head(todo) = todo[1]
  OBVIOUS
<1>3. i # 1
  BY <1>1, <1>2
<1>4. i - 1 \in 1..(Len(todo) - 1)
  BY <1>2, <1>3
<1>5. i - 1 \in DOMAIN Tail(todo) /\ Tail(todo)[i - 1] = todo[i]
  <2>1. /\ DOMAIN Tail(todo) = 1..(Len(todo) - 1)
        /\ \A j \in 1..(Len(todo) - 1) : Tail(todo)[j] = todo[j + 1]
    OBVIOUS
  <2>2. (i - 1) + 1 = i
    BY <1>2
  <2> QED BY <1>4, <2>1, <2>2
<1> QED
  BY <1>1, <1>2, <1>3, <1>5

LEMMA AccountedInProcess ==
    ASSUME AuthInv, [AuthNext]_authVars, UNCHANGED <<configured, due>>
    PROVE  Accounted'
<1> USE DEF Goto, Exit, Set, Mishap
<1>0. /\ Holdings /\ Stages /\ Accounted /\ owner \in Seq(Clients)
      /\ configured \in Clients /\ configured' = configured
      /\ target \in MaybeIssued
  BY DEF AuthInv, Holdings
<1>1. \A t \in Issued : /\ owner'[t.id] = owner[t.id] /\ owner[t.id] \in Clients
                         /\ t.client \in {owner[t.id], NoClient}
  BY <1>0, StillIssued, OwnerStep, IssuedFields DEF NewToken
<1>2. /\ \A i \in refreshable' : i <= near' \/ i > dead'
      /\ Credit \in Nat /\ Credit' \in Int
      /\ UNCHANGED asked => Credit' >= Credit /\ (mishaps' # mishaps => Credit' >= 1)
      /\ UNCHANGED <<asked, mishaps>> => Credit' = Credit
      /\ mishaps \in Nat
  BY NextFresh, CreditSteps DEF AuthInv, Holdings
<1>3. CASE Credit' >= 1
  <2>1. Credit' >= 0
    BY <1>2, <1>3
  <2> QED BY <1>2, <1>3, <2>1 DEF Accounted
<1>4. CASE UNCHANGED asked /\ (mishaps' # mishaps \/ Credit >= 1)
  <2>1. Credit' >= 1
    BY <1>2, <1>4, CreditSteps DEF Credit, AuthInv, Holdings
  <2> QED BY <1>3, <2>1
<1>5. CASE requestDeviceCode
  <2>1. CASE mishaps' # mishaps /\ UNCHANGED asked
    BY <1>4, <2>1
  <2>2. CASE asked' = asked + 1 /\ pc' = "checking" /\ mishaps' = mishaps
    <3>1. Credit >= 1 /\ asked \in Nat /\ due \in Nat /\ due' = due
      BY <1>0, <1>5, SignInBounds DEF requestDeviceCode, Accounted, Holdings
    <3>2. Credit' >= 0
      BY <1>2, <2>2, <3>1 DEF Credit
    <3> QED BY <1>2, <2>2, <3>2 DEF Accounted, SavingPCs
  <2> QED BY <1>2, <1>5, <2>1, <2>2 DEF requestDeviceCode
<1>6. CASE ~ requestDeviceCode /\ UNCHANGED <<asked, mishaps>> /\ ~ Credit >= 1
  <2>1. /\ Credit' >= 0 /\ pc # "asking"
        /\ pc \notin {"checking", "waiting", "posting"} \cup SavingPCs => Usable(target)
        /\ pc = "refreshing" => /\ Usable(job.token)
                                /\ \E i \in DOMAIN job.todo : job.todo[i] = owner[job.token.id]
        /\ pc = "validating" => Usable(job.token) /\ job.token.id > dead
        /\ pc \in SavingPCs => Usable(job.saving) /\ job.saving.id > dead
    BY <1>0, <1>2, <1>6 DEF Accounted
  <2>2. Usable(target) => target \in Issued
    BY <1>0 DEF Usable, MaybeIssued
  <2>3. CASE /\ pc \notin {"checking", "waiting", "posting"} \cup SavingPCs
             /\ UNCHANGED <<target, refreshable>> /\ pc' \in {"off", "running", "loading"}
    <3>1. Usable(target)'
      BY <1>0, <1>1, <2>1, <2>2, <2>3 DEF Usable, isClientCompatible
    <3> QED BY <1>2, <2>1, <2>3, <3>1 DEF Accounted, SavingPCs
  <2>4. CASE pc' \in {"checking", "waiting", "posting"}
    BY <1>2, <2>1, <2>4 DEF Accounted, SavingPCs
  <2>6. CASE Load
    <3>1. /\ pc = "loading" /\ target \in Issued /\ UNCHANGED <<target, near, dead, refreshable>>
          /\ job'.token = target /\ target # NoToken
          /\ \/ /\ pc' = "refreshing" /\ target.id <= near
                /\ job'.todo = refreshClientCandidates(target.client)
             \/ pc' = "validating" /\ target.id > near
      BY <1>0, <2>6, JobSteps DEF Load, Holdings, MaybeIssued, disk, service, Issued, Tokens, Ids
    <3>2. Usable(target) /\ Usable(target)'
      BY <1>0, <1>1, <2>1, <3>1 DEF Usable, isClientCompatible, SavingPCs
    <3>3. Usable(job.token)'
      BY <3>1, <3>2 DEF Usable
    <3>4. pc' = "refreshing" =>
             (\E i \in DOMAIN job.todo : job.todo[i] = owner[job.token.id])'
      <4>1. owner[target.id] \in Clients /\ isClientCompatible(owner[target.id])
            /\ target.client \in {owner[target.id], NoClient}
        BY <1>1, <3>1, <3>2 DEF Usable
      <4>2. Tried(refreshClientCandidates(target.client), owner[target.id])
        BY <1>0, <4>1, CandidatesCover
      <4> QED BY <1>1, <3>1, <4>2 DEF Tried
    <3>5. pc' = "validating" => job'.token.id > dead'
      <4>1. target.id \in refreshable
        BY <3>2 DEF Usable
      <4>2. target.id <= near \/ target.id > dead
        BY <1>0, <4>1 DEF Accounted
      <4>3. target.id \in Nat /\ near \in Nat
        BY <1>0, <3>1, IssuedFields DEF Holdings
      <4> QED BY <3>1, <4>2, <4>3
    <3> QED BY <1>2, <2>1, <3>1, <3>2, <3>3, <3>4, <3>5 DEF Accounted, SavingPCs
  <2>7. CASE Refresh
    <3> DEFINE c == Head(job.todo)
    <3>1. /\ pc = "refreshing" /\ pc' = "writing" /\ owner[job.token.id] = c
          /\ c \in Clients /\ NewToken(c) /\ UNCHANGED dead
          /\ job'.saving.id = Len(owner) + 1
      BY <2>7, RefreshIssues, JobSteps DEF Refresh, Exchange, Exchangeable
    <3>2. isClientCompatible(c)
      BY <2>1, <3>1 DEF Usable
    <3>3. job'.saving # NoToken
      BY NextStages, <3>1, NextHoldings, IssuedNext DEF Stages, SavingPCs
    <3>4. /\ Len(owner) + 1 \in refreshable' /\ owner'[Len(owner) + 1] = c
          /\ Len(owner) + 1 > dead
      <4>1. dead \in 0..Len(owner) /\ Len(owner) \in Nat
        BY <1>0 DEF Holdings
      <4>2. Len(owner) + 1 > dead
        BY <4>1
      <4> QED BY <1>0, <3>1, <4>2, Room
    <3>5. Usable(job.saving)' /\ job'.saving.id > dead'
      BY <1>0, <3>1, <3>2, <3>3, <3>4 DEF Usable, isClientCompatible
    <3> QED BY <1>2, <2>1, <3>1, <3>5 DEF Accounted, SavingPCs
  <2>8. CASE PollGranted
    <3>1. /\ pc = "posting" /\ pc' = "writing" /\ NewToken(configured) /\ UNCHANGED dead
          /\ job'.saving.id = Len(owner) + 1
      BY <2>8, GrantIssues, JobSteps DEF PollGranted, Grant
    <3>2. job'.saving # NoToken
      BY NextStages, <3>1, NextHoldings, IssuedNext DEF Stages, SavingPCs
    <3>3. /\ Len(owner) + 1 \in refreshable' /\ owner'[Len(owner) + 1] = configured
          /\ Len(owner) + 1 > dead
      <4>1. dead \in 0..Len(owner) /\ Len(owner) \in Nat
        BY <1>0 DEF Holdings
      <4>2. Len(owner) + 1 > dead
        BY <4>1
      <4> QED BY <1>0, <3>1, <4>2, Room
    <3>4. Usable(job.saving)' /\ job'.saving.id > dead'
      BY <1>0, <3>1, <3>2, <3>3 DEF Usable, isClientCompatible
    <3> QED BY <1>2, <2>1, <3>1, <3>4 DEF Accounted, SavingPCs
  <2>9. CASE RefreshFails
    <3>1. /\ pc = "refreshing" /\ pc' \in {"refreshing", "validating"} /\ NextCandidate
          /\ job.todo \in Seq(Clients) /\ job.todo # <<>> /\ job.token \in Issued
          /\ UNCHANGED <<owner, target, near, dead, refreshable>>
          /\ ~Exchangeable
      BY <1>0, <1>6, <2>9, JobFields DEF RefreshFails, NextCandidate, Stages, Holdings,
         disk, service
    <3>2. job'.todo = Tail(job.todo) /\ job'.token = job.token
      BY <3>1, JobSteps
    <3>3. Usable(job.token) /\ owner[job.token.id] # Head(job.todo)
      BY <2>1, <3>1 DEF Usable, Exchangeable
    <3>4. /\ Len(job.todo) # 1
          /\ \E i \in DOMAIN Tail(job.todo) : Tail(job.todo)[i] = owner[job.token.id]
      BY <2>1, <3>1, <3>3, AnotherCandidate
    <3>5. pc' = "refreshing"
      BY <3>1, <3>4 DEF NextCandidate
    <3>6. Usable(job.token)' /\ (\E i \in DOMAIN job.todo : job.todo[i] = owner[job.token.id])'
      BY <1>0, <3>1, <3>2, <3>3, <3>4 DEF Usable, isClientCompatible
    <3>7. Usable(target)'
      BY <1>0, <2>1, <3>1 DEF Usable, isClientCompatible, SavingPCs
    <3> QED BY <1>2, <2>1, <3>5, <3>6, <3>7 DEF Accounted, SavingPCs
  <2>10. CASE Validate
    <3>1. pc = "validating" /\ UNCHANGED <<owner, target, dead, refreshable>>
      BY <2>10 DEF Validate, disk, service
    <3>2. CASE Valid(job.token)
      BY <2>3, <3>1, <3>2 DEF Valid, SavingPCs
    <3>3. CASE pc' = "writing" /\ job'.saving.id = job.token.id /\ job'.saving \in Issued
      <4>1. Usable(job.saving)' /\ job'.saving.id > dead'
        BY <1>0, <2>1, <3>1, <3>3, IssuedFields DEF Usable, isClientCompatible
      <4> QED BY <1>2, <2>1, <3>3, <4>1 DEF Accounted, SavingPCs
    <3> QED BY <2>10, <3>2, <3>3, ValidateSteps
  <2>11. CASE WriteTemp \/ DropBackup \/ Backup \/ Install
    <3>1. /\ pc \in SavingPCs /\ pc' \in SavingPCs
          /\ UNCHANGED <<job, owner, dead, refreshable>>
      BY <2>11 DEF WriteTemp, DropBackup, Backup, Install, SavingPCs, service
    <3>2. Usable(job.saving)' /\ job'.saving.id > dead'
      BY <1>0, <2>1, <3>1 DEF Usable, isClientCompatible
    <3> QED BY <1>2, <2>1, <3>1, <3>2 DEF Accounted, SavingPCs
  <2>12. CASE Saved
    <3>1. /\ pc = "cleaning" /\ target = job.saving
          /\ UNCHANGED <<owner, target, dead, refreshable>>
      BY <1>0, <2>12 DEF Saved, Stages, service
    <3>2. Usable(target)' /\ target.id > dead
      BY <1>0, <2>1, <3>1 DEF Usable, isClientCompatible, SavingPCs
    <3>3. CASE pc' \in {"off", "running", "loading"}
      BY <1>2, <2>1, <3>2, <3>3 DEF Accounted, SavingPCs
    <3>4. CASE pc' = "validating" /\ job'.token = job.saving
      <4>1. Usable(job.token)' /\ job'.token.id > dead'
        BY <3>1, <3>2, <3>4 DEF Usable
      <4> QED BY <1>2, <2>1, <3>2, <3>4, <4>1 DEF Accounted, SavingPCs
    <3> QED BY <2>12, <3>3, <3>4, SavedSteps DEF Valid
  <2>13. CASE LoadFails
    <3>1. pc = "loading" /\ target = NoToken
      BY <1>6, <2>13, <1>2 DEF LoadFails
    <3> QED BY <2>1, <3>1 DEF Usable, SavingPCs
  <2>14. CASE ValidateFails
    <3>1. pc = "validating" /\ ~ (Accepted(job.token.id) /\ isClientCompatible(owner[job.token.id]))
      BY <1>2, <1>6, <2>14 DEF ValidateFails
    <3> QED BY <2>1, <3>1 DEF Usable, Accepted
  <2>15. CASE \/ RefreshLost \/ PollGrantLost \/ PollFails \/ SaveFails \/ InstallFails
              \/ Crash \/ Revoke
    BY <1>2, <1>6, <2>15 DEF RefreshLost, PollGrantLost, PollFails, SaveFails, InstallFails,
       Crash, Revoke
  <2>16. CASE CheckDeadline \/ SleepOver \/ PollPending
    BY <1>2, <1>6, <2>4, <2>16 DEF CheckDeadline, SleepOver, PollPending
  <2>17. CASE \/ \E cmd \in {"run", "login"} : Start(cmd)
              \/ Stop
    BY <2>3, <2>17 DEF Start, Stop, SavingPCs, disk, service
  <2>18. CASE Age \/ Expire \/ CodeExpires \/ UNCHANGED authVars
    <3>1. CASE CodeExpires
      BY <2>4, <3>1 DEF CodeExpires
    <3>2. CASE Age \/ Expire \/ UNCHANGED authVars
      <4>1. /\ UNCHANGED <<pc, job, target, owner, refreshable>>
            /\ pc \in {"refreshing", "validating"} \cup SavingPCs => dead' = dead
        BY <3>2 DEF Age, Expire, authVars, disk, service, SavingPCs
      <4>2. /\ Usable(target) => Usable(target)'
            /\ Usable(job.token) => Usable(job.token)'
            /\ Usable(job.saving) => Usable(job.saving)'
        BY <1>0, <4>1 DEF Usable, isClientCompatible
      <4> QED BY <1>2, <2>1, <4>1, <4>2 DEF Accounted
    <3> QED BY <2>18, <3>1, <3>2
  <2> QED BY <1>6, <2>6, <2>7, <2>8, <2>9, <2>10, <2>11, <2>12, <2>13, <2>14, <2>15, <2>16,
             <2>17, <2>18 DEF AuthNext, Process
<1>7. requestDeviceCode \/ UNCHANGED asked
  BY AskedStep
<1> QED
  BY <1>4, <1>5, <1>6, <1>7

\* A change of the configuration either leaves the token usable or is accounted for.
LEMMA StartAccounted ==
    ASSUME AuthInv, NEW cmd \in {"run", "login"}, Start(cmd)
    PROVE  Accounted'
<1>1. /\ pc = "off" /\ pc' = "loading"
      /\ UNCHANGED <<target, owner, near, dead, refreshable, asked, mishaps>>
      /\ due' = IF Lost THEN due + 1 ELSE due
  BY DEF Start, Goto, disk, service
<1>2. /\ due \in Nat /\ mishaps \in Nat /\ asked \in Nat
      /\ \A i \in refreshable : i <= near \/ i > dead
      /\ due + mishaps - asked >= 0
      /\ due + mishaps - asked >= 1 \/ Usable(target)
  BY <1>1, SignInBounds DEF AuthInv, Holdings, Accounted, Credit, SavingPCs
<1>3. due' + mishaps' - asked' >= 0
  BY <1>1, <1>2
<1>4. due' + mishaps' - asked' >= 1 \/ Usable(target)'
  <2>1. CASE due + mishaps - asked >= 1 \/ Lost
    BY <1>1, <1>2, <2>1
  <2>2. CASE Usable(target) /\ ~Lost
    BY <1>1, <2>2 DEF Usable, Lost
  <2> QED BY <1>2, <2>1, <2>2
<1> QED
  BY <1>1, <1>2, <1>3, <1>4 DEF Accounted, Credit, SavingPCs

LEMMA NextAccounted == ASSUME AuthInv, [AuthNext]_authVars PROVE Accounted'
  BY AccountedInProcess, StartAccounted, PlainSteps

-----------------------------------------------------------------------------
(* The theorems.                                                             *)

LEMMA AuthInvStep == ASSUME AuthInv, [AuthNext]_authVars PROVE AuthInv'
  BY NextHoldings, NextStages, NextMatched, NextCounts, NextKept, NextAccounted DEF AuthInv

LEMMA AuthInvHolds == AuthSpec => []AuthInv
  BY AuthInitInv, AuthInvStep, PTL DEF AuthSpec

\* Every variable of a sign-in keeps its type; in particular there are never more
\* tokens than three for each process and one, the number Ids is made for.
THEOREM SignInTypes == AuthSpec => []AuthTypeOK
<1>1. AuthInv => AuthTypeOK
  <2> SUFFICES ASSUME AuthInv PROVE AuthTypeOK
    OBVIOUS
  <2>1. /\ Holdings /\ Counts /\ owner \in Seq(Clients) /\ Len(owner) \in Nat
        /\ Issued \subseteq Tokens /\ MaybeIssued \subseteq Tokens \cup {NoToken}
        /\ starts \in 0..MaxStarts /\ mishaps \in Nat
    BY DEF AuthInv, Holdings, Issued, MaybeIssued
  <2>2. /\ configured \in Clients
        /\ pc \in {"off", "loading", "refreshing", "validating", "asking", "checking",
                  "waiting", "posting", "writing", "dropping", "backing",
                  "installing", "cleaning", "running"}
    BY <2>1 DEF Holdings, ValidPCs, LoginPCs, SavingPCs
  <2>3. /\ job.cmd \in {"none", "run", "login"} /\ job.round \in 0..2
        /\ {job.token, job.fresh, job.saving, target, bak, tmp} \subseteq Tokens \cup {NoToken}
        /\ job.todo \in Seq(Clients)
        /\ job.from \in {"none", "refresh", "client", "login"} /\ job.overdue \in BOOLEAN
    BY <2>1, JobFields DEF Holdings
  <2>4. used \in Tokens \cup {NoToken} /\ orphans \subseteq Tokens
    BY <2>1 DEF AuthInv, Holdings, Matched
  <2>5. Len(owner) <= 1 + 3 * MaxStarts
    <3> DEFINE n == Len(owner)
               l == Left
               s == starts
    <3>1. n + l <= 1 + 3 * s /\ l \in 0..3
      BY <2>1, LeftStages DEF Counts, Holdings, ValidPCs
    <3>2. n \in Nat /\ s \in 0..MaxStarts
      BY <2>1
    <3> HIDE DEF n, l, s
    <3>3. n <= 1 + 3 * MaxStarts
      BY <3>1, <3>2, SignInBounds
    <3> QED BY <3>3 DEF n
  <2>6. mishaps \in 0..(MaxMishaps + MaxStarts)
    BY <2>1, SignInBounds DEF Counts
  <2>7. /\ near \in 0..Len(owner) /\ dead \in 0..Len(owner)
        /\ refreshable \subseteq 1..Len(owner)
        /\ asked \in Nat /\ due \in 0..(MaxStarts + 1) /\ stored \in BOOLEAN
    <3>1. due \in 0..(MaxStarts + 1)
      BY <2>1, SignInBounds DEF Holdings
    <3> QED BY <2>1, <3>1 DEF Holdings
  <2> QED BY <2>1, <2>2, <2>3, <2>4, <2>5, <2>6, <2>7 DEF AuthTypeOK
<1> QED
  BY <1>1, AuthInvHolds, PTL

\* Whatever the processes do and whatever goes wrong, the farmer sends the client ID
\* its access token was issued to (app.go:288-303).
THEOREM ClientOfToken == AuthSpec => []ClientMatches
<1>1. AuthInv => ClientMatches
  BY DEF AuthInv, Matched, ClientMatches
<1> QED
  BY <1>1, AuthInvHolds, PTL

\* Until a second thing goes wrong, a token that has been on the disk is still there:
\* replaceFile never holds the only copy anywhere else (token_store.go:97-118).
THEOREM TokenStays == AuthSpec => []TokenOnDisk
<1>1. AuthInv => TokenOnDisk
  BY DEF AuthInv, Kept, TokenOnDisk
<1> QED
  BY <1>1, AuthInvHolds, PTL

\* The user is asked to log in for the first token and then at most once for each
\* request, operation or process that failed and for each change of the configured
\* client that leaves the token behind (device_flow.go:151-192).
THEOREM AskedOncePerMishap == AuthSpec => []AskedPerMishap
<1>1. AuthInv => AskedPerMishap
  <2> SUFFICES ASSUME AuthInv PROVE AskedPerMishap
    OBVIOUS
  <2>1. due \in Nat /\ mishaps \in Nat /\ asked \in Nat /\ due + mishaps - asked >= 0
    BY SignInBounds DEF AuthInv, Holdings, Accounted, Credit
  <2> QED BY <2>1 DEF AskedPerMishap
<1> QED
  BY <1>1, AuthInvHolds, PTL
=============================================================================
