-------------------------------- MODULE Output --------------------------------
(***************************************************************************)
(* From the engine's choice to the presence in chats: the engine, the output  *)
(* consumer of App.Run (app.go:455-532, 1895-1940), which starts and stops a   *)
(* chat as it reads the engine's reports, and the chat clients.  Between a     *)
(* choice and the chat lie a reschedule that reports one channel after        *)
(* another, a queue that discards when it is full, and clients that fail and   *)
(* clean up in their own time.                                               *)
(*                                                                          *)
(* The context of the engine is that of the consumer's clients.  A chat       *)
(* mention is one of the events that may come at any time.                    *)
(***************************************************************************)
EXTENDS Engine, Chat

ASSUME ChannelsAssumption == Channels \subseteq Logins

VARIABLE
    joins           \* channels whose chat is joined (shouldJoinChat), as configured

outputVars == <<vars, chatVars, joins>>

OutputInit == Init /\ ChatInit /\ joins \in SUBSET Channels

-----------------------------------------------------------------------------
(* The consumer                                                              *)

Read(types) == Consume /\ Head(eventsOut).type \in types

ReadStart ==
    /\ Read({"watch_start"})
    /\ LET l == Head(eventsOut).login
       IN  IF l \in joins THEN StartChat(l) \/ StartExisting(l)
           ELSE UNCHANGED chatVars
    /\ UNCHANGED joins

\* A channel whose chat is not joined has no entry.
ReadStop ==
    /\ Read({"watch_stop"})
    /\ LET l == Head(eventsOut).login
       IN  IF l \in joins THEN StopChat(l) ELSE UNCHANGED chatVars
    /\ UNCHANGED joins

\* Only the notifier is concerned.
ReadNotice ==
    /\ Read({"bonus_claimed", "drop_claimed", "chat_mention"})
    /\ UNCHANGED <<chatVars, joins>>

ReadReport == ReadStart \/ ReadStop \/ ReadNotice

-----------------------------------------------------------------------------
\* One context for everybody.
CancelAll == Cancel /\ Shutdown /\ UNCHANGED joins

Elsewhere == UNCHANGED <<chatVars, joins>>

EngineMoves == (Engine \/ Produce) /\ Elsewhere

ClientMoves(c) ==
    /\ Join(c) \/ ConnectionFails(c) \/ LeaveChat(c) \/ ClearEntry(c)
    /\ UNCHANGED <<vars, joins>>

OutputNext == ReadReport \/ CancelAll \/ EngineMoves \/ \E c \in Clients : ClientMoves(c)

OutputSpec == OutputInit /\ [][OutputNext]_outputVars

\* The engine as in Engine; the consumer reads on; a client whose context is done
\* ends, and so does its goroutine.  Of connections only that writing to one returns.
OutputFairness ==
    /\ WF_outputVars((Start \/ EmitStart \/ EmitStop \/ Publish) /\ Elsewhere)
    /\ WF_outputVars((BonusClaimed \/ BonusFailed) /\ Elsewhere)
    /\ SF_outputVars(HandleEvent /\ Elsewhere)
    /\ SF_outputVars(Stop /\ Elsewhere)
    /\ WF_outputVars(ReadReport)
    /\ \A c \in Clients : WF_outputVars((LeaveChat(c) \/ ClearEntry(c)) /\ UNCHANGED <<vars, joins>>)

OutputFairSpec == OutputSpec /\ OutputFairness

-----------------------------------------------------------------------------
(* Properties                                                                *)

\* No report about a channel is still to be emitted or to be read.
Heard(l) == l \notin starts \cup stops /\ LastWord(eventsOut, l, {"watch_start", "watch_stop"}) = {}

\* As long as no report was lost, a channel about which everything has been heard has
\* a client in its chat if the engine has chosen it, unless a client of it has failed
\* since or the process stops; and otherwise none, but those whose entry an older
\* client took away (engine.go:104-164, app.go:455-532, 1895-1940).
ChatFollows ==
    ~dropped =>
        \A l \in joins : Heard(l) =>
            LET present == {c \in Clients : channel[c] = l /\ Present(c)}
            IN  IF l \in target THEN present # {} \/ l \in failed \/ cancelled
                ELSE present \subseteq robbed

\* When the context is cancelled everything ends: the engine, the reading of what it
\* has reported, and every client, those started after the cancellation included.
AllEnds ==
    cancelled ~> /\ pc = "stopped" /\ eventsOut = <<>>
                 /\ \A c \in Clients : run[c] = "none"
=============================================================================
