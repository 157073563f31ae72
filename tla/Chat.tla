-------------------------------- MODULE Chat --------------------------------
(***************************************************************************)
(* Presence in the chats of the channels being watched: the output consumer   *)
(* starts and stops a client for a channel as it reads the engine's events    *)
(* (app.go:464-467, 530-532, 1895-1940), and each client runs on a goroutine  *)
(* of its own (chat/client.go:43-133) whose deferred function deletes the     *)
(* map entry of its channel.  The engine discards events when the consumer    *)
(* falls behind, so starts and stops come in any order.                      *)
(***************************************************************************)
EXTENDS Integers

CONSTANTS
    Channels,       \* channels whose chat is to be joined (shouldJoinChat)
    Clients,        \* goroutines; bound: how many exist at a time
    NoClient,
    NoChannel

ASSUME ChatAssumption == NoClient \notin Clients /\ NoChannel \notin Channels

VARIABLES
    chatCancels,    \* whose cancel function is in the map, for each channel
    run,            \* where each goroutine is
    channel,        \* the channel it serves, if there is such a goroutine
    told,           \* clients whose context is done
    stopped,        \* the context of the process is done
    \* history
    watched,        \* channels the consumer last read a start of
    robbed,         \* clients whose entry was deleted by another goroutine
    failed          \* channels whose client failed since one was last started

chatApp == <<chatCancels, stopped>>
chatClients == <<run, channel, told>>
chatHistory == <<watched, robbed, failed>>
chatVars == <<chatApp, chatClients, chatHistory>>

\* dialing, joined, Run has returned; none when there is no such goroutine.
Running == {"dialing", "joined"}

-----------------------------------------------------------------------------
ChatInit ==
    /\ chatCancels = [l \in Channels |-> NoClient]
    /\ run = [c \in Clients |-> "none"] /\ channel = [c \in Clients |-> NoChannel]
    /\ told = {} /\ stopped = FALSE
    /\ watched = {} /\ robbed = {} /\ failed = {}

(* The consumer, holding chatMu.                                             *)

Starts(l) ==
    \E c \in Clients :
        /\ run[c] = "none"
        /\ chatCancels' = [chatCancels EXCEPT ![l] = c]
        /\ run' = [run EXCEPT ![c] = "dialing"] /\ channel' = [channel EXCEPT ![c] = l]
        /\ told' = IF stopped THEN told \cup {c} ELSE told
        /\ UNCHANGED <<stopped, robbed>>

\* Variant: a start does not look for an entry.
StartAlways(l) ==
    /\ Starts(l)
    /\ watched' = watched \cup {l} /\ failed' = failed \ {l}

\* startChat, for a channel without an entry
StartChat(l) ==
    /\ chatCancels[l] = NoClient
    /\ Starts(l)
    /\ watched' = watched \cup {l} /\ failed' = failed \ {l}

\* startChat, for a channel that has an entry
StartExisting(l) ==
    /\ chatCancels[l] # NoClient
    /\ watched' = watched \cup {l}
    /\ UNCHANGED <<chatApp, chatClients, robbed, failed>>

\* Variant: the entry is deleted and nobody told.
StopChatSilently(l) ==
    /\ chatCancels' = [chatCancels EXCEPT ![l] = NoClient]
    /\ watched' = watched \ {l}
    /\ UNCHANGED <<stopped, run, channel, told, robbed, failed>>

\* stopChat
StopChat(l) ==
    /\ IF chatCancels[l] = NoClient THEN UNCHANGED <<chatCancels, told>>
       ELSE /\ told' = told \cup {chatCancels[l]}
            /\ chatCancels' = [chatCancels EXCEPT ![l] = NoClient]
    /\ watched' = watched \ {l}
    /\ UNCHANGED <<stopped, run, channel, robbed, failed>>

\* The contexts of the clients are children of the process's.
Shutdown ==
    /\ ~stopped /\ stopped' = TRUE
    /\ told' = {c \in Clients : run[c] # "none"}
    /\ UNCHANGED <<chatCancels, run, channel, chatHistory>>

-----------------------------------------------------------------------------
(* The clients                                                               *)

\* The dial, the handshake and the join succeed, perhaps as the context is done.
Join(c) ==
    /\ run[c] = "dialing" /\ run' = [run EXCEPT ![c] = "joined"]
    /\ UNCHANGED <<chatApp, channel, told, chatHistory>>

\* A request or the connection fails, or the service closes it.
ConnectionFails(c) ==
    /\ run[c] \in Running /\ run' = [run EXCEPT ![c] = "returned"]
    /\ failed' = IF c \in told THEN failed ELSE failed \cup {channel[c]}
    /\ UNCHANGED <<chatApp, channel, told, watched, robbed>>

\* Variant: the dial is not bound to the context.
LeaveJoined(c) ==
    /\ run[c] = "joined" /\ c \in told
    /\ run' = [run EXCEPT ![c] = "returned"]
    /\ UNCHANGED <<chatApp, channel, told, chatHistory>>

\* The context is done: the dial is given up, or the channel is left.
LeaveChat(c) ==
    /\ run[c] \in Running /\ c \in told
    /\ run' = [run EXCEPT ![c] = "returned"]
    /\ UNCHANGED <<chatApp, channel, told, chatHistory>>

\* The deferred function deletes the entry of the channel, whosever it is, and the
\* goroutine is gone.
ClearEntry(c) ==
    /\ run[c] = "returned" /\ run' = [run EXCEPT ![c] = "none"]
    /\ channel' = [channel EXCEPT ![c] = NoChannel] /\ told' = told \ {c}
    /\ LET l == channel[c]
       IN  /\ chatCancels' = [chatCancels EXCEPT ![l] = NoClient]
           /\ robbed' = (robbed \cup {chatCancels[l]}) \ {c, NoClient}
    /\ UNCHANGED <<stopped, watched, failed>>

-----------------------------------------------------------------------------
ChatNext ==
    \/ \E l \in Channels : StartChat(l) \/ StartExisting(l) \/ StopChat(l)
    \/ Shutdown
    \/ \E c \in Clients : Join(c) \/ ConnectionFails(c) \/ LeaveChat(c) \/ ClearEntry(c)

ChatSpec == ChatInit /\ [][ChatNext]_chatVars

-----------------------------------------------------------------------------
(* Properties                                                                *)

\* Every variable keeps its type.
ChatTypeOK ==
    /\ chatCancels \in [Channels -> Clients \cup {NoClient}]
    /\ run \in [Clients -> {"none", "dialing", "joined", "returned"}]
    /\ channel \in [Clients -> Channels \cup {NoChannel}]
    /\ told \subseteq Clients /\ robbed \subseteq Clients
    /\ watched \subseteq Channels /\ failed \subseteq Channels
    /\ stopped \in BOOLEAN

Present(c) == run[c] \in Running /\ c \notin told

\* A client that stays in a chat can be told to leave: it has the entry of its
\* channel, unless the end of an older client of that channel took the entry away.
\* And a channel whose start was read last has such a client, unless one has failed
\* since or the process stops (app.go:1895-1940).
PresenceKept ==
    /\ \A c \in Clients :
          Present(c) => chatCancels[channel[c]] = c \/ c \in robbed
    /\ \A l \in watched :
          \/ stopped \/ l \in failed
          \/ \E c \in Clients : channel[c] = l /\ Present(c)
=============================================================================
