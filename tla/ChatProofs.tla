----------------------------- MODULE ChatProofs -----------------------------
(* Theorems about the presence in chats.                                     *)
EXTENDS Chat, TLAPS

-----------------------------------------------------------------------------
(***************************************************************************)
(* PresenceKept holds for any channels and any number of clients at a time.   *)
(* The invariant says whose entry may be in the map, and why a client that    *)
(* runs may have none.                                                       *)
(***************************************************************************)

\* A goroutine that is not there has no channel and no mark.
Gone ==
    \A c \in Clients :
        /\ run[c] = "none" <=> channel[c] = NoChannel
        /\ run[c] = "none" => c \notin told /\ c \notin robbed

\* An entry is that of a client of the channel, which is not told to leave unless the
\* process stops, and has not ended unless it failed.
Owned ==
    \A l \in Channels :
        chatCancels[l] # NoClient =>
            /\ channel[chatCancels[l]] = l
            /\ chatCancels[l] \notin told \/ stopped
            /\ run[chatCancels[l]] = "returned" => l \in failed \/ stopped

\* A client without the entry of its channel was told to leave, or robbed.
Unlisted ==
    \A c \in Clients :
        run[c] # "none" => chatCancels[channel[c]] = c \/ c \in robbed \/ c \in told

AllTold == stopped => \A c \in Clients : run[c] # "none" => c \in told

Joined ==
    \A l \in watched :
        stopped \/ l \in failed \/ \E c \in Clients : channel[c] = l /\ Present(c)

ChatInv == ChatTypeOK /\ Gone /\ Owned /\ Unlisted /\ AllTold /\ Joined

-----------------------------------------------------------------------------
LEMMA ChatInit_Inv == ChatInit => ChatInv
<1> SUFFICES ASSUME ChatInit PROVE ChatInv
    OBVIOUS
<1>1. ChatTypeOK
    BY DEF ChatInit, ChatTypeOK
<1>2. Gone /\ Unlisted /\ AllTold
    BY DEF ChatInit, Gone, Unlisted, AllTold
<1>3. Owned /\ Joined
    BY DEF ChatInit, Owned, Joined
<1> QED
    BY <1>1, <1>2, <1>3 DEF ChatInv

LEMMA StartChat_Inv ==
    ASSUME ChatInv, NEW l \in Channels, StartChat(l)
    PROVE  ChatInv'
<1> USE ChatAssumption DEF ChatInv
<1>1. PICK c \in Clients :
          /\ run[c] = "none"
          /\ chatCancels' = [chatCancels EXCEPT ![l] = c]
          /\ run' = [run EXCEPT ![c] = "dialing"] /\ channel' = [channel EXCEPT ![c] = l]
          /\ told' = IF stopped THEN told \cup {c} ELSE told
          /\ UNCHANGED <<stopped, robbed>>
    BY DEF StartChat, Starts
<1>2. /\ chatCancels[l] = NoClient
      /\ watched' = watched \cup {l} /\ failed' = failed \ {l}
    BY DEF StartChat
<1>3. ChatTypeOK'
    BY <1>1, <1>2 DEF ChatTypeOK
<1>4. Gone' /\ AllTold'
    BY <1>1 DEF Gone, AllTold, ChatTypeOK
<1>5. c \notin told /\ channel[c] = NoChannel
    BY <1>1 DEF Gone
<1>6. \A m \in Channels : chatCancels[m] # c
    BY <1>5 DEF Owned
<1>7. Owned'
  <2> SUFFICES ASSUME NEW m \in Channels, chatCancels'[m] # NoClient
               PROVE  /\ channel'[chatCancels'[m]] = m
                      /\ chatCancels'[m] \notin told' \/ stopped'
                      /\ run'[chatCancels'[m]] = "returned" => m \in failed' \/ stopped'
      BY DEF Owned
  <2>1. CASE m = l
      BY <2>1, <1>1, <1>5 DEF ChatTypeOK
  <2>2. CASE m # l
    <3>1. /\ chatCancels'[m] = chatCancels[m] /\ chatCancels[m] # c
          /\ chatCancels[m] \in Clients
        BY <2>2, <1>1, <1>6 DEF ChatTypeOK
    <3>2. QED
        BY <2>2, <3>1, <1>1, <1>2 DEF Owned, ChatTypeOK
  <2>3. QED
      BY <2>1, <2>2
<1>8. Unlisted'
  <2> SUFFICES ASSUME NEW e \in Clients, run'[e] # "none"
               PROVE  chatCancels'[channel'[e]] = e \/ e \in robbed' \/ e \in told'
      BY DEF Unlisted
  <2>1. CASE e = c
      BY <2>1, <1>1 DEF ChatTypeOK
  <2>2. CASE e # c
    <3>1. run[e] # "none" /\ channel'[e] = channel[e]
        BY <2>2, <1>1 DEF ChatTypeOK
    <3>2. channel[e] = l => e \in robbed \/ e \in told
        BY <3>1, <1>2 DEF Unlisted
    <3>3. QED
        BY <3>1, <3>2, <1>1 DEF Unlisted, Gone, ChatTypeOK
  <2>3. QED
      BY <2>1, <2>2
<1>9. Joined'
  <2> SUFFICES ASSUME NEW m \in watched', ~stopped', m \notin failed'
               PROVE  \E e \in Clients : channel'[e] = m /\ Present(e)'
      BY DEF Joined
  <2>1. CASE m = l
    <3>1. channel'[c] = l /\ Present(c)'
        BY <1>1, <1>5 DEF Present, Running, ChatTypeOK
    <3>2. QED
        BY <2>1, <3>1
  <2>2. CASE m # l
    <3>1. PICK e \in Clients : channel[e] = m /\ Present(e)
        BY <2>2, <1>1, <1>2 DEF Joined
    <3>2. e # c
        BY <3>1, <1>1 DEF Present, Running
    <3>3. channel'[e] = m /\ Present(e)'
        BY <3>1, <3>2, <1>1 DEF Present, ChatTypeOK
    <3>4. QED
        BY <3>3
  <2>3. QED
      BY <2>1, <2>2
<1>10. QED
    BY <1>3, <1>4, <1>7, <1>8, <1>9

\* The entry that makes a start superfluous is that of a client which is present, or
\* has failed.
LEMMA StartExisting_Inv ==
    ASSUME ChatInv, NEW l \in Channels, StartExisting(l)
    PROVE  ChatInv'
<1> USE ChatAssumption DEF ChatInv, StartExisting, chatApp, chatClients
<1>1. ChatTypeOK'
    BY DEF ChatTypeOK
<1>2. Gone' /\ Owned' /\ Unlisted' /\ AllTold'
    BY DEF Gone, Owned, Unlisted, AllTold
<1>3. chatCancels[l] \in Clients /\ channel[chatCancels[l]] = l
    BY DEF ChatTypeOK, Owned
<1>4. run[chatCancels[l]] # "none"
    BY <1>3 DEF Gone
<1>5. stopped \/ l \in failed \/ Present(chatCancels[l])
    BY <1>3, <1>4 DEF Owned, Present, Running, ChatTypeOK
<1>6. Joined'
    BY <1>3, <1>5 DEF Joined, Present
<1>7. QED
    BY <1>1, <1>2, <1>6

LEMMA StopChat_Inv ==
    ASSUME ChatInv, NEW l \in Channels, StopChat(l)
    PROVE  ChatInv'
<1> USE ChatAssumption DEF ChatInv, StopChat
<1>1. ChatTypeOK'
    BY DEF ChatTypeOK
<1>2. CASE chatCancels[l] = NoClient
    BY <1>1, <1>2 DEF Gone, Owned, Unlisted, AllTold, Joined, Present
<1>3. CASE chatCancels[l] # NoClient
  <2> DEFINE c == chatCancels[l]
  <2>1. c \in Clients /\ channel[c] = l /\ run[c] # "none"
      BY <1>3 DEF Owned, Gone, ChatTypeOK
  <2>2. /\ told' = told \cup {c}
        /\ chatCancels' = [chatCancels EXCEPT ![l] = NoClient]
        /\ UNCHANGED <<stopped, run, channel, robbed, failed>>
        /\ watched' = watched \ {l}
      BY <1>3
  <2> HIDE DEF c
  <2>3. Gone' /\ AllTold'
      BY <2>1, <2>2 DEF Gone, AllTold
  <2>4. Owned'
      BY <2>1, <2>2 DEF Owned, ChatTypeOK
  <2>5. Unlisted'
    <3> SUFFICES ASSUME NEW e \in Clients, run[e] # "none"
                 PROVE  chatCancels'[channel[e]] = e \/ e \in robbed \/ e \in told'
        BY <2>2 DEF Unlisted
    <3>1. chatCancels[channel[e]] = e \/ e \in robbed \/ e \in told
        BY DEF Unlisted
    <3>2. channel[e] \in Channels
        BY DEF Gone, ChatTypeOK
    <3>3. CASE channel[e] = l
        BY <3>1, <3>3, <2>2 DEF c
    <3>4. CASE channel[e] # l
        BY <3>1, <3>2, <3>4, <2>2 DEF ChatTypeOK
    <3>5. QED
        BY <3>3, <3>4
  <2>6. Joined'
    <3> SUFFICES ASSUME NEW m \in watched', ~stopped', m \notin failed'
                 PROVE  \E e \in Clients : channel'[e] = m /\ Present(e)'
        BY DEF Joined
    <3>1. PICK e \in Clients : channel[e] = m /\ Present(e)
        BY <2>2 DEF Joined
    <3>2. e # c
        BY <3>1, <2>1, <2>2
    <3>3. channel'[e] = m /\ Present(e)'
        BY <3>1, <3>2, <2>2 DEF Present
    <3>4. QED
        BY <3>3
  <2>7. QED
      BY <1>1, <2>3, <2>4, <2>5, <2>6
<1>4. QED
    BY <1>2, <1>3

LEMMA Shutdown_Inv ==
    ASSUME ChatInv, Shutdown
    PROVE  ChatInv'
<1> USE DEF ChatInv, Shutdown, chatHistory
<1>1. ChatTypeOK'
    BY DEF ChatTypeOK
<1>2. Gone' /\ Owned' /\ AllTold' /\ Joined'
    BY DEF Gone, Owned, AllTold, Joined, ChatTypeOK
<1>3. Unlisted'
    BY DEF Unlisted
<1>4. QED
    BY <1>1, <1>2, <1>3

-----------------------------------------------------------------------------
LEMMA Join_Inv ==
    ASSUME ChatInv, NEW c \in Clients, Join(c)
    PROVE  ChatInv'
<1> USE DEF ChatInv, Join, chatApp, chatHistory
<1>1. ChatTypeOK'
    BY DEF ChatTypeOK
<1>2. Gone' /\ Owned' /\ Unlisted' /\ AllTold'
    BY ChatAssumption DEF Gone, Owned, Unlisted, AllTold, ChatTypeOK
<1>3. \A e \in Clients : Present(e) => Present(e)'
    BY DEF Present, Running, ChatTypeOK
<1>4. Joined'
    BY <1>3 DEF Joined
<1>5. QED
    BY <1>1, <1>2, <1>4

LEMMA Fails_Inv ==
    ASSUME ChatInv, NEW c \in Clients, ConnectionFails(c)
    PROVE  ChatInv'
<1> USE DEF ChatInv, ConnectionFails, chatApp
<1>1. channel[c] \in Channels
    BY DEF Gone, Running, ChatTypeOK
<1>2. ChatTypeOK'
    BY <1>1 DEF ChatTypeOK
<1>3. Gone' /\ Unlisted' /\ AllTold'
    BY DEF Gone, Unlisted, AllTold, ChatTypeOK, Running
<1>4. Owned'
  <2> SUFFICES ASSUME NEW m \in Channels, chatCancels[m] # NoClient
               PROVE  run'[chatCancels[m]] = "returned" => m \in failed' \/ stopped
      BY DEF Owned
  <2>1. CASE chatCancels[m] = c
      BY <2>1 DEF Owned
  <2>2. CASE chatCancels[m] # c
      BY <2>2 DEF Owned, ChatTypeOK
  <2>3. QED
      BY <2>1, <2>2
<1>5. Joined'
  <2> SUFFICES ASSUME NEW m \in watched', ~stopped', m \notin failed'
               PROVE  \E e \in Clients : channel'[e] = m /\ Present(e)'
      BY DEF Joined
  <2>1. PICK e \in Clients : channel[e] = m /\ Present(e)
      BY DEF Joined
  <2>2. e # c
      BY <2>1 DEF Present
  <2>3. channel'[e] = m /\ Present(e)'
      BY <2>1, <2>2 DEF Present, ChatTypeOK
  <2>4. QED
      BY <2>3
<1>6. QED
    BY <1>2, <1>3, <1>4, <1>5

LEMMA Leave_Inv ==
    ASSUME ChatInv, NEW c \in Clients, LeaveChat(c)
    PROVE  ChatInv'
<1> USE DEF ChatInv, LeaveChat, chatApp, chatHistory
<1>1. ChatTypeOK'
    BY DEF ChatTypeOK
<1>2. Gone' /\ Unlisted' /\ AllTold'
    BY DEF Gone, Unlisted, AllTold, ChatTypeOK, Running
<1>3. Owned'
  <2> SUFFICES ASSUME NEW m \in Channels, chatCancels[m] # NoClient
               PROVE  run'[chatCancels[m]] = "returned" => m \in failed \/ stopped
      BY DEF Owned
  <2>1. CASE chatCancels[m] = c
      BY <2>1 DEF Owned
  <2>2. CASE chatCancels[m] # c
      BY <2>2 DEF Owned, ChatTypeOK
  <2>3. QED
      BY <2>1, <2>2
<1>4. \A e \in Clients : Present(e) => Present(e)'
    BY DEF Present, ChatTypeOK
<1>5. Joined'
    BY <1>4 DEF Joined
<1>6. QED
    BY <1>1, <1>2, <1>3, <1>5

\* Whoever's entry the deferred function deletes is robbed, but still present.
LEMMA Clear_Inv ==
    ASSUME ChatInv, NEW c \in Clients, ClearEntry(c)
    PROVE  ChatInv'
<1> USE ChatAssumption DEF ChatInv
<1> DEFINE l == channel[c]
<1>1. l \in Channels
    BY DEF ClearEntry, Gone, ChatTypeOK
<1>2. /\ run[c] = "returned" /\ run' = [run EXCEPT ![c] = "none"]
      /\ channel' = [channel EXCEPT ![c] = NoChannel] /\ told' = told \ {c}
      /\ chatCancels' = [chatCancels EXCEPT ![l] = NoClient]
      /\ robbed' = (robbed \cup {chatCancels[l]}) \ {c, NoClient}
      /\ UNCHANGED <<stopped, watched, failed>>
    BY DEF ClearEntry
<1>e. chatCancels[l] # NoClient => channel[chatCancels[l]] = l /\ run[chatCancels[l]] # "none"
    BY <1>1 DEF Owned, Gone, ChatTypeOK
<1>f. \A m \in Channels : m # l => chatCancels[m] # c
    BY DEF Owned
<1> HIDE DEF l
<1>3. ChatTypeOK'
    BY <1>1, <1>2 DEF ChatTypeOK
<1>4. Gone' /\ AllTold'
    BY <1>2, <1>e DEF Gone, AllTold, ChatTypeOK
<1>5. Owned'
  <2> SUFFICES ASSUME NEW m \in Channels, chatCancels'[m] # NoClient
               PROVE  /\ channel'[chatCancels'[m]] = m
                      /\ chatCancels'[m] \notin told' \/ stopped'
                      /\ run'[chatCancels'[m]] = "returned" => m \in failed' \/ stopped'
      BY DEF Owned
  <2>1. m # l /\ chatCancels'[m] = chatCancels[m]
      BY <1>1, <1>2 DEF ChatTypeOK
  <2>2. chatCancels[m] # c /\ chatCancels[m] \in Clients
      BY <2>1, <1>f DEF ChatTypeOK
  <2>3. QED
      BY <2>1, <2>2, <1>2 DEF Owned, ChatTypeOK
<1>6. Unlisted'
  <2> SUFFICES ASSUME NEW e \in Clients, run'[e] # "none"
               PROVE  chatCancels'[channel'[e]] = e \/ e \in robbed' \/ e \in told'
      BY DEF Unlisted
  <2>1. e # c /\ run[e] # "none" /\ channel'[e] = channel[e]
      BY <1>2 DEF ChatTypeOK
  <2>2. chatCancels[channel[e]] = e \/ e \in robbed \/ e \in told
      BY <2>1 DEF Unlisted
  <2>3. channel[e] \in Channels /\ e # NoClient
      BY <2>1 DEF Gone, ChatTypeOK
  <2>4. CASE channel[e] = l /\ chatCancels[l] = e
      BY <2>1, <2>3, <2>4, <1>2
  <2>5. CASE channel[e] # l
      BY <2>1, <2>2, <2>3, <2>5, <1>2 DEF ChatTypeOK
  <2>6. CASE e \in robbed \/ e \in told
      BY <2>1, <2>3, <2>6, <1>2
  <2>7. QED
      BY <2>2, <2>4, <2>5, <2>6
<1>7. Joined'
  <2> SUFFICES ASSUME NEW m \in watched', ~stopped', m \notin failed'
               PROVE  \E e \in Clients : channel'[e] = m /\ Present(e)'
      BY DEF Joined
  <2>1. PICK e \in Clients : channel[e] = m /\ Present(e)
      BY <1>2 DEF Joined
  <2>2. e # c
      BY <2>1, <1>2 DEF Present, Running
  <2>3. channel'[e] = m /\ Present(e)'
      BY <2>1, <2>2, <1>2 DEF Present, ChatTypeOK
  <2>4. QED
      BY <2>3
<1>8. QED
    BY <1>3, <1>4, <1>5, <1>6, <1>7

-----------------------------------------------------------------------------
LEMMA Chat_Next_Inv == ChatInv /\ [ChatNext]_chatVars => ChatInv'
<1> SUFFICES ASSUME ChatInv, [ChatNext]_chatVars PROVE ChatInv'
    OBVIOUS
<1>1. ASSUME NEW l \in Channels, StartChat(l) \/ StartExisting(l) \/ StopChat(l)
      PROVE  ChatInv'
    BY <1>1, StartChat_Inv, StartExisting_Inv, StopChat_Inv
<1>2. CASE Shutdown
    BY <1>2, Shutdown_Inv
<1>3. ASSUME NEW c \in Clients,
             Join(c) \/ ConnectionFails(c) \/ LeaveChat(c) \/ ClearEntry(c)
      PROVE  ChatInv'
    BY <1>3, Join_Inv, Fails_Inv, Leave_Inv, Clear_Inv
<1>4. CASE UNCHANGED chatVars
    BY <1>4 DEF chatVars, chatApp, chatClients, chatHistory, ChatInv, ChatTypeOK, Gone,
                Owned, Unlisted, AllTold, Joined, Present
<1>5. QED
    BY <1>1, <1>2, <1>3, <1>4 DEF ChatNext

THEOREM Chat_Inv == ChatSpec => []ChatInv
<1>1. QED
    BY ChatInit_Inv, Chat_Next_Inv, PTL DEF ChatSpec

\* The type invariant of Chat.
THEOREM Chat_TypeOK == ChatSpec => []ChatTypeOK
<1>1. ChatInv => ChatTypeOK
    BY DEF ChatInv
<1>2. QED
    BY <1>1, Chat_Inv, PTL

\* For any channels and clients: whoever stays in a chat can be told to leave, or was
\* robbed of its entry; and a started channel has a client, unless it failed.
THEOREM Chat_PresenceKept == ChatSpec => []PresenceKept
<1>1. ChatInv => PresenceKept
    BY DEF ChatInv, PresenceKept, Unlisted, Joined, Present, Running
<1>2. QED
    BY <1>1, Chat_Inv, PTL

\* The exception of PresenceKept: an entry is lost only to the end of an older client of
\* the channel, one that had been told to leave or had lost its own (app.go:1919-1924).
THEOREM Chat_RobbedByOlder ==
    ChatSpec =>
        [][ \A v \in robbed' \ robbed :
              \E c \in Clients \ {v} : /\ ClearEntry(c) /\ channel[c] = channel[v]
                                      /\ c \in told \cup robbed ]_chatVars
<1> DEFINE Robs == \A v \in robbed' \ robbed :
                     \E c \in Clients \ {v} : /\ ClearEntry(c) /\ channel[c] = channel[v]
                                             /\ c \in told \cup robbed
<1>1. ASSUME ChatInv, [ChatNext]_chatVars, NEW v \in robbed', v \notin robbed
      PROVE  \E c \in Clients \ {v} : /\ ClearEntry(c) /\ channel[c] = channel[v]
                                      /\ c \in told \cup robbed
  <2>1. PICK c \in Clients : ClearEntry(c)
    BY <1>1 DEF ChatNext, StartChat, StartExisting, Starts, StopChat, Shutdown, Join,
       ConnectionFails, LeaveChat, chatVars, chatApp, chatClients, chatHistory
  <2> DEFINE l == channel[c]
  <2>2. /\ run[c] = "returned" /\ v = chatCancels[l] /\ v # c /\ v # NoClient
    BY <1>1, <2>1 DEF ClearEntry
  <2>3. l \in Channels
    BY <1>1, <2>2 DEF ChatInv, Gone, ChatTypeOK
  <2>4. v \in Clients /\ channel[v] = l
    BY <1>1, <2>2, <2>3 DEF ChatInv, Owned, Gone, ChatTypeOK
  <2>5. c \in told \cup robbed
    BY <1>1, <2>2 DEF ChatInv, Unlisted
  <2> QED BY <2>1, <2>2, <2>4, <2>5
<1>2. ChatInv /\ [ChatNext]_chatVars => [Robs]_chatVars
  <2> SUFFICES ASSUME ChatInv, [ChatNext]_chatVars, NEW v \in robbed' \ robbed
               PROVE  \E c \in Clients \ {v} : /\ ClearEntry(c) /\ channel[c] = channel[v]
                                              /\ c \in told \cup robbed
    OBVIOUS
  <2> QED BY <1>1
<1> QED
  BY <1>2, Chat_Inv, PTL DEF ChatSpec
=============================================================================
