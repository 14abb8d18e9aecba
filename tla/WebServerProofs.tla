--------------------------- MODULE WebServerProofs --------------------------
(***************************************************************************)
(* Theorems about the web server, for any number of clients, any length of *)
(* the kernel's queue and any number of signals.                           *)
(***************************************************************************)
EXTENDS WebServer, SequenceTheorems, TLAPS

Peers == Clients \cup {OURSELVES}

\* Only who spoke is answered, only a statement is executed, and what was
\* executed is in memory until sm_close has written it.
KeepInv ==
  /\ sent[OURSELVES] = "nothing"
  /\ \A c \in Peers : sent[c] = "nothing" => settled[c] # "answer"
  /\ at = "execute" => sent[client] = "statement"
  /\ at = "respond" => /\ sent[client] # "nothing"
                       /\ sent[client] = "statement" => client \in unsaved \cup saved
  /\ at = "exited" => unsaved = {}
  /\ AnsweredIsKept

\* Nobody was let in late as long as the flag is set, nor after the flag was
\* looked at for the last time.
LateInv ==
  /\ OneMoreAtMost
  /\ server_running \/ at = "accept" => late = 0

ServerInv == TypeOK /\ KeepInv /\ LateInv

\* An empty queue is a queue within its bound.
LEMMA EmptyQueue == <<>> \in Seq(Peers) /\ Len(<<>>) <= Backlog
BY EmptySeq, WebServerAssumption

\* What run_webserver sets up before its loop.
LEMMA InitServerInv == Init => ServerInv
<1> SUFFICES ASSUME Init PROVE ServerInv
  OBVIOUS
<1>1. TypeOK
  <2>1. backlog \in Seq(Peers) /\ Len(backlog) <= Backlog
    BY EmptyQueue DEF Init
  <2>2. signals \in 0 .. MaxSignals /\ late \in Nat
    BY WebServerAssumption DEF Init
  <2>3. sent \in [Peers -> {"nothing"} \cup Requests]
    BY DEF Init, Peers
  <2>4. settled \in [Peers -> {"nothing", "answer", "close"}]
    BY DEF Init, Peers
  <2> QED BY <2>1, <2>2, <2>3, <2>4 DEF Init, TypeOK, Peers
<1>2. KeepInv
  BY DEF Init, KeepInv, Peers, AnsweredIsKept
<1>3. LateInv
  BY DEF Init, LateInv, OneMoreAtMost
<1> QED BY <1>1, <1>2, <1>3 DEF ServerInv

-----------------------------------------------------------------------------
(* One lemma for each way a step can touch what the invariant speaks of.   *)

\* Adding to the queue where there is room.
LEMMA QueueGrows ==
  ASSUME TypeOK, RoomInBacklog, NEW c \in Peers
  PROVE  /\ Append(backlog, c) \in Seq(Peers)
         /\ Len(Append(backlog, c)) <= Backlog
BY AppendProperties, LenProperties, WebServerAssumption DEF TypeOK, RoomInBacklog, Peers

\* What the clients do.
LEMMA ClientKeepsInv ==
  ASSUME ServerInv, NEW c \in Clients, Connect(c) \/ Send(c) \/ HangUp(c)
  PROVE  ServerInv'
<1>1. CASE Connect(c)
  <2>1. TypeOK'
    BY <1>1, QueueGrows DEF ServerInv, TypeOK, Connect, Peers, peers, data
  <2> QED BY <1>1, <2>1 DEF ServerInv, KeepInv, LateInv, AnsweredIsKept, OneMoreAtMost,
                            Connect, peers, data
<1>2. CASE Send(c)
  <2>1. TypeOK'
    BY <1>2 DEF ServerInv, TypeOK, Send, Requests, socket, data
  <2>2. /\ c # OURSELVES
        /\ sent[c] = "nothing" /\ settled[c] # "answer"
        /\ sent' \in [Peers -> {"nothing"} \cup Requests]
        /\ sent'[c] \in Requests
        /\ \A d \in Peers : d # c => sent'[d] = sent[d]
    BY <1>2, WebServerAssumption DEF ServerInv, TypeOK, KeepInv, Send, Requests, Peers
  <2>3. KeepInv'
    <3>1. at \in {"execute", "respond"} => client # c /\ client \in Peers
      BY <2>2 DEF ServerInv, TypeOK, KeepInv, Peers
    <3> QED BY <1>2, <2>2, <3>1
        DEF ServerInv, KeepInv, AnsweredIsKept, Send, Peers, Requests, data
  <2>4. LateInv'
    BY <1>2 DEF ServerInv, LateInv, OneMoreAtMost, Send
  <2> QED BY <2>1, <2>3, <2>4 DEF ServerInv
<1>3. CASE HangUp(c)
  <2>1. TypeOK'
    BY <1>3 DEF ServerInv, TypeOK, HangUp, socket, data
  <2> QED BY <1>3, <2>1 DEF ServerInv, KeepInv, LateInv, AnsweredIsKept, OneMoreAtMost,
                            HangUp, data
<1> QED BY <1>1, <1>2, <1>3

\* A death leaves nobody answered that was not, and nothing in memory.
LEMMA DeathKeepsInv ==
  ASSUME ServerInv, Dies
  PROVE  ServerInv'
<1>1. TypeOK'
  <2>1. settled' \in [Peers -> {"nothing", "answer", "close"}]
    BY DEF ServerInv, TypeOK, Dies, Peers
  <2> QED BY <2>1, EmptyQueue DEF ServerInv, TypeOK, Dies, Down, Peers
<1>2. KeepInv'
  BY DEF ServerInv, TypeOK, KeepInv, AnsweredIsKept, Dies, Peers
<1>3. LateInv'
  BY DEF ServerInv, LateInv, OneMoreAtMost, Dies
<1> QED BY <1>1, <1>2, <1>3 DEF ServerInv

\* SIGINT clears the flag, and ends a read that waits.
LEMMA SigintKeepsInv ==
  ASSUME ServerInv, Sigint
  PROVE  ServerInv'
<1>1. TypeOK'
  <2>1. backlog' \in Seq(Peers) /\ Len(backlog') <= Backlog
    BY QueueGrows DEF ServerInv, TypeOK, Sigint, Peers
  <2>2. at' \in {at, "loop"} /\ settled' \in [Peers -> {"nothing", "answer", "close"}]
    BY DEF ServerInv, TypeOK, Sigint, Finish, Peers
  <2>3. signals' \in 0 .. MaxSignals
    BY WebServerAssumption DEF ServerInv, TypeOK, Sigint
  <2>4. handler' \in BOOLEAN /\ server_running' \in BOOLEAN
    BY Zenon DEF Sigint, Stopped
  <2> QED BY <2>1, <2>2, <2>3, <2>4 DEF ServerInv, TypeOK, Sigint, Peers, data
<1>2. KeepInv'
  <2>1. \A c \in Peers : settled'[c] = "answer" => settled[c] = "answer"
    BY DEF ServerInv, TypeOK, Sigint, Finish, Peers
  <2>2. at' \in {at, "loop"} /\ at # "exited"
    BY DEF Sigint, Down
  <2> QED BY <2>1, <2>2 DEF ServerInv, KeepInv, AnsweredIsKept, Sigint, Peers, data
<1>3. LateInv'
  BY DEF ServerInv, LateInv, OneMoreAtMost, Sigint, Stopped
<1> QED BY <1>1, <1>2, <1>3 DEF ServerInv

\* The steps of the thread.
LEMMA ThreadKeepsInv ==
  ASSUME ServerInv, Thread
  PROVE  ServerInv'
<1> USE DEF ServerInv
<1>1. CASE Loop \/ Wake \/ ConnectGivesUp
  <2>1. /\ at' \in {at, "accept", "loop", "shutdown"}
        /\ at' = "accept" => at = "accept" \/ server_running
        /\ at = "dead" => at' = at
        /\ handler' \in BOOLEAN
    BY <1>1 DEF TypeOK, Loop, LoopOn, Wake, ConnectGivesUp
  <2>2. UNCHANGED <<server_running, socket, client, peers, data, signals, late>>
    BY <1>1 DEF Loop, Wake, ConnectGivesUp
  <2>3. TypeOK'
    BY <2>1, <2>2 DEF TypeOK, socket, peers, data
  <2>4. KeepInv'
    BY <2>1, <2>2 DEF KeepInv, AnsweredIsKept, peers, data
  <2>5. LateInv'
    BY <2>1, <2>2 DEF LateInv, OneMoreAtMost
  <2> QED BY <2>3, <2>4, <2>5
<1>2. CASE Accept
  <2>1. TypeOK'
    <3>1. CASE backlog = <<>>
      BY <1>2, <3>1 DEF TypeOK, Accept, peers, data
    <3>2. CASE backlog # <<>>
      <4>1. Head(backlog) \in Peers /\ Tail(backlog) \in Seq(Peers)
            /\ Len(Tail(backlog)) <= Backlog
        BY <3>2, HeadTailProperties, LenProperties, WebServerAssumption DEF TypeOK, Peers
      <4>2. late' \in Nat
        BY <1>2 DEF TypeOK, Accept
      <4> QED BY <1>2, <3>2, <4>1, <4>2 DEF TypeOK, Accept, Peers, peers, data
    <3> QED BY <3>1, <3>2
  <2>2. KeepInv'
    BY <1>2 DEF KeepInv, AnsweredIsKept, Accept, peers, data
  <2>3. LateInv'
    BY <1>2 DEF LateInv, OneMoreAtMost, Accept
  <2> QED BY <2>1, <2>2, <2>3
<1>3. CASE Read
  <2>1. /\ at' \in {"blocked", "loop", "execute", "respond"}
        /\ at' = "execute" => sent[client] = "statement"
        /\ at' = "respond" => sent[client] = "other"
        /\ \A c \in Peers : settled'[c] = "answer" => settled[c] = "answer"
        /\ settled' \in [Peers -> {"nothing", "answer", "close"}]
    BY <1>3 DEF TypeOK, Read, Finish, Requests, Peers
  <2>2. TypeOK'
    BY <1>3, <2>1 DEF TypeOK, Read, Peers, socket, data
  <2>3. KeepInv'
    BY <1>3, <2>1 DEF KeepInv, AnsweredIsKept, Read, Peers, data
  <2>4. LateInv'
    BY <1>3, <2>1 DEF LateInv, OneMoreAtMost, Read
  <2> QED BY <2>2, <2>3, <2>4
<1>4. CASE Execute
  <2>1. client \in Clients
    BY <1>4 DEF TypeOK, KeepInv, Execute
  <2>2. TypeOK'
    BY <1>4, <2>1 DEF TypeOK, Execute, Executed, socket, peers
  <2> QED BY <1>4, <2>2
      DEF KeepInv, LateInv, AnsweredIsKept, OneMoreAtMost, Execute, Executed, peers
<1>5. CASE Respond
  <2>1. CASE Dies
    BY <2>1, DeathKeepsInv
  <2>2. CASE at' = "loop" /\ Finish(client, "answer") /\ UNCHANGED <<handler, server_running,
             socket, client, sent, gone, data, signals, late>>
    <3>1. TypeOK'
      BY <2>2 DEF TypeOK, Finish, socket, data
    <3>2. \A c \in Peers : settled'[c] = "answer" => settled[c] = "answer" \/ c = client
      BY <2>2 DEF TypeOK, Finish, Peers
    <3>3. KeepInv'
      BY <1>5, <2>2, <3>2 DEF KeepInv, AnsweredIsKept, Respond, Peers, data
    <3>4. LateInv'
      BY <2>2 DEF LateInv, OneMoreAtMost
    <3> QED BY <3>1, <3>3, <3>4
  <2> QED BY <1>5, <2>1, <2>2 DEF Respond
<1>6. CASE Shutdown
  <2>1. /\ settled' \in [Peers -> {"nothing", "answer", "close"}]
        /\ \A c \in Peers : settled'[c] = "answer" => settled[c] = "answer"
    BY <1>6 DEF TypeOK, Shutdown, Peers
  <2>2. TypeOK'
    BY <1>6, <2>1, EmptyQueue DEF TypeOK, Shutdown, Peers, data
  <2>3. KeepInv'
    BY <1>6, <2>1 DEF KeepInv, AnsweredIsKept, Shutdown, Peers, data
  <2>4. LateInv'
    BY <1>6 DEF LateInv, OneMoreAtMost, Shutdown
  <2> QED BY <2>2, <2>3, <2>4
<1>7. CASE Save
  <2>1. TypeOK'
    BY <1>7 DEF TypeOK, Save, Down, socket, peers
  <2> QED BY <1>7, <2>1 DEF KeepInv, LateInv, AnsweredIsKept, OneMoreAtMost, Save, peers
<1> QED BY <1>1, <1>2, <1>3, <1>4, <1>5, <1>6, <1>7 DEF Thread

\* Every step, and no step at all.
LEMMA NextServerInv == ServerInv /\ [Next]_vars => ServerInv'
<1> SUFFICES ASSUME ServerInv, [Next]_vars PROVE ServerInv'
  OBVIOUS
<1>1. CASE \E c \in Clients : Connect(c) \/ Send(c) \/ HangUp(c)
  BY <1>1, ClientKeepsInv
<1>2. CASE Thread
  BY <1>2, ThreadKeepsInv
<1>3. CASE Sigint
  BY <1>3, SigintKeepsInv
<1>4. CASE Killed
  BY <1>4, DeathKeepsInv DEF Killed
<1>5. CASE UNCHANGED vars
  BY <1>5 DEF ServerInv, TypeOK, KeepInv, LateInv, AnsweredIsKept, OneMoreAtMost,
              vars, socket, peers, data
<1> QED BY <1>1, <1>2, <1>3, <1>4, <1>5 DEF Next

-----------------------------------------------------------------------------
(* What follows for the reader of webserver.c.                             *)

\* Every variable keeps its type, the queue its bound, and nothing but a
\* client's statement is executed.
THEOREM ServerTypeCorrect == Spec => []TypeOK
<1>1. ServerInv => TypeOK
  BY DEF ServerInv
<1> QED BY InitServerInv, NextServerInv, <1>1, PTL DEF Spec

\* A statement that handle_request answered is in memory until sm_close in
\* main wrote it, whenever signal_handler ran, unless the process died.
THEOREM AnswersAreKept == Spec => []AnsweredIsKept
<1>1. ServerInv => AnsweredIsKept
  BY DEF ServerInv, KeepInv
<1> QED BY InitServerInv, NextServerInv, <1>1, PTL DEF Spec

\* Once the loop's flag is cleared, at most one more client is accepted,
\* however many wait and however often SIGINT is sent.
THEOREM OneMoreClient == Spec => []OneMoreAtMost
<1>1. ServerInv => OneMoreAtMost
  BY DEF ServerInv, LateInv
<1> QED BY InitServerInv, NextServerInv, <1>1, PTL DEF Spec

=============================================================================
