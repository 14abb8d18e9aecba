----------------------------- MODULE WebServer ------------------------------
(***************************************************************************)
(* The web server (webserver.c): one thread that accepts a client, reads   *)
(* its request, executes the statement and answers, and a SIGINT handler   *)
(* that may run between any two of these steps.  main saves the database   *)
(* once run_webserver returns.  A request is a statement or something else *)
(* (a page, a bad request): what the statement does is module Tables.      *)
(***************************************************************************)
EXTENDS Naturals, Sequences, SequencesExt, FiniteSets

CONSTANTS
  Clients,     \* each connects once
  OURSELVES,   \* the connection that the SIGINT handler makes
  Backlog,     \* MAX_CLIENTS: connections that wait to be accepted
  MaxSignals   \* bound of the model: how often SIGINT is sent

ASSUME WebServerAssumption ==
  /\ OURSELVES \notin Clients
  /\ Backlog \in Nat \ {0}
  /\ MaxSignals \in Nat

VARIABLES
  at,               \* where the thread is, handler apart
  handler,          \* the SIGINT handler is inside connect()
  server_running,   \* the flag of the loop
  listening,        \* the server socket is open
  backlog,          \* connections not accepted yet, oldest first
  client,           \* the client of handle_request
  sent,             \* what each client sent
  gone,             \* the clients that closed their end
  settled,          \* what each client got: nothing, an answer, or a close
  unsaved,          \* clients whose statement was executed and is not saved
  saved,            \* clients whose statement is in the file
  signals,          \* history: how often SIGINT was sent
  late              \* history: clients accepted after the flag was cleared

socket == <<listening, backlog>>
peers == <<sent, gone, settled>>
data == <<unsaved, saved>>
vars == <<at, handler, server_running, socket, client, peers, data, signals, late>>

Requests == {"statement", "other"}
Down == {"exited", "dead"}

TypeOK ==
  /\ at \in {"loop", "accept", "sleep", "request", "blocked", "execute", "respond",
             "shutdown", "save"} \cup Down
  /\ handler \in BOOLEAN
  /\ server_running \in BOOLEAN
  /\ listening \in BOOLEAN
  /\ backlog \in Seq(Clients \cup {OURSELVES})
  /\ Len(backlog) <= Backlog
  /\ client \in Clients \cup {OURSELVES}
  /\ sent \in [Clients \cup {OURSELVES} -> {"nothing"} \cup Requests]
  /\ gone \subseteq Clients \cup {OURSELVES}
  /\ settled \in [Clients \cup {OURSELVES} -> {"nothing", "answer", "close"}]
  /\ unsaved \subseteq Clients
  /\ saved \subseteq Clients
  /\ signals \in 0 .. MaxSignals
  /\ late \in Nat

\* run_webserver, its socket listening and its signal handler set.
Init ==
  /\ at = "loop"
  /\ handler = FALSE
  /\ server_running = TRUE
  /\ listening = TRUE
  /\ backlog = <<>>
  /\ client = OURSELVES
  /\ sent = [c \in Clients \cup {OURSELVES} |-> "nothing"]
  /\ gone = {OURSELVES}
  /\ settled = [c \in Clients \cup {OURSELVES} |-> "nothing"]
  /\ unsaved = {}
  /\ saved = {}
  /\ signals = 0
  /\ late = 0

-----------------------------------------------------------------------------
(* The clients and the kernel's queue.                                     *)

RoomInBacklog == Len(backlog) < Backlog

Serving == at \in {"request", "blocked", "execute", "respond"}
Connected(c) == c \in ToSet(backlog) \/ (Serving /\ client = c)
New(c) == c \notin gone /\ sent[c] = "nothing" /\ settled[c] = "nothing" /\ ~Connected(c)

Connect(c) ==
  /\ New(c)
  /\ listening
  /\ RoomInBacklog
  /\ backlog' = Append(backlog, c)
  /\ UNCHANGED <<at, handler, server_running, listening, client, peers, data, signals, late>>

Send(c) ==
  /\ Connected(c)
  /\ c \notin gone
  /\ sent[c] = "nothing"
  /\ \E r \in Requests : sent' = [sent EXCEPT ![c] = r]
  /\ UNCHANGED <<at, handler, server_running, socket, client, gone, settled, data, signals, late>>

\* A client may hang up at any time, its request sent or not.
HangUp(c) ==
  /\ Connected(c)
  /\ c \notin gone
  /\ gone' = gone \cup {c}
  /\ UNCHANGED <<at, handler, server_running, socket, client, sent, settled, data, signals, late>>

-----------------------------------------------------------------------------
(* The thread.  It makes no step while the handler runs.                   *)

LoopOnWhileBusy == server_running \/ backlog # <<>>
LoopOn == server_running

Loop ==
  /\ at = "loop" /\ ~handler
  /\ at' = IF LoopOn THEN "accept" ELSE "shutdown"
  /\ UNCHANGED <<handler, server_running, socket, client, peers, data, signals, late>>

\* accept on the non-blocking socket.
Accept ==
  /\ at = "accept" /\ ~handler
  /\ IF backlog = <<>>
     THEN /\ at' = "sleep"
          /\ UNCHANGED <<backlog, client, late>>
     ELSE /\ at' = "request"
          /\ client' = Head(backlog)
          /\ backlog' = Tail(backlog)
          /\ late' = IF server_running THEN late ELSE late + 1
  /\ UNCHANGED <<handler, server_running, listening, peers, data, signals>>

Wake ==
  /\ at = "sleep" /\ ~handler
  /\ at' = "loop"
  /\ UNCHANGED <<handler, server_running, socket, client, peers, data, signals, late>>

\* close(client_fd), after an answer or without one.
FinishOpen(c, how) == settled' = IF how = "answer" THEN [settled EXCEPT ![c] = how] ELSE settled
Finish(c, how) == settled' = [settled EXCEPT ![c] = how]

\* read of handle_request: it blocks as long as the client says nothing, and
\* may be called before the client speaks.  After a hang-up it returns the
\* request or fails.
Read ==
  /\ at \in {"request", "blocked"} /\ ~handler
  /\ \/ /\ sent[client] = "nothing" /\ client \notin gone
        /\ at = "request"
        /\ at' = "blocked"
        /\ UNCHANGED settled
     \/ /\ client \in gone
        /\ at' = "loop"
        /\ Finish(client, "close")
     \/ /\ sent[client] # "nothing"
        /\ at' = IF sent[client] = "statement" THEN "execute" ELSE "respond"
        /\ UNCHANGED settled
  /\ UNCHANGED <<handler, server_running, socket, client, sent, gone, data, signals, late>>

ExecutedUnlessStopping(c) == IF server_running THEN unsaved \cup {c} ELSE unsaved
Executed(c) == unsaved \cup {c}

Execute ==
  /\ at = "execute" /\ ~handler
  /\ at' = "respond"
  /\ unsaved' = Executed(client)
  /\ UNCHANGED <<handler, server_running, socket, client, peers, saved, signals, late>>

\* The thread dies: nothing more is saved and every connection is closed.
Dies ==
  /\ at' = "dead"
  /\ handler' = FALSE
  /\ listening' = FALSE
  /\ backlog' = <<>>
  /\ unsaved' = {}
  /\ settled' = [c \in DOMAIN settled |->
                   IF Connected(c) THEN "close" ELSE settled[c]]
  /\ UNCHANGED <<server_running, client, sent, gone, saved, signals, late>>

\* Two writes: the second one to a client that has hung up may raise SIGPIPE,
\* which nobody handles.
Respond ==
  /\ at = "respond" /\ ~handler
  /\ \/ /\ at' = "loop"
        /\ Finish(client, "answer")
        /\ UNCHANGED <<handler, server_running, socket, client, sent, gone, data, signals, late>>
     \/ /\ client \in gone
        /\ Dies

\* The loop has ended: the socket and what waits in its queue are closed.
Shutdown ==
  /\ at = "shutdown" /\ ~handler
  /\ at' = "save"
  /\ listening' = FALSE
  /\ backlog' = <<>>
  /\ settled' = [c \in DOMAIN settled |->
                   IF c \in ToSet(backlog) THEN "close" ELSE settled[c]]
  /\ UNCHANGED <<handler, server_running, client, sent, gone, data, signals, late>>

\* sm_close in main.
Save ==
  /\ at = "save" /\ ~handler
  /\ at' = "exited"
  /\ saved' = saved \cup unsaved
  /\ unsaved' = {}
  /\ UNCHANGED <<handler, server_running, socket, client, peers, signals, late>>

-----------------------------------------------------------------------------
(* SIGINT.                                                                 *)

StillRunning == server_running
Stopped == FALSE

\* signal_handler clears the flag and connects to the server's own socket; the
\* connect waits when the queue is full.  A read that was blocked ends.
Sigint ==
  /\ at \notin Down /\ ~handler
  /\ signals < MaxSignals
  /\ signals' = signals + 1
  /\ server_running' = Stopped
  /\ backlog' = IF listening /\ RoomInBacklog THEN Append(backlog, OURSELVES) ELSE backlog
  /\ handler' = (listening /\ ~RoomInBacklog)
  /\ IF at = "blocked"
     THEN at' = "loop" /\ Finish(client, "close")
     ELSE UNCHANGED <<at, settled>>
  /\ UNCHANGED <<listening, client, sent, gone, data, late>>

\* connect gives up after its timeout: nothing takes from the queue meanwhile.
ConnectGivesUp ==
  /\ handler
  /\ handler' = FALSE
  /\ UNCHANGED <<at, server_running, socket, client, peers, data, signals, late>>

\* Another signal, or exit() in safe_malloc.
Killed == at \notin Down /\ Dies

Thread ==
  \/ Loop \/ Accept \/ Wake \/ Read \/ Execute \/ Respond \/ Shutdown \/ Save
  \/ ConnectGivesUp

Next ==
  \/ \E c \in Clients : Connect(c) \/ Send(c) \/ HangUp(c)
  \/ Thread
  \/ Sigint
  \/ Killed

\* The thread runs on whenever it is not blocked.
Spec == Init /\ [][Next]_vars /\ WF_vars(Thread)

\* In addition, no client that was accepted stays silent for ever.
Speaks(c) == sent[c] = "nothing" /\ (Send(c) \/ HangUp(c))
SpeakingClients == \A c \in Clients : WF_vars(Speaks(c))
SpeakingSpec == Spec /\ SpeakingClients

-----------------------------------------------------------------------------
(* Properties.                                                             *)

\* A statement that was answered is in the file once the process has exited by
\* itself, whatever signals came at whatever moment; it is lost only with a
\* process that died.
AnsweredIsKept ==
  \A c \in Clients :
    (sent[c] = "statement" /\ settled[c] = "answer") =>
      \/ c \in saved
      \/ c \in unsaved /\ at # "exited"
      \/ at = "dead"

\* SIGINT lets at most one more client in, whatever waits in the queue.
OneMoreAtMost == late <= 1

\* Every client that connected is settled, though the server takes one client
\* at a time and a SIGINT may come in between.
EveryClientSettled ==
  \A c \in Clients : c \in ToSet(backlog) ~> settled[c] # "nothing"

\* SIGINT ends the process.
ShutdownCompletes == signals > 0 ~> at \in Down

=============================================================================
