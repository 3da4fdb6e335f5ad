----------------------------- MODULE ClockServer ----------------------------
(***************************************************************************)
(* operations/clock.py, ClockServer: one thread accepts and serves         *)
(* connections one after the other, a guard cuts the one in hand when its  *)
(* absolute deadline has passed, and another thread may close the server   *)
(* at any moment.                                                          *)
(*                                                                         *)
(* Every block under _connection_lock is one step.  The guard sleeps on    *)
(* the condition, for good or until the deadline it last read.             *)
(***************************************************************************)
EXTENDS Naturals

CONSTANTS
  Timeout,   (* _REQUEST_TIMEOUT, in ticks                                  *)
  Clients    (* bound of the model: connections                             *)

Connections == 1..Clients
NoConnection == 0
Forever == Timeout + 1

VARIABLES
  socket,   (* socket[c]: "none", "waiting" in the backlog, "open", "cut" by *)
            (* the server's shutdown or "closed" in its turn                *)
  client,   (* client[c]: "prompt", or "stuck": it never ends its request   *)
  serving,  (* the server thread: the connection it accepts or serves       *)
  at,       (* where the server thread is: "accept", "register", "handle",  *)
            (* "finish", "gone"                                             *)
  active,   (* _active_connection, or NoConnection                          *)
  left,     (* time until the deadline of active                            *)
  guard,    (* "awake", "asleep" or "gone"                                  *)
  alarm,    (* time until a guard asleep wakes by itself, or Forever        *)
  closing   (* _closing                                                     *)

connections == <<socket, client>>
thread == <<serving, at>>
watch == <<active, left>>
vars == <<connections, thread, watch, guard, alarm, closing>>

Init ==
  /\ socket = [c \in Connections |-> "none"] /\ client = [c \in Connections |-> "prompt"]
  /\ serving = NoConnection /\ at = "accept" /\ active = NoConnection /\ left = 0
  /\ guard = "awake" /\ alarm = Forever /\ closing = FALSE

Is(c, state) == socket' = [socket EXCEPT ![c] = state]
Notify == guard' = IF guard = "asleep" THEN "awake" ELSE guard

Connect(c) ==
  /\ socket[c] = "none" /\ Is(c, "waiting")
  /\ \E how \in {"prompt", "stuck"} : client' = [client EXCEPT ![c] = how]
  /\ UNCHANGED <<thread, watch, guard, alarm, closing>>

Tick ==
  /\ left' = IF left = 0 THEN 0 ELSE left - 1
  /\ alarm' = IF alarm \in {0, Forever} THEN alarm ELSE alarm - 1
  /\ <<left', alarm'>> # <<left, alarm>>
  /\ UNCHANGED <<connections, thread, active, guard, closing>>
-----------------------------------------------------------------------------
Accept(c) ==
  /\ at = "accept" /\ socket[c] = "waiting"
  /\ Is(c, "open") /\ serving' = c /\ at' = "register"
  /\ UNCHANGED <<client, watch, guard, alarm, closing>>

(* A thread that goes on after server_close has no listening socket.       *)
StopServing ==
  /\ at = "accept" /\ closing /\ at' = "gone"
  /\ UNCHANGED <<connections, serving, watch, guard, alarm, closing>>

RegisterSilently ==
  /\ at = "register"
  /\ IF closing
     THEN Is(serving, "closed") /\ at' = "accept" /\ UNCHANGED watch
     ELSE at' = "handle" /\ active' = serving /\ left' = Timeout /\ UNCHANGED socket
  /\ UNCHANGED <<client, serving, alarm, closing, guard>>

(* get_request, under the lock                                             *)
Register ==
  /\ at = "register"
  /\ IF closing
     THEN Is(serving, "closed") /\ at' = "accept" /\ UNCHANGED <<watch, guard>>
     ELSE /\ at' = "handle" /\ active' = serving /\ left' = Timeout
          /\ Notify /\ UNCHANGED socket
  /\ UNCHANGED <<client, serving, alarm, closing>>

(* The handler returns when the request is answered or its socket is cut;  *)
(* nothing else ends the handling of a client that keeps the connection    *)
(* just alive.                                                             *)
Handle ==
  /\ at = "handle" /\ at' = "finish"
  /\ client[serving] = "prompt" \/ socket[serving] = "cut"
  /\ UNCHANGED <<connections, serving, watch, guard, alarm, closing>>

FinishForgets ==
  /\ at = "finish" /\ at' = "accept"
  /\ Is(serving, "closed") /\ UNCHANGED <<client, serving, watch, guard, alarm, closing>>

(* shutdown_request                                                        *)
Finish ==
  /\ at = "finish" /\ at' = "accept"
  /\ Is(serving, "closed")
  /\ IF active = serving THEN active' = NoConnection /\ left' = 0 /\ Notify
                         ELSE UNCHANGED <<watch, guard>>
  /\ UNCHANGED <<client, serving, alarm, closing>>
-----------------------------------------------------------------------------
Cut ==
  IF active = NoConnection THEN UNCHANGED <<watch, socket>>
  ELSE active' = NoConnection /\ left' = 0 /\ Is(active, "cut")

(* The guard looks under the lock, which wait() gives up.                  *)
Look ==
  /\ guard = "awake" /\ ~closing
  /\ \/ active = NoConnection /\ guard' = "asleep" /\ alarm' = Forever
        /\ UNCHANGED <<watch, socket>>
     \/ active # NoConnection /\ left = 0 /\ Cut /\ UNCHANGED <<guard, alarm>>
     \/ active # NoConnection /\ left > 0 /\ guard' = "asleep" /\ alarm' = left
        /\ UNCHANGED <<watch, socket>>
  /\ UNCHANGED <<client, thread, closing>>

Wake ==
  /\ guard = "asleep" /\ alarm = 0 /\ guard' = "awake"
  /\ UNCHANGED <<connections, thread, watch, alarm, closing>>

GuardEnds ==
  /\ guard = "awake" /\ closing /\ guard' = "gone"
  /\ UNCHANGED <<connections, thread, watch, alarm, closing>>

(* server_close                                                            *)
Close ==
  /\ ~closing /\ closing' = TRUE
  /\ Cut /\ Notify
  /\ UNCHANGED <<client, thread, alarm>>

Server == Register \/ Handle \/ Finish \/ StopServing \/ \E c \in Connections : Accept(c)
Guard == Look \/ Wake \/ GuardEnds

Next == Server \/ Guard \/ Tick \/ Close \/ \E c \in Connections : Connect(c)

Spec == Init /\ [][Next]_vars

(* Both threads are scheduled and time passes.                             *)
Fairness == WF_vars(Server) /\ WF_vars(Guard) /\ WF_vars(Tick)
-----------------------------------------------------------------------------
TypeOK ==
  /\ socket \in [Connections -> {"none", "waiting", "open", "cut", "closed"}]
  /\ client \in [Connections -> {"prompt", "stuck"}]
  /\ serving \in 0..Clients /\ at \in {"accept", "register", "handle", "finish", "gone"}
  /\ active \in 0..Clients /\ left \in 0..Timeout
  /\ guard \in {"awake", "asleep", "gone"} /\ alarm \in 0..Forever /\ closing \in BOOLEAN

(* Only the connection in hand is ever watched, so that the guard never    *)
(* cuts a later one for the deadline of an earlier one, and between two    *)
(* requests no connection is left open.                                    *)
OnlyInHandIsWatched ==
  /\ active # NoConnection => active = serving /\ at \in {"handle", "finish"}
  /\ at = "accept" => \A c \in Connections : socket[c] \in {"none", "waiting", "closed"}

(* A connection that is cut has had its time, or the server is closing.    *)
CutIsDue ==
  [][\A c \in Connections : socket[c] = "open" /\ socket'[c] = "cut" => left = 0 \/ closing']_vars

(* No client holds the server up, though it never ends its request and     *)
(* though notifications come while the guard sleeps.                       *)
ConnectionsEnd ==
  /\ at = "handle" ~> at # "handle"
  /\ closing ~> (guard = "gone" /\ at = "gone")

ServedInTurn == CutIsDue /\ ConnectionsEnd
=============================================================================
