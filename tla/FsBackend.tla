----------------------------- MODULE FsBackend ------------------------------
(***************************************************************************)
(* The mock vhost-user backend of the virtio-fs harness: a thread that     *)
(* accepts QEMU's connection, reads a header and a payload at a time and   *)
(* answers the four messages that ask for a value.                         *)
(*                                                                         *)
(* The frontend is QEMU's vhost-user code, which is not in the repository: *)
(* one connection at a time, a message is a header and then its payload,   *)
(* and after a message that asks for a value it waits for the reply.  It   *)
(* may give up a connection at any time.                                   *)
(***************************************************************************)
EXTENDS Naturals, Sequences

CONSTANTS
  Messages,   \* the messages a frontend sends
  MaxConns,   \* bound: connections
  MaxMsgs     \* bound: messages sent on one

\* A message with the size of its payload; idx is the vring it is about.  The
\* largest payload, a table of eight memory regions, has 264 bytes.
Message(request, size, idx) == [request |-> request, size |-> size, idx |-> idx]

ASSUME MessagesAssumption ==
  Messages \subseteq [request : STRING, size : 0 .. 264, idx : Nat]
ASSUME BoundsAssumption == MaxConns \in Nat \ {0} /\ MaxMsgs \in Nat

VARIABLES
  conns,    \* the connections and what each socket carries
  fe,       \* the connection the frontend uses, 0 if none
  unsent,   \* the payload bytes it still has to send
  backlog,  \* the connections to be accepted
  cfd,      \* g_backend_client_fd: the connection served, 0 for -1
  pc,       \* where the backend thread is
  h         \* the message whose header it has read

vars == <<conns, fe, unsent, backlog, cfd, pc, h>>

----------------------------------------------------------------------------
HdrSize     == 12
PayloadSize == 4096
kBacklog    == 1

\* Those a frontend waits for an answer to.
Asking == {m \in Messages : m.request \in {"GET_FEATURES", "GET_PROTOCOL_FEATURES",
                                           "GET_QUEUE_NUM", "GET_VRING_BASE"}}

\* The bytes of a message the backend takes for a header though they are not.
Misread == Message("unknown", 0, 0)
NoMessage == Message("none", 0, 0)

\* Plausible slip: everything is acknowledged.
Replied_all == {"GET_FEATURES", "GET_PROTOCOL_FEATURES", "GET_QUEUE_NUM",
                "GET_VRING_BASE", "SET_OWNER", "SET_VRING_NUM", "SET_MEM_TABLE"}

\* Plausible slip: the message a frontend sends when it stops is forgotten.
Replied_running == {"GET_FEATURES", "GET_PROTOCOL_FEATURES", "GET_QUEUE_NUM"}

Replied == {"GET_FEATURES", "GET_PROTOCOL_FEATURES", "GET_QUEUE_NUM", "GET_VRING_BASE"}

\* The vring state sent back, zero if the payload is too short to hold one.
ReplyTo(m) ==
  [request |-> m.request,
   idx |-> IF m.request = "GET_VRING_BASE" /\ m.size >= 8 THEN m.idx ELSE 0]

Conns == 1 .. MaxConns

NewConn == [fe |-> FALSE, be |-> "new", in |-> <<>>, sent |-> 0, asked |-> <<>>,
            replies |-> <<>>, read |-> 0]

Init ==
  /\ conns = [k \in Conns |-> NewConn]
  /\ fe = 0
  /\ unsent = 0
  /\ backlog = <<>>
  /\ cfd = 0
  /\ pc = "accept"
  /\ h = NoMessage

----------------------------------------------------------------------------
(* The frontend *)

Backend_kept == UNCHANGED <<cfd, pc, h>>

\* The next connection that was never used; connect() blocks on a full backlog.
Connect ==
  /\ fe = 0
  /\ Len(backlog) <= kBacklog
  /\ \E k \in Conns :
       /\ conns[k].be = "new" /\ conns[k].sent = 0 /\ ~conns[k].fe
       /\ \A j \in 1 .. k - 1 : conns[j] # NewConn
       /\ fe' = k
       /\ conns' = [conns EXCEPT ![k].fe = TRUE]
       /\ backlog' = Append(backlog, k)
  /\ UNCHANGED unsent /\ Backend_kept

Awaiting(k) == conns[k].read < Len(conns[k].asked)

\* A run of bytes in a socket, as one write put it there.
Bytes(what, m, len) == [what |-> what, msg |-> m, len |-> len]

Send(m) ==
  /\ fe # 0
  /\ unsent = 0 /\ ~Awaiting(fe)
  /\ conns[fe].sent < MaxMsgs
  /\ conns' = [conns EXCEPT ![fe] =
                 [conns[fe] EXCEPT !.in = Append(@, Bytes("header", m, HdrSize)),
                                   !.sent = @ + 1,
                                   !.asked = IF m \in Asking THEN Append(@, m) ELSE @]]
  /\ unsent' = m.size
  /\ UNCHANGED <<fe, backlog>> /\ Backend_kept

SendPayload ==
  /\ unsent > 0
  /\ conns' = [conns EXCEPT ![fe].in = Append(@, Bytes("payload", NoMessage, unsent))]
  /\ unsent' = 0
  /\ UNCHANGED <<fe, backlog>> /\ Backend_kept

Receive ==
  /\ fe # 0
  /\ conns[fe].read < Len(conns[fe].replies)
  /\ conns' = [conns EXCEPT ![fe].read = @ + 1]
  /\ UNCHANGED <<fe, unsent, backlog>> /\ Backend_kept

Disconnect ==
  /\ fe # 0
  /\ conns' = [conns EXCEPT ![fe].fe = FALSE]
  /\ fe' = 0
  /\ unsent' = 0
  /\ UNCHANGED backlog /\ Backend_kept

----------------------------------------------------------------------------
(* backend_main() *)

Frontend_kept == UNCHANGED <<fe, unsent>>

Accept ==
  /\ pc = "accept"
  /\ backlog # <<>>
  /\ cfd' = Head(backlog)
  /\ backlog' = Tail(backlog)
  /\ conns' = [conns EXCEPT ![Head(backlog)].be = "open"]
  /\ pc' = "header"
  /\ UNCHANGED h /\ Frontend_kept

In == conns[cfd].in

\* Plausible slip: the buffer has room for 64 bytes.
Capped_64(n) == IF n > 64 THEN 64 ELSE n
Capped(n) == IF n > PayloadSize THEN PayloadSize ELSE n

\* What one recvmsg() of n bytes returns, and what it leaves.
Got(n) == IF Head(In).len < n THEN Head(In).len ELSE n
Left(n) ==
  IF Head(In).len > n
  THEN <<Bytes("payload", NoMessage, Head(In).len - n)>> \o Tail(In)
  ELSE Tail(In)

\* The loop ends: close(cfd), and no client until the next accept().
Closed(k) ==
  /\ conns' = [conns EXCEPT ![k] = [@ EXCEPT !.be = "closed", !.in = <<>>]]
  /\ cfd' = 0
  /\ pc' = "accept"
  /\ h' = NoMessage
  /\ UNCHANGED backlog /\ Frontend_kept

\* Plausible slip: the thread returns where it should go back to accept().
HangUp_return ==
  /\ pc \in {"header", "payload"}
  /\ In = <<>> /\ ~conns[cfd].fe
  /\ conns' = [conns EXCEPT ![cfd].be = "closed"]
  /\ cfd' = 0
  /\ pc' = "ended"
  /\ h' = NoMessage
  /\ UNCHANGED backlog /\ Frontend_kept

\* Plausible slip: g_backend_client_fd keeps the closed descriptor.
HangUp_stale ==
  /\ pc \in {"header", "payload"}
  /\ In = <<>> /\ ~conns[cfd].fe
  /\ conns' = [conns EXCEPT ![cfd].be = "closed"]
  /\ pc' = "accept"
  /\ h' = NoMessage
  /\ UNCHANGED <<backlog, cfd>> /\ Frontend_kept

\* Either recvmsg() returns 0: the frontend has closed and all is read.
HangUp ==
  /\ pc \in {"header", "payload"}
  /\ In = <<>> /\ ~conns[cfd].fe
  /\ Closed(cfd)

\* A short read ends the connection; bytes that are no header are taken for one.
RecvHeader ==
  /\ pc = "header"
  /\ In # <<>>
  /\ IF Got(HdrSize) < HdrSize THEN Closed(cfd)
     ELSE LET m == IF Head(In).what = "header" THEN Head(In).msg ELSE Misread
          IN  /\ h' = m
              /\ pc' = IF m.size > 0 THEN "payload" ELSE "switch"
              /\ conns' = [conns EXCEPT ![cfd].in = Left(HdrSize)]
              /\ UNCHANGED <<cfd, backlog>> /\ Frontend_kept

\* One recvmsg(); that it returned less than asked for is not noticed.
RecvPayload ==
  /\ pc = "payload"
  /\ In # <<>>
  /\ conns' = [conns EXCEPT ![cfd].in = Left(Capped(h.size))]
  /\ pc' = "switch"
  /\ UNCHANGED <<cfd, h, backlog>> /\ Frontend_kept

\* The switch, with send_reply() for the messages that get one.
Switch ==
  /\ pc = "switch"
  /\ conns' = [conns EXCEPT ![cfd].replies =
                 IF h.request \in Replied /\ conns[cfd].fe
                 THEN Append(@, ReplyTo(h)) ELSE @]
  /\ pc' = "header"
  /\ h' = NoMessage
  /\ UNCHANGED <<cfd, backlog>> /\ Frontend_kept

Backend == Accept \/ HangUp \/ RecvHeader \/ RecvPayload \/ Switch

Next ==
  \/ Connect \/ SendPayload \/ Receive \/ Disconnect
  \/ \E m \in Messages : Send(m)
  \/ Backend

\* The thread runs; a frontend finishes a message and reads what has arrived,
\* but need not connect, send or disconnect.
Fairness == WF_vars(Backend) /\ WF_vars(SendPayload) /\ WF_vars(Receive)

Spec == Init /\ [][Next]_vars /\ Fairness

----------------------------------------------------------------------------
(* Properties *)

\* The shape of all state: a client is known exactly while one is served, and
\* it is one the backend has accepted and not closed.
TypeOK ==
  /\ pc \in {"accept", "header", "payload", "switch"}
  /\ cfd \in Conns \cup {0} /\ fe \in Conns \cup {0}
  /\ cfd = 0 <=> pc = "accept"
  /\ \A k \in Conns : /\ conns[k].be = "open" <=> k = cfd
                      /\ conns[k].fe <=> k = fe
  /\ h \in Messages \cup {NoMessage, Misread}
  /\ unsent > 0 => fe # 0
  /\ Len(backlog) <= kBacklog + 1

\* The backend closes a connection only after the frontend did: it never takes
\* part of a payload for a header and never meets a short one, so a device
\* does not lose its backend in the middle of a run.
NeverHungUp == \A k \in Conns : conns[k].be = "closed" => ~conns[k].fe

\* Each reply the frontend reads belongs to the message it waits for.
Abstract == INSTANCE ReplyServer WITH
  asked <- [k \in Conns |-> conns[k].asked],
  answered <- [k \in Conns |-> conns[k].replies]
ServesReplies == Abstract!Spec

\* A frontend that waits for a reply gets it, unless it gives up itself.
AwaitingEnds ==
  \A k \in Conns : Awaiting(k) /\ conns[k].fe ~> ~(Awaiting(k) /\ conns[k].fe)

\* A connection is accepted even when an earlier one was given up in the
\* middle of a message.
AcceptedInTurn == \A k \in Conns : conns[k].fe ~> conns[k].be # "new"

============================================================================
