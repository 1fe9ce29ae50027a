--------------------------- MODULE FsBackendProofs ---------------------------
(***************************************************************************)
(* Proofs about FsBackend, for every set of messages and any number of     *)
(* connections and of messages on one.                                     *)
(***************************************************************************)
EXTENDS FsBackend, TLAPS

----------------------------------------------------------------------------
(* The inductive invariant *)

Pieces == [what : {"header", "payload"}, msg : Messages \cup {NoMessage}, len : Nat]

Replies == [request : STRING, idx : Nat]

Conn == [fe : BOOLEAN, be : {"new", "open", "closed"}, in : Seq(Pieces), sent : Nat,
         asked : Seq(Messages), replies : Seq(Replies),
         read : Nat]

Types ==
  /\ TypeOK
  /\ conns \in [Conns -> Conn]
  /\ backlog \in Seq(Conns)
  /\ unsent \in Nat

\* The backend holds a header exactly while it handles a message.
HeaderHeld ==
  /\ pc \in {"payload", "switch"} => h \in Messages
  /\ pc \in {"accept", "header"} => h = NoMessage
  /\ pc = "payload" => h.size > 0

\* The payload bytes that must come after a piece, and before the i-th one of
\* what is still to be read.
Due(b) == IF b.what = "header" THEN b.msg.size ELSE 0
DueBefore(k, i) ==
  IF i = 1 THEN IF k = cfd /\ pc = "payload" THEN h.size ELSE 0
  ELSE Due(conns[k].in[i - 1])

Header(m) == Bytes("header", m, HdrSize)

Follows(due, b) ==
  IF due > 0 THEN b = Bytes("payload", NoMessage, due)
  ELSE b.msg \in Messages /\ b = Header(b.msg)

\* Every connection carries whole headers, each followed by its payload.
Framed ==
  \A k \in Conns : \A i \in 1 .. Len(conns[k].in) :
    Follows(DueBefore(k, i), conns[k].in[i])

\* What the frontend still has to send completes its last message.
Owing == fe # 0 => unsent = DueBefore(fe, Len(conns[fe].in) + 1)

\* A connection on which nothing was sent carries nothing.
Fresh ==
  \A k \in Conns : conns[k].sent = 0 =>
    conns[k].in = <<>> /\ (k = fe => unsent = 0)

\* Nothing is read that was not sent, and nothing sent that was not asked for.
Counted ==
  \A k \in Conns : /\ conns[k].read <= Len(conns[k].replies)
                   /\ Len(conns[k].replies) <= Len(conns[k].asked)

Asks(b) == b.what = "header" /\ b.msg \in Asking

Outstanding(k, m) ==
  /\ Len(conns[k].asked) = Len(conns[k].replies) + 1
  /\ conns[k].asked[Len(conns[k].asked)] = m

\* One question at a time is on its way to the backend or in its hands, and
\* it is the last one asked.
OneQuestion ==
  fe # 0 =>
    /\ cfd = fe /\ h \in Asking => Outstanding(fe, h)
    /\ \A i \in 1 .. Len(conns[fe].in) : Asks(conns[fe].in[i]) =>
         /\ Outstanding(fe, conns[fe].in[i].msg)
         /\ ~(cfd = fe /\ h \in Asking)
         /\ \A j \in 1 .. Len(conns[fe].in) : Asks(conns[fe].in[j]) => j = i

IInv == /\ Types /\ NeverHungUp /\ HeaderHeld /\ Framed /\ Owing /\ Fresh
        /\ Counted /\ OneQuestion

----------------------------------------------------------------------------
LEMMA MessageType ==
  /\ \A m \in Messages : m.size \in 0 .. 264 /\ m.request \in STRING /\ m.idx \in Nat
  /\ NoMessage.size = 0 /\ NoMessage \notin Asking
  /\ Asking \subseteq Messages
  BY MessagesAssumption DEF NoMessage, Message, Asking

LEMMA ConnsType == Conns \subseteq Nat \ {0} /\ 0 \notin Conns
  BY BoundsAssumption DEF Conns

LEMMA InitIInv == Init => IInv
<1> SUFFICES ASSUME Init PROVE IInv
  OBVIOUS
<1> USE DEF Init
<1>1. NewConn \in Conn
  BY DEF NewConn, Conn
<1>2. \A k \in Conns : conns[k] = NewConn
  OBVIOUS
<1>3. Types
  <2>1. conns \in [Conns -> Conn]
    BY <1>1
  <2>2. \A k \in Conns : conns[k].be # "open" /\ conns[k].fe = FALSE /\ k # 0
    BY <1>2, ConnsType DEF NewConn
  <2>3. TypeOK
    BY <2>2 DEF TypeOK, kBacklog
  <2> QED
    BY <2>1, <2>3 DEF Types
<1>4. NeverHungUp /\ Fresh /\ Counted /\ Framed
  BY <1>2 DEF NeverHungUp, Fresh, Counted, Framed, NewConn
<1> QED
  BY <1>3, <1>4 DEF IInv, HeaderHeld, Owing, OneQuestion

----------------------------------------------------------------------------
(* The frontend's steps *)

\* The fields of a connection, and what no step of the frontend changes.
LEMMA ConnType ==
  ASSUME Types, NEW k \in Conns
  PROVE  /\ conns[k].fe \in BOOLEAN /\ conns[k].be \in {"new", "open", "closed"}
         /\ conns[k].in \in Seq(Pieces) /\ Len(conns[k].in) \in Nat
         /\ conns[k].sent \in Nat /\ conns[k].read \in Nat
         /\ conns[k].asked \in Seq(Messages) /\ Len(conns[k].asked) \in Nat
         /\ conns[k].replies \in Seq(Replies)
         /\ Len(conns[k].replies) \in Nat
         /\ conns[k] \in Conn
  BY DEF Types, Conn

\* A step that opens and closes nothing.
LEMMA SameEnds ==
  ASSUME TypeOK,
         \A k \in Conns : conns'[k].fe = conns[k].fe /\ conns'[k].be = conns[k].be,
         fe' = fe, cfd' = cfd, backlog' = backlog, unsent' > 0 => fe # 0,
         pc' \in {"accept", "header", "payload", "switch"},
         pc' = "accept" <=> pc = "accept",
         h' \in Messages \cup {NoMessage, Misread}
  PROVE  TypeOK'
  BY DEF TypeOK

LEMMA ConnectStep == ASSUME IInv, Connect PROVE IInv'
<1> USE DEF IInv, Backend_kept
<1>1. PICK c \in Conns :
        /\ conns[c].be = "new" /\ conns[c].sent = 0
        /\ fe' = c /\ backlog' = Append(backlog, c)
        /\ conns' = [conns EXCEPT ![c].fe = TRUE]
  BY DEF Connect
<1>2. /\ cfd' = cfd /\ pc' = pc /\ h' = h /\ unsent' = unsent /\ fe = 0
      /\ Len(backlog) <= kBacklog
  BY DEF Connect
<1>3. /\ conns[c].in = <<>> /\ conns' \in [Conns -> Conn]
      /\ conns'[c] = [conns[c] EXCEPT !.fe = TRUE]
      /\ \A k \in Conns : k # c => conns'[k] = conns[k]
  BY <1>1 DEF Types, Conn, Fresh
<1>4. /\ \A k \in Conns : /\ conns'[k].in = conns[k].in
                          /\ conns'[k].be = conns[k].be
                          /\ conns'[k].sent = conns[k].sent
                          /\ conns'[k].asked = conns[k].asked
                          /\ conns'[k].replies = conns[k].replies
                          /\ conns'[k].read = conns[k].read
      /\ conns'[c].fe /\ c # cfd
  <2>1. c # cfd
    BY <1>1 DEF Types, TypeOK
  <2>2. /\ conns'[c].in = conns[c].in /\ conns'[c].be = conns[c].be
        /\ conns'[c].sent = conns[c].sent /\ conns'[c].asked = conns[c].asked
        /\ conns'[c].replies = conns[c].replies
        /\ conns'[c].read = conns[c].read /\ conns'[c].fe
    BY <1>3, ConnType DEF Conn
  <2> QED
    BY <1>3, <2>1, <2>2
<1>5. Types'
  <2>1. backlog' \in Seq(Conns) /\ Len(backlog') <= kBacklog + 1
    BY <1>1, <1>2 DEF Types, TypeOK, kBacklog
  <2>2. \A k \in Conns : conns'[k].fe <=> k = fe'
    BY <1>1, <1>2, <1>3, <1>4, ConnsType DEF Types, TypeOK
  <2> QED
    BY <1>1, <1>2, <1>3, <1>4, <2>1, <2>2, ConnsType DEF Types, TypeOK
<1>6. NeverHungUp'
  BY <1>1, <1>3, <1>4 DEF NeverHungUp
<1>7. Framed' /\ Owing'
  <2>1. \A k \in Conns, i \in Nat : DueBefore(k, i)' = DueBefore(k, i)
    BY <1>2, <1>4 DEF DueBefore
  <2>2. unsent = 0 /\ DueBefore(c, 1) = 0 /\ Len(conns[c].in) = 0
    BY <1>2, <1>3, <1>4 DEF Types, TypeOK, DueBefore
  <2> QED
    BY <1>1, <1>2, <1>4, <2>1, <2>2, ConnType DEF Framed, Owing, DueBefore
<1>8. HeaderHeld' /\ Counted'
  BY <1>2, <1>4 DEF HeaderHeld, Counted
<1>9. Fresh' /\ OneQuestion'
  <2>1. unsent' = 0
    BY <1>2 DEF Types, TypeOK
  <2>2. Len(conns'[c].in) = 0 /\ fe' = c /\ cfd' # fe'
    BY <1>1, <1>2, <1>3, <1>4
  <2> QED
    BY <1>4, <2>1, <2>2 DEF Fresh, OneQuestion
<1> QED
  BY <1>5, <1>6, <1>7, <1>8, <1>9

\* The stream of a connection grows by a piece that may follow what it holds.
LEMMA Sent ==
  ASSUME Types, Framed, NEW c \in Conns, NEW b \in Pieces,
         Follows(DueBefore(c, Len(conns[c].in) + 1), b),
         conns' \in [Conns -> Conn],
         conns'[c].in = Append(conns[c].in, b),
         \A k \in Conns : k # c => conns'[k] = conns[k],
         cfd' = cfd, pc' = pc, h' = h
  PROVE  /\ Framed'
         /\ DueBefore(c, Len(conns[c].in) + 1)' = Due(b)
<1> DEFINE s == conns[c].in
           t == conns'[c].in
<1>1. /\ s \in Seq(Pieces) /\ Len(s) \in Nat /\ Len(t) = Len(s) + 1
      /\ t[Len(s) + 1] = b
      /\ \A i \in 1 .. Len(s) : t[i] = s[i]
  BY ConnType
<1>2. ASSUME NEW i \in 1 .. Len(t) PROVE DueBefore(c, i)' = DueBefore(c, i)
  BY <1>1, <1>2 DEF DueBefore
<1>3. ASSUME NEW i \in 1 .. Len(t) PROVE Follows(DueBefore(c, i), t[i])
  BY <1>1, <1>3 DEF Framed
<1>4. \A k \in Conns, i \in Nat : k # c => DueBefore(k, i)' = DueBefore(k, i)
  BY DEF DueBefore
<1>5. Framed'
  <2> SUFFICES ASSUME NEW k \in Conns, NEW i \in 1 .. Len(conns'[k].in)
               PROVE  Follows(DueBefore(k, i)', conns'[k].in[i])
    BY DEF Framed, Follows
  <2>1. CASE k = c
    BY <2>1, <1>2, <1>3
  <2>2. CASE k # c
    BY <2>2, <1>4, ConnType DEF Framed
  <2> QED
    BY <2>1, <2>2
<1>6. DueBefore(c, Len(conns[c].in) + 1)' = Due(b)
  BY <1>1 DEF DueBefore, Due
<1> QED
  BY <1>5, <1>6

LEMMA SendStep ==
  ASSUME IInv, NEW m \in Messages, Send(m) PROVE IInv'
<1> USE DEF IInv, Backend_kept
<1> DEFINE b == Bytes("header", m, HdrSize)
           newAsked == IF m \in Asking THEN Append(conns[fe].asked, m)
                       ELSE conns[fe].asked
<1>1. /\ fe \in Conns /\ unsent = 0 /\ ~Awaiting(fe)
      /\ cfd' = cfd /\ pc' = pc /\ h' = h /\ fe' = fe /\ backlog' = backlog
      /\ unsent' = m.size /\ unsent' \in Nat
  <2>1. fe # 0 => fe \in Conns
    BY DEF Types, TypeOK
  <2>2. m.size \in Nat
    BY MessageType
  <2> QED
    BY <2>1, <2>2 DEF Send
<1>2. b \in Pieces /\ newAsked \in Seq(Messages)
  BY <1>1, ConnType DEF Bytes, Pieces, HdrSize
<1>3. /\ conns'[fe] = [conns[fe] EXCEPT !.in = Append(conns[fe].in, b),
                                        !.sent = conns[fe].sent + 1,
                                        !.asked = newAsked]
      /\ \A k \in Conns : k # fe => conns'[k] = conns[k]
      /\ conns' = [conns EXCEPT ![fe] = conns'[fe]]
  BY <1>1 DEF Send, Types
<1>4. Append(conns[fe].in, b) \in Seq(Pieces) /\ conns[fe].sent + 1 \in Nat
  BY <1>1, <1>2, ConnType
<1>5. /\ conns'[fe] \in Conn
      /\ conns'[fe].in = Append(conns[fe].in, b)
      /\ conns'[fe].sent = conns[fe].sent + 1 /\ conns'[fe].asked = newAsked
      /\ conns'[fe].fe = conns[fe].fe /\ conns'[fe].be = conns[fe].be
      /\ conns'[fe].replies = conns[fe].replies /\ conns'[fe].read = conns[fe].read
  <2>1. conns[fe] \in Conn
    BY <1>1, ConnType
  <2> DEFINE x == Append(conns[fe].in, b)
             y == conns[fe].sent + 1
             r == conns[fe]
             e == conns'[fe]
  <2>2. e = [r EXCEPT !.in = x, !.sent = y, !.asked = newAsked]
    BY <1>3
  <2>3. r \in Conn /\ x \in Seq(Pieces) /\ y \in Nat
    BY <2>1, <1>4
  <2> HIDE DEF b, newAsked, x, y, r, e
  <2>4. /\ e \in Conn
        /\ e.in = x /\ e.sent = y /\ e.asked = newAsked /\ e.fe = r.fe
        /\ e.be = r.be /\ e.replies = r.replies /\ e.read = r.read
    BY <1>2, <2>2, <2>3 DEF Conn
  <2> QED
    BY <2>4 DEF x, y, r, e
<1>7. conns' \in [Conns -> Conn]
  BY <1>1, <1>3, <1>5 DEF Types
<1>8. Types'
  <2>1. \A k \in Conns : conns'[k].fe = conns[k].fe /\ conns'[k].be = conns[k].be
    BY <1>3, <1>5
  <2>2. /\ pc' \in {"accept", "header", "payload", "switch"} /\ fe # 0
        /\ h' \in Messages \cup {NoMessage, Misread}
    BY <1>1, ConnsType DEF Types, TypeOK
  <2>3. TypeOK'
    BY <1>1, <2>1, <2>2, SameEnds DEF Types
  <2> QED
    BY <1>1, <1>7, <2>3 DEF Types
<1>9. Framed' /\ Owing'
  <2>1. DueBefore(fe, Len(conns[fe].in) + 1) = 0
    BY <1>1, ConnsType DEF Owing
  <2>2. Follows(0, b) /\ Due(b) = m.size
    BY DEF Follows, Header, Bytes, Due
  <2>3. Framed' /\ DueBefore(fe, Len(conns[fe].in) + 1)' = m.size
    BY <1>1, <1>2, <1>3, <1>5, <1>7, <2>1, <2>2, Sent
  <2> QED
    BY <1>1, <2>3 DEF Owing
<1>10. NeverHungUp' /\ HeaderHeld' /\ Fresh'
  <2>1. NeverHungUp'
    BY <1>3, <1>5 DEF NeverHungUp
  <2>2. HeaderHeld'
    BY <1>1 DEF HeaderHeld
  <2>3. Fresh'
    <3>1. conns[fe].sent + 1 # 0
      BY <1>1, ConnType
    <3> QED
      BY <1>1, <1>3, <1>5, <3>1 DEF Fresh
  <2> QED
    BY <2>1, <2>2, <2>3
<1>11. Len(conns[fe].asked) = Len(conns[fe].replies)
  BY <1>1, ConnType DEF Awaiting, Counted
<1>12. /\ Len(newAsked) \in {Len(conns[fe].asked), Len(conns[fe].asked) + 1}
       /\ m \in Asking => /\ Len(newAsked) = Len(conns[fe].asked) + 1
                          /\ newAsked[Len(newAsked)] = m
  BY <1>1, ConnType
<1>14. Counted'
  <2>1. Len(conns[fe].replies) <= Len(newAsked)
    BY <1>1, <1>11, <1>12, ConnType
  <2> HIDE DEF newAsked
  <2> QED
    BY <1>3, <1>5, <2>1 DEF Counted
<1>13. OneQuestion'
  <2>1. /\ ~(cfd = fe /\ h \in Asking)
        /\ \A i \in 1 .. Len(conns[fe].in) : ~Asks(conns[fe].in[i])
    BY <1>1, <1>11, ConnType, ConnsType DEF OneQuestion, Outstanding
  <2>2. /\ Len(conns'[fe].in) = Len(conns[fe].in) + 1
        /\ conns'[fe].in[Len(conns[fe].in) + 1] = b
        /\ \A i \in 1 .. Len(conns[fe].in) : conns'[fe].in[i] = conns[fe].in[i]
    BY <1>1, <1>2, <1>5, ConnType
  <2>3. \A i \in 1 .. Len(conns'[fe].in) :
          Asks(conns'[fe].in[i]) => i = Len(conns[fe].in) + 1
    BY <1>1, <2>1, <2>2, ConnType
  <2>4. Asks(b) => b.msg = m /\ m \in Asking
    BY DEF Asks, Bytes
  <2>5. m \in Asking => Outstanding(fe, m)'
    <3> HIDE DEF newAsked
    <3> QED
      BY <1>1, <1>5, <1>11, <1>12 DEF Outstanding
  <2> QED
    BY <1>1, <2>1, <2>2, <2>3, <2>4, <2>5 DEF OneQuestion, Asks
<1> QED
  BY <1>8, <1>9, <1>10, <1>13, <1>14

LEMMA SendPayloadStep == ASSUME IInv, SendPayload PROVE IInv'
<1> USE DEF IInv, Backend_kept
<1> DEFINE b == Bytes("payload", NoMessage, unsent)
<1>1. /\ fe \in Conns /\ unsent > 0 /\ unsent \in Nat
      /\ cfd' = cfd /\ pc' = pc /\ h' = h /\ fe' = fe /\ backlog' = backlog
      /\ unsent' = 0
  BY DEF SendPayload, Types, TypeOK
<1>2. /\ conns'[fe] = [conns[fe] EXCEPT !.in = Append(conns[fe].in, b)]
      /\ \A k \in Conns : k # fe => conns'[k] = conns[k]
      /\ conns' = [conns EXCEPT ![fe] = conns'[fe]]
  BY <1>1 DEF SendPayload, Types
<1>3. b \in Pieces /\ Append(conns[fe].in, b) \in Seq(Pieces)
  <2>1. b \in Pieces
    BY <1>1 DEF Bytes, Pieces
  <2> QED
    BY <1>1, <2>1, ConnType
<1>4. /\ conns'[fe] \in Conn
      /\ conns'[fe].in = Append(conns[fe].in, b)
      /\ conns'[fe].sent = conns[fe].sent /\ conns'[fe].asked = conns[fe].asked
      /\ conns'[fe].fe = conns[fe].fe /\ conns'[fe].be = conns[fe].be
      /\ conns'[fe].replies = conns[fe].replies /\ conns'[fe].read = conns[fe].read
  BY <1>1, <1>2, <1>3, ConnType DEF Conn
<1>5. conns' \in [Conns -> Conn]
  BY <1>1, <1>2, <1>4 DEF Types
<1>6. Types'
  <2>1. \A k \in Conns : conns'[k].fe = conns[k].fe /\ conns'[k].be = conns[k].be
    BY <1>2, <1>4
  <2>2. TypeOK'
    BY <1>1, <2>1, ConnsType, SameEnds DEF Types, TypeOK
  <2> QED
    BY <1>1, <1>5, <2>2 DEF Types
<1>7. Framed' /\ Owing'
  <2>1. DueBefore(fe, Len(conns[fe].in) + 1) = unsent
    BY <1>1, ConnsType DEF Owing
  <2>2. Follows(unsent, b) /\ Due(b) = 0
    BY <1>1 DEF Follows, Bytes, Due
  <2>3. Framed' /\ DueBefore(fe, Len(conns[fe].in) + 1)' = 0
    BY <1>1, <1>2, <1>3, <1>4, <1>5, <2>1, <2>2, Sent
  <2> QED
    BY <1>1, <2>3 DEF Owing
<1>8. /\ Len(conns'[fe].in) = Len(conns[fe].in) + 1
      /\ conns'[fe].in[Len(conns[fe].in) + 1] = b /\ ~Asks(b)
      /\ \A i \in 1 .. Len(conns[fe].in) : conns'[fe].in[i] = conns[fe].in[i]
  BY <1>1, <1>3, <1>4, ConnType DEF Asks, Bytes
<1>9. Fresh'
  <2>1. conns[fe].sent # 0
    BY <1>1 DEF Fresh
  <2> QED
    BY <1>1, <1>2, <1>4, <2>1 DEF Fresh
<1>10. NeverHungUp' /\ HeaderHeld' /\ Counted'
  <2>1. NeverHungUp'
    BY <1>2, <1>4 DEF NeverHungUp
  <2>2. HeaderHeld'
    BY <1>1 DEF HeaderHeld
  <2>3. Counted'
    BY <1>2, <1>4 DEF Counted
  <2> QED
    BY <2>1, <2>2, <2>3
<1>11. OneQuestion'
  <2>1. \A i \in 1 .. Len(conns'[fe].in) : Asks(conns'[fe].in[i]) =>
          i \in 1 .. Len(conns[fe].in) /\ conns'[fe].in[i] = conns[fe].in[i]
    <3> HIDE DEF b
    <3>1. Len(conns[fe].in) \in Nat
      BY <1>1, ConnType
    <3> QED
      BY <1>8, <3>1
  <2>2. \A m : Outstanding(fe, m)' = Outstanding(fe, m)
    BY <1>1, <1>4 DEF Outstanding
  <2> QED
    BY <1>1, <2>1, <2>2, ConnsType DEF OneQuestion, Asks
<1> QED
  BY <1>6, <1>7, <1>9, <1>10, <1>11

LEMMA ReceiveStep == ASSUME IInv, Receive PROVE IInv'
<1> USE DEF IInv, Backend_kept
<1>1. /\ fe \in Conns /\ conns[fe].read < Len(conns[fe].replies)
      /\ cfd' = cfd /\ pc' = pc /\ h' = h /\ fe' = fe /\ backlog' = backlog
      /\ unsent' = unsent
  BY DEF Receive, Types, TypeOK
<1>2. /\ conns'[fe] = [conns[fe] EXCEPT !.read = conns[fe].read + 1]
      /\ \A k \in Conns : k # fe => conns'[k] = conns[k]
      /\ conns' = [conns EXCEPT ![fe] = conns'[fe]]
  BY <1>1 DEF Receive, Types
<1>3. /\ conns'[fe] \in Conn
      /\ conns'[fe].read = conns[fe].read + 1
      /\ conns'[fe].read <= Len(conns[fe].replies)
  <2>1. /\ conns[fe] \in Conn /\ conns[fe].read \in Nat
        /\ Len(conns[fe].replies) \in Nat
    BY <1>1, ConnType
  <2>2. conns'[fe] \in Conn /\ conns'[fe].read = conns[fe].read + 1
    <3> DEFINE r == conns[fe]
               e == conns'[fe]
               n == r.read + 1
    <3>1. r \in Conn /\ n \in Nat /\ e = [r EXCEPT !.read = n]
      BY <1>2, <2>1
    <3> HIDE DEF r, e, n
    <3>2. e \in Conn /\ e.read = n
      BY <3>1 DEF Conn
    <3> QED
      BY <3>2 DEF r, e, n
  <2> QED
    BY <1>1, <2>1, <2>2
<1>4. \A k \in Conns :
        /\ conns'[k].in = conns[k].in /\ conns'[k].sent = conns[k].sent
        /\ conns'[k].fe = conns[k].fe /\ conns'[k].be = conns[k].be
        /\ conns'[k].asked = conns[k].asked /\ conns'[k].replies = conns[k].replies
  <2>1. conns[fe] \in Conn
    BY <1>1, ConnType
  <2> QED
    BY <1>2, <2>1 DEF Conn
<1>5. Types'
  <2>1. conns' \in [Conns -> Conn]
    BY <1>1, <1>2, <1>3 DEF Types
  <2>2. TypeOK'
    BY <1>1, <1>4, ConnsType, SameEnds DEF Types, TypeOK
  <2> QED
    BY <1>1, <2>1, <2>2 DEF Types
<1>6. Framed' /\ Owing'
  <2>1. \A k \in Conns, i \in Nat : DueBefore(k, i)' = DueBefore(k, i)
    BY <1>1, <1>4 DEF DueBefore
  <2>2. Framed'
    BY <1>4, <2>1, ConnType DEF Framed
  <2> QED
    BY <1>1, <1>4, <2>1, <2>2, ConnType DEF Owing
<1>7. NeverHungUp' /\ HeaderHeld' /\ Counted' /\ Fresh'
  <2>1. NeverHungUp'
    BY <1>4 DEF NeverHungUp
  <2>2. HeaderHeld'
    BY <1>1 DEF HeaderHeld
  <2>3. Counted'
    BY <1>2, <1>3, <1>4 DEF Counted
  <2>4. Fresh'
    BY <1>1, <1>4 DEF Fresh
  <2> QED
    BY <2>1, <2>2, <2>3, <2>4
<1>8. OneQuestion'
  <2>1. \A m : Outstanding(fe, m)' = Outstanding(fe, m)
    BY <1>1, <1>4 DEF Outstanding
  <2> QED
    BY <1>1, <1>4, <2>1 DEF OneQuestion
<1> QED
  BY <1>5, <1>6, <1>7, <1>8

LEMMA DisconnectStep == ASSUME IInv, Disconnect PROVE IInv'
<1> USE DEF IInv, Backend_kept
<1>1. /\ fe \in Conns /\ fe' = 0 /\ unsent' = 0
      /\ cfd' = cfd /\ pc' = pc /\ h' = h /\ backlog' = backlog
  BY DEF Disconnect, Types, TypeOK
<1>2. /\ conns'[fe] = [conns[fe] EXCEPT !.fe = FALSE]
      /\ \A k \in Conns : k # fe => conns'[k] = conns[k]
      /\ conns' = [conns EXCEPT ![fe] = conns'[fe]]
  BY <1>1 DEF Disconnect, Types
<1>3. conns'[fe] \in Conn /\ conns'[fe].fe = FALSE
  BY <1>1, <1>2, ConnType DEF Conn
<1>4. \A k \in Conns :
        /\ conns'[k].in = conns[k].in /\ conns'[k].sent = conns[k].sent
        /\ conns'[k].be = conns[k].be /\ conns'[k].read = conns[k].read
        /\ conns'[k].asked = conns[k].asked /\ conns'[k].replies = conns[k].replies
  <2>1. conns[fe] \in Conn
    BY <1>1, ConnType
  <2> QED
    BY <1>2, <2>1 DEF Conn
<1>5. Types'
  <2>1. conns' \in [Conns -> Conn]
    BY <1>1, <1>2, <1>3 DEF Types
  <2>2. \A k \in Conns : ~conns'[k].fe
    BY <1>2, <1>3 DEF Types, TypeOK
  <2>3. TypeOK'
    BY <1>1, <1>4, <2>2, ConnsType DEF Types, TypeOK
  <2> QED
    BY <1>1, <2>1, <2>3 DEF Types
<1>6. Framed' /\ Owing'
  <2>1. \A k \in Conns, i \in Nat : DueBefore(k, i)' = DueBefore(k, i)
    BY <1>1, <1>4 DEF DueBefore
  <2> QED
    BY <1>1, <1>4, <2>1, ConnType DEF Framed, Owing
<1>7. NeverHungUp' /\ HeaderHeld' /\ Counted' /\ Fresh' /\ OneQuestion'
  <2>1. NeverHungUp'
    BY <1>2, <1>3, <1>4 DEF NeverHungUp
  <2>2. HeaderHeld' /\ OneQuestion'
    BY <1>1 DEF HeaderHeld, OneQuestion
  <2>3. Counted' /\ Fresh'
    BY <1>1, <1>4, ConnsType DEF Counted, Fresh
  <2> QED
    BY <2>1, <2>2, <2>3
<1> QED
  BY <1>5, <1>6, <1>7

----------------------------------------------------------------------------
(* The backend's steps *)

LEMMA AcceptStep == ASSUME IInv, Accept PROVE IInv'
<1> USE DEF IInv, Frontend_kept
<1> DEFINE c == Head(backlog)
<1>1. /\ pc = "accept" /\ pc' = "header" /\ cfd = 0 /\ cfd' = c /\ c \in Conns
      /\ h' = h /\ h = NoMessage /\ fe' = fe /\ unsent' = unsent
      /\ backlog' = Tail(backlog)
  BY DEF Accept, Types, TypeOK, HeaderHeld
<1>2. /\ conns'[c] = [conns[c] EXCEPT !.be = "open"]
      /\ \A k \in Conns : k # c => conns'[k] = conns[k]
      /\ conns' = [conns EXCEPT ![c] = conns'[c]]
  BY <1>1 DEF Accept, Types
<1> HIDE DEF c
<1>3. conns'[c] \in Conn /\ conns'[c].be = "open"
  BY <1>1, <1>2, ConnType DEF Conn
<1>4. \A k \in Conns :
        /\ conns'[k].in = conns[k].in /\ conns'[k].sent = conns[k].sent
        /\ conns'[k].fe = conns[k].fe /\ conns'[k].read = conns[k].read
        /\ conns'[k].asked = conns[k].asked /\ conns'[k].replies = conns[k].replies
  <2>1. conns[c] \in Conn
    BY <1>1, ConnType
  <2> QED
    BY <1>2, <2>1 DEF Conn
<1>5. Types'
  <2>1. conns' \in [Conns -> Conn]
    BY <1>1, <1>2, <1>3 DEF Types
  <2>2. backlog' \in Seq(Conns) /\ Len(backlog') <= kBacklog + 1
    <3>1. backlog # <<>> /\ backlog \in Seq(Conns) /\ Len(backlog) <= kBacklog + 1
      BY DEF Accept, Types, TypeOK
    <3> QED
      BY <1>1, <3>1 DEF kBacklog
  <2>3. \A k \in Conns : conns'[k].be = "open" <=> k = cfd'
    BY <1>1, <1>2, <1>3, ConnsType DEF Types, TypeOK
  <2>4. TypeOK'
    BY <1>1, <1>4, <2>2, <2>3, ConnsType DEF Types, TypeOK
  <2> QED
    BY <1>1, <2>1, <2>2, <2>4 DEF Types
<1>6. Framed' /\ Owing'
  <2>1. \A k \in Conns, i \in Nat : DueBefore(k, i)' = DueBefore(k, i)
    BY <1>1, <1>4 DEF DueBefore
  <2>2. Framed'
    BY <1>4, <2>1, ConnType DEF Framed
  <2>3. fe # 0 => fe \in Conns
    BY DEF Types, TypeOK
  <2>4. ASSUME fe # 0 PROVE unsent' = DueBefore(fe, Len(conns[fe].in) + 1)'
    BY <1>1, <1>4, <2>1, <2>3, <2>4, ConnType DEF Owing
  <2> QED
    BY <1>1, <2>2, <2>4 DEF Owing
<1>7. NeverHungUp' /\ HeaderHeld' /\ Counted' /\ Fresh'
  <2>1. NeverHungUp'
    BY <1>2, <1>3, <1>4 DEF NeverHungUp
  <2>2. HeaderHeld'
    BY <1>1 DEF HeaderHeld
  <2>3. Counted' /\ Fresh'
    BY <1>1, <1>4 DEF Counted, Fresh
  <2> QED
    BY <2>1, <2>2, <2>3
<1>8. OneQuestion'
  <2>1. fe # 0 => fe \in Conns
    BY DEF Types, TypeOK
  <2>2. fe # 0 => \A m : Outstanding(fe, m)' = Outstanding(fe, m)
    BY <1>1, <1>4, <2>1 DEF Outstanding
  <2>3. h \notin Asking /\ h' \notin Asking
    BY <1>1, MessageType
  <2> QED
    BY <1>1, <1>4, <2>1, <2>2, <2>3 DEF OneQuestion
<1> QED
  BY <1>5, <1>6, <1>7, <1>8

LEMMA HangUpStep == ASSUME IInv, HangUp PROVE IInv'
<1> USE DEF IInv, Frontend_kept
<1>1. /\ pc' = "accept" /\ cfd' = 0 /\ h' = NoMessage /\ fe' = fe /\ unsent' = unsent
      /\ backlog' = backlog /\ cfd \in Conns /\ ~conns[cfd].fe /\ cfd # fe
  BY DEF HangUp, Closed, Types, TypeOK
<1>2. /\ conns'[cfd] = [conns[cfd] EXCEPT !.be = "closed", !.in = <<>>]
      /\ \A k \in Conns : k # cfd => conns'[k] = conns[k]
      /\ conns' = [conns EXCEPT ![cfd] = conns'[cfd]]
  BY <1>1 DEF HangUp, Closed, Types
<1>3. /\ conns'[cfd] \in Conn
      /\ conns'[cfd].be = "closed" /\ conns'[cfd].in = <<>>
      /\ conns'[cfd].fe = conns[cfd].fe /\ conns'[cfd].sent = conns[cfd].sent
      /\ conns'[cfd].asked = conns[cfd].asked /\ conns'[cfd].read = conns[cfd].read
      /\ conns'[cfd].replies = conns[cfd].replies
  <2> DEFINE r == conns[cfd]
             e == conns'[cfd]
  <2>1. r \in Conn /\ e = [r EXCEPT !.be = "closed", !.in = <<>>]
    BY <1>1, <1>2, ConnType
  <2>2. <<>> \in Seq(Pieces)
    OBVIOUS
  <2> HIDE DEF r, e
  <2>3. /\ e \in Conn /\ e.be = "closed" /\ e.in = <<>> /\ e.fe = r.fe
        /\ e.sent = r.sent /\ e.asked = r.asked /\ e.read = r.read
        /\ e.replies = r.replies
    BY <2>1, <2>2 DEF Conn
  <2> QED
    BY <2>3 DEF r, e
<1>4. Types'
  <2>1. conns' \in [Conns -> Conn]
    BY <1>1, <1>2, <1>3 DEF Types
  <2>2. /\ \A k \in Conns : conns'[k].be # "open"
        /\ \A k \in Conns : conns'[k].fe = conns[k].fe
    BY <1>1, <1>2, <1>3 DEF Types, TypeOK
  <2>3. TypeOK'
    BY <1>1, <2>2, ConnsType DEF Types, TypeOK
  <2> QED
    BY <1>1, <2>1, <2>3 DEF Types
<1>5. Framed' /\ Owing'
  <2>1. \A k \in Conns, i \in Nat : k # cfd => DueBefore(k, i)' = DueBefore(k, i)
    BY <1>1, <1>2 DEF DueBefore
  <2>2. Framed'
    <3> SUFFICES ASSUME NEW k \in Conns, NEW i \in 1 .. Len(conns'[k].in)
                 PROVE  Follows(DueBefore(k, i)', conns'[k].in[i])
      BY DEF Framed, Follows
    <3>1. k # cfd
      BY <1>3
    <3> QED
      BY <1>2, <2>1, <3>1, ConnType DEF Framed
  <2>3. fe # 0 => fe \in Conns
    BY DEF Types, TypeOK
  <2> QED
    BY <1>1, <1>2, <2>1, <2>2, <2>3, ConnType DEF Owing
<1>6. NeverHungUp' /\ HeaderHeld' /\ Counted' /\ Fresh'
  <2>1. NeverHungUp'
    BY <1>1, <1>2, <1>3 DEF NeverHungUp
  <2>2. HeaderHeld'
    BY <1>1 DEF HeaderHeld
  <2>3. Counted' /\ Fresh'
    BY <1>1, <1>2, <1>3 DEF Counted, Fresh
  <2> QED
    BY <2>1, <2>2, <2>3
<1>7. OneQuestion'
  <2>1. fe # 0 => fe \in Conns /\ conns'[fe] = conns[fe]
    BY <1>1, <1>2 DEF Types, TypeOK
  <2>2. fe # 0 => \A m : Outstanding(fe, m)' = Outstanding(fe, m)
    BY <1>1, <2>1 DEF Outstanding
  <2>3. h' \notin Asking
    BY <1>1, MessageType
  <2> QED
    BY <1>1, <2>1, <2>2, <2>3 DEF OneQuestion
<1> QED
  BY <1>4, <1>5, <1>6, <1>7

\* The backend reads a whole piece.
Taken ==
  /\ cfd \in Conns /\ In # <<>>
  /\ conns'[cfd] = [conns[cfd] EXCEPT !.in = Tail(In)]
  /\ \A k \in Conns : k # cfd => conns'[k] = conns[k]
  /\ conns' = [conns EXCEPT ![cfd] = conns'[cfd]]
  /\ cfd' = cfd /\ fe' = fe /\ unsent' = unsent /\ backlog' = backlog
  /\ DueBefore(cfd, 1)' = Due(Head(In))

LEMMA TakenConns ==
  ASSUME IInv, Taken
  PROVE  /\ conns' \in [Conns -> Conn]
         /\ \A k \in Conns :
              /\ conns'[k].be = conns[k].be /\ conns'[k].sent = conns[k].sent
              /\ conns'[k].fe = conns[k].fe /\ conns'[k].read = conns[k].read
              /\ conns'[k].asked = conns[k].asked
              /\ conns'[k].replies = conns[k].replies
         /\ Len(In) \in Nat \ {0} /\ Len(conns'[cfd].in) = Len(In) - 1
         /\ \A i \in 1 .. Len(In) - 1 : conns'[cfd].in[i] = In[i + 1]
         /\ Head(In) = In[1]
<1> USE DEF IInv
<1>1. In \in Seq(Pieces) /\ In # <<>> /\ cfd \in Conns /\ conns[cfd] \in Conn
  BY ConnType DEF Taken, In
<1>2. /\ Tail(In) \in Seq(Pieces) /\ Len(In) \in Nat \ {0} /\ Head(In) = In[1]
      /\ Len(Tail(In)) = Len(In) - 1
      /\ \A i \in 1 .. Len(In) - 1 : Tail(In)[i] = In[i + 1]
  BY <1>1
<1>3. /\ conns'[cfd] \in Conn /\ conns'[cfd].in = Tail(In)
      /\ conns'[cfd].be = conns[cfd].be /\ conns'[cfd].sent = conns[cfd].sent
      /\ conns'[cfd].fe = conns[cfd].fe /\ conns'[cfd].read = conns[cfd].read
      /\ conns'[cfd].asked = conns[cfd].asked
      /\ conns'[cfd].replies = conns[cfd].replies
  BY <1>1, <1>2 DEF Taken, Conn
<1> QED
  BY <1>1, <1>2, <1>3 DEF Taken, Types

LEMMA TakenInv ==
  ASSUME IInv, Taken
  PROVE  Framed' /\ Owing' /\ Counted' /\ Fresh' /\ NeverHungUp'
<1> USE DEF IInv
<1> DEFINE t == conns'[cfd].in
<1>1. /\ cfd \in Conns /\ Len(In) \in Nat \ {0} /\ Len(t) = Len(In) - 1
      /\ \A i \in 1 .. Len(In) - 1 : t[i] = In[i + 1]
      /\ Head(In) = In[1] /\ In = conns[cfd].in
      /\ \A k \in Conns : k # cfd => conns'[k] = conns[k]
      /\ cfd' = cfd /\ fe' = fe /\ unsent' = unsent
  BY TakenConns DEF Taken, In
<1>2. ASSUME NEW k \in Conns, k = cfd, NEW i \in 1 .. Len(In)
      PROVE  DueBefore(k, i)' = DueBefore(k, i + 1)
  <2>1. DueBefore(k, i + 1) = Due(In[i])
    BY <1>1, <1>2 DEF DueBefore
  <2>2. CASE i = 1
    <3>1. DueBefore(k, i)' = DueBefore(cfd, 1)'
      BY <1>1, <1>2, <2>2 DEF DueBefore
    <3> QED
      BY <1>1, <2>1, <2>2, <3>1 DEF Taken
  <2>3. CASE i # 1
    <3>1. DueBefore(k, i)' = Due(t[i - 1])
      BY <1>1, <1>2, <2>3 DEF DueBefore, Due
    <3> QED
      BY <1>1, <1>2, <2>1, <2>3, <3>1
  <2> QED
    BY <2>2, <2>3
<1>3. Framed'
  <2> SUFFICES ASSUME NEW k \in Conns, NEW i \in 1 .. Len(conns'[k].in)
               PROVE  Follows(DueBefore(k, i)', conns'[k].in[i])
    BY DEF Framed, Follows
  <2>1. CASE k = cfd
    <3>1. i \in 1 .. Len(In) /\ i + 1 \in 1 .. Len(In) /\ conns'[k].in[i] = In[i + 1]
      BY <1>1, <2>1
    <3>2. DueBefore(k, i)' = DueBefore(k, i + 1)
      BY <1>2, <2>1, <3>1
    <3> QED
      BY <1>1, <2>1, <3>1, <3>2 DEF Framed
  <2>2. CASE k # cfd
    <3>1. DueBefore(k, i)' = DueBefore(k, i)
      BY <1>1, <2>2 DEF DueBefore
    <3> QED
      BY <1>1, <2>2, <3>1 DEF Framed
  <2> QED
    BY <2>1, <2>2
<1>4. Owing'
  <2> SUFFICES ASSUME fe # 0 PROVE unsent' = DueBefore(fe, Len(conns[fe].in) + 1)'
    BY <1>1 DEF Owing
  <2>1. fe \in Conns /\ unsent = DueBefore(fe, Len(conns[fe].in) + 1)
    BY DEF Types, TypeOK, Owing
  <2>2. CASE fe = cfd
    <3>1. PICK k \in Conns, n \in Nat : k = cfd /\ n = Len(In)
      BY <1>1
    <3>2. DueBefore(k, n)' = DueBefore(k, n + 1)
      BY <1>1, <1>2, <3>1
    <3>3. DueBefore(fe, Len(conns[fe].in) + 1)' = DueBefore(k, n)'
      <4>1. (Len(conns[fe].in) + 1)' = n /\ fe' = k
        BY <1>1, <2>2, <3>1
      <4> QED
        BY <4>1 DEF DueBefore
    <3> QED
      BY <1>1, <2>1, <2>2, <3>1, <3>2, <3>3
  <2>3. CASE fe # cfd
    BY <1>1, <2>1, <2>3 DEF DueBefore
  <2> QED
    BY <2>2, <2>3
<1>5. Counted'
  BY TakenConns DEF Counted
<1>6. Fresh'
  <2>1. conns[cfd].sent # 0
    BY <1>1 DEF Fresh
  <2> QED
    BY <1>1, <2>1, TakenConns DEF Fresh
<1>7. NeverHungUp'
  BY TakenConns DEF NeverHungUp
<1> QED
  BY <1>3, <1>4, <1>5, <1>6, <1>7

LEMMA RecvHeaderStep == ASSUME IInv, RecvHeader PROVE IInv'
<1> USE DEF IInv, Frontend_kept
<1> DEFINE m == Head(In).msg
<1>1. pc = "header" /\ In # <<>> /\ cfd \in Conns /\ h = NoMessage
  BY DEF RecvHeader, Types, TypeOK, HeaderHeld
<1>2. In \in Seq(Pieces) /\ Len(In) \in Nat \ {0} /\ Head(In) = In[1]
  BY <1>1, ConnType DEF In
<1>3. m \in Messages /\ Head(In) = Header(m)
  <2>1. Follows(0, In[1])
    BY <1>1, <1>2 DEF Framed, DueBefore, In
  <2> QED
    BY <1>2, <2>1 DEF Follows
<1>4. Head(In).len = 12 /\ Head(In).what = "header" /\ Got(HdrSize) = HdrSize
  BY <1>3 DEF Header, Bytes, HdrSize, Got
<1>5. Left(HdrSize) = Tail(In)
  BY <1>4 DEF Left, HdrSize
<1>6. /\ h' = m /\ pc' = IF m.size > 0 THEN "payload" ELSE "switch"
      /\ conns' = [conns EXCEPT ![cfd].in = Tail(In)]
      /\ cfd' = cfd /\ backlog' = backlog /\ fe' = fe /\ unsent' = unsent
  BY <1>1, <1>4, <1>5 DEF RecvHeader, HdrSize
<1>7. m.size \in Nat
  BY <1>3, MessageType
<1>8. Taken
  <2>1. Due(Head(In)) = m.size
    BY <1>4 DEF Due
  <2>2. DueBefore(cfd, 1)' = m.size
    BY <1>6, <1>7 DEF DueBefore
  <2>3. /\ conns'[cfd] = [conns[cfd] EXCEPT !.in = Tail(In)]
        /\ \A k \in Conns : k # cfd => conns'[k] = conns[k]
        /\ conns' = [conns EXCEPT ![cfd] = conns'[cfd]]
    BY <1>1, <1>6 DEF Types
  <2> QED
    BY <1>1, <1>6, <2>1, <2>2, <2>3 DEF Taken
<1>9. Types'
  <2>1. TypeOK'
    BY <1>1, <1>3, <1>6, <1>8, TakenConns, SameEnds DEF Types, TypeOK
  <2> QED
    BY <1>6, <1>8, <2>1, TakenConns DEF Types
<1>10. HeaderHeld'
  BY <1>3, <1>6 DEF HeaderHeld
<1>11. OneQuestion'
  <2> SUFFICES ASSUME fe # 0 PROVE OneQuestion'
    BY <1>6 DEF OneQuestion
  <2>1. fe \in Conns
    BY DEF Types, TypeOK
  <2>2. \A q : Outstanding(fe, q)' = Outstanding(fe, q)
    BY <1>6, <1>8, <2>1, TakenConns DEF Outstanding
  <2>3. CASE fe # cfd
    <3>1. conns'[fe] = conns[fe] /\ cfd' # fe'
      BY <1>6, <1>8, <2>1, <2>3 DEF Taken
    <3> QED
      BY <1>6, <2>2, <3>1 DEF OneQuestion
  <2>4. CASE fe = cfd
    <3>1. /\ Asks(In[1]) <=> m \in Asking
          /\ In[1].msg = m
      BY <1>2, <1>4 DEF Asks
    <3>2. m \in Asking => /\ Outstanding(fe, m)
                          /\ \A j \in 1 .. Len(In) : Asks(In[j]) => j = 1
      BY <1>2, <2>4, <3>1 DEF OneQuestion, In
    <3>3. \A i \in 1 .. Len(In) : Asks(In[i]) =>
            /\ Outstanding(fe, In[i].msg)
            /\ \A j \in 1 .. Len(In) : Asks(In[j]) => j = i
      BY <2>4 DEF OneQuestion, In
    <3>4. /\ Len(conns'[fe].in) = Len(In) - 1
          /\ \A i \in 1 .. Len(In) - 1 : conns'[fe].in[i] = In[i + 1]
      BY <1>8, <2>4, TakenConns
    <3>5. ASSUME NEW i \in 1 .. Len(conns'[fe].in), Asks(conns'[fe].in[i])
          PROVE  /\ Outstanding(fe, conns'[fe].in[i].msg) /\ m \notin Asking
                 /\ \A j \in 1 .. Len(conns'[fe].in) :
                      Asks(conns'[fe].in[j]) => j = i
      BY <1>2, <3>2, <3>3, <3>4, <3>5
    <3> QED
      BY <1>6, <2>2, <3>2, <3>5 DEF OneQuestion, Asks
  <2> QED
    BY <2>3, <2>4
<1> QED
  BY <1>8, <1>9, <1>10, <1>11, TakenInv

LEMMA RecvPayloadStep == ASSUME IInv, RecvPayload PROVE IInv'
<1> USE DEF IInv, Frontend_kept
<1>1. /\ pc = "payload" /\ In # <<>> /\ cfd \in Conns /\ h \in Messages /\ h.size > 0
      /\ pc' = "switch" /\ cfd' = cfd /\ h' = h /\ backlog' = backlog
      /\ fe' = fe /\ unsent' = unsent
  BY DEF RecvPayload, Types, TypeOK, HeaderHeld
<1>2. In \in Seq(Pieces) /\ Len(In) \in Nat \ {0} /\ Head(In) = In[1]
  BY <1>1, ConnType DEF In
<1>3. h.size \in 0 .. 264
  BY <1>1, MessageType
<1>4. Head(In) = Bytes("payload", NoMessage, h.size)
  <2>1. Follows(h.size, In[1])
    BY <1>1, <1>2 DEF Framed, DueBefore, In
  <2> QED
    BY <1>1, <1>2, <2>1 DEF Follows
<1>5. Left(Capped(h.size)) = Tail(In)
  <2>1. Capped(h.size) = h.size
    BY <1>3 DEF Capped, PayloadSize
  <2>2. Head(In).len = h.size
    BY <1>4 DEF Bytes
  <2>3. ~(Head(In).len > h.size)
    BY <1>3, <2>2
  <2> QED
    BY <2>1, <2>3 DEF Left
<1>6. Taken
  <2>1. Due(Head(In)) = 0
    BY <1>4 DEF Due, Bytes
  <2>2. DueBefore(cfd, 1)' = 0
    BY <1>1 DEF DueBefore
  <2>3. /\ conns'[cfd] = [conns[cfd] EXCEPT !.in = Tail(In)]
        /\ \A k \in Conns : k # cfd => conns'[k] = conns[k]
        /\ conns' = [conns EXCEPT ![cfd] = conns'[cfd]]
    BY <1>1, <1>5 DEF RecvPayload, Types
  <2> QED
    BY <1>1, <2>1, <2>2, <2>3 DEF Taken
<1>7. Types'
  <2>1. TypeOK'
    BY <1>1, <1>6, TakenConns, SameEnds DEF Types, TypeOK
  <2> QED
    BY <1>1, <1>6, <2>1, TakenConns DEF Types
<1>8. HeaderHeld'
  BY <1>1 DEF HeaderHeld
<1>9. OneQuestion'
  <2> SUFFICES ASSUME fe # 0 PROVE OneQuestion'
    BY <1>1 DEF OneQuestion
  <2>1. fe \in Conns
    BY DEF Types, TypeOK
  <2>2. \A q : Outstanding(fe, q)' = Outstanding(fe, q)
    BY <1>1, <1>6, <2>1, TakenConns DEF Outstanding
  <2>3. CASE fe # cfd
    <3>1. conns'[fe] = conns[fe] /\ cfd' # fe'
      BY <1>1, <1>6, <2>1, <2>3 DEF Taken
    <3> QED
      BY <1>1, <2>2, <3>1 DEF OneQuestion
  <2>4. CASE fe = cfd
    <3>1. \A i \in 1 .. Len(In) : Asks(In[i]) =>
            /\ Outstanding(fe, In[i].msg) /\ h \notin Asking
            /\ \A j \in 1 .. Len(In) : Asks(In[j]) => j = i
      BY <2>4 DEF OneQuestion, In
    <3>2. /\ Len(conns'[fe].in) = Len(In) - 1
          /\ \A i \in 1 .. Len(In) - 1 : conns'[fe].in[i] = In[i + 1]
      BY <1>6, <2>4, TakenConns
    <3>3. ASSUME NEW i \in 1 .. Len(conns'[fe].in), Asks(conns'[fe].in[i])
          PROVE  /\ Outstanding(fe, conns'[fe].in[i].msg) /\ h \notin Asking
                 /\ \A j \in 1 .. Len(conns'[fe].in) :
                      Asks(conns'[fe].in[j]) => j = i
      <4>1. /\ i + 1 \in 1 .. Len(In) /\ conns'[fe].in[i] = In[i + 1]
            /\ \A j \in 1 .. Len(conns'[fe].in) :
                 j + 1 \in 1 .. Len(In) /\ conns'[fe].in[j] = In[j + 1]
        BY <1>2, <3>2
      <4>2. /\ Outstanding(fe, In[i + 1].msg) /\ h \notin Asking
            /\ \A j \in 1 .. Len(In) : Asks(In[j]) => j = i + 1
        BY <3>1, <3>3, <4>1
      <4> QED
        BY <4>1, <4>2
    <3>4. h \in Asking => Outstanding(fe, h)
      BY <2>4 DEF OneQuestion
    <3> QED
      BY <1>1, <2>2, <3>3, <3>4 DEF OneQuestion, Asks
  <2> QED
    BY <2>3, <2>4
<1> QED
  BY <1>6, <1>7, <1>8, <1>9, TakenInv

\* A reply is sent exactly for a message whose frontend still waits for it.
Answering == h \in Asking /\ fe = cfd

LEMMA ReplyType == ASSUME NEW m \in Messages PROVE ReplyTo(m) \in Replies
  BY MessageType DEF ReplyTo, Replies

LEMMA SwitchConns ==
  ASSUME IInv, Switch
  PROVE  /\ cfd \in Conns /\ h \in Messages
         /\ conns' \in [Conns -> Conn]
         /\ \A k \in Conns :
              /\ conns'[k].be = conns[k].be /\ conns'[k].sent = conns[k].sent
              /\ conns'[k].fe = conns[k].fe /\ conns'[k].read = conns[k].read
              /\ conns'[k].asked = conns[k].asked /\ conns'[k].in = conns[k].in
              /\ conns'[k].replies = IF k = cfd /\ Answering
                                     THEN Append(conns[k].replies, ReplyTo(h))
                                     ELSE conns[k].replies
         /\ Answering => Outstanding(cfd, h)
<1> USE DEF IInv
<1>1. pc = "switch" /\ cfd \in Conns /\ h \in Messages
  BY DEF Switch, Types, TypeOK, HeaderHeld
<1>2. Answering <=> h.request \in Replied /\ conns[cfd].fe
  <2>1. h \in Asking <=> h.request \in Replied
    BY <1>1 DEF Asking, Replied
  <2>2. conns[cfd].fe <=> cfd = fe
    BY <1>1 DEF Types, TypeOK
  <2> QED
    BY <2>1, <2>2 DEF Answering
<1> DEFINE new == IF Answering THEN Append(conns[cfd].replies, ReplyTo(h))
                  ELSE conns[cfd].replies
<1>3. new \in Seq(Replies)
  <2>1. ReplyTo(h) \in Replies
    BY <1>1, ReplyType
  <2> QED
    BY <1>1, <2>1, ConnType
<1>4. /\ conns' = [conns EXCEPT ![cfd].replies = new]
  BY <1>1, <1>2 DEF Switch
<1> HIDE DEF new
<1>5. /\ conns'[cfd] = [conns[cfd] EXCEPT !.replies = new]
      /\ \A k \in Conns : k # cfd => conns'[k] = conns[k]
      /\ conns' = [conns EXCEPT ![cfd] = conns'[cfd]]
  BY <1>1, <1>4 DEF Types
<1>6. /\ conns'[cfd] \in Conn /\ conns'[cfd].replies = new
      /\ conns'[cfd].in = conns[cfd].in /\ conns'[cfd].asked = conns[cfd].asked
      /\ conns'[cfd].be = conns[cfd].be /\ conns'[cfd].sent = conns[cfd].sent
      /\ conns'[cfd].fe = conns[cfd].fe /\ conns'[cfd].read = conns[cfd].read
  BY <1>1, <1>3, <1>5, ConnType DEF Conn
<1>7. conns' \in [Conns -> Conn]
  BY <1>1, <1>5, <1>6 DEF Types
<1>8. Answering => Outstanding(cfd, h)
  BY <1>1, ConnsType DEF Answering, OneQuestion
<1> QED
  BY <1>1, <1>5, <1>6, <1>7, <1>8 DEF new

LEMMA SwitchStep == ASSUME IInv, Switch PROVE IInv'
<1> USE DEF IInv, Frontend_kept
<1>1. /\ pc = "switch" /\ pc' = "header" /\ h' = NoMessage /\ cfd' = cfd
      /\ backlog' = backlog /\ fe' = fe /\ unsent' = unsent
  BY DEF Switch
<1>2. Types'
  <2>1. TypeOK'
    BY <1>1, SwitchConns, SameEnds DEF Types, TypeOK
  <2> QED
    BY <1>1, <2>1, SwitchConns DEF Types
<1>3. Framed' /\ Owing'
  <2>1. \A k \in Conns, i \in Nat : DueBefore(k, i)' = DueBefore(k, i)
    BY <1>1, SwitchConns DEF DueBefore
  <2>2. Framed'
    BY <2>1, ConnType, SwitchConns DEF Framed
  <2>3. ASSUME fe # 0 PROVE unsent' = DueBefore(fe, Len(conns[fe].in) + 1)'
    <3>1. fe \in Conns
      BY <2>3 DEF Types, TypeOK
    <3>2. PICK k \in Conns, n \in Nat : k = fe /\ n = Len(conns[fe].in) + 1
      BY <3>1, ConnType
    <3>3. (Len(conns[fe].in) + 1)' = n /\ fe' = k
      BY <1>1, <3>2, SwitchConns
    <3>4. DueBefore(fe, Len(conns[fe].in) + 1)' = DueBefore(k, n)'
      BY <3>3 DEF DueBefore
    <3> QED
      BY <1>1, <2>1, <2>3, <3>2, <3>4 DEF Owing
  <2> QED
    BY <1>1, <2>2, <2>3 DEF Owing
<1>4. NeverHungUp' /\ HeaderHeld' /\ Fresh'
  BY <1>1, SwitchConns DEF NeverHungUp, HeaderHeld, Fresh
<1>5. Counted'
  <2> SUFFICES ASSUME NEW k \in Conns
               PROVE  /\ conns'[k].read <= Len(conns'[k].replies)
                      /\ Len(conns'[k].replies) <= Len(conns'[k].asked)
    BY DEF Counted
  <2>1. CASE k = cfd /\ Answering
    <3>1. Len(conns'[k].replies) = Len(conns[k].replies) + 1
      <4>1. ReplyTo(h) \in Replies /\ conns[k].replies \in Seq(Replies)
        BY ReplyType, ConnType, SwitchConns
      <4>2. conns'[k].replies = Append(conns[k].replies, ReplyTo(h))
        BY <2>1, SwitchConns
      <4> QED
        BY <4>1, <4>2
    <3> QED
      BY <2>1, <3>1, ConnType, SwitchConns DEF Counted, Outstanding
  <2>2. CASE ~(k = cfd /\ Answering)
    BY <2>2, SwitchConns DEF Counted
  <2> QED
    BY <2>1, <2>2
<1>6. OneQuestion'
  <2> SUFFICES ASSUME fe # 0 PROVE OneQuestion'
    BY <1>1 DEF OneQuestion
  <2>1. fe \in Conns /\ h' \notin Asking
    BY <1>1, MessageType DEF Types, TypeOK
  <2>2. conns'[fe].in = conns[fe].in
    BY <2>1, SwitchConns
  <2>3. CASE Answering
    <3>1. \A i \in 1 .. Len(conns[fe].in) : ~Asks(conns[fe].in[i])
      BY <2>3 DEF Answering, OneQuestion
    <3> QED
      BY <1>1, <2>1, <2>2, <3>1 DEF OneQuestion, Asks
  <2>4. CASE ~Answering
    <3>1. \A q : Outstanding(fe, q)' = Outstanding(fe, q)
      BY <1>1, <2>1, <2>4, SwitchConns DEF Outstanding
    <3> QED
      BY <1>1, <2>1, <2>2, <3>1 DEF OneQuestion, Asks
  <2> QED
    BY <2>3, <2>4
<1> QED
  BY <1>2, <1>3, <1>4, <1>5, <1>6

LEMMA NextIInv == IInv /\ [Next]_vars => IInv'
<1> SUFFICES ASSUME IInv, [Next]_vars PROVE IInv'
  OBVIOUS
<1>1. CASE UNCHANGED vars
  BY <1>1 DEF vars, IInv, Types, TypeOK, NeverHungUp, HeaderHeld, Framed, Owing,
              Fresh, Counted, OneQuestion, DueBefore, Outstanding, In
<1>2. ASSUME NEW m \in Messages, Send(m) PROVE IInv'
  BY <1>2, SendStep
<1>3. CASE Connect
  BY <1>3, ConnectStep
<1>4. CASE SendPayload
  BY <1>4, SendPayloadStep
<1>5. CASE Receive
  BY <1>5, ReceiveStep
<1>6. CASE Disconnect
  BY <1>6, DisconnectStep
<1>7. CASE Accept
  BY <1>7, AcceptStep
<1>8. CASE HangUp
  BY <1>8, HangUpStep
<1>9. CASE RecvHeader
  BY <1>9, RecvHeaderStep
<1>10. CASE RecvPayload
  BY <1>10, RecvPayloadStep
<1>11. CASE Switch
  BY <1>11, SwitchStep
<1> QED
  BY <1>1, <1>2, <1>3, <1>4, <1>5, <1>6, <1>7, <1>8, <1>9, <1>10, <1>11
  DEF Next, Backend

----------------------------------------------------------------------------
(* The theorems *)

\* The thread knows a client exactly while it serves one it has accepted and
\* not closed, and the frontend uses one connection at a time.
THEOREM BackendTypeOK == Spec => []TypeOK
<1>1. IInv => TypeOK
  BY DEF IInv, Types
<1> QED
  BY InitIInv, NextIInv, <1>1, PTL DEF Spec

\* backend_main() never closes a connection its frontend still uses: reading
\* a recvmsg() at a time it stays in step with the stream, whatever is sent
\* and wherever the frontend gives up.
THEOREM BackendStays == Spec => []NeverHungUp
<1>1. IInv => NeverHungUp
  BY DEF IInv
<1> QED
  BY InitIInv, NextIInv, <1>1, PTL DEF Spec

----------------------------------------------------------------------------
(* The refinement of ReplyServer *)

AskedBar    == [k \in Conns |-> conns[k].asked]
AnsweredBar == [k \in Conns |-> conns[k].replies]

LEMMA InitRefines == Init => Abstract!Init
  BY DEF Init, NewConn, Abstract!Init

\* A step that asks and answers nothing.
LEMMA Stutters ==
  ASSUME \A k \in Conns : /\ conns'[k].asked = conns[k].asked
                          /\ conns'[k].replies = conns[k].replies
  PROVE  AskedBar' = AskedBar /\ AnsweredBar' = AnsweredBar
  BY DEF AskedBar, AnsweredBar

LEMMA OthersStutter ==
  ASSUME IInv, \/ Connect \/ SendPayload \/ Receive \/ Disconnect
               \/ Accept \/ HangUp \/ RecvHeader \/ RecvPayload \/ UNCHANGED vars
  PROVE  AskedBar' = AskedBar /\ AnsweredBar' = AnsweredBar
<1> SUFFICES ASSUME NEW k \in Conns
             PROVE  /\ conns'[k].asked = conns[k].asked
                    /\ conns'[k].replies = conns[k].replies
  BY Stutters
<1>1. conns \in [Conns -> Conn]
  BY DEF IInv, Types
<1>2. CASE Connect
  BY <1>1, <1>2 DEF Connect, Conn
<1>3. CASE SendPayload
  BY <1>1, <1>3 DEF SendPayload, Conn
<1>4. CASE Receive
  BY <1>1, <1>4 DEF Receive, Conn
<1>5. CASE Disconnect
  BY <1>1, <1>5 DEF Disconnect, Conn
<1>6. CASE Accept
  BY <1>1, <1>6 DEF Accept, Conn
<1>7. CASE HangUp
  <2>1. conns' = [conns EXCEPT ![cfd] =
                   [conns[cfd] EXCEPT !.be = "closed", !.in = <<>>]]
    BY <1>7 DEF HangUp, Closed
  <2>2. cfd \in Conns => conns[cfd] \in Conn
    BY <1>1
  <2> QED
    BY <1>1, <2>1, <2>2 DEF Conn
<1>8. CASE RecvHeader
  <2>1. CASE Closed(cfd)
    <3>1. conns' = [conns EXCEPT ![cfd] =
                     [conns[cfd] EXCEPT !.be = "closed", !.in = <<>>]]
      BY <2>1 DEF Closed
    <3>2. cfd \in Conns => conns[cfd] \in Conn
      BY <1>1
    <3> QED
      BY <1>1, <3>1, <3>2 DEF Conn
  <2>2. CASE conns' = [conns EXCEPT ![cfd].in = Left(HdrSize)]
    BY <1>1, <2>2 DEF Conn
  <2> QED
    BY <1>8, <2>1, <2>2 DEF RecvHeader
<1>9. CASE RecvPayload
  BY <1>1, <1>9 DEF RecvPayload, Conn
<1>10. CASE UNCHANGED vars
  BY <1>10 DEF vars
<1> QED
  BY <1>2, <1>3, <1>4, <1>5, <1>6, <1>7, <1>8, <1>9, <1>10

LEMMA SendRefines ==
  ASSUME IInv, NEW m \in Messages, Send(m)
  PROVE  \/ AskedBar' = AskedBar /\ AnsweredBar' = AnsweredBar
         \/ \E k \in Conns : Abstract!Ask(k, m)
<1>1. fe \in Conns
  BY DEF Send, IInv, Types, TypeOK
<1>2. /\ \A k \in Conns : k # fe => conns'[k] = conns[k]
      /\ conns'[fe].replies = conns[fe].replies
      /\ conns'[fe].asked = IF m \in Asking THEN Append(conns[fe].asked, m)
                            ELSE conns[fe].asked
  BY <1>1 DEF Send, IInv, Types, Conn
<1>3. CASE m \notin Asking
  BY <1>2, <1>3, Stutters
<1>4. CASE m \in Asking
  <2>1. PICK c \in Conns : c = fe
    BY <1>1
  <2>2. Abstract!Ask(c, m)
    BY <1>2, <1>4, <2>1 DEF Abstract!Ask
  <2> QED
    BY <2>2
<1> QED
  BY <1>3, <1>4

LEMMA SwitchRefines ==
  ASSUME IInv, Switch
  PROVE  \/ AskedBar' = AskedBar /\ AnsweredBar' = AnsweredBar
         \/ \E k \in Conns : Abstract!Answer(k)
<1>1. CASE ~Answering
  BY <1>1, SwitchConns, Stutters
<1>2. CASE Answering
  <2>1. /\ cfd \in Conns /\ Len(conns[cfd].asked) = Len(conns[cfd].replies) + 1
        /\ conns[cfd].asked[Len(conns[cfd].replies) + 1] = h
        /\ Len(conns[cfd].replies) < Len(conns[cfd].asked)
    BY <1>2, SwitchConns, ConnType DEF Outstanding, IInv
  <2>2. PICK c \in Conns : c = cfd
    BY <2>1
  <2>3. Abstract!Answer(c)
    BY <1>2, <2>1, <2>2, SwitchConns DEF Abstract!Answer
  <2> QED
    BY <2>3
<1> QED
  BY <1>1, <1>2

\* Each frontend gets the replies to the messages that ask for one, in their
\* order and nothing else: send_reply() is called at the right times.
THEOREM RepliesServed == Spec => ServesReplies
<1>1. IInv /\ [Next]_vars =>
        [Abstract!Next]_<<AskedBar, AnsweredBar>>
  <2> SUFFICES ASSUME IInv, [Next]_vars
               PROVE  [Abstract!Next]_<<AskedBar, AnsweredBar>>
    OBVIOUS
  <2>1. ASSUME NEW m \in Messages, Send(m)
        PROVE  [Abstract!Next]_<<AskedBar, AnsweredBar>>
    BY <2>1, SendRefines DEF Abstract!Next
  <2>2. CASE Switch
    BY <2>2, SwitchRefines DEF Abstract!Next
  <2>3. CASE \/ Connect \/ SendPayload \/ Receive \/ Disconnect
             \/ Accept \/ HangUp \/ RecvHeader \/ RecvPayload \/ UNCHANGED vars
    BY <2>3, OthersStutter
  <2> QED
    BY <2>1, <2>2, <2>3 DEF Next, Backend
<1> QED
  BY InitIInv, NextIInv, InitRefines, <1>1, PTL
  DEF Spec, ServesReplies, Abstract!Spec, AskedBar, AnsweredBar

==============================================================================
