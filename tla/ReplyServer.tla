----------------------------- MODULE ReplyServer -----------------------------
(***************************************************************************)
(* What a vhost-user frontend relies on: on each connection the replies    *)
(* are those of the messages that ask for one, in the order in which they  *)
(* were sent, and nothing else.                                            *)
(***************************************************************************)
EXTENDS Naturals, Sequences

CONSTANTS
  Conns,         \* connections
  Messages,      \* messages that ask for a reply
  ReplyTo(_)     \* the reply to each

VARIABLES asked, answered

Init ==
  /\ asked = [k \in Conns |-> <<>>]
  /\ answered = [k \in Conns |-> <<>>]

Ask(k, m) ==
  /\ asked' = [asked EXCEPT ![k] = Append(@, m)]
  /\ UNCHANGED answered

Answer(k) ==
  /\ Len(answered[k]) < Len(asked[k])
  /\ answered' = [answered EXCEPT ![k] = Append(@, ReplyTo(asked[k][Len(@) + 1]))]
  /\ UNCHANGED asked

Next == \E k \in Conns : Answer(k) \/ \E m \in Messages : Ask(k, m)

Spec == Init /\ [][Next]_<<asked, answered>>

============================================================================
