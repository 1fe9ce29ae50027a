---------------------------- MODULE ReplayProofs ----------------------------
(***************************************************************************)
(* What holds of a harness for every set of inputs: the shape of all       *)
(* state, and that the resources and VLANs its requests refer to are those *)
(* the device knows.                                                       *)
(***************************************************************************)
EXTENDS Replay, SequenceTheorems, FiniteSetTheorems, WellFoundedInduction, TLAPS

----------------------------------------------------------------------------
(* Induction over data, from the least element of a set of numbers *)

\* A set of natural numbers that is not empty has a least element.
LEMMA LeastNumber ==
  ASSUME NEW T, T \subseteq Nat, T # {}
  PROVE  \E x \in T : \A y \in T : x <= y
<1>1. IsWellFoundedOn(OpToRel(<, Nat), Nat)
  BY NatLessThanWellFounded
<1>2. \E x \in T : \A y \in T : ~ (<<y, x>> \in OpToRel(<, Nat))
  BY <1>1, WFMin
<1>3. \A x, y \in Nat : ~ (<<y, x>> \in OpToRel(<, Nat)) => x <= y
  BY DEF OpToRel
<1> QED BY <1>2, <1>3

\* The recursion f[0] = s0, f[k] = step[k][f[k-1]] on 0 .. n, over values in S.
Steps(n, S) == [1 .. n -> [S -> S]]
Recurses(f, n, s0, step) == f[0] = s0 /\ \A k \in 1 .. n : f[k] = step[k][f[k - 1]]

\* A function defined by primitive recursion exists.
LEMMA PrimitiveRecursion ==
  ASSUME NEW n \in Nat, NEW S, NEW s0 \in S, NEW step \in Steps(n, S)
  PROVE  \E f : f \in [0 .. n -> S] /\ Recurses(f, n, s0, step)
<1> DEFINE P(m) == \E f \in [0 .. m -> S] :
                     f[0] = s0 /\ \A k \in 1 .. m : f[k] = step[k][f[k - 1]]
           T == {m \in Nat : m <= n /\ ~P(m)}
<1>1. ASSUME T # {} PROVE FALSE
  <2>1. PICK x \in T : \A y \in T : x <= y
    <3> HIDE DEF P
    <3> QED BY <1>1, LeastNumber
  <2>2. CASE x = 0
    <3> DEFINE g == [k \in 0 .. 0 |-> s0]
    <3>1. g \in [0 .. 0 -> S] /\ g[0] = s0 OBVIOUS
    <3>2. P(0)
      <4>1. \A k \in 1 .. 0 : FALSE OBVIOUS
      <4> QED BY <3>1, <4>1
    <3> HIDE DEF P
    <3> QED BY <3>2, <2>2
  <2>3. CASE x # 0
    <3>1. x - 1 \in Nat /\ x - 1 < x /\ x - 1 <= n
      BY <2>3
    <3>2. P(x - 1)
      <4> HIDE DEF P
      <4> QED BY <3>1, <2>1
    <3>3. PICK f \in [0 .. x - 1 -> S] :
            f[0] = s0 /\ \A k \in 1 .. x - 1 : f[k] = step[k][f[k - 1]]
      BY <3>2
    <3> DEFINE g == [k \in 0 .. x |-> IF k = x THEN step[x][f[x - 1]] ELSE f[k]]
    <3>4. x \in 1 .. n BY <2>3
    <3>5. f[x - 1] \in S BY <3>1
    <3>6. g \in [0 .. x -> S] BY <3>4, <3>5 DEF Steps
    <3>7. g[0] = s0 BY <3>3, <2>3
    <3>8. ASSUME NEW k \in 1 .. x PROVE g[k] = step[k][g[k - 1]]
      BY <3>3, <3>1
    <3> QED BY <3>6, <3>7, <3>8
  <2> QED BY <2>2, <2>3
<1>2. P(n)
  <2> HIDE DEF P
  <2> QED BY <1>1
<1> QED BY <1>2 DEF Recurses

----------------------------------------------------------------------------
(* The allocator *)

\* A place in the pool where a buffer may begin.
Places(dev) == {p \in 0 .. PoolSize(dev) : p % 16 = 0}

LEMMA PoolPositive ==
  ASSUME NEW dev \in DOMAIN RequestOps
  PROVE  kMaxQueues(dev) \in Nat /\ kMaxQueues(dev) > 0 /\ PoolSize(dev) \in Nat /\ 0 \in Places(dev)
<1>1. dev \in {"blk", "net", "gpu", "scsi", "fs", "snd", "vsock", "balloon", "input", "console"}
  BY DEF RequestOps
<1>2. kMaxQueues(dev) \in {4, 8, 16}
  BY <1>1 DEF kMaxQueues
<1>3. PoolSize(dev) \in Nat
  BY <1>2 DEF PoolSize
<1> QED BY <1>2, <1>3 DEF Places

LEMMA AlignedPlace ==
  ASSUME NEW x \in Nat, NEW limit \in Nat, x <= limit
  PROVE  Aligned(x) \in {p \in 0 .. limit : p % 16 = 0}
<1>1. x % 16 \in 0 .. 15 /\ x - (x % 16) \in Nat
  OBVIOUS
<1>2. (x - (x % 16)) % 16 = 0
  OBVIOUS
<1> QED BY <1>1, <1>2 DEF Aligned

\* What allocating one buffer after the other does, for any limit of the pool:
\* it ends at a place in the pool.
Slots(limit) == [pool : {p \in 0 .. limit : p % 16 = 0}, ok : BOOLEAN]
Take(a, len, limit) ==
  IF a.ok /\ a.pool + len + 16 <= limit
  THEN [a EXCEPT !.pool = Aligned(a.pool + len + 16)] ELSE [a EXCEPT !.ok = FALSE]
Taken(g, lens, pool, limit) ==
  [k \in 0 .. Len(lens) |->
     IF k = 0 THEN [pool |-> pool, ok |-> TRUE] ELSE Take(g[k - 1], lens[k], limit)]

LEMMA TakeSlot ==
  ASSUME NEW limit \in Nat, NEW a \in Slots(limit), NEW len \in Nat
  PROVE  Take(a, len, limit) \in Slots(limit)
<1>1. [a EXCEPT !.ok = FALSE] \in Slots(limit)
  BY DEF Slots
<1>2. a.pool \in Nat
  BY DEF Slots
<1>3. ASSUME a.pool + len + 16 <= limit
      PROVE  [a EXCEPT !.pool = Aligned(a.pool + len + 16)] \in Slots(limit)
  <2>1. a.pool + len + 16 \in Nat
    BY <1>2
  <2>2. PICK v : v = Aligned(a.pool + len + 16)
    OBVIOUS
  <2>3. v \in {p \in 0 .. limit : p % 16 = 0}
    BY <2>1, <2>2, <1>3, AlignedPlace
  <2>4. [a EXCEPT !.pool = v] \in Slots(limit)
    BY <2>3 DEF Slots
  <2> QED BY <2>2, <2>4
<1> QED BY <1>1, <1>3 DEF Take

LEMMA TakenExists ==
  ASSUME NEW limit \in Nat, NEW lens \in Seq(Nat),
         NEW pool \in {p \in 0 .. limit : p % 16 = 0}
  PROVE  \E f \in [0 .. Len(lens) -> Slots(limit)] : f = Taken(f, lens, pool, limit)
<1>u. PICK U : U = Slots(limit)
  OBVIOUS
<1> DEFINE n == Len(lens)
           step == [k \in 1 .. n |-> [a \in U |-> Take(a, lens[k], limit)]]
           s0 == [pool |-> pool, ok |-> TRUE]
<1>0. n \in Nat
  OBVIOUS
<1>1. step \in [1 .. n -> [U -> U]]
  <2>1. \A k \in 1 .. n : lens[k] \in Nat OBVIOUS
  <2>2. \A k \in 1 .. n, a \in U : Take(a, lens[k], limit) \in U
    <3> HIDE DEF n
    <3> QED BY <1>u, <2>1, TakeSlot
  <2> HIDE DEF n
  <2> QED BY <2>2
<1>2. s0 \in U
  BY <1>u DEF Slots
<1>3. PICK f \in [0 .. n -> U] : f[0] = s0 /\ \A k \in 1 .. n : f[k] = step[k][f[k - 1]]
  <2>1. step \in Steps(n, U)
    <3> HIDE DEF n, step
    <3> QED BY <1>1 DEF Steps
  <2>2. \E f : f \in [0 .. n -> U] /\ Recurses(f, n, s0, step)
    <3> HIDE DEF n, step, s0
    <3> QED BY <1>0, <2>1, <1>2, PrimitiveRecursion
  <2> HIDE DEF n, step, s0
  <2> QED BY <2>2 DEF Recurses
<1>4. f = Taken(f, lens, pool, limit)
  <2> HIDE DEF n
  <2>1. \A k \in 1 .. n : k - 1 \in 0 .. n BY <1>0
  <2>2. \A k \in 1 .. n : f[k] = Take(f[k - 1], lens[k], limit) BY <1>3, <2>1
  <2>3. Taken(f, lens, pool, limit) = [k \in 0 .. n |->
          IF k = 0 THEN s0 ELSE Take(f[k - 1], lens[k], limit)]
    BY DEF Taken, n
  <2> HIDE DEF s0
  <2> QED BY <1>3, <2>2, <2>3, <1>0
<1> QED BY <1>u, <1>3, <1>4

LEMMA TakenUnique ==
  ASSUME NEW lens \in Seq(Nat), NEW pool, NEW limit, NEW f, NEW g,
         f = Taken(f, lens, pool, limit), g = Taken(g, lens, pool, limit)
  PROVE  f[Len(lens)] = g[Len(lens)]
<1> DEFINE n == Len(lens)
           T == {m \in Nat : m <= n /\ g[m] # f[m]}
<1>0. n \in Nat
  OBVIOUS
<1>1. \A k \in 0 .. n : f[k] = IF k = 0 THEN [pool |-> pool, ok |-> TRUE]
                               ELSE Take(f[k - 1], lens[k], limit)
  BY DEF Taken
<1>2. \A k \in 0 .. n : g[k] = IF k = 0 THEN [pool |-> pool, ok |-> TRUE]
                               ELSE Take(g[k - 1], lens[k], limit)
  BY DEF Taken
<1>3. ASSUME T # {} PROVE FALSE
  <2> HIDE DEF n
  <2>1. PICK x \in T : \A y \in T : x <= y
    <3> HIDE DEF T
    <3>1. T \subseteq Nat BY DEF T
    <3> QED BY <1>3, <3>1, LeastNumber
  <2>2. x \in 0 .. n /\ g[x] # f[x] BY <1>0
  <2>3. x # 0 BY <2>2, <1>1, <1>2
  <2>4. x - 1 \in Nat /\ x - 1 <= n /\ x - 1 < x BY <2>2, <2>3, <1>0
  <2>5. g[x - 1] = f[x - 1] BY <2>1, <2>4
  <2> QED BY <2>2, <2>3, <2>5, <1>1, <1>2
<1> QED BY <1>3, <1>0

\* Allocating any list of lengths from a place in the pool ends at a place in
\* the pool.
LEMMA AllocatedPlace ==
  ASSUME input.dev \in DOMAIN RequestOps,
         NEW lens \in Seq(Nat), NEW pool \in Places(input.dev)
  PROVE  Allocated(lens, pool) \in [pool : Places(input.dev), ok : BOOLEAN]
<1>0. PICK limit : limit = PoolSize(input.dev)
  OBVIOUS
<1>1. limit \in Nat /\ pool \in {p \in 0 .. limit : p % 16 = 0}
  BY <1>0, PoolPositive DEF Places
<1>2. PICK f \in [0 .. Len(lens) -> Slots(limit)] : f = Taken(f, lens, pool, limit)
  BY <1>1, TakenExists
<1>3. PICK g : g = CHOOSE h : h = Taken(h, lens, pool, limit)
  OBVIOUS
<1>4. g = Taken(g, lens, pool, limit)
  BY <1>2, <1>3
<1>5. Allocated(lens, pool) = g[Len(lens)]
  BY <1>0, <1>3 DEF Allocated, Taken, Take
<1>6. g[Len(lens)] \in Slots(limit)
  <2>1. Len(lens) \in 0 .. Len(lens) OBVIOUS
  <2>2. f[Len(lens)] \in Slots(limit) BY <2>1, <1>2
  <2> QED BY <2>2, <1>2, <1>4, TakenUnique
<1> QED BY <1>0, <1>5, <1>6 DEF Slots, Places

----------------------------------------------------------------------------
(* The requests *)

IsChain(c) == c \in Seq(Nat \X BOOLEAN) /\ Len(c) > 0
IsRequest(r) == r.ahead \in Seq(Nat) /\ IsChain(r.chain)

LEMMA RequestIs ==
  ASSUME NEW vq, NEW need, NEW chain, IsChain(chain)
  PROVE  IsRequest(Request(vq, need, chain))
<1>1. <<>> \in Seq(Nat)
  OBVIOUS
<1>2. Request(vq, need, chain).ahead = <<>> /\ Request(vq, need, chain).chain = chain
  BY DEF Request
<1> QED BY <1>1, <1>2 DEF IsRequest

LEMMA ClampBetween ==
  ASSUME NEW n \in Nat, NEW lo \in Nat, NEW hi \in Nat, lo <= hi
  PROVE  Clamp(n, lo, hi) \in lo .. hi
BY DEF Clamp

LEMMA AtMostNat ==
  ASSUME NEW n \in Nat, NEW hi \in Nat
  PROVE  AtMost(n, hi) \in Nat
BY DEF AtMost, Clamp

LEMMA SizedNat ==
  ASSUME NEW n \in Nat, NEW default \in Nat, NEW lo \in Nat, NEW hi \in Nat
  PROVE  Sized(n, default, lo, hi) \in Nat
BY DEF Sized, Clamp

\* Chains of one and of two parts, and of parts that may be none.
LEMMA PartIs ==
  ASSUME NEW len \in Nat
  PROVE  /\ Out(len) \in Nat \X BOOLEAN /\ In(len) \in Nat \X BOOLEAN
         /\ Part(Out(len)) \in Seq(Nat \X BOOLEAN) /\ Part(In(len)) \in Seq(Nat \X BOOLEAN)
<1>1. Out(len) \in Nat \X BOOLEAN /\ In(len) \in Nat \X BOOLEAN
  BY DEF Out, In
<1>2. \A p \in Nat \X BOOLEAN : <<p>> \in Seq(Nat \X BOOLEAN)
  OBVIOUS
<1>3. <<>> \in Seq(Nat \X BOOLEAN)
  OBVIOUS
<1> QED BY <1>1, <1>2, <1>3 DEF Part

LEMMA OnePart ==
  ASSUME NEW p \in Nat \X BOOLEAN
  PROVE  IsChain(<<p>>)
BY DEF IsChain

LEMMA TwoParts ==
  ASSUME NEW p \in Nat \X BOOLEAN, NEW q \in Nat \X BOOLEAN
  PROVE  IsChain(<<p, q>>)
BY DEF IsChain

\* Requests of one part, and of one for each direction.
LEMMA SingleRequests ==
  ASSUME NEW vq, NEW need, NEW a \in Nat
  PROVE  /\ IsRequest(Request(vq, need, <<Out(a)>>))
         /\ IsRequest(Request(vq, need, <<In(a)>>))
<1>1. Out(a) \in Nat \X BOOLEAN /\ In(a) \in Nat \X BOOLEAN
  BY PartIs
<1>2. IsChain(<<Out(a)>>) /\ IsChain(<<In(a)>>)
  BY <1>1, OnePart
<1> QED BY <1>2, RequestIs

LEMMA SimpleRequests ==
  ASSUME NEW vq, NEW need, NEW a \in Nat, NEW b \in Nat
  PROVE  IsRequest(Request(vq, need, <<Out(a), In(b)>>))
<1>1. Out(a) \in Nat \X BOOLEAN /\ In(b) \in Nat \X BOOLEAN
  BY PartIs
<1>2. IsChain(<<Out(a), In(b)>>)
  BY <1>1, TwoParts
<1> QED BY <1>2, RequestIs

LEMMA MoreParts ==
  ASSUME NEW c, IsChain(c), NEW d \in Seq(Nat \X BOOLEAN)
  PROVE  IsChain(c \o d)
<1> DEFINE S == Nat \X BOOLEAN
<1>1. c \in Seq(S) /\ d \in Seq(S) /\ Len(c) > 0
  BY DEF IsChain
<1>2. c \o d \in Seq(S) /\ Len(c \o d) = Len(c) + Len(d)
  <2> HIDE DEF S
  <2> QED BY <1>1, ConcatProperties
<1>3. Len(c) \in Nat /\ Len(d) \in Nat
  <2> HIDE DEF S
  <2> QED BY <1>1, LenProperties
<1> QED BY <1>1, <1>2, <1>3 DEF IsChain

\* Where the fields of a header begin is a number: by induction on the fields.
LEMMA OffsetNat ==
  ASSUME NEW header, NEW k \in Nat \ {0}, \A i \in 1 .. k : header[i][2] \in Nat
  PROVE  OffsetOf(header, k) \in Nat
<1> DEFINE F(h) == [i \in 1 .. k |-> IF i = 1 THEN 0 ELSE h[i - 1] + header[i - 1][2]]
           step == [i \in 1 .. k |-> [o \in Nat |-> o + header[i][2]]]
<1>1. step \in Steps(k, Nat)
  BY DEF Steps
<1>2. PICK f : f \in [0 .. k -> Nat] /\ Recurses(f, k, 0, step)
  <2> HIDE DEF step
  <2> QED BY <1>1, PrimitiveRecursion
<1> DEFINE g == [i \in 1 .. k |-> f[i - 1]]
<1>3. \A i \in 1 .. k : f[i] = f[i - 1] + header[i][2]
  <2> HIDE DEF F, step
  <2>1. \A i \in 1 .. k : i - 1 \in 0 .. k
    OBVIOUS
  <2>2. \A i \in 1 .. k : f[i - 1] \in Nat
    BY <1>2, <2>1
  <2>3. \A i \in 1 .. k : step[i] = [o \in Nat |-> o + header[i][2]]
    BY DEF step
  <2> QED BY <1>2, <2>2, <2>3 DEF Recurses
<1>4. \A i \in 1 .. k : g[i] = IF i = 1 THEN 0 ELSE g[i - 1] + header[i - 1][2]
  <2> HIDE DEF F, step
  <2>1. f[0] = 0
    BY <1>2 DEF Recurses
  <2> TAKE i \in 1 .. k
  <2>2. CASE i = 1
    BY <2>1, <2>2
  <2>3. CASE i # 1
    <3>1. i - 1 \in 1 .. k
      BY <2>3
    <3>2. g[i - 1] = f[i - 1 - 1] /\ g[i] = f[i - 1]
      BY <3>1
    <3> QED BY <2>3, <3>1, <3>2, <1>3
  <2> QED BY <2>2, <2>3
<1>5. g = F(g)
  <2> HIDE DEF g
  <2>1. g = [i \in 1 .. k |-> g[i]] BY DEF g
  <2> QED BY <2>1, <1>4
<1>6. PICK h : h = CHOOSE x : x = F(x)
  OBVIOUS
<1>7. h = F(h)
  <2> HIDE DEF F, g
  <2> QED BY <1>5, <1>6
<1>8. \A i \in 1 .. k : h[i] = IF i = 1 THEN 0 ELSE h[i - 1] + header[i - 1][2]
  BY <1>7
<1> DEFINE T == {i \in Nat : i \in 1 .. k /\ h[i] \notin Nat}
<1>9. ASSUME T # {} PROVE FALSE
  <2>1. PICK x \in T : \A y \in T : x <= y
    <3> HIDE DEF T
    <3>1. T \subseteq Nat BY DEF T
    <3> QED BY <1>9, <3>1, LeastNumber
  <2>2. x \in 1 .. k /\ h[x] \notin Nat OBVIOUS
  <2>3. x # 1 BY <2>2, <1>8
  <2>4. x - 1 \in 1 .. k /\ x - 1 < x BY <2>2, <2>3
  <2>5. h[x - 1] \in Nat BY <2>1, <2>4
  <2> QED BY <2>2, <2>3, <2>4, <2>5, <1>8
<1>10. h[k] \in Nat
  BY <1>9
<1> QED BY <1>6, <1>10 DEF OffsetOf

LEMMA HeaderNat == HeaderSize(ScsiHeader) \in Nat
<1>1. Len(ScsiHeader) = 7 /\ \A i \in 1 .. 7 : ScsiHeader[i][2] \in Nat
  BY DEF ScsiHeader
<1>2. OffsetOf(ScsiHeader, 7) \in Nat
  BY <1>1, OffsetNat
<1> QED BY <1>1, <1>2 DEF HeaderSize

\* Every request a harness makes of a well-formed line is a chain of at least
\* one part, each of a length, with buffers of some length ahead of it.
LEMMA NetRequestIs ==
  ASSUME NEW m, WellFormed("net", m), m.op \in RequestOps.net, NEW pairs
  PROVE  IsRequest(NetRequest(m, pairs))
<1>1. m.len \in Nat
  BY DEF WellFormed
<1>2. IsRequest(op_tx_packet(m)) \/ m.op # "TxPacket"
  <2> SUFFICES ASSUME m.op = "TxPacket" PROVE IsRequest(op_tx_packet(m))
    OBVIOUS
  <2> DEFINE tag == IF m.vlan_tci # 0 /\ m.len >= 14 THEN 4 ELSE 0
             len == AtMost(m.len + tag, MaxFrame)
  <2>1. len \in Nat
    <3>1. m.len + tag \in Nat BY <1>1
    <3>2. MaxFrame \in Nat BY DEF MaxFrame
    <3> HIDE DEF tag
    <3> QED BY <3>1, <3>2, AtMostNat
  <2>2. op_tx_packet(m) = Request(m.vq % NetQueues, 2, <<Out(12)>> \o Part(Out(len)))
    BY DEF op_tx_packet
  <2> HIDE DEF len
  <2>3. IsChain(<<Out(12)>> \o Part(Out(len)))
    BY <2>1, PartIs, OnePart, MoreParts
  <2> QED BY <2>2, <2>3, RequestIs
<1>3. \A hi \in Nat : IsChain(<<Out(2)>> \o Part(Out(AtMost(m.len, hi))) \o <<In(1)>>)
  <2> TAKE hi \in Nat
  <2>1. AtMost(m.len, hi) \in Nat
    BY <1>1, AtMostNat
  <2>2. IsChain(<<Out(2)>> \o Part(Out(AtMost(m.len, hi))))
    BY <2>1, PartIs, OnePart, MoreParts
  <2>3. <<In(1)>> \in Seq(Nat \X BOOLEAN)
    BY PartIs, OnePart DEF IsChain
  <2> QED BY <2>2, <2>3, MoreParts
<1>4. IsRequest(op_ctrl_cmd(m)) /\ IsRequest(submit_ctrl(m, pairs))
  BY <1>3, RequestIs DEF op_ctrl_cmd, submit_ctrl
<1> QED BY <1>2, <1>4 DEF NetRequest

LEMMA submit_cmdIs ==
  ASSUME NEW vq, NEW req \in Nat, NEW resp \in Nat
  PROVE  IsRequest(submit_cmd(vq, req, resp))
BY PartIs, TwoParts, RequestIs DEF submit_cmd

LEMMA WithEntriesIs ==
  ASSUME NEW m, m.entries \in Nat, m.size \in Nat, NEW header \in Nat, NEW least \in 1 .. 16
  PROVE  IsRequest(WithEntries(m, header, least))
<1> DEFINE n == Clamp(m.entries, 1, 16)
           size == Clamp(m.size, least, 4096)
           r == submit_cmd(kCmdVq, header + 16 * n, 24)
<1>1. n \in 1 .. 16 /\ size \in 0 .. 4096
  <2>1. \A x \in Nat : Clamp(x, 1, 16) \in 1 .. 16
    BY DEF Clamp
  <2>2. PICK x \in Nat : x = m.size
    OBVIOUS
  <2>3. Clamp(x, least, 4096) \in 0 .. 4096
    BY DEF Clamp
  <2> QED BY <2>1, <2>2, <2>3
<1>2. n * size \in Nat /\ header + 16 * n \in Nat
  <2> HIDE DEF n, size
  <2>1. \A x, y \in Nat : x * y \in Nat OBVIOUS
  <2> QED BY <1>1, <2>1
<1>3. IsRequest(r)
  <2> HIDE DEF n
  <2> QED BY <1>2, submit_cmdIs
<1>4. WithEntries(m, header, least) = [r EXCEPT !.ahead = <<n * size>>]
  BY DEF WithEntries
<1>5. r = [vq |-> r.vq, need |-> r.need, ahead |-> r.ahead, chain |-> r.chain]
  BY DEF submit_cmd, Request
<1> HIDE DEF r, n, size
<1>6. [r EXCEPT !.ahead = <<n * size>>].ahead = <<n * size>>
      /\ [r EXCEPT !.ahead = <<n * size>>].chain = r.chain
  BY <1>5
<1> QED BY <1>2, <1>3, <1>4, <1>6 DEF IsRequest

LEMMA GpuRequestIs ==
  ASSUME NEW m, WellFormed("gpu", m), m.op \in RequestOps.gpu
  PROVE  IsRequest(GpuRequest(m))
<1>1. m.op \in {"GpuAttachBacking", "GpuCreateBlob"} => m.entries \in Nat /\ m.size \in Nat
  BY DEF WellFormed
<1>2. \A vq : \A req, resp \in Nat : IsRequest(submit_cmd(vq, req, resp))
  BY submit_cmdIs
<1>3. m.op = "GpuAttachBacking" => IsRequest(WithEntries(m, 32, 1))
  BY <1>1, WithEntriesIs
<1>4. m.op = "GpuCreateBlob" => IsRequest(WithEntries(m, 56, 16))
  BY <1>1, WithEntriesIs
<1> QED BY <1>2, <1>3, <1>4 DEF GpuRequest, RequestOps

LEMMA ScsiRequestIs ==
  ASSUME NEW m, WellFormed("scsi", m), m.op \in RequestOps.scsi
  PROVE  IsRequest(ScsiRequest(m))
<1>1. m.op \in {"ScsiCmd", "TmfReq", "AnReq"}
  BY DEF RequestOps
<1>2. ASSUME m.op = "ScsiCmd" PROVE IsRequest(submit_scsi_cmd(m))
  <2> DEFINE w == AtMost(Written(m.cdb), 4096)
             b == AtMost(Returned(m.cdb), 4096)
             h == HeaderSize(ScsiHeader)
  <2>1. w \in Nat /\ b \in Nat /\ h \in Nat
    <3>1. Written(m.cdb) \in Nat /\ Returned(m.cdb) \in Nat
      BY <1>2 DEF WellFormed
    <3>2. w \in Nat /\ b \in Nat
      BY <3>1 DEF AtMost, Clamp
    <3> QED BY <3>2, HeaderNat
  <2>2. submit_scsi_cmd(m) = Request(m.vq % ScsiQueues, 5,
          <<Out(h)>> \o Part(Out(w)) \o <<In(108)>> \o Part(In(b)))
    BY DEF submit_scsi_cmd
  <2> HIDE DEF w, b, h
  <2>3. IsChain(<<Out(h)>> \o Part(Out(w)))
    BY <2>1, PartIs, OnePart, MoreParts
  <2>4. <<In(108)>> \in Seq(Nat \X BOOLEAN)
    BY PartIs, OnePart DEF IsChain
  <2>5. IsChain(<<Out(h)>> \o Part(Out(w)) \o <<In(108)>>)
    BY <2>3, <2>4, MoreParts
  <2>6. IsChain(<<Out(h)>> \o Part(Out(w)) \o <<In(108)>> \o Part(In(b)))
    BY <2>1, <2>5, PartIs, MoreParts
  <2> QED BY <2>2, <2>6, RequestIs
<1>3. IsRequest(Request(0, 3, <<Out(24), In(1)>>)) /\ IsRequest(Request(0, 3, <<Out(16), In(5)>>))
  BY PartIs, TwoParts, RequestIs
<1> QED BY <1>1, <1>2, <1>3 DEF ScsiRequest

LEMMA FsRequestIs ==
  ASSUME NEW m, WellFormed("fs", m), m.op \in RequestOps.fs
  PROVE  IsRequest(FsRequest(m))
<1>1. m.op \in {"FuseReq", "FuseHpReq"}
  BY DEF RequestOps
<1>2. ASSUME m.op = "FuseReq" PROVE IsRequest(submit_fuse(m))
  <2> DEFINE a == 40 + FuseFixed(m.block.opcode) + m.block.arg
             b == Sized(m.in_buf, 1024, 16, 4096)
  <2>1. m.in_buf \in Nat /\ m.block.arg \in Nat
    BY <1>2 DEF WellFormed
  <2>2. FuseFixed(m.block.opcode) \in Nat
    BY DEF FuseFixed
  <2>3. a \in Nat
    BY <2>1, <2>2
  <2>4. b \in Nat
    BY <2>1 DEF Sized, Clamp
  <2>5. \A vq : IsRequest(Request(vq, 3, <<Out(a), In(b)>>))
    <3> HIDE DEF a, b
    <3> QED BY <2>3, <2>4, SimpleRequests
  <2> QED BY <2>5 DEF submit_fuse
<1>3. ASSUME m.op = "FuseHpReq" PROVE IsRequest(submit_fuse_hp(m))
  <2>1. m.payload \in Nat
    BY <1>3 DEF WellFormed
  <2>2. 40 + AtMost(m.payload, 256) \in Nat
    BY <2>1 DEF AtMost, Clamp
  <2> QED BY <2>2, SingleRequests DEF submit_fuse_hp
<1> QED BY <1>1, <1>2, <1>3 DEF FsRequest

LEMMA SndRequestIs ==
  ASSUME NEW m, WellFormed("snd", m), m.op \in RequestOps.snd
  PROVE  IsRequest(SndRequest(m))
<1>1. m.op \in {"SndCtrl", "SndPcmXfer"}
  BY DEF RequestOps
<1>2. ASSUME m.op = "SndCtrl" PROVE IsRequest(submit_snd_ctrl(m))
  <2> DEFINE a == 4 + SndPayload(m.block)
             b == Clamp(SndAnswer(m.block), 16, 4096)
  <2>1. SndPayload(m.block) \in Nat /\ SndAnswer(m.block) \in Nat
    BY <1>2 DEF WellFormed
  <2>2. a \in Nat
    BY <2>1
  <2>3. b \in Nat
    BY <2>1 DEF Clamp
  <2>4. IsRequest(Request(0, 3, <<Out(a), In(b)>>))
    <3> HIDE DEF a, b
    <3> QED BY <2>2, <2>3, SimpleRequests
  <2> QED BY <2>4 DEF submit_snd_ctrl
<1>3. ASSUME m.op = "SndPcmXfer" PROVE IsRequest(submit_pcm_xfer(m))
  <2> DEFINE a == 4 + AtMost(m.len, 4096)
             b == Sized(m.len, 1024, 28, 4096)
  <2>1. m.len \in Nat
    BY <1>3 DEF WellFormed
  <2>2. a \in Nat
    BY <2>1 DEF AtMost, Clamp
  <2>3. b \in Nat
    BY <2>1 DEF Sized, Clamp
  <2>4. IsRequest(Request(3, 4, <<Out(4), In(b)>>)) /\ IsRequest(Request(2, 4, <<Out(a), In(28)>>))
    <3> HIDE DEF a, b
    <3> QED BY <2>2, <2>3, SimpleRequests
  <2> QED BY <2>4 DEF submit_pcm_xfer
<1> QED BY <1>1, <1>2, <1>3 DEF SndRequest

LEMMA VsockRequestIs ==
  ASSUME NEW m, WellFormed("vsock", m), m.op \in RequestOps.vsock
  PROVE  IsRequest(VsockRequest(m))
<1>1. m.op \in {"VsockTx", "VsockRxBuf"}
  BY DEF RequestOps
<1>2. ASSUME m.op = "VsockTx" PROVE IsRequest(Request(1, 1, <<Out(44 + AtMost(m.payload, 4096))>>))
  <2>1. m.payload \in Nat
    BY <1>2 DEF WellFormed
  <2>2. PICK a : a = 44 + AtMost(m.payload, 4096)
    OBVIOUS
  <2>3. a \in Nat
    BY <2>1, <2>2 DEF AtMost, Clamp
  <2>4. IsRequest(Request(1, 1, <<Out(a)>>))
    BY <2>3, SingleRequests
  <2> QED BY <2>2, <2>4
<1>3. ASSUME m.op = "VsockRxBuf" PROVE IsRequest(Request(0, 1, <<In(Sized(m.size, 1024, 44, 4096))>>))
  <2>1. m.size \in Nat
    BY <1>3 DEF WellFormed
  <2>2. PICK a : a = Sized(m.size, 1024, 44, 4096)
    OBVIOUS
  <2>3. a \in Nat
    BY <2>1, <2>2 DEF Sized, Clamp
  <2>4. IsRequest(Request(0, 1, <<In(a)>>))
    BY <2>3, SingleRequests
  <2> QED BY <2>2, <2>4
<1> QED BY <1>1, <1>2, <1>3 DEF VsockRequest

LEMMA BalloonRequestIs ==
  ASSUME NEW m, WellFormed("balloon", m), m.op \in RequestOps.balloon, NEW pages \in Nat
  PROVE  IsRequest(BalloonRequest(m, pages))
<1>1. m.op \in {"Inflate", "Deflate", "Stats", "FreePage"}
  BY DEF RequestOps
<1>2. \A n \in Nat, hi \in Nat : Clamp(n, 1, hi) \in Nat
  BY DEF Clamp
<1>3. ASSUME NEW vq PROVE IsRequest(submit_pfn_list(vq, pages))
  <2> DEFINE a == 4 * Clamp(pages, 1, 1024)
  <2>1. a \in Nat
    BY DEF Clamp
  <2>2. IsRequest(Request(vq, 1, <<Out(a)>>))
    <3> HIDE DEF a
    <3> QED BY <2>1, SingleRequests
  <2> QED BY <2>2 DEF submit_pfn_list
<1>4. ASSUME m.op = "Stats"
      PROVE  IsRequest(Request(2, 1, <<Out(10 * Clamp(m.entries, 1, 64))>>))
  <2>1. m.entries \in Nat
    BY <1>4 DEF WellFormed
  <2>2. Clamp(m.entries, 1, 64) \in Nat
    BY <1>2, <2>1
  <2>3. 10 * Clamp(m.entries, 1, 64) \in Nat
    BY <2>2
  <2> QED BY <2>3, SingleRequests
<1>5. IsRequest(Request(3, 1, <<Out(4)>>))
  BY SingleRequests
<1> QED BY <1>1, <1>3, <1>4, <1>5 DEF BalloonRequest

LEMMA InputRequestIs ==
  ASSUME NEW m, WellFormed("input", m), m.op \in RequestOps.input
  PROVE  IsRequest(InputRequest(m))
<1>1. m.op \in {"StatusEvent", "EventBuf"}
  BY DEF RequestOps
<1>2. ASSUME m.op = "EventBuf" PROVE IsRequest(Request(0, 1, <<In(Sized(m.size, 64, 8, 4096))>>))
  <2>1. m.size \in Nat
    BY <1>2 DEF WellFormed
  <2>2. PICK a : a = Sized(m.size, 64, 8, 4096)
    OBVIOUS
  <2>3. a \in Nat
    BY <2>1, <2>2 DEF Sized, Clamp
  <2>4. IsRequest(Request(0, 1, <<In(a)>>))
    BY <2>3, SingleRequests
  <2> QED BY <2>2, <2>4
<1>3. IsRequest(Request(1, 1, <<Out(8)>>))
  BY SingleRequests
<1> QED BY <1>1, <1>2, <1>3 DEF InputRequest

LEMMA ConsoleRequestIs ==
  ASSUME NEW m, WellFormed("console", m), m.op \in RequestOps.console
  PROVE  IsRequest(ConsoleRequest(m))
<1>1. m.op \in {"TxData", "RxBuf", "CtrlMsg"}
  BY DEF RequestOps
<1>2. ASSUME m.op = "TxData", NEW vq PROVE IsRequest(Request(vq, 1, <<Out(AtMost(m.len, 4096))>>))
  <2>1. m.len \in Nat
    BY <1>2 DEF WellFormed
  <2>2. PICK a : a = AtMost(m.len, 4096)
    OBVIOUS
  <2>3. a \in Nat
    BY <2>1, <2>2 DEF AtMost, Clamp
  <2>4. IsRequest(Request(vq, 1, <<Out(a)>>))
    BY <2>3, SingleRequests
  <2> QED BY <2>2, <2>4
<1>3. ASSUME m.op = "RxBuf", NEW vq
      PROVE  IsRequest(Request(vq, 1, <<In(Sized(m.size, 1024, 1, 4096))>>))
  <2>1. m.size \in Nat
    BY <1>3 DEF WellFormed
  <2>2. PICK a : a = Sized(m.size, 1024, 1, 4096)
    OBVIOUS
  <2>3. a \in Nat
    BY <2>1, <2>2 DEF Sized, Clamp
  <2>4. IsRequest(Request(vq, 1, <<In(a)>>))
    BY <2>3, SingleRequests
  <2> QED BY <2>2, <2>4
<1>4. ASSUME m.op = "CtrlMsg" PROVE IsRequest(Request(3, 1, <<Out(8 + AtMost(m.len, 256))>>))
  <2>1. m.len \in Nat
    BY <1>4 DEF WellFormed
  <2>2. PICK a : a = 8 + AtMost(m.len, 256)
    OBVIOUS
  <2>3. a \in Nat
    BY <2>1, <2>2 DEF AtMost, Clamp
  <2> QED BY <2>2, <2>3, SingleRequests
<1> QED BY <1>1, <1>2, <1>3, <1>4 DEF ConsoleRequest

LEMMA PagesNat ==
  ASSUME NEW m, m.op \in {"Inflate", "Deflate"} => IsFiniteSet(m.pfns)
  PROVE  Pages(m) \in Nat
BY FS_CardinalityType DEF Pages

\* The request of a line of the input's own device.
LEMMA RequestOfIs ==
  ASSUME input.dev \in DOMAIN RequestOps,
         NEW m, WellFormed(input.dev, m), m.op \in RequestOps[input.dev]
  PROVE  IsRequest(RequestOf(m))
<1>1. input.dev \in {"net", "gpu", "scsi", "fs", "snd", "vsock", "balloon", "input", "console"}
  BY DEF RequestOps
<1>2. CASE input.dev = "net"
  BY <1>2, NetRequestIs DEF RequestOf
<1>3. CASE input.dev = "gpu"
  BY <1>3, GpuRequestIs DEF RequestOf
<1>4. CASE input.dev = "scsi"
  BY <1>4, ScsiRequestIs DEF RequestOf
<1>5. CASE input.dev = "fs"
  BY <1>5, FsRequestIs DEF RequestOf
<1>6. CASE input.dev = "snd"
  BY <1>6, SndRequestIs DEF RequestOf
<1>7. CASE input.dev = "vsock"
  BY <1>7, VsockRequestIs DEF RequestOf
<1>8. CASE input.dev = "balloon"
  <2>1. Pages(m) \in Nat
    BY PagesNat DEF WellFormed
  <2> QED BY <1>8, <2>1, BalloonRequestIs DEF RequestOf
<1>9. CASE input.dev = "input"
  BY <1>9, InputRequestIs DEF RequestOf
<1>10. CASE input.dev = "console"
  BY <1>10, ConsoleRequestIs DEF RequestOf
<1> QED BY <1>1, <1>2, <1>3, <1>4, <1>5, <1>6, <1>7, <1>8, <1>9, <1>10

LEMMA LengthsNat ==
  ASSUME NEW chain, IsChain(chain)
  PROVE  Lengths(chain) \in Seq(Nat)
<1>1. chain \in Seq(Nat \X BOOLEAN)
  BY DEF IsChain
<1>2. \A k \in DOMAIN chain : chain[k][1] \in Nat
  <2>1. \A k \in DOMAIN chain : chain[k] \in Nat \X BOOLEAN
    <3> DEFINE S == Nat \X BOOLEAN
    <3> HIDE DEF S
    <3> SUFFICES chain \in Seq(S) => \A k \in DOMAIN chain : chain[k] \in S
      BY <1>1 DEF S
    <3> QED OBVIOUS
  <2> QED BY <2>1
<1>3. DOMAIN chain = 1 .. Len(chain) /\ Len(chain) \in Nat
  <2> DEFINE S == Nat \X BOOLEAN
  <2> HIDE DEF S
  <2> SUFFICES chain \in Seq(S) => DOMAIN chain = 1 .. Len(chain) /\ Len(chain) \in Nat
    BY <1>1 DEF S
  <2> QED OBVIOUS
<1> QED BY <1>2, <1>3, IsASeq DEF Lengths

----------------------------------------------------------------------------
(* The shape of all state *)

QueuesOf(dev) == 0 .. kMaxQueues(dev) - 1

DeviceSet(dev) ==
  [status : SUBSET StatusBits, sel : Nat, rings : SUBSET QueuesOf(dev),
   ready : SUBSET QueuesOf(dev), taken : [QueuesOf(dev) -> Nat]]
QueueSet == [size : Nat, next : Nat, avail : Nat, open : BOOLEAN, ring : Nat]
SoftSet ==
  [pairs : Nat \ {0}, vlan : [0 .. 15 -> Nat \cup {NoVid}],
   resources : [0 .. ResourceSlots - 1 -> Nat], next_id : Nat \ {0}]
SentSet(dev) == [line : Nat \ {0}, vq : QueuesOf(dev), ref : Nat]

\* What a device and the harness's queues agree on: nothing is published beyond
\* what was placed, the index in memory is the counter once there is anything,
\* a queue with a size exists, and one the device knows of has a size.
Fits(dev, device, q, vq) ==
  /\ vq.avail <= vq.next
  /\ vq.avail > 0 => vq.ring = vq.avail
  /\ vq.size > 0 => q \in DeviceQueues[dev] /\ vq.size \in PowersOfTwo
  /\ q \in device.rings \cup device.ready => vq.size > 0
Agree(dev, device, queues) == \A q \in QueuesOf(dev) : Fits(dev, device, q, queues[q])

InputOK ==
  /\ input.dev \in DOMAIN RequestOps
  /\ Len(prog) \in Nat /\ DOMAIN prog = 1 .. Len(prog)
  /\ \A k \in 1 .. Len(prog) : WellFormed(input.dev, prog[k])

StateOK ==
  /\ mmio \in DeviceSet(input.dev)
  /\ vqs \in [QueuesOf(input.dev) -> QueueSet]
  /\ Agree(input.dev, mmio, vqs)
  /\ mem = [bufs |-> mem.bufs, pool |-> mem.pool] /\ mem.pool \in Places(input.dev)
  /\ soft \in SoftSet

HistoryOK ==
  /\ pc \in 1 .. Len(prog) + 1 /\ pc <= kMaxOps + 1
  /\ dropped \subseteq 1 .. pc - 1
  /\ sent \in Seq(SentSet(input.dev))
  /\ \A k \in 1 .. Len(sent) :
       /\ sent[k].line < pc
       /\ k < Len(sent) => sent[k].line < sent[k + 1].line
       /\ prog[sent[k].line].op \in RequestOps[input.dev]

IInv == InputOK /\ StateOK /\ HistoryOK

\* A device that knows of fewer queues agrees with the same ones.
LEMMA AgreeFewer ==
  ASSUME NEW dev, NEW d, NEW e, NEW v, Agree(dev, d, v),
         e.rings \cup e.ready \subseteq d.rings \cup d.ready
  PROVE  Agree(dev, e, v)
BY DEF Agree, Fits

LEMMA FreshTyped ==
  ASSUME NEW dev \in DOMAIN RequestOps, NEW idx \in [QueuesOf(dev) -> Nat]
  PROVE  LET device == [status |-> {}, sel |-> 0, rings |-> {}, ready |-> {},
                        taken |-> [q \in QueuesOf(dev) |-> 0]]
             queues == [q \in QueuesOf(dev) |->
                          [size |-> 0, next |-> 0, avail |-> 0, open |-> FALSE, ring |-> idx[q]]]
         IN  /\ device \in DeviceSet(dev)
             /\ Acknowledged(device) \in DeviceSet(dev)
             /\ queues \in [QueuesOf(dev) -> QueueSet]
             /\ Agree(dev, Acknowledged(device), queues)
             /\ \A v, d : Agree(dev, d, v) => Agree(dev, device, v)
<1> DEFINE device == [status |-> {}, sel |-> 0, rings |-> {}, ready |-> {},
                      taken |-> [q \in QueuesOf(dev) |-> 0]]
           queues == [q \in QueuesOf(dev) |->
                        [size |-> 0, next |-> 0, avail |-> 0, open |-> FALSE, ring |-> idx[q]]]
<1>1. device \in DeviceSet(dev)
  BY DEF DeviceSet
<1>2. Acknowledged(device) = [status |-> {"ACK", "DRIVER"}, sel |-> 0, rings |-> {}, ready |-> {},
                              taken |-> [q \in QueuesOf(dev) |-> 0]]
  BY DEF Acknowledged
<1>3. Acknowledged(device) \in DeviceSet(dev)
  BY <1>2 DEF DeviceSet, StatusBits, StatusValue
<1>4. queues \in [QueuesOf(dev) -> QueueSet]
  BY DEF QueueSet
<1>5. Agree(dev, Acknowledged(device), queues)
  BY <1>2 DEF Agree, Fits
<1>6. ASSUME NEW v, NEW d, Agree(dev, d, v)
      PROVE  Agree(dev, device, v)
  BY <1>6, AgreeFewer
<1> QED BY <1>1, <1>3, <1>4, <1>5, <1>6

LEMMA DoorbellTyped ==
  ASSUME NEW dev \in DOMAIN RequestOps,
         NEW d \in DeviceSet(dev), NEW v \in [QueuesOf(dev) -> QueueSet], Agree(dev, d, v),
         NEW q \in QueuesOf(dev)
  PROVE  /\ Doorbell(d, q, v[q].ring) \in DeviceSet(dev)
         /\ Agree(dev, Doorbell(d, q, v[q].ring), v)
<1>1. v[q].ring \in Nat
  BY DEF QueueSet
<1>2. PICK a \in Nat : a = v[q].ring
  BY <1>1
<1> DEFINE e == [d EXCEPT !.taken[q] = a]
<1>3. e \in DeviceSet(dev) /\ e.ready = d.ready /\ e.rings = d.rings
  BY DEF DeviceSet
<1> HIDE DEF e
<1>5. Agree(dev, e, v)
  BY <1>3, AgreeFewer
<1>6. Doorbell(d, q, a) \in {d, e}
  BY DEF Doorbell, e
<1> QED BY <1>2, <1>3, <1>5, <1>6

LEMMA PlacedTyped ==
  ASSUME NEW dev \in DOMAIN RequestOps,
         NEW d \in DeviceSet(dev), NEW v \in [QueuesOf(dev) -> QueueSet], Agree(dev, d, v),
         NEW q \in QueuesOf(dev), NEW n \in Nat \ {0}, NEW more \in BOOLEAN
  PROVE  /\ [v EXCEPT ![q] = Placed(@, n, more)] \in [QueuesOf(dev) -> QueueSet]
         /\ Agree(dev, d, [v EXCEPT ![q] = Placed(@, n, more)])
<1> DEFINE r == v[q]
           p == Placed(r, n, more)
           w == [v EXCEPT ![q] = p]
<1>1. r \in QueueSet
  OBVIOUS
<1>2. /\ p.size = r.size /\ p.next = r.next + n
      /\ p.avail = IF more THEN r.avail ELSE r.avail + 1
      /\ p.ring = IF more THEN r.ring ELSE r.avail + 1
  <2> HIDE DEF r
  <2>1. p.size = r.size /\ p.next = r.next + n
    BY <1>1 DEF Placed, QueueSet
  <2>2. p.avail = IF more THEN r.avail ELSE r.avail + 1
    BY <1>1 DEF Placed, QueueSet
  <2>3. p.ring = IF more THEN r.ring ELSE r.avail + 1
    BY <1>1 DEF Placed, QueueSet
  <2> QED BY <2>1, <2>2, <2>3
<1>3. r.size \in Nat /\ r.next \in Nat /\ r.avail \in Nat /\ r.ring \in Nat
  <2> HIDE DEF r
  <2> QED BY <1>1 DEF QueueSet
<1>4. p \in QueueSet
  <2> HIDE DEF r
  <2>1. PICK a \in Nat : a = IF more THEN r.avail ELSE r.avail + 1
    BY <1>3
  <2>2. PICK x \in Nat : x = r.next + n
    BY <1>3
  <2>3. PICK i \in Nat : i = IF more THEN r.ring ELSE r.avail + 1
    BY <1>3
  <2>4. p = [r EXCEPT !.next = x, !.avail = a, !.ring = i, !.open = more]
    BY <1>1, <2>1, <2>2, <2>3 DEF Placed, QueueSet
  <2>5. [r EXCEPT !.next = x, !.avail = a, !.ring = i, !.open = more] \in QueueSet
    BY <1>1 DEF QueueSet
  <2> QED BY <2>4, <2>5
<1>5. w \in [QueuesOf(dev) -> QueueSet]
  <2> HIDE DEF p
  <2> QED BY <1>4
<1>6. \A x \in QueuesOf(dev) : w[x] = IF x = q THEN p ELSE v[x]
  <2> HIDE DEF p
  <2> QED OBVIOUS
<1>7. Fits(dev, d, q, r)
  BY DEF Agree
<1>8. Fits(dev, d, q, p)
  <2> HIDE DEF r, p
  <2> QED BY <1>2, <1>3, <1>7 DEF Fits
<1>9. Agree(dev, d, w)
  <2> HIDE DEF w, p, r
  <2> QED BY <1>6, <1>8 DEF Agree
<1> QED BY <1>5, <1>9

----------------------------------------------------------------------------
(* The invariant, operation by operation *)

\* A step reads a well-formed line of the same program and goes on by one.
LEMMA AtLine ==
  ASSUME IInv, NEW ops, At(ops)
  PROVE  /\ pc \in 1 .. Len(prog) /\ pc' = pc + 1 /\ pc' \in 1 .. Len(prog) + 1
         /\ pc' <= kMaxOps + 1
         /\ WellFormed(input.dev, Line) /\ Line.op \in ops
         /\ input' = input /\ prog' = prog
         /\ InputOK'
<1>1. pc \in 1 .. Len(prog) /\ Len(prog) \in Nat
  BY DEF IInv, InputOK, At
<1>2. WellFormed(input.dev, Line)
  BY <1>1 DEF IInv, InputOK, Line
<1>3. pc' = pc + 1 /\ pc' \in 1 .. Len(prog) + 1 /\ pc' <= kMaxOps + 1
  BY <1>1 DEF At, kMaxOps
<1>4. InputOK'
  BY DEF IInv, InputOK, At
<1> QED BY <1>1, <1>2, <1>3, <1>4 DEF At

\* A step that sends nothing keeps the history; so does one that gives up or
\* begins anew.
LEMMA HistoryKept ==
  ASSUME IInv, NEW ops, At(ops), UNCHANGED sent \/ sent' = <<>>,
         UNCHANGED dropped \/ GiveUp \/ dropped' = {}
  PROVE  HistoryOK'
<1>1. pc \in 1 .. Len(prog) /\ pc' = pc + 1 /\ pc' \in 1 .. Len(prog) + 1 /\ pc' <= kMaxOps + 1
      /\ input' = input /\ prog' = prog
  BY AtLine
<1>2. dropped' \subseteq 1 .. pc' - 1
  <2>1. dropped \subseteq 1 .. pc - 1
    BY DEF IInv, HistoryOK
  <2>2. dropped' \subseteq dropped \cup {pc}
    BY DEF GiveUp
  <2>3. pc \in Nat /\ pc >= 1
    BY <1>1 DEF IInv, InputOK
  <2>4. \A x \in dropped \cup {pc} : x \in 1 .. pc
    BY <2>1, <2>3
  <2>5. pc' - 1 = pc
    BY <1>1, <2>3
  <2> QED BY <2>2, <2>4, <2>5
<1>3. sent' \in Seq(SentSet(input.dev))
  <2>1. sent \in Seq(SentSet(input.dev))
    BY DEF IInv, HistoryOK
  <2>2. <<>> \in Seq(SentSet(input.dev))
    OBVIOUS
  <2> QED BY <2>1, <2>2
<1>4. Len(sent) \in Nat /\ \A k \in 1 .. Len(sent) : sent[k].line \in Nat
  <2>1. sent \in Seq(SentSet(input.dev))
    BY DEF IInv, HistoryOK
  <2>2. \A k \in 1 .. Len(sent) : sent[k] \in SentSet(input.dev)
    BY <2>1
  <2> QED BY <2>1, <2>2 DEF SentSet
<1>5. ASSUME NEW k \in 1 .. Len(sent')
      PROVE  /\ sent'[k].line < pc' /\ (k < Len(sent') => sent'[k].line < sent'[k + 1].line)
             /\ prog'[sent'[k].line].op \in RequestOps[input.dev]
  <2>1. CASE sent' = <<>>
    BY <2>1
  <2>2. CASE sent' = sent
    <3>1. k \in 1 .. Len(sent)
      BY <2>2
    <3>2. /\ sent[k].line < pc /\ (k < Len(sent) => sent[k].line < sent[k + 1].line)
          /\ prog[sent[k].line].op \in RequestOps[input.dev]
      BY <3>1 DEF IInv, HistoryOK
    <3>3. sent[k].line < pc + 1
      BY <3>1, <3>2, <1>1, <1>4
    <3> QED BY <2>2, <3>2, <3>3, <1>1
  <2> QED BY <2>1, <2>2
<1> QED BY <1>1, <1>2, <1>3, <1>5 DEF HistoryOK

\* The parts of the state that an operation leaves alone.
LEMMA StateKept ==
  ASSUME IInv, input' = input,
         mmio' \in DeviceSet(input.dev), vqs' \in [QueuesOf(input.dev) -> QueueSet],
         Agree(input.dev, mmio', vqs'),
         UNCHANGED <<mem, soft>>
  PROVE  StateOK'
BY DEF IInv, StateOK

LEMMA QueuesAre ==
  Queues = QueuesOf(input.dev)
BY DEF Queues, QueuesOf

LEMMA UntrackedStep == IInv /\ Untracked => IInv'
<1> SUFFICES ASSUME IInv, Untracked PROVE IInv'
  OBVIOUS
<1>1. PICK ops : At(ops)
  BY DEF Untracked
<1>2. InputOK' /\ input' = input
  BY <1>1, AtLine
<1>3. HistoryOK'
  BY <1>1, HistoryKept DEF Untracked
<1>4. StateOK'
  BY <1>2, StateKept DEF Untracked, IInv, StateOK
<1> QED BY <1>2, <1>3, <1>4 DEF IInv

LEMMA StatusTyped ==
  ASSUME NEW dev, NEW d \in DeviceSet(dev), NEW v, Agree(dev, d, v), NEW bits \in SUBSET StatusBits
  PROVE  /\ [d EXCEPT !.status = @ \cup bits] \in DeviceSet(dev)
         /\ Agree(dev, [d EXCEPT !.status = @ \cup bits], v)
         /\ [d EXCEPT !.status = bits] \in DeviceSet(dev)
         /\ Agree(dev, [d EXCEPT !.status = bits], v)
<1> DEFINE e(b) == [d EXCEPT !.status = b]
<1>1. ASSUME NEW b \in SUBSET StatusBits PROVE e(b) \in DeviceSet(dev) /\ Agree(dev, e(b), v)
  <2>1. e(b) \in DeviceSet(dev) /\ e(b).rings = d.rings /\ e(b).ready = d.ready
    BY DEF DeviceSet
  <2> HIDE DEF e
  <2> QED BY <2>1, AgreeFewer
<1>2. d.status \cup bits \in SUBSET StatusBits
  BY DEF DeviceSet
<1>3. e(d.status \cup bits) = [d EXCEPT !.status = @ \cup bits]
  OBVIOUS
<1> HIDE DEF e
<1>4. e(bits) \in DeviceSet(dev) /\ Agree(dev, e(bits), v)
  BY <1>1
<1>5. e(d.status \cup bits) \in DeviceSet(dev) /\ Agree(dev, e(d.status \cup bits), v)
  BY <1>1, <1>2
<1> QED BY <1>3, <1>4, <1>5 DEF e

LEMMA SetFeaturesStep == IInv /\ SetFeatures => IInv'
<1> SUFFICES ASSUME IInv, SetFeatures PROVE IInv'
  OBVIOUS
<1>1. At({"SetFeatures"})
  BY DEF SetFeatures
<1>2. InputOK' /\ input' = input
  BY <1>1, AtLine
<1>3. HistoryOK'
  BY <1>1, HistoryKept DEF SetFeatures
<1>4. mmio' \in DeviceSet(input.dev) /\ Agree(input.dev, mmio', vqs)
  <2>1. {"FEATURES_OK"} \in SUBSET StatusBits
    BY DEF StatusBits, StatusValue
  <2>2. mmio \in DeviceSet(input.dev) /\ Agree(input.dev, mmio, vqs)
    BY DEF IInv, StateOK
  <2> QED BY <2>1, <2>2, StatusTyped DEF SetFeatures
<1>5. StateOK'
  BY <1>2, <1>4, StateKept DEF SetFeatures, IInv, StateOK
<1> QED BY <1>2, <1>3, <1>5 DEF IInv

\* A device after its reset agrees with whatever queues the harness has.
LEMMA FreshDeviceOK ==
  ASSUME IInv
  PROVE  FreshDevice \in DeviceSet(input.dev) /\ Agree(input.dev, FreshDevice, vqs)
<1>1. FreshDevice = [status |-> {}, sel |-> 0, rings |-> {}, ready |-> {},
                     taken |-> [q \in QueuesOf(input.dev) |-> 0]]
  BY QueuesAre DEF FreshDevice
<1>2. input.dev \in DOMAIN RequestOps /\ Agree(input.dev, mmio, vqs)
  BY DEF IInv, InputOK, StateOK
<1>3. PICK idx \in [QueuesOf(input.dev) -> Nat] : TRUE
  <2>1. [q \in QueuesOf(input.dev) |-> 0] \in [QueuesOf(input.dev) -> Nat]
    OBVIOUS
  <2> QED BY <2>1
<1> QED BY <1>1, <1>2, <1>3, FreshTyped

LEMMA SetStatusStep == IInv /\ SetStatus => IInv'
<1> SUFFICES ASSUME IInv, SetStatus PROVE IInv'
  OBVIOUS
<1>1. At({"SetStatus"})
  BY DEF SetStatus
<1>2. InputOK' /\ input' = input /\ WellFormed(input.dev, Line) /\ Line.op = "SetStatus"
  BY <1>1, AtLine
<1>3. HistoryOK'
  BY <1>1, HistoryKept DEF SetStatus
<1>4. mmio' \in DeviceSet(input.dev) /\ Agree(input.dev, mmio', vqs)
  <2>1. Line.bits \in SUBSET StatusBits
    BY <1>2 DEF WellFormed
  <2>2. mmio \in DeviceSet(input.dev) /\ Agree(input.dev, mmio, vqs)
    BY DEF IInv, StateOK
  <2>3. [mmio EXCEPT !.status = @ \cup Line.bits] \in DeviceSet(input.dev)
        /\ Agree(input.dev, [mmio EXCEPT !.status = @ \cup Line.bits], vqs)
    BY <2>1, <2>2, StatusTyped
  <2> QED BY <2>3, FreshDeviceOK DEF SetStatus
<1>5. StateOK'
  BY <1>2, <1>4, StateKept DEF SetStatus, IInv, StateOK
<1> QED BY <1>2, <1>3, <1>5 DEF IInv

\* What the invariant says of the state, with names a lemma can be cited for.
LEMMA StateTyped ==
  ASSUME IInv
  PROVE  /\ input.dev \in DOMAIN RequestOps
         /\ mmio \in DeviceSet(input.dev)
         /\ vqs \in [QueuesOf(input.dev) -> QueueSet]
         /\ Agree(input.dev, mmio, vqs)
         /\ mem = [bufs |-> mem.bufs, pool |-> mem.pool] /\ mem.pool \in Places(input.dev)
         /\ soft \in SoftSet
BY DEF IInv, InputOK, StateOK

\* Of any number asked for, a queue's size is a power of two.
LEMMA QueueSizeIs ==
  ASSUME NEW asked \in Nat
  PROVE  QueueSize(asked) \in PowersOfTwo
<1>1. PICK n : n = AtMost(IF asked = 0 THEN 64 ELSE asked, QUEUE_NUM_MAX)
  OBVIOUS
<1>2. n \in 1 .. 1024
  BY <1>1 DEF AtMost, Clamp, QUEUE_NUM_MAX
<1>3. \E p \in PowersOfTwo : p <= n /\ n < 2 * p
  BY <1>2 DEF PowersOfTwo
<1> QED BY <1>1, <1>3 DEF QueueSize

\* Giving a queue the device has a size, its rings, and making it ready.
LEMMA SetupTyped ==
  ASSUME NEW dev \in DOMAIN RequestOps,
         NEW d \in DeviceSet(dev), NEW v \in [QueuesOf(dev) -> QueueSet], Agree(dev, d, v),
         NEW q \in QueuesOf(dev), q \in DeviceQueues[dev], NEW n \in PowersOfTwo
  PROVE  LET e == [d EXCEPT !.sel = q, !.rings = @ \cup {q}, !.ready = @ \cup {q}]
         IN  /\ e \in DeviceSet(dev)
             /\ [v EXCEPT ![q].size = n] \in [QueuesOf(dev) -> QueueSet]
             /\ Agree(dev, e, [v EXCEPT ![q].size = n])
<1> DEFINE e == [d EXCEPT !.sel = q, !.rings = d.rings \cup {q}, !.ready = d.ready \cup {q}]
           r == v[q]
           p == [r EXCEPT !.size = n]
           w == [v EXCEPT ![q] = p]
<1>0. q \in Nat /\ n \in Nat \ {0}
  <2>1. kMaxQueues(dev) \in Nat
    BY PoolPositive
  <2> QED BY <2>1 DEF QueuesOf, PowersOfTwo
<1>1. e \in DeviceSet(dev) /\ e.rings = d.rings \cup {q} /\ e.ready = d.ready \cup {q}
  BY <1>0 DEF DeviceSet
<1>2. r \in QueueSet
  OBVIOUS
<1>3. p \in QueueSet /\ p.size = n /\ p.next = r.next /\ p.avail = r.avail /\ p.ring = r.ring
  <2> HIDE DEF r
  <2> QED BY <1>0, <1>2 DEF QueueSet
<1>4. w \in [QueuesOf(dev) -> QueueSet]
      /\ \A x \in QueuesOf(dev) : w[x] = IF x = q THEN p ELSE v[x]
  <2> HIDE DEF p
  <2> QED BY <1>3
<1>5. Agree(dev, e, w)
  <2> SUFFICES ASSUME NEW x \in QueuesOf(dev) PROVE Fits(dev, e, x, w[x])
    BY DEF Agree
  <2>1. Fits(dev, d, x, v[x])
    BY DEF Agree
  <2> HIDE DEF e, p, w
  <2>2. CASE x # q
    BY <1>1, <1>4, <2>1, <2>2 DEF Fits
  <2>3. CASE x = q
    <3>1. w[x] = p /\ v[x] = r
      BY <1>4, <2>3
    <3> HIDE DEF r
    <3> QED BY <1>0, <1>1, <1>3, <2>1, <2>3, <3>1 DEF Fits
  <2> QED BY <2>2, <2>3
<1> QED BY <1>1, <1>4, <1>5

\* Selecting a queue changes nothing else.
LEMMA SelectTyped ==
  ASSUME NEW dev, NEW d \in DeviceSet(dev), NEW v, Agree(dev, d, v), NEW n \in Nat
  PROVE  [d EXCEPT !.sel = n] \in DeviceSet(dev) /\ Agree(dev, [d EXCEPT !.sel = n], v)
<1> DEFINE e == [d EXCEPT !.sel = n]
<1>1. e \in DeviceSet(dev) /\ e.rings = d.rings /\ e.ready = d.ready
  BY DEF DeviceSet
<1> HIDE DEF e
<1>2. Agree(dev, e, v)
  BY <1>1, AgreeFewer
<1> QED BY <1>1, <1>2 DEF e

LEMMA SelectStep == IInv /\ VqSelect => IInv'
<1> SUFFICES ASSUME IInv, VqSelect PROVE IInv'
  OBVIOUS
<1>1. At({"VqSelect"})
  BY DEF VqSelect
<1>2. InputOK' /\ input' = input /\ WellFormed(input.dev, Line) /\ Line.op = "VqSelect"
  BY <1>1, AtLine
<1>3. HistoryOK'
  BY <1>1, HistoryKept DEF VqSelect
<1>4. mmio' \in DeviceSet(input.dev) /\ Agree(input.dev, mmio', vqs)
  <2>1. Line.vq \in Nat
    BY <1>2 DEF WellFormed
  <2>2. PICK n \in Nat : n = Line.vq % 256
    BY <2>1
  <2>3. mmio' = [mmio EXCEPT !.sel = n]
    BY <2>2 DEF VqSelect
  <2> QED BY <2>3, StateTyped, SelectTyped
<1>5. StateOK'
  BY <1>2, <1>4, StateKept, StateTyped DEF VqSelect
<1> QED BY <1>2, <1>3, <1>5 DEF IInv

LEMMA SetupStep == IInv /\ op_vq_setup => IInv'
<1> SUFFICES ASSUME IInv, op_vq_setup PROVE IInv'
  OBVIOUS
<1>1. At({"VqSetup"})
  BY DEF op_vq_setup
<1>2. InputOK' /\ input' = input /\ WellFormed(input.dev, Line) /\ Line.op = "VqSetup"
  BY <1>1, AtLine
<1>3. HistoryOK'
  BY <1>1, HistoryKept DEF op_vq_setup
<1>4. /\ mmio' \in DeviceSet(input.dev) /\ vqs' \in [QueuesOf(input.dev) -> QueueSet]
      /\ Agree(input.dev, mmio', vqs')
  <2>1. PICK q : q = Line.vq
    OBVIOUS
  <2>2. PICK n \in PowersOfTwo : n = QueueSize(Line.size)
    <3>1. Line.size \in Nat
      BY <1>2 DEF WellFormed
    <3>2. PICK asked \in Nat : asked = Line.size
      BY <3>1
    <3> QED BY <3>2, QueueSizeIs
  <2>3. CASE q \in Queues /\ q \in DeviceQueues[input.dev]
    <3>1. mmio' = [mmio EXCEPT !.sel = q, !.rings = @ \cup {q}, !.ready = @ \cup {q}]
          /\ vqs' = [vqs EXCEPT ![q].size = n]
      BY <2>1, <2>2, <2>3 DEF op_vq_setup
    <3>2. q \in QueuesOf(input.dev)
      BY <2>3, QueuesAre
    <3> QED BY <2>3, <3>1, <3>2, StateTyped, SetupTyped
  <2>4. CASE q \in Queues /\ q \notin DeviceQueues[input.dev]
    <3>1. mmio' = [mmio EXCEPT !.sel = q] /\ vqs' = vqs
      BY <2>1, <2>4 DEF op_vq_setup
    <3>2. q \in Nat
      BY <1>2, <2>1 DEF WellFormed
    <3> QED BY <3>1, <3>2, StateTyped, SelectTyped
  <2>5. CASE q \notin Queues
    BY <2>1, <2>5, StateTyped DEF op_vq_setup
  <2> QED BY <2>3, <2>4, <2>5
<1>5. StateOK'
  BY <1>2, <1>4, StateKept DEF op_vq_setup
<1> QED BY <1>2, <1>3, <1>5 DEF IInv

LEMMA GuestMemWriteStep == IInv /\ op_guest_mem_write => IInv'
<1> SUFFICES ASSUME IInv, op_guest_mem_write PROVE IInv'
  OBVIOUS
<1>1. At({"GuestMemWrite"})
  BY DEF op_guest_mem_write
<1>2. InputOK' /\ input' = input /\ WellFormed(input.dev, Line) /\ Line.op = "GuestMemWrite"
  BY <1>1, AtLine
<1>3. HistoryOK'
  BY <1>1, HistoryKept DEF op_guest_mem_write
<1>4. mem' = [bufs |-> mem'.bufs, pool |-> mem'.pool] /\ mem'.pool \in Places(input.dev)
  <2>1. Line.len \in Nat
    BY <1>2 DEF WellFormed
  <2>2. PICK n : n = AtMost(Line.len, 4096)
    OBVIOUS
  <2>3. n \in Nat
    BY <2>1, <2>2 DEF AtMost, Clamp
  <2>4. PICK lens : lens = <<n>>
    OBVIOUS
  <2>5. lens \in Seq(Nat)
    BY <2>3, <2>4
  <2>6. PICK pool : pool = mem.pool
    OBVIOUS
  <2>7. pool \in Places(input.dev)
    BY <2>6, StateTyped
  <2>8. PICK a : a = Allocated(lens, pool)
    OBVIOUS
  <2>9. a \in [pool : Places(input.dev), ok : BOOLEAN]
    BY <2>5, <2>7, <2>8, StateTyped, AllocatedPlace
  <2>10. a.pool \in Places(input.dev)
    BY <2>9
  <2>11. mem' = mem \/ mem' = [bufs |-> mem.bufs \cup {Line.id}, pool |-> a.pool]
    BY <2>2, <2>4, <2>6, <2>8 DEF op_guest_mem_write
  <2> QED BY <2>10, <2>11, StateTyped
<1>5. StateOK'
  BY <1>2, <1>4, StateTyped DEF op_guest_mem_write, StateOK
<1> QED BY <1>2, <1>3, <1>5 DEF IInv

LEMMA AddDescStep == IInv /\ op_vq_add_desc => IInv'
<1> SUFFICES ASSUME IInv, op_vq_add_desc PROVE IInv'
  OBVIOUS
<1>1. At({"VqAddDesc"})
  BY DEF op_vq_add_desc
<1>2. InputOK' /\ input' = input /\ WellFormed(input.dev, Line) /\ Line.op = "VqAddDesc"
  BY <1>1, AtLine
<1>3. HistoryOK'
  BY <1>1, HistoryKept DEF op_vq_add_desc
<1>4. vqs' \in [QueuesOf(input.dev) -> QueueSet] /\ Agree(input.dev, mmio, vqs')
  <2>1. CASE Line.vq \in Queues /\ vqs' = [vqs EXCEPT ![Line.vq] = Placed(@, 1, Line.more)]
    <3>1. PICK more : more = Line.more
      OBVIOUS
    <3>2. more \in BOOLEAN
      BY <1>2, <3>1 DEF WellFormed
    <3>3. PICK q : q = Line.vq
      OBVIOUS
    <3>4. q \in QueuesOf(input.dev)
      BY <2>1, <3>3, QueuesAre
    <3>5. vqs' = [vqs EXCEPT ![q] = Placed(@, 1, more)]
      BY <2>1, <3>1, <3>3
    <3>6. 1 \in Nat \ {0}
      OBVIOUS
    <3> QED BY <3>2, <3>4, <3>5, <3>6, StateTyped, PlacedTyped
  <2>2. CASE vqs' = vqs
    BY <2>2, StateTyped
  <2> QED BY <2>1, <2>2 DEF op_vq_add_desc
<1>5. StateOK'
  BY <1>2, <1>4, StateTyped DEF op_vq_add_desc, StateOK
<1> QED BY <1>2, <1>3, <1>5 DEF IInv

\* A doorbell on any queue number.
LEMMA RungTyped ==
  ASSUME IInv, NEW q
  PROVE  Rung(q) \in DeviceSet(input.dev) /\ Agree(input.dev, Rung(q), vqs)
<1>1. CASE q \in Queues
  <2>1. q \in QueuesOf(input.dev)
    BY <1>1, QueuesAre
  <2> QED BY <1>1, <2>1, StateTyped, DoorbellTyped DEF Rung
<1>2. CASE q \notin Queues
  BY <1>2, StateTyped DEF Rung
<1> QED BY <1>1, <1>2

LEMMA KickStep == IInv /\ op_vq_kick => IInv'
<1> SUFFICES ASSUME IInv, op_vq_kick PROVE IInv'
  OBVIOUS
<1>1. At({"VqKick"})
  BY DEF op_vq_kick
<1>2. InputOK' /\ input' = input
  BY <1>1, AtLine
<1>3. HistoryOK'
  BY <1>1, HistoryKept DEF op_vq_kick
<1>4. PICK q : q = Line.vq
  OBVIOUS
<1>5. mmio' = Rung(q)
  BY <1>4 DEF op_vq_kick
<1>6. mmio' \in DeviceSet(input.dev) /\ Agree(input.dev, mmio', vqs)
  BY <1>5, RungTyped
<1>7. StateOK'
  BY <1>2, <1>6, StateTyped DEF op_vq_kick, StateOK
<1> QED BY <1>2, <1>3, <1>7 DEF IInv

\* Registers that say which queues the device serves.
LEMMA ReadyTyped ==
  ASSUME NEW dev, NEW d \in DeviceSet(dev), NEW v, Agree(dev, d, v),
         NEW R, R \subseteq d.rings, NEW S, S \subseteq d.ready \cup d.rings
  PROVE  /\ [d EXCEPT !.rings = R] \in DeviceSet(dev) /\ Agree(dev, [d EXCEPT !.rings = R], v)
         /\ [d EXCEPT !.ready = S] \in DeviceSet(dev) /\ Agree(dev, [d EXCEPT !.ready = S], v)
<1> DEFINE e == [d EXCEPT !.rings = R]
           f == [d EXCEPT !.ready = S]
<1>1. e \in DeviceSet(dev) /\ e.rings = R /\ e.ready = d.ready
  BY DEF DeviceSet
<1>2. f \in DeviceSet(dev) /\ f.rings = d.rings /\ f.ready = S
  BY DEF DeviceSet
<1> HIDE DEF e, f
<1>3. Agree(dev, e, v)
  BY <1>1, AgreeFewer
<1>4. Agree(dev, f, v)
  BY <1>2, AgreeFewer
<1> QED BY <1>1, <1>2, <1>3, <1>4 DEF e, f

\* A corrupted register, whatever it is and whatever is written to it.
LEMMA CorruptedTyped ==
  ASSUME IInv, NEW off, NEW v \in Nat
  PROVE  Corrupted(off, v) \in DeviceSet(input.dev) /\ Agree(input.dev, Corrupted(off, v), vqs)
<1> DEFINE fine(d) == d \in DeviceSet(input.dev) /\ Agree(input.dev, d, vqs)
<1>1. fine(mmio) /\ fine(FreshDevice) /\ fine(Rung(v))
  BY StateTyped, FreshDeviceOK, RungTyped
<1>2. fine([mmio EXCEPT !.status = BitsOf(v)])
  <2>1. BitsOf(v) \in SUBSET StatusBits
    BY DEF BitsOf
  <2> QED BY <2>1, StateTyped, StatusTyped
<1>3. fine([mmio EXCEPT !.sel = v])
  BY StateTyped, SelectTyped
<1>4. fine([mmio EXCEPT !.ready = @ \ {mmio.sel}]) /\ fine([mmio EXCEPT !.rings = @ \ {mmio.sel}])
  <2>1. PICK R : R = mmio.rings \ {mmio.sel}
    OBVIOUS
  <2>2. PICK S : S = mmio.ready \ {mmio.sel}
    OBVIOUS
  <2>3. R \subseteq mmio.rings /\ S \subseteq mmio.ready \cup mmio.rings
    BY <2>1, <2>2
  <2>4. fine([mmio EXCEPT !.rings = R]) /\ fine([mmio EXCEPT !.ready = S])
    BY <2>3, StateTyped, ReadyTyped
  <2> QED BY <2>1, <2>2, <2>4
<1>5. ASSUME mmio.sel \in mmio.rings PROVE fine([mmio EXCEPT !.ready = @ \cup {mmio.sel}])
  <2>1. PICK S : S = mmio.ready \cup {mmio.sel}
    OBVIOUS
  <2>2. S \subseteq mmio.ready \cup mmio.rings
    BY <1>5, <2>1
  <2>3. fine([mmio EXCEPT !.ready = S])
    BY <2>2, StateTyped, ReadyTyped
  <2> QED BY <2>1, <2>3
<1> HIDE DEF fine
<1>6. fine(Corrupted(off, v))
  BY <1>1, <1>2, <1>3, <1>4, <1>5 DEF Corrupted
<1> QED BY <1>6 DEF fine

LEMMA CorruptStep == IInv /\ op_mmio_corrupt => IInv'
<1> SUFFICES ASSUME IInv, op_mmio_corrupt PROVE IInv'
  OBVIOUS
<1>1. At({"MmioCorrupt"})
  BY DEF op_mmio_corrupt
<1>2. InputOK' /\ input' = input /\ WellFormed(input.dev, Line) /\ Line.op = "MmioCorrupt"
  BY <1>1, AtLine
<1>3. HistoryOK'
  BY <1>1, HistoryKept DEF op_mmio_corrupt
<1>4. PICK off, v : off = Line.off % 512 /\ v = Line.value
  OBVIOUS
<1>5. mmio' \in DeviceSet(input.dev) /\ Agree(input.dev, mmio', vqs)
  <2>1. v \in Nat /\ mmio' \in {mmio, Corrupted(off, v)}
    BY <1>2, <1>4 DEF op_mmio_corrupt, WellFormed
  <2> QED BY <2>1, CorruptedTyped, StateTyped
<1>6. StateOK'
  BY <1>2, <1>5, StateTyped DEF op_mmio_corrupt, StateOK
<1> QED BY <1>2, <1>3, <1>6 DEF IInv

LEMMA WaitUsedStep == IInv /\ op_vq_wait_used => IInv'
<1> SUFFICES ASSUME IInv, op_vq_wait_used PROVE IInv'
  OBVIOUS
<1>1. At({"VqWaitUsed"})
  BY DEF op_vq_wait_used
<1>2. InputOK' /\ input' = input
  BY <1>1, AtLine
<1>3. HistoryOK'
  BY <1>1, HistoryKept DEF op_vq_wait_used
<1>4. StateOK'
  BY <1>2, StateTyped DEF op_vq_wait_used, StateOK
<1> QED BY <1>2, <1>3, <1>4 DEF IInv

\* What an input starts with, and starts again with after a Reset.
LEMMA FreshStateOK ==
  ASSUME input.dev \in DOMAIN RequestOps, NEW idx \in [QueuesOf(input.dev) -> Nat]
  PROVE  /\ Acknowledged(FreshDevice) \in DeviceSet(input.dev)
         /\ FreshQueues(idx) \in [QueuesOf(input.dev) -> QueueSet]
         /\ Agree(input.dev, Acknowledged(FreshDevice), FreshQueues(idx))
         /\ FreshMem = [bufs |-> FreshMem.bufs, pool |-> FreshMem.pool]
         /\ FreshMem.pool \in Places(input.dev)
         /\ FreshSoft \in SoftSet
<1>1. PICK dev \in DOMAIN RequestOps : dev = input.dev
  OBVIOUS
<1>2. /\ FreshDevice = [status |-> {}, sel |-> 0, rings |-> {}, ready |-> {},
                        taken |-> [q \in QueuesOf(dev) |-> 0]]
      /\ FreshQueues(idx) = [q \in QueuesOf(dev) |->
           [size |-> 0, next |-> 0, avail |-> 0, open |-> FALSE, ring |-> idx[q]]]
  BY <1>1, QueuesAre DEF FreshDevice, FreshQueues
<1>3. /\ Acknowledged(FreshDevice) \in DeviceSet(dev)
      /\ FreshQueues(idx) \in [QueuesOf(dev) -> QueueSet]
      /\ Agree(dev, Acknowledged(FreshDevice), FreshQueues(idx))
  BY <1>1, <1>2, FreshTyped
<1>4. FreshMem = [bufs |-> FreshMem.bufs, pool |-> FreshMem.pool] /\ FreshMem.pool = 0
  BY DEF FreshMem
<1>5. 0 \in Places(dev)
  BY PoolPositive
<1>6. FreshSoft \in SoftSet
  BY DEF FreshSoft, SoftSet
<1> QED BY <1>1, <1>3, <1>4, <1>5, <1>6

LEMMA ResetStep == IInv /\ reset_iteration_state => IInv'
<1> SUFFICES ASSUME IInv, reset_iteration_state PROVE IInv'
  OBVIOUS
<1>1. At({"Reset"})
  BY DEF reset_iteration_state
<1>2. InputOK' /\ input' = input
  BY <1>1, AtLine
<1>3. HistoryOK'
  BY <1>1, HistoryKept DEF reset_iteration_state
<1>4. PICK idx : idx = [q \in Queues |-> vqs[q].ring]
  OBVIOUS
<1>5. idx \in [QueuesOf(input.dev) -> Nat]
  <2>1. \A q \in QueuesOf(input.dev) : vqs[q].ring \in Nat
    BY StateTyped DEF QueueSet
  <2> QED BY <1>4, <2>1, QueuesAre
<1>6. vqs' = FreshQueues(idx)
  BY <1>4 DEF reset_iteration_state
<1>7. StateOK'
  BY <1>2, <1>5, <1>6, StateTyped, FreshStateOK DEF reset_iteration_state, StateOK
<1> QED BY <1>2, <1>3, <1>7 DEF IInv

----------------------------------------------------------------------------
(* A request *)

\* The fields of a line that what is remembered depends on.
LEMMA LineFields ==
  ASSUME NEW dev, NEW m, WellFormed(dev, m)
  PROVE  /\ m.op \in CreateOps \cup SlotOps => m.slot \in Nat
         /\ m.op \in {"CtrlVlanAdd", "CtrlVlanDel"} => m.vlan_slot \in Nat /\ vid(m) \in Nat
         /\ m.op = "CtrlVlanDel" => m.use_slot \in BOOLEAN
         /\ m.op = "CtrlMqVqPairsSet" => m.pair_count \in Nat
<1>1. /\ m.op \in CreateOps \cup SlotOps => m.slot \in Nat
      /\ m.op \in {"CtrlVlanAdd", "CtrlVlanDel"} => m.vlan_slot \in Nat /\ m.vid \in Nat
      /\ m.op = "CtrlVlanDel" => m.use_slot \in BOOLEAN
      /\ m.op = "CtrlMqVqPairsSet" => m.pair_count \in Nat
  BY DEF WellFormed
<1>2. m.vid \in Nat => vid(m) \in Nat
  BY DEF vid
<1> QED BY <1>1, <1>2

LEMMA SoftFields ==
  ASSUME NEW s \in SoftSet
  PROVE  /\ s.pairs \in Nat \ {0} /\ s.next_id \in Nat \ {0}
         /\ s.vlan \in [0 .. 15 -> Nat \cup {NoVid}]
         /\ s.resources \in [0 .. 15 -> Nat]
         /\ \A i \in 0 .. 15 : s.vlan[i] \in Nat \cup {NoVid} /\ s.resources[i] \in Nat
BY DEF SoftSet, ResourceSlots

LEMMA SlotIndex ==
  ASSUME NEW n \in Nat
  PROVE  n % 16 \in 0 .. 15 /\ n % ResourceSlots = n % 16
BY DEF ResourceSlots

LEMMA ReferredToNat ==
  ASSUME IInv, NEW m, WellFormed(input.dev, m)
  PROVE  ReferredTo(m) \in Nat
<1>1. PICK s \in SoftSet : s = soft
  BY StateTyped
<1>2. CASE m.op \in CreateOps
  <2>1. ReferredTo(m) = s.next_id
    BY <1>1, <1>2 DEF ReferredTo, Creates, CreateOps, SlotOps
  <2> QED BY <2>1, SoftFields
<1>3. CASE m.op \in SlotOps
  <2>1. m.slot \in Nat
    BY <1>3, LineFields
  <2>2. s.resources[m.slot % ResourceSlots] \in Nat
    BY <2>1, SoftFields, SlotIndex
  <2>3. ReferredTo(m) = s.resources[m.slot % ResourceSlots]
    BY <1>1, <1>3 DEF ReferredTo, Creates, CreateOps, SlotOps
  <2> QED BY <2>2, <2>3
<1>4. CASE m.op = "CtrlVlanAdd"
  <2>1. ReferredTo(m) = vid(m)
    BY <1>4 DEF ReferredTo, Creates, CreateOps, SlotOps
  <2> QED BY <1>4, <2>1, LineFields
<1>5. CASE m.op = "CtrlVlanDel"
  <2>1. m.vlan_slot \in Nat /\ vid(m) \in Nat
    BY <1>5, LineFields
  <2>2. s.vlan[m.vlan_slot % 16] \in Nat \cup {NoVid}
    BY <2>1, SoftFields, SlotIndex
  <2>3. ReferredTo(m) = IF ~m.use_slot THEN vid(m)
                        ELSE IF s.vlan[m.vlan_slot % 16] = NoVid THEN 0
                        ELSE s.vlan[m.vlan_slot % 16]
    BY <1>1, <1>5 DEF ReferredTo, Creates, CreateOps, SlotOps
  <2> QED BY <2>1, <2>2, <2>3
<1>6. CASE m.op \notin CreateOps \cup SlotOps \cup {"CtrlVlanAdd", "CtrlVlanDel"}
  <2>1. ReferredTo(m) = 0
    BY <1>6 DEF ReferredTo, Creates
  <2> QED BY <2>1
<1> QED BY <1>2, <1>3, <1>4, <1>5, <1>6

\* Changes of what a harness remembers.
LEMMA SoftChanged ==
  ASSUME NEW s \in SoftSet
  PROVE  /\ \A i \in 0 .. 15, x \in Nat \cup {NoVid} : [s EXCEPT !.vlan[i] = x] \in SoftSet
         /\ \A i \in 0 .. 15, r \in Nat : [s EXCEPT !.resources[i] = r] \in SoftSet
         /\ \A n \in Nat \ {0} : [s EXCEPT !.next_id = n] \in SoftSet
         /\ \A r \in Nat \ {0} : [s EXCEPT !.pairs = r] \in SoftSet
         /\ \A i \in 0 .. 15, r \in Nat, n \in Nat \ {0} :
              [s EXCEPT !.next_id = n, !.resources[i] = r] \in SoftSet
<1>1. \A v \in [0 .. 15 -> Nat \cup {NoVid}] : [s EXCEPT !.vlan = v] \in SoftSet
  BY DEF SoftSet
<1>2. \A w \in [0 .. 15 -> Nat] : [s EXCEPT !.resources = w] \in SoftSet
  BY DEF SoftSet, ResourceSlots
<1>3. ASSUME NEW w \in [0 .. 15 -> Nat], NEW n \in Nat \ {0}
      PROVE  [s EXCEPT !.next_id = n, !.resources = w] \in SoftSet
  <2>1. PICK t \in SoftSet : t = [s EXCEPT !.resources = w]
    BY <1>2
  <2>2. [t EXCEPT !.next_id = n] \in SoftSet
    BY DEF SoftSet
  <2>3. [s EXCEPT !.next_id = n, !.resources = w] = [t EXCEPT !.next_id = n]
    BY <2>1
  <2> QED BY <2>2, <2>3
<1>4. \A i \in 0 .. 15, x \in Nat \cup {NoVid} :
        [s.vlan EXCEPT ![i] = x] \in [0 .. 15 -> Nat \cup {NoVid}]
  BY SoftFields
<1>5. \A i \in 0 .. 15, r \in Nat : [s.resources EXCEPT ![i] = r] \in [0 .. 15 -> Nat]
  BY SoftFields
<1>6. \A i \in 0 .. 15, x \in Nat \cup {NoVid} : [s EXCEPT !.vlan[i] = x] \in SoftSet
  BY <1>1, <1>4
<1>7. \A i \in 0 .. 15, r \in Nat : [s EXCEPT !.resources[i] = r] \in SoftSet
  BY <1>2, <1>5
<1>8. ASSUME NEW i \in 0 .. 15, NEW r \in Nat, NEW n \in Nat \ {0}
      PROVE  [s EXCEPT !.next_id = n, !.resources[i] = r] \in SoftSet
  <2>1. PICK w \in [0 .. 15 -> Nat] : w = [s.resources EXCEPT ![i] = r]
    BY <1>5
  <2>2. [s EXCEPT !.next_id = n, !.resources[i] = r] = [s EXCEPT !.next_id = n, !.resources = w]
    BY <2>1
  <2> QED BY <1>3, <2>2
<1>9. \A n \in Nat \ {0} : [s EXCEPT !.next_id = n] \in SoftSet
  BY DEF SoftSet
<1>10. \A r \in Nat \ {0} : [s EXCEPT !.pairs = r] \in SoftSet
  BY DEF SoftSet
<1> QED BY <1>6, <1>7, <1>8, <1>9, <1>10

LEMMA RememberedTyped ==
  ASSUME IInv, NEW m, WellFormed(input.dev, m)
  PROVE  Remembered(m) \in SoftSet /\ [soft EXCEPT !.next_id = @ + 1] \in SoftSet
<1>0. PICK s \in SoftSet : s = soft
  BY StateTyped
<1>1. PICK n : n = s.next_id + 1
  OBVIOUS
<1>2. s.next_id \in Nat /\ n \in Nat \ {0}
  BY <1>1, SoftFields
<1>3. [soft EXCEPT !.next_id = @ + 1] = [s EXCEPT !.next_id = n]
  BY <1>0, <1>1
<1>4. [s EXCEPT !.next_id = n] \in SoftSet
  BY <1>2, SoftChanged
<1>5. CASE m.op \in CreateOps \cup {"GpuUnref"}
  <2>1. PICK i : i = m.slot % ResourceSlots
    OBVIOUS
  <2>2. i \in 0 .. 15
    BY <1>5, <2>1, LineFields, SlotIndex DEF SlotOps
  <2>3. PICK id \in Nat : id = s.next_id
    BY <1>2
  <2>4. CASE m.op \in CreateOps
    <3>1. Remembered(m) = [s EXCEPT !.next_id = n, !.resources[i] = id]
      BY <1>0, <1>1, <2>1, <2>3, <2>4
         DEF Remembered, op_resource_unref, op_ctrl_vlan_add, Creates, CreateOps
    <3>2. [s EXCEPT !.next_id = n, !.resources[i] = id] \in SoftSet
      BY <1>2, <2>2, SoftChanged
    <3> QED BY <3>1, <3>2, <1>3, <1>4
  <2>5. CASE m.op = "GpuUnref"
    <3>1. Remembered(m) = [s EXCEPT !.resources[i] = 0]
      BY <1>0, <2>1, <2>5
         DEF Remembered, op_resource_unref, op_ctrl_vlan_add, Creates, CreateOps
    <3>2. [s EXCEPT !.resources[i] = 0] \in SoftSet
      BY <2>2, SoftChanged
    <3> QED BY <3>1, <3>2, <1>3, <1>4
  <2> QED BY <1>5, <2>4, <2>5
<1>6. CASE ~Creates(m) /\ m.op # "GpuUnref" /\ m.op \in {"CtrlVlanAdd", "CtrlVlanDel"}
  <2>1. PICK i : i = m.vlan_slot % 16
    OBVIOUS
  <2>2. i \in 0 .. 15 /\ vid(m) \in Nat \cup {NoVid} /\ NoVid \in Nat \cup {NoVid}
    BY <1>6, <2>1, LineFields, SlotIndex
  <2>3. Remembered(m) \in {s, [s EXCEPT !.vlan[i] = vid(m)], [s EXCEPT !.vlan[i] = NoVid]}
    BY <1>0, <1>6, <2>1 DEF Remembered, op_resource_unref, op_ctrl_vlan_add
  <2>4. [s EXCEPT !.vlan[i] = vid(m)] \in SoftSet
    BY <2>2, SoftChanged
  <2>5. [s EXCEPT !.vlan[i] = NoVid] \in SoftSet
    BY <2>2, SoftChanged
  <2> QED BY <2>3, <2>4, <2>5, <1>3, <1>4
<1>7. CASE ~Creates(m) /\ m.op # "GpuUnref" /\ m.op \notin {"CtrlVlanAdd", "CtrlVlanDel"}
  <2>1. PICK r : r = Clamp(m.pair_count, 1, NetQueues \div 2 - 1)
    OBVIOUS
  <2>2. Remembered(m) = s \/ (m.op = "CtrlMqVqPairsSet" /\ Remembered(m) = [s EXCEPT !.pairs = r])
    BY <1>0, <1>7, <2>1 DEF Remembered, op_resource_unref, op_ctrl_vlan_add
  <2>3. m.op = "CtrlMqVqPairsSet" => r \in Nat \ {0}
    BY <2>1, LineFields DEF Clamp, NetQueues
  <2>4. ASSUME r \in Nat \ {0} PROVE [s EXCEPT !.pairs = r] \in SoftSet
    BY <2>4, SoftChanged
  <2> QED BY <2>2, <2>3, <2>4, <1>3, <1>4
<1> QED BY <1>5, <1>6, <1>7 DEF Creates

\* What a step that submits a request does: it gives up, or it places the
\* request on its queue, which was set up, sends it and remembers it.
Placing(q, n) ==
  /\ q = RequestOf(Line).vq /\ vqs[q].size > 0
  /\ vqs' = [vqs EXCEPT ![q] = Placed(@, n, FALSE)]
  /\ mmio' = Doorbell(mmio, q, vqs'[q].ring)
Sending(q) ==
  /\ sent' = Append(sent, [line |-> pc, vq |-> q, ref |-> ReferredTo(Line)])
  /\ UNCHANGED dropped
  /\ soft' = Remembered(Line)

LEMMA SubmitIs ==
  ASSUME IInv, Submit
  PROVE  /\ mem' = [bufs |-> mem.bufs, pool |-> mem'.pool] /\ mem'.pool \in Places(input.dev)
         /\ soft' \in SoftSet
         /\ \/ \E q \in QueuesOf(input.dev), n \in Nat \ {0} : Placing(q, n) /\ Sending(q)
            \/ UNCHANGED <<vqs, mmio, sent>> /\ GiveUp
<1>1. At(RequestOps[input.dev])
  BY DEF Submit
<1>2. WellFormed(input.dev, Line) /\ Line.op \in RequestOps[input.dev]
  BY <1>1, AtLine
<1>3. PICK r : r = RequestOf(Line)
  OBVIOUS
<1>4. IsRequest(r)
  BY <1>2, <1>3, StateTyped, RequestOfIs
<1>5. PICK first : first = Allocated(r.ahead, mem.pool)
  OBVIOUS
<1>6. first \in [pool : Places(input.dev), ok : BOOLEAN]
  <2>1. PICK lens : lens = r.ahead
    OBVIOUS
  <2>2. PICK pool : pool = mem.pool
    OBVIOUS
  <2>3. lens \in Seq(Nat) /\ pool \in Places(input.dev)
    BY <1>4, <2>1, <2>2, StateTyped DEF IsRequest
  <2> QED BY <1>5, <2>1, <2>2, <2>3, StateTyped, AllocatedPlace
<1>7. PICK next : next = Allocated(Lengths(r.chain), first.pool)
  OBVIOUS
<1>8. next \in [pool : Places(input.dev), ok : BOOLEAN]
  <2>1. PICK lens : lens = Lengths(r.chain)
    OBVIOUS
  <2>2. PICK pool : pool = first.pool
    OBVIOUS
  <2>3. lens \in Seq(Nat)
    BY <1>4, <2>1, LengthsNat DEF IsRequest
  <2>4. pool \in Places(input.dev)
    BY <1>6, <2>2
  <2> QED BY <1>7, <2>1, <2>2, <2>3, <2>4, StateTyped, AllocatedPlace
<1>9. PICK room : room = (/\ r.vq \in Queues
                         /\ vqs[r.vq].size > 0
                         /\ vqs[r.vq].next + r.need < vqs[r.vq].size)
  OBVIOUS
<1>10. PICK all : all = IF first.ok /\ room THEN next ELSE [first EXCEPT !.ok = FALSE]
  OBVIOUS
<1>11. all \in [pool : Places(input.dev), ok : BOOLEAN]
  BY <1>6, <1>8, <1>10
<1>12. /\ mem' = [mem EXCEPT !.pool = all.pool]
       /\ IF all.ok
          THEN /\ vqs' = [vqs EXCEPT ![r.vq] = Placed(@, Len(r.chain), FALSE)]
               /\ mmio' = Doorbell(mmio, r.vq, vqs'[r.vq].ring)
               /\ sent' = Append(sent, [line |-> pc, vq |-> r.vq, ref |-> ReferredTo(Line)])
               /\ UNCHANGED dropped
          ELSE UNCHANGED <<vqs, mmio, sent>> /\ GiveUp
       /\ soft' = IF first.ok THEN Remembered(Line)
                  ELSE IF Creates(Line) THEN [soft EXCEPT !.next_id = @ + 1] ELSE soft
  BY <1>3, <1>5, <1>7, <1>9, <1>10 DEF Submit
<1>13. all.ok => first.ok /\ room
  BY <1>6, <1>10
<1>14. mem' = [bufs |-> mem.bufs, pool |-> mem'.pool] /\ mem'.pool \in Places(input.dev)
  <2>1. PICK pool \in Places(input.dev) : pool = all.pool
    BY <1>11
  <2>2. mem = [bufs |-> mem.bufs, pool |-> mem.pool]
    BY StateTyped
  <2>3. mem' = [bufs |-> mem.bufs, pool |-> pool]
    BY <1>12, <2>1, <2>2
  <2> QED BY <2>1, <2>3
<1>15. soft' \in SoftSet
  <2>1. PICK m : m = Line
    OBVIOUS
  <2>2. Remembered(m) \in SoftSet /\ [soft EXCEPT !.next_id = @ + 1] \in SoftSet
    BY <1>2, <2>1, RememberedTyped
  <2> QED BY <1>12, <2>1, <2>2, StateTyped
<1>16. CASE all.ok
  <2>1. r.vq \in Queues
    BY <1>9, <1>13, <1>16
  <2>2. PICK q \in QueuesOf(input.dev) : q = r.vq
    BY <2>1, QueuesAre
  <2>3. PICK n \in Nat \ {0} : n = Len(r.chain)
    <3>1. r.chain \in Seq(Nat \X BOOLEAN) /\ Len(r.chain) > 0
      BY <1>4 DEF IsRequest, IsChain
    <3>2. PICK S : S = Nat \X BOOLEAN
      OBVIOUS
    <3>3. Len(r.chain) \in Nat
      BY <3>1, <3>2, LenProperties
    <3> QED BY <3>1, <3>3
  <2>4. Placing(q, n)
    BY <1>3, <1>9, <1>12, <1>13, <1>16, <2>2, <2>3 DEF Placing
  <2>5. Sending(q)
    BY <1>12, <1>13, <1>16, <2>2 DEF Sending
  <2> QED BY <1>14, <1>15, <2>4, <2>5
<1>17. CASE ~all.ok
  BY <1>12, <1>14, <1>15, <1>17
<1> QED BY <1>16, <1>17

\* A request that is sent is of this line, which is behind all earlier ones.
LEMMA SentHistory ==
  ASSUME IInv, At(RequestOps[input.dev]), NEW q \in QueuesOf(input.dev), Sending(q)
  PROVE  HistoryOK'
<1>1. /\ pc \in 1 .. Len(prog) /\ pc' = pc + 1 /\ pc' \in 1 .. Len(prog) + 1
      /\ pc' <= kMaxOps + 1
      /\ WellFormed(input.dev, Line) /\ Line.op \in RequestOps[input.dev]
      /\ input' = input /\ prog' = prog
  BY AtLine
<1>2. PICK m : m = Line
  OBVIOUS
<1>3. PICK ref \in Nat : ref = ReferredTo(m)
  BY <1>1, <1>2, ReferredToNat
<1>4. PICK rec : rec = [line |-> pc, vq |-> q, ref |-> ref]
  OBVIOUS
<1>5. Len(prog) \in Nat /\ pc \in Nat \ {0}
  BY <1>1 DEF IInv, InputOK
<1>6. rec \in SentSet(input.dev) /\ rec.line = pc
  BY <1>4, <1>5 DEF SentSet
<1>7. sent' = Append(sent, rec)
  BY <1>2, <1>3, <1>4 DEF Sending
<1>8. sent \in Seq(SentSet(input.dev))
  BY DEF IInv, HistoryOK
<1>9. PICK S : S = SentSet(input.dev)
  OBVIOUS
<1>10. /\ sent' \in Seq(SentSet(input.dev)) /\ Len(sent') = Len(sent) + 1
       /\ \A k \in 1 .. Len(sent) : sent'[k] = sent[k]
       /\ sent'[Len(sent) + 1] = rec
       /\ Len(sent) \in Nat
  BY <1>6, <1>7, <1>8, <1>9, AppendProperties
<1>11. \A k \in 1 .. Len(sent) :
         /\ sent[k].line < pc
         /\ k < Len(sent) => sent[k].line < sent[k + 1].line
         /\ prog[sent[k].line].op \in RequestOps[input.dev]
  BY DEF IInv, HistoryOK
<1>12. \A k \in 1 .. Len(sent) : sent[k].line \in Nat
  <2>1. \A k \in 1 .. Len(sent) : sent[k] \in S
    BY <1>8, <1>9
  <2> QED BY <2>1, <1>9 DEF SentSet
<1>13. ASSUME NEW k \in 1 .. Len(sent')
       PROVE  /\ sent'[k].line < pc'
              /\ k < Len(sent') => sent'[k].line < sent'[k + 1].line
              /\ prog'[sent'[k].line].op \in RequestOps[input.dev]
  <2>1. CASE k = Len(sent) + 1
    <3>1. sent'[k].line = pc
      BY <1>6, <1>10, <2>1
    <3>2. prog[pc].op \in RequestOps[input.dev]
      BY <1>1 DEF Line
    <3> QED BY <1>1, <1>5, <1>10, <2>1, <3>1, <3>2
  <2>2. CASE k \in 1 .. Len(sent)
    <3>1. sent'[k] = sent[k]
      BY <1>10, <2>2
    <3>2. sent'[k].line < pc'
      BY <1>1, <1>5, <1>11, <1>12, <2>2, <3>1
    <3>3. CASE k < Len(sent)
      <4>1. k + 1 \in 1 .. Len(sent)
        BY <1>10, <2>2, <3>3
      <4>2. sent'[k + 1] = sent[k + 1]
        BY <1>10, <4>1
      <4> QED BY <1>1, <1>11, <2>2, <3>1, <3>2, <3>3, <4>2
    <3>4. CASE k = Len(sent)
      <4>1. sent'[k + 1].line = pc
        BY <1>6, <1>10, <3>4
      <4> QED BY <1>1, <1>11, <2>2, <3>1, <3>2, <4>1
    <3> QED BY <1>10, <2>2, <3>3, <3>4
  <2> QED BY <1>10, <2>1, <2>2
<1>14. dropped' \subseteq 1 .. pc' - 1
  <2>1. dropped' = dropped /\ dropped \subseteq 1 .. pc - 1
    BY DEF Sending, IInv, HistoryOK
  <2>2. \A x \in dropped : x \in 1 .. pc
    BY <1>5, <2>1
  <2>3. pc' - 1 = pc
    BY <1>1, <1>5
  <2> QED BY <2>1, <2>2, <2>3
<1> QED BY <1>1, <1>10, <1>13, <1>14 DEF HistoryOK

LEMMA SubmitStep == IInv /\ Submit => IInv'
<1> SUFFICES ASSUME IInv, Submit PROVE IInv'
  OBVIOUS
<1>1. At(RequestOps[input.dev])
  BY DEF Submit
<1>2. InputOK' /\ input' = input
  BY <1>1, AtLine
<1>3. /\ mem' = [bufs |-> mem'.bufs, pool |-> mem'.pool] /\ mem'.pool \in Places(input.dev)
      /\ soft' \in SoftSet
  BY SubmitIs
<1>4. CASE UNCHANGED <<vqs, mmio, sent>> /\ GiveUp
  <2>1. HistoryOK'
    BY <1>1, <1>4, HistoryKept
  <2>2. StateOK'
    BY <1>2, <1>3, <1>4, StateTyped DEF StateOK
  <2> QED BY <1>2, <2>1, <2>2 DEF IInv
<1>5. ASSUME NEW q \in QueuesOf(input.dev), NEW n \in Nat \ {0}, Placing(q, n), Sending(q)
      PROVE  IInv'
  <2>1. HistoryOK'
    BY <1>1, <1>5, SentHistory
  <2>2. /\ vqs' \in [QueuesOf(input.dev) -> QueueSet]
        /\ Agree(input.dev, mmio, vqs')
    <3>1. FALSE \in BOOLEAN
      OBVIOUS
    <3> QED BY <1>5, <3>1, StateTyped, PlacedTyped DEF Placing
  <2>3. mmio' \in DeviceSet(input.dev) /\ Agree(input.dev, mmio', vqs')
    <3>1. PICK v : v = vqs'
      OBVIOUS
    <3>2. mmio' = Doorbell(mmio, q, v[q].ring)
      BY <1>5, <3>1 DEF Placing
    <3> QED BY <2>2, <3>1, <3>2, StateTyped, DoorbellTyped
  <2>4. StateOK'
    BY <1>2, <1>3, <2>2, <2>3 DEF StateOK
  <2> QED BY <1>2, <2>1, <2>4 DEF IInv
<1> QED BY <1>4, <1>5, SubmitIs

----------------------------------------------------------------------------
(* The shape of all state *)

LEMMA InitIInv == Init => IInv
<1> SUFFICES ASSUME Init PROVE IInv
  OBVIOUS
<1>1. PICK i \in Inputs : input = [dev |-> i.dev, name |-> i.name, how |-> i.how] /\ prog = i.prog
  BY DEF Init
<1>2. input.dev = i.dev
  BY <1>1
<1>3. InputOK
  <2>1. /\ i.dev \in DOMAIN RequestOps
        /\ i.prog \in Seq({i.prog[k] : k \in DOMAIN i.prog})
        /\ \A k \in DOMAIN i.prog : WellFormed(i.dev, i.prog[k])
    BY InputsAssumption
  <2>2. PICK S : S = {i.prog[k] : k \in DOMAIN i.prog}
    OBVIOUS
  <2>3. Len(prog) \in Nat /\ DOMAIN prog = 1 .. Len(prog)
    BY <1>1, <2>1, <2>2, LenProperties
  <2> QED BY <1>1, <1>2, <2>1, <2>3 DEF InputOK
<1>4. StateOK
  <2>1. PICK idx \in [Queues -> LeftIdx] : vqs = FreshQueues(idx)
    BY DEF Init
  <2>2. idx \in [QueuesOf(input.dev) -> Nat]
    <3>1. LeftIdx \subseteq Nat
      BY DevicesAssumption
    <3> QED BY <2>1, <3>1, QueuesAre
  <2>3. input.dev \in DOMAIN RequestOps
    BY <1>3 DEF InputOK
  <2> QED BY <2>1, <2>2, <2>3, FreshStateOK DEF Init, StateOK
<1>5. HistoryOK
  <2>1. pc = 1 /\ sent = <<>> /\ dropped = {}
    BY DEF Init
  <2>2. 1 \in 1 .. Len(prog) + 1 /\ 1 <= kMaxOps + 1
    BY <1>3 DEF InputOK, kMaxOps
  <2>3. sent \in Seq(SentSet(input.dev)) /\ Len(sent) = 0
    BY <2>1
  <2> QED BY <2>1, <2>2, <2>3 DEF HistoryOK
<1> QED BY <1>3, <1>4, <1>5 DEF IInv

LEMMA NextIInv == IInv /\ [Next]_vars => IInv'
<1> SUFFICES ASSUME IInv, [Next]_vars PROVE IInv'
  OBVIOUS
<1>1. CASE UNCHANGED vars
  BY <1>1 DEF vars, IInv, InputOK, StateOK, HistoryOK
<1>2. CASE Untracked
  BY <1>2, UntrackedStep
<1>3. CASE SetFeatures
  BY <1>3, SetFeaturesStep
<1>4. CASE SetStatus
  BY <1>4, SetStatusStep
<1>5. CASE op_vq_setup
  BY <1>5, SetupStep
<1>6. CASE op_guest_mem_write
  BY <1>6, GuestMemWriteStep
<1>7. CASE op_vq_add_desc
  BY <1>7, AddDescStep
<1>8. CASE op_vq_kick
  BY <1>8, KickStep
<1>9. CASE op_vq_wait_used
  BY <1>9, WaitUsedStep
<1>10. CASE op_mmio_corrupt
  BY <1>10, CorruptStep
<1>11. CASE reset_iteration_state
  BY <1>11, ResetStep
<1>12. CASE Submit
  BY <1>12, SubmitStep
<1>13. CASE VqSelect
  BY <1>13, SelectStep
<1> QED
  BY <1>1, <1>2, <1>3, <1>4, <1>5, <1>6, <1>7, <1>8, <1>9, <1>10, <1>11, <1>12, <1>13 DEF Next

LEMMA IInvTypeOK == IInv => TypeOK
<1> SUFFICES ASSUME IInv PROVE TypeOK
  OBVIOUS
<1>1. mmio.status \subseteq StatusBits
  BY StateTyped DEF DeviceSet
<1>2. mem.pool \in 0 .. PoolSize(input.dev) /\ mem.pool % 16 = 0
  BY StateTyped DEF Places
<1>3. \A q \in Queues :
        /\ vqs[q].avail <= vqs[q].next
        /\ vqs[q].avail > 0 => vqs[q].ring = vqs[q].avail
        /\ vqs[q].size > 0 => q \in DeviceQueues[input.dev] /\ vqs[q].size \in PowersOfTwo
        /\ q \in mmio.rings \cup mmio.ready => vqs[q].size > 0
  BY QueuesAre, StateTyped DEF Agree, Fits
<1>4. sent \in Seq(SentSet(input.dev))
  BY DEF IInv, HistoryOK
<1>5. DOMAIN sent = 1 .. Len(sent) /\ Len(sent) \in Nat
  <2>1. PICK S : S = SentSet(input.dev)
    OBVIOUS
  <2> QED BY <1>4, <2>1, LenProperties
<1>6. \A k \in DOMAIN sent :
        sent[k].line < (IF k < Len(sent) THEN sent[k + 1].line ELSE pc)
  BY <1>5 DEF IInv, HistoryOK
<1> QED BY <1>1, <1>2, <1>3, <1>6 DEF TypeOK, IInv, HistoryOK

LEMMA SpecIInv == Spec => []IInv
<1> QED BY InitIInv, NextIInv, PTL DEF Spec

\* Whatever lines a harness is given, on a device with whatever queues, its
\* buffers begin on 16 bytes inside the pool; only queues the device has are
\* ever given a size, and only those are served; the index the device reads is
\* the harness's counter once something is published; requests are kept in the
\* order of their lines, of which no more than 256 are run.
THEOREM ReplayTypeOK == Spec => []TypeOK
<1> QED BY SpecIInv, IInvTypeOK, PTL

----------------------------------------------------------------------------
(* The resources and VLANs that requests refer to *)

\* What the first n - 1 requests of some operations refer to.
Named(p, s, n, ops) == {s[k].ref : k \in {j \in 1 .. n - 1 : p[s[j].line].op \in ops}}
Created(p, s, n) == Named(p, s, n, CreateOps)
Gone(p, s, n) == Named(p, s, n, {"GpuUnref"})
Vlans(p, s, n) == Named(p, s, n, {"CtrlVlanAdd"})

\* What the harness remembers is what the device was told: identifiers are
\* handed out upwards, a slot holds a resource that was created and not
\* destroyed, no two slots the same one, and a VLAN slot one that was added.
Tracks(created, gone, vlans, s) ==
  /\ \A x \in created \cup gone : x < s.next_id
  /\ \A i \in 0 .. 15 : s.resources[i] # 0 => s.resources[i] \in created \ gone
  /\ \A i, j \in 0 .. 15 : i # j /\ s.resources[i] # 0 => s.resources[i] # s.resources[j]
  /\ \A i \in 0 .. 15 : s.vlan[i] # NoVid => s.vlan[i] \in vlans

\* What a line's request may refer to.
MayRefer(m, ref, created, gone, vlans) ==
  /\ m.op \in SlotOps /\ ref # 0 => ref \in created \ gone
  /\ m.op \notin CreateOps \cup SlotOps \cup {"CtrlVlanAdd", "CtrlVlanDel"} => ref = 0
  /\ (m.op = "CtrlVlanDel" /\ m.use_slot /\ ref # 0) => ref \in vlans

Refers(p, s, n) ==
  MayRefer(p[s[n].line], s[n].ref, Created(p, s, n), Gone(p, s, n), Vlans(p, s, n))

TracksAll(p, s, f) ==
  Tracks(Created(p, s, Len(s) + 1), Gone(p, s, Len(s) + 1), Vlans(p, s, Len(s) + 1), f)
RefersAll(p, s) == \A n \in 1 .. Len(s) : Refers(p, s, n)

Live == dropped = {} => TracksAll(prog, sent, soft) /\ RefersAll(prog, sent)

\* One more request: what the others named stays, and it adds its own.
LEMMA NamedMore ==
  ASSUME NEW p, NEW S, NEW s \in Seq(S), NEW rec \in S
  PROVE  /\ \A ops : \A n \in 1 .. Len(s) + 1 :
              Named(p, Append(s, rec), n, ops) = Named(p, s, n, ops)
         /\ \A ops : Named(p, Append(s, rec), Len(s) + 2, ops)
                       = Named(p, s, Len(s) + 1, ops)
                           \cup {x \in {rec.ref} : p[rec.line].op \in ops}
<1> DEFINE t == Append(s, rec)
<1>1. /\ Len(s) \in Nat
      /\ \A k \in 1 .. Len(s) : t[k] = s[k]
      /\ t[Len(s) + 1] = rec
  BY AppendProperties
<1> HIDE DEF t
<1>2. ASSUME NEW n \in 1 .. Len(s) + 1, NEW ops
      PROVE  Named(p, t, n, ops) = Named(p, s, n, ops)
  <2>1. \A j \in 1 .. n - 1 : t[j] = s[j]
    BY <1>1
  <2> QED BY <2>1 DEF Named
<1>3. ASSUME NEW ops
      PROVE  Named(p, t, Len(s) + 2, ops)
               = Named(p, s, Len(s) + 1, ops) \cup {x \in {rec.ref} : p[rec.line].op \in ops}
  <2>1. (Len(s) + 2) - 1 = Len(s) + 1 /\ (Len(s) + 1) - 1 = Len(s)
    BY <1>1
  <2>2. \A k : k \in 1 .. Len(s) + 1 <=> k \in 1 .. Len(s) \/ k = Len(s) + 1
    BY <1>1
  <2>3. \A x : x \in Named(p, t, Len(s) + 2, ops) <=>
               \E k \in 1 .. Len(s) + 1 : p[t[k].line].op \in ops /\ x = t[k].ref
    BY <2>1 DEF Named
  <2>4. \A x : x \in Named(p, s, Len(s) + 1, ops) <=>
               \E k \in 1 .. Len(s) : p[s[k].line].op \in ops /\ x = s[k].ref
    BY <2>1 DEF Named
  <2>5. \A x : x \in Named(p, t, Len(s) + 2, ops) <=>
               \/ x \in Named(p, s, Len(s) + 1, ops)
               \/ x = rec.ref /\ p[rec.line].op \in ops
    BY <1>1, <2>2, <2>3, <2>4
  <2> QED BY <2>5
<1> QED BY <1>2, <1>3 DEF t

\* What is named are numbers.
LEMMA NamedNat ==
  ASSUME NEW p, NEW dev, NEW s \in Seq(SentSet(dev)), NEW ops
  PROVE  Named(p, s, Len(s) + 1, ops) \subseteq Nat
<1>1. PICK S : S = SentSet(dev)
  OBVIOUS
<1>2. Len(s) \in Nat /\ \A k \in 1 .. Len(s) : s[k] \in S
  BY <1>1, LenProperties
<1>3. \A k \in 1 .. Len(s) : s[k].ref \in Nat
  BY <1>1, <1>2 DEF SentSet
<1> QED BY <1>2, <1>3 DEF Named

LEMMA TracksCreate ==
  ASSUME NEW C \in SUBSET Nat, NEW G \in SUBSET Nat, NEW V, NEW s \in SoftSet,
         Tracks(C, G, V, s), NEW i \in 0 .. 15
  PROVE  Tracks(C \cup {s.next_id}, G, V,
                [s EXCEPT !.next_id = s.next_id + 1, !.resources[i] = s.next_id])
<1> DEFINE t == [s EXCEPT !.next_id = s.next_id + 1, !.resources[i] = s.next_id]
<1>1. /\ t.next_id = s.next_id + 1 /\ t.vlan = s.vlan
      /\ t.resources = [s.resources EXCEPT ![i] = s.next_id]
  BY DEF SoftSet
<1>2. /\ s.next_id \in Nat /\ s.next_id # 0
      /\ \A k \in 0 .. 15 : s.resources[k] \in Nat
      /\ s.resources \in [0 .. 15 -> Nat]
  BY SoftFields
<1>3. \A k \in 0 .. 15 : t.resources[k] = IF k = i THEN s.next_id ELSE s.resources[k]
  BY <1>1, <1>2
<1>4. \A x \in C \cup G : x < s.next_id
  BY DEF Tracks
<1>5. s.next_id \notin C /\ s.next_id \notin G
  BY <1>2, <1>4
<1>6. \A k \in 0 .. 15 : s.resources[k] # 0 => s.resources[k] \in C \ G
  BY DEF Tracks
<1>7. \A j, k \in 0 .. 15 : j # k /\ s.resources[j] # 0 => s.resources[j] # s.resources[k]
  BY DEF Tracks
<1>8. \A k \in 0 .. 15 : s.vlan[k] # NoVid => s.vlan[k] \in V
  BY DEF Tracks
<1> HIDE DEF t
<1>9. \A x \in C \cup {s.next_id} \cup G : x < t.next_id
  <2>1. \A x \in C \cup G : x \in Nat
    OBVIOUS
  <2>2. \A x \in Nat : x < s.next_id => x < s.next_id + 1
    BY <1>2
  <2>3. s.next_id < s.next_id + 1
    BY <1>2
  <2> QED BY <1>1, <1>4, <2>1, <2>2, <2>3
<1>10. \A k \in 0 .. 15 : t.resources[k] # 0 => t.resources[k] \in (C \cup {s.next_id}) \ G
  BY <1>3, <1>5, <1>6
<1>11. \A j, k \in 0 .. 15 : j # k /\ t.resources[j] # 0 => t.resources[j] # t.resources[k]
  BY <1>2, <1>3, <1>5, <1>6, <1>7
<1>12. \A k \in 0 .. 15 : t.vlan[k] # NoVid => t.vlan[k] \in V
  BY <1>1, <1>8
<1>13. Tracks(C \cup {s.next_id}, G, V, t)
  BY <1>9, <1>10, <1>11, <1>12 DEF Tracks
<1> QED BY <1>13 DEF t

LEMMA TracksUnref ==
  ASSUME NEW C \in SUBSET Nat, NEW G \in SUBSET Nat, NEW V, NEW s \in SoftSet,
         Tracks(C, G, V, s), NEW i \in 0 .. 15
  PROVE  Tracks(C, G \cup {s.resources[i]}, V, [s EXCEPT !.resources[i] = 0])
<1> DEFINE t == [s EXCEPT !.resources[i] = 0]
<1>1. t.next_id = s.next_id /\ t.vlan = s.vlan /\ t.resources = [s.resources EXCEPT ![i] = 0]
  BY DEF SoftSet
<1>2. /\ s.next_id \in Nat /\ s.next_id # 0
      /\ \A k \in 0 .. 15 : s.resources[k] \in Nat
      /\ s.resources \in [0 .. 15 -> Nat]
  BY SoftFields
<1>3. \A k \in 0 .. 15 : t.resources[k] = IF k = i THEN 0 ELSE s.resources[k]
  BY <1>1, <1>2
<1>4. \A x \in C \cup G : x < s.next_id
  BY DEF Tracks
<1>5. \A k \in 0 .. 15 : s.resources[k] # 0 => s.resources[k] \in C \ G
  BY DEF Tracks
<1>6. \A j, k \in 0 .. 15 : j # k /\ s.resources[j] # 0 => s.resources[j] # s.resources[k]
  BY DEF Tracks
<1>7. \A k \in 0 .. 15 : s.vlan[k] # NoVid => s.vlan[k] \in V
  BY DEF Tracks
<1>8. s.resources[i] < s.next_id
  <2>1. CASE s.resources[i] = 0
    BY <1>2, <2>1
  <2>2. CASE s.resources[i] # 0
    BY <1>4, <1>5, <2>2
  <2> QED BY <2>1, <2>2
<1> HIDE DEF t
<1>9. \A x \in C \cup (G \cup {s.resources[i]}) : x < t.next_id
  BY <1>1, <1>4, <1>8
<1>10. \A k \in 0 .. 15 : t.resources[k] # 0 => t.resources[k] \in C \ (G \cup {s.resources[i]})
  BY <1>3, <1>5, <1>6
<1>11. \A j, k \in 0 .. 15 : j # k /\ t.resources[j] # 0 => t.resources[j] # t.resources[k]
  BY <1>3, <1>6
<1>12. \A k \in 0 .. 15 : t.vlan[k] # NoVid => t.vlan[k] \in V
  BY <1>1, <1>7
<1>13. Tracks(C, G \cup {s.resources[i]}, V, t)
  BY <1>9, <1>10, <1>11, <1>12 DEF Tracks
<1> QED BY <1>13 DEF t

\* A VLAN is added and remembered, or a slot is emptied.
LEMMA TracksVlan ==
  ASSUME NEW C, NEW G, NEW V, NEW W, V \subseteq W, NEW s \in SoftSet,
         Tracks(C, G, V, s), NEW i \in 0 .. 15, NEW x \in W \cup {NoVid}
  PROVE  Tracks(C, G, W, [s EXCEPT !.vlan[i] = x])
<1> DEFINE t == [s EXCEPT !.vlan[i] = x]
<1>1. /\ t.next_id = s.next_id /\ t.resources = s.resources
      /\ t.vlan = [s.vlan EXCEPT ![i] = x]
  BY DEF SoftSet
<1>2. s.vlan \in [0 .. 15 -> Nat \cup {NoVid}]
  BY SoftFields
<1>3. \A k \in 0 .. 15 : t.vlan[k] = IF k = i THEN x ELSE s.vlan[k]
  BY <1>1, <1>2
<1> HIDE DEF t
<1>4. Tracks(C, G, W, t)
  BY <1>1, <1>3 DEF Tracks
<1> QED BY <1>4 DEF t

\* A line refers to what the device was told of, and afterwards the harness
\* remembers what the device is told of by it.
LEMMA TracksLine ==
  ASSUME IInv, NEW m, WellFormed(input.dev, m),
         NEW C \in SUBSET Nat, NEW G \in SUBSET Nat, NEW V \in SUBSET Nat,
         Tracks(C, G, V, soft)
  PROVE  /\ MayRefer(m, ReferredTo(m), C, G, V)
         /\ Tracks(C \cup {x \in {ReferredTo(m)} : m.op \in CreateOps},
                   G \cup {x \in {ReferredTo(m)} : m.op \in {"GpuUnref"}},
                   V \cup {x \in {ReferredTo(m)} : m.op \in {"CtrlVlanAdd"}},
                   Remembered(m))
<1>1. PICK s \in SoftSet : s = soft
  BY StateTyped
<1>2. Tracks(C, G, V, s)
  BY <1>1
<1>3. PICK ref \in Nat : ref = ReferredTo(m)
  BY ReferredToNat
<1>4. PICK g : g = Remembered(m)
  OBVIOUS
<1> DEFINE C2 == C \cup {x \in {ref} : m.op \in CreateOps}
           G2 == G \cup {x \in {ref} : m.op \in {"GpuUnref"}}
           V2 == V \cup {x \in {ref} : m.op \in {"CtrlVlanAdd"}}
           Goal == MayRefer(m, ref, C, G, V) /\ Tracks(C2, G2, V2, g)
<1>5. ASSUME m.op \in CreateOps PROVE Goal
  <2>1. PICK i : i = m.slot % ResourceSlots
    OBVIOUS
  <2>2. i \in 0 .. 15
    BY <1>5, <2>1, LineFields, SlotIndex
  <2>3. ref = s.next_id
    BY <1>1, <1>3, <1>5 DEF ReferredTo, Creates, CreateOps, SlotOps
  <2>4. g = [s EXCEPT !.next_id = s.next_id + 1, !.resources[i] = s.next_id]
    BY <1>1, <1>4, <1>5, <2>1
       DEF Remembered, op_resource_unref, op_ctrl_vlan_add, Creates, CreateOps
  <2>5. Tracks(C \cup {s.next_id}, G, V, g)
    BY <1>2, <2>2, <2>4, TracksCreate
  <2>6. C2 = C \cup {s.next_id} /\ G2 = G /\ V2 = V
    BY <1>5, <2>3 DEF CreateOps
  <2>7. MayRefer(m, ref, C, G, V)
    BY <1>5 DEF MayRefer, CreateOps, SlotOps
  <2> HIDE DEF C2, G2, V2
  <2> QED BY <2>5, <2>6, <2>7
<1>6. ASSUME m.op \in SlotOps PROVE Goal
  <2>1. PICK i : i = m.slot % ResourceSlots
    OBVIOUS
  <2>2. i \in 0 .. 15
    BY <1>6, <2>1, LineFields, SlotIndex
  <2>3. ref = s.resources[i]
    BY <1>1, <1>3, <1>6, <2>1 DEF ReferredTo, Creates, CreateOps, SlotOps
  <2>4. MayRefer(m, ref, C, G, V)
    BY <1>2, <1>6, <2>2, <2>3 DEF MayRefer, SlotOps, Tracks
  <2>5. CASE m.op = "GpuUnref"
    <3>1. g = [s EXCEPT !.resources[i] = 0]
      BY <1>1, <1>4, <2>1, <2>5
         DEF Remembered, op_resource_unref, op_ctrl_vlan_add, Creates, CreateOps
    <3>2. Tracks(C, G \cup {s.resources[i]}, V, g)
      BY <1>2, <2>2, <3>1, TracksUnref
    <3>3. C2 = C /\ G2 = G \cup {s.resources[i]} /\ V2 = V
      BY <2>3, <2>5 DEF CreateOps
    <3> HIDE DEF C2, G2, V2
    <3> QED BY <2>4, <3>2, <3>3
  <2>6. CASE m.op # "GpuUnref"
    <3>1. g = s
      BY <1>1, <1>4, <1>6, <2>6
         DEF Remembered, op_resource_unref, op_ctrl_vlan_add, Creates, CreateOps, SlotOps
    <3>2. C2 = C /\ G2 = G /\ V2 = V
      BY <1>6, <2>6 DEF CreateOps, SlotOps
    <3> HIDE DEF C2, G2, V2
    <3> QED BY <1>2, <2>4, <3>1, <3>2
  <2> QED BY <2>5, <2>6
<1>7. ASSUME m.op = "CtrlVlanAdd" PROVE Goal
  <2>1. PICK i : i = m.vlan_slot % 16
    OBVIOUS
  <2>2. i \in 0 .. 15
    BY <1>7, <2>1, LineFields, SlotIndex
  <2>3. ref = vid(m)
    BY <1>3, <1>7 DEF ReferredTo, Creates, CreateOps, SlotOps
  <2>4. g = [s EXCEPT !.vlan[i] = ref]
    BY <1>1, <1>4, <1>7, <2>1, <2>3
       DEF Remembered, op_resource_unref, op_ctrl_vlan_add, Creates, CreateOps
  <2>5. C2 = C /\ G2 = G /\ V2 = V \cup {ref}
    BY <1>7 DEF CreateOps
  <2>6. V \subseteq V2 /\ ref \in V2 \cup {NoVid}
    BY <2>5
  <2>7. Tracks(C, G, V2, g)
    <3> HIDE DEF V2
    <3> QED BY <1>2, <2>2, <2>4, <2>6, TracksVlan
  <2>8. MayRefer(m, ref, C, G, V)
    BY <1>7 DEF MayRefer, CreateOps, SlotOps
  <2> HIDE DEF C2, G2, V2
  <2> QED BY <2>5, <2>7, <2>8
<1>8. ASSUME m.op = "CtrlVlanDel" PROVE Goal
  <2>1. PICK i : i = m.vlan_slot % 16
    OBVIOUS
  <2>2. i \in 0 .. 15
    BY <1>8, <2>1, LineFields, SlotIndex
  <2>3. m.use_slot => ref = IF s.vlan[i] = NoVid THEN 0 ELSE s.vlan[i]
    BY <1>1, <1>3, <1>8, <2>1 DEF ReferredTo, Creates, CreateOps, SlotOps
  <2>4. MayRefer(m, ref, C, G, V)
    BY <1>2, <1>8, <2>2, <2>3 DEF MayRefer, CreateOps, SlotOps, Tracks
  <2>5. g = IF m.use_slot THEN [s EXCEPT !.vlan[i] = NoVid] ELSE s
    BY <1>1, <1>4, <1>8, <2>1
       DEF Remembered, op_resource_unref, op_ctrl_vlan_add, Creates, CreateOps
  <2>6. Tracks(C, G, V, [s EXCEPT !.vlan[i] = NoVid])
    <3>1. V \subseteq V /\ NoVid \in V \cup {NoVid}
      OBVIOUS
    <3> QED BY <1>2, <2>2, <3>1, TracksVlan
  <2>7. C2 = C /\ G2 = G /\ V2 = V
    BY <1>8 DEF CreateOps
  <2> HIDE DEF C2, G2, V2
  <2> QED BY <1>2, <2>4, <2>5, <2>6, <2>7
<1>9. ASSUME m.op \notin CreateOps \cup SlotOps \cup {"CtrlVlanAdd", "CtrlVlanDel"} PROVE Goal
  <2>1. ref = 0
    BY <1>3, <1>9 DEF ReferredTo, Creates
  <2>2. MayRefer(m, ref, C, G, V)
    BY <1>9, <2>1 DEF MayRefer
  <2>3. PICK r : r = Clamp(m.pair_count, 1, NetQueues \div 2 - 1)
    OBVIOUS
  <2>4. g = s \/ g = [s EXCEPT !.pairs = r]
    BY <1>1, <1>4, <1>9, <2>3
       DEF Remembered, op_resource_unref, op_ctrl_vlan_add, Creates, SlotOps
  <2>5. g.next_id = s.next_id /\ g.resources = s.resources /\ g.vlan = s.vlan
    BY <2>4 DEF SoftSet
  <2>6. Tracks(C, G, V, g)
    BY <1>2, <2>5 DEF Tracks
  <2>7. C2 = C /\ G2 = G /\ V2 = V
    BY <1>9 DEF SlotOps
  <2> HIDE DEF C2, G2, V2
  <2> QED BY <2>2, <2>6, <2>7
<1>10. Goal
  <2> HIDE DEF Goal
  <2> QED BY <1>5, <1>6, <1>7, <1>8, <1>9
<1> QED BY <1>3, <1>4, <1>10

\* One more request keeps what was said of the others and adds its own.
LEMMA LiveMore ==
  ASSUME IInv, NEW p, NEW dev, NEW s \in Seq(SentSet(dev)), NEW rec \in SentSet(dev),
         WellFormed(input.dev, p[rec.line]), rec.ref = ReferredTo(p[rec.line]),
         TracksAll(p, s, soft), RefersAll(p, s)
  PROVE  /\ TracksAll(p, Append(s, rec), Remembered(p[rec.line]))
         /\ RefersAll(p, Append(s, rec))
<1>0. PICK S : S = SentSet(dev)
  OBVIOUS
<1>1. PICK t : t = Append(s, rec)
  OBVIOUS
<1>2. /\ Len(t) = Len(s) + 1 /\ Len(s) \in Nat
      /\ \A k \in 1 .. Len(s) : t[k] = s[k]
      /\ t[Len(s) + 1] = rec
  BY <1>0, <1>1, AppendProperties
<1>3. /\ \A ops : \A n \in 1 .. Len(s) + 1 : Named(p, t, n, ops) = Named(p, s, n, ops)
      /\ \A ops : Named(p, t, Len(s) + 2, ops)
                    = Named(p, s, Len(s) + 1, ops) \cup {x \in {rec.ref} : p[rec.line].op \in ops}
  BY <1>0, <1>1, NamedMore
<1> DEFINE n == Len(s) + 1
<1>4. PICK C : C = Created(p, s, n)
  OBVIOUS
<1>5. PICK G : G = Gone(p, s, n)
  OBVIOUS
<1>6. PICK V : V = Vlans(p, s, n)
  OBVIOUS
<1>7. C \in SUBSET Nat /\ G \in SUBSET Nat /\ V \in SUBSET Nat
  BY <1>4, <1>5, <1>6, NamedNat DEF Created, Gone, Vlans
<1>8. Tracks(C, G, V, soft)
  BY <1>4, <1>5, <1>6 DEF TracksAll
<1>9. PICK m : m = p[rec.line]
  OBVIOUS
<1>10. /\ MayRefer(m, rec.ref, C, G, V)
       /\ Tracks(C \cup {x \in {rec.ref} : m.op \in CreateOps},
                 G \cup {x \in {rec.ref} : m.op \in {"GpuUnref"}},
                 V \cup {x \in {rec.ref} : m.op \in {"CtrlVlanAdd"}},
                 Remembered(m))
  <2>1. WellFormed(input.dev, m) /\ rec.ref = ReferredTo(m)
    BY <1>9
  <2> QED BY <1>7, <1>8, <2>1, TracksLine
<1>11. Len(t) + 1 = Len(s) + 2
  BY <1>2
<1>12. /\ Created(p, t, Len(t) + 1) = C \cup {x \in {rec.ref} : m.op \in CreateOps}
       /\ Gone(p, t, Len(t) + 1) = G \cup {x \in {rec.ref} : m.op \in {"GpuUnref"}}
       /\ Vlans(p, t, Len(t) + 1) = V \cup {x \in {rec.ref} : m.op \in {"CtrlVlanAdd"}}
  BY <1>3, <1>4, <1>5, <1>6, <1>9, <1>11 DEF Created, Gone, Vlans
<1>13. TracksAll(p, t, Remembered(p[rec.line]))
  BY <1>9, <1>10, <1>12 DEF TracksAll
<1>14. ASSUME NEW k \in 1 .. Len(t) PROVE Refers(p, t, k)
  <2>1. k \in 1 .. Len(s) + 1
    BY <1>2
  <2>2. /\ Created(p, t, k) = Created(p, s, k) /\ Gone(p, t, k) = Gone(p, s, k)
        /\ Vlans(p, t, k) = Vlans(p, s, k)
    BY <1>3, <2>1 DEF Created, Gone, Vlans
  <2>3. CASE k = Len(s) + 1
    <3>1. t[k] = rec
      BY <1>2, <2>3
    <3> QED BY <1>4, <1>5, <1>6, <1>9, <1>10, <2>2, <2>3, <3>1 DEF Refers
  <2>4. CASE k \in 1 .. Len(s)
    <3>1. t[k] = s[k] /\ Refers(p, s, k)
      BY <1>2, <2>4 DEF RefersAll
    <3> QED BY <2>2, <3>1 DEF Refers
  <2> QED BY <1>2, <2>1, <2>3, <2>4
<1> QED BY <1>1, <1>13, <1>14 DEF RefersAll

\* Nothing is remembered and nothing was sent.
LEMMA LiveFresh ==
  ASSUME NEW p
  PROVE  TracksAll(p, <<>>, FreshSoft) /\ RefersAll(p, <<>>)
<1>1. PICK e : e = <<>>
  OBVIOUS
<1>2. Len(e) = 0 /\ Len(e) + 1 = 1
  BY <1>1
<1>3. \A ops : Named(p, e, 1, ops) = {}
  BY DEF Named
<1>4. Created(p, e, 1) = {} /\ Gone(p, e, 1) = {} /\ Vlans(p, e, 1) = {}
  BY <1>3 DEF Created, Gone, Vlans
<1>5. /\ FreshSoft.resources = [s \in 0 .. 15 |-> 0] /\ FreshSoft.vlan = [s \in 0 .. 15 |-> NoVid]
  BY DEF FreshSoft, ResourceSlots
<1>6. Tracks({}, {}, {}, FreshSoft)
  BY <1>5 DEF Tracks
<1>7. TracksAll(p, e, FreshSoft)
  BY <1>2, <1>4, <1>6 DEF TracksAll
<1>8. RefersAll(p, e)
  BY <1>2 DEF RefersAll
<1> QED BY <1>1, <1>7, <1>8

LEMMA SubmitLive == IInv /\ Live /\ Submit => Live'
<1> SUFFICES ASSUME IInv, Live, Submit PROVE Live'
  OBVIOUS
<1>1. /\ pc \in 1 .. Len(prog) /\ WellFormed(input.dev, Line) /\ prog' = prog
      /\ At(RequestOps[input.dev])
  BY AtLine DEF Submit
<1>2. CASE GiveUp
  BY <1>2 DEF Live, GiveUp
<1>3. ASSUME NEW q \in QueuesOf(input.dev), Sending(q) PROVE Live'
  <2> SUFFICES ASSUME dropped = {} PROVE TracksAll(prog', sent', soft') /\ RefersAll(prog', sent')
    BY <1>3 DEF Live, Sending
  <2>1. PICK p : p = prog
    OBVIOUS
  <2>2. PICK dev : dev = input.dev
    OBVIOUS
  <2>3. PICK s \in Seq(SentSet(dev)) : s = sent
    BY <2>2 DEF IInv, HistoryOK
  <2>4. PICK ref \in Nat : ref = ReferredTo(p[pc])
    BY <1>1, <2>1, ReferredToNat DEF Line
  <2>5. PICK rec : rec = [line |-> pc, vq |-> q, ref |-> ref]
    OBVIOUS
  <2>6. pc \in Nat \ {0}
    BY <1>1 DEF IInv, InputOK
  <2>7. rec \in SentSet(dev) /\ rec.line = pc /\ rec.ref = ref
    BY <2>2, <2>4, <2>5, <2>6 DEF SentSet
  <2>8. sent' = Append(s, rec) /\ soft' = Remembered(p[rec.line])
    BY <1>3, <2>1, <2>3, <2>4, <2>5, <2>7 DEF Sending, Line
  <2>9. WellFormed(input.dev, p[rec.line]) /\ rec.ref = ReferredTo(p[rec.line])
    BY <1>1, <2>1, <2>4, <2>7 DEF Line
  <2>10. TracksAll(p, s, soft) /\ RefersAll(p, s)
    BY <2>1, <2>3 DEF Live
  <2>11. /\ TracksAll(p, Append(s, rec), Remembered(p[rec.line]))
         /\ RefersAll(p, Append(s, rec))
    BY <2>7, <2>9, <2>10, LiveMore
  <2> QED BY <1>1, <2>1, <2>8, <2>11
<1> QED BY <1>2, <1>3, SubmitIs

LEMMA ResetLive == IInv /\ reset_iteration_state => Live'
<1> SUFFICES ASSUME IInv, reset_iteration_state PROVE Live'
  OBVIOUS
<1>1. sent' = <<>> /\ soft' = FreshSoft
  BY DEF reset_iteration_state
<1>2. TracksAll(prog', sent', soft') /\ RefersAll(prog', sent')
  BY <1>1, LiveFresh
<1> QED BY <1>2 DEF Live

LEMMA InitLive == Init => Live
<1> SUFFICES ASSUME Init PROVE Live
  OBVIOUS
<1>1. sent = <<>> /\ soft = FreshSoft
  BY DEF Init
<1> QED BY <1>1, LiveFresh DEF Live

\* Other operations send nothing and leave alone what is remembered.
LEMMA QuietLive ==
  ASSUME Live, UNCHANGED <<prog, sent, soft>>, UNCHANGED dropped \/ GiveUp
  PROVE  Live'
BY DEF Live, GiveUp

LEMMA NextLive == IInv /\ Live /\ [Next]_vars => Live'
<1> SUFFICES ASSUME IInv, Live, [Next]_vars PROVE Live'
  OBVIOUS
<1>1. CASE UNCHANGED vars
  BY <1>1, QuietLive DEF vars
<1>2. CASE Untracked
  BY <1>2, QuietLive DEF Untracked, At
<1>3. CASE SetFeatures
  BY <1>3, QuietLive DEF SetFeatures, At
<1>4. CASE SetStatus
  BY <1>4, QuietLive DEF SetStatus, At
<1>5. CASE op_vq_setup
  BY <1>5, QuietLive DEF op_vq_setup, At
<1>6. CASE op_guest_mem_write
  BY <1>6, QuietLive DEF op_guest_mem_write, At
<1>7. CASE op_vq_add_desc
  BY <1>7, QuietLive DEF op_vq_add_desc, At
<1>8. CASE op_vq_kick
  BY <1>8, QuietLive DEF op_vq_kick, At
<1>9. CASE op_vq_wait_used
  BY <1>9, QuietLive DEF op_vq_wait_used, At
<1>10. CASE op_mmio_corrupt
  BY <1>10, QuietLive DEF op_mmio_corrupt, At
<1>11. CASE reset_iteration_state
  BY <1>11, ResetLive
<1>12. CASE Submit
  BY <1>12, SubmitLive
<1>13. CASE VqSelect
  BY <1>13, QuietLive DEF VqSelect, At
<1> QED
  BY <1>1, <1>2, <1>3, <1>4, <1>5, <1>6, <1>7, <1>8, <1>9, <1>10, <1>11, <1>12, <1>13 DEF Next

LEMMA SpecLive == Spec => [](IInv /\ Live)
<1>1. Init => IInv /\ Live
  BY InitIInv, InitLive
<1>2. (IInv /\ Live) /\ [Next]_vars => (IInv /\ Live)'
  BY NextIInv, NextLive
<1> QED BY <1>1, <1>2, PTL DEF Spec

\* The properties, which number the requests from the sequence sent.
LEMMA SentDomain ==
  ASSUME IInv
  PROVE  DOMAIN sent = 1 .. Len(sent)
<1>1. PICK S : S = SentSet(input.dev)
  OBVIOUS
<1>2. sent \in Seq(S)
  BY <1>1 DEF IInv, HistoryOK
<1> QED BY <1>2, LenProperties

LEMMA LiveResourcesLive == IInv /\ Live => ResourcesLive
<1> SUFFICES ASSUME IInv, Live, NEW n \in DOMAIN sent, NamesResource(n), dropped = {}
             PROVE  sent[n].ref \in CreatedBefore(n) \ GoneBefore(n)
  BY DEF ResourcesLive
<1>1. n \in 1 .. Len(sent)
  BY SentDomain
<1>2. Refers(prog, sent, n)
  BY <1>1 DEF Live, RefersAll
<1>3. CreatedBefore(n) = Created(prog, sent, n) /\ GoneBefore(n) = Gone(prog, sent, n)
  BY DEF CreatedBefore, GoneBefore, Created, Gone, Named, Creates, LineOf
<1>4. input.dev = "gpu" /\ sent[n].ref # 0 /\ LineOf(n).op \notin CreateOps
  BY DEF NamesResource, Creates
<1>5. LineOf(n).op \in RequestOps.gpu
  BY <1>1, <1>4 DEF IInv, HistoryOK, LineOf, RequestOps
<1>6. LineOf(n).op \notin {"CtrlVlanAdd", "CtrlVlanDel"}
  BY <1>5 DEF RequestOps
<1>7. PICK C : C = Created(prog, sent, n)
  OBVIOUS
<1>8. PICK G : G = Gone(prog, sent, n)
  OBVIOUS
<1>9. PICK V : V = Vlans(prog, sent, n)
  OBVIOUS
<1>10. MayRefer(LineOf(n), sent[n].ref, C, G, V)
  BY <1>2, <1>7, <1>8, <1>9 DEF Refers, LineOf
<1>11. sent[n].ref \in C \ G
  BY <1>4, <1>6, <1>10 DEF MayRefer
<1> QED BY <1>3, <1>7, <1>8, <1>11

LEMMA LiveVlansKnown == IInv /\ Live => VlansKnown
<1> SUFFICES ASSUME IInv, Live, NEW n \in DOMAIN sent,
                    LineOf(n).op = "CtrlVlanDel", LineOf(n).use_slot,
                    sent[n].ref # 0, dropped = {}
             PROVE  sent[n].ref \in VlansAdded(n)
  BY DEF VlansKnown
<1>1. n \in 1 .. Len(sent)
  BY SentDomain
<1>2. Refers(prog, sent, n)
  BY <1>1 DEF Live, RefersAll
<1>3. VlansAdded(n) = Vlans(prog, sent, n)
  BY DEF VlansAdded, Vlans, Named, LineOf
<1> QED BY <1>2, <1>3 DEF Refers, MayRefer, LineOf

\* While nothing is given up, whatever the lines, a virtio-gpu command that
\* names a resource names one the device was told to create since the last
\* Reset and was not told to destroy.
THEOREM ReplayResourcesLive == Spec => []ResourcesLive
<1> QED BY SpecLive, LiveResourcesLive, PTL

\* While nothing is given up, whatever the lines, a VLAN deleted by its slot is
\* one the device was told to add since the last Reset.
THEOREM ReplayVlansKnown == Spec => []VlansKnown
<1> QED BY SpecLive, LiveVlansKnown, PTL

----------------------------------------------------------------------------
(* The control queue of virtio-net *)

OnControlQueue(p, s) ==
  \A n \in 1 .. Len(s) :
    p[s[n].line].op \notin {"TxPacket", "CtrlCmd"} => s[n].vq = ControlQueue
Controlled ==
  input.dev = "net" /\ DeviceQueues.net = 0 .. ControlQueue => OnControlQueue(prog, sent)

\* However many pairs the harness counts, a typed command that finds a queue
\* with a size has found the control queue.
LEMMA ControlFound ==
  ASSUME IInv, input.dev = "net", DeviceQueues.net = 0 .. ControlQueue,
         NEW m, m.op \notin {"TxPacket", "CtrlCmd"},
         NEW q \in QueuesOf(input.dev), q = RequestOf(m).vq, vqs[q].size > 0
  PROVE  q = ControlQueue
<1>1. PICK pairs \in Nat \ {0} : pairs = soft.pairs
  BY StateTyped, SoftFields
<1>2. RequestOf(m) = submit_ctrl(m, pairs)
  BY <1>1 DEF RequestOf, NetRequest
<1>3. q = 2 * pairs
  BY <1>2 DEF submit_ctrl, Request, cvq
<1>4. q \in DeviceQueues[input.dev]
  BY StateTyped DEF Agree, Fits
<1>5. q \in 0 .. 2
  BY <1>4 DEF ControlQueue
<1> QED BY <1>3, <1>5 DEF ControlQueue

LEMMA SubmitControlled == IInv /\ Controlled /\ Submit => Controlled'
<1> SUFFICES ASSUME IInv, Controlled, Submit, input'.dev = "net",
                    DeviceQueues.net = 0 .. ControlQueue
             PROVE  OnControlQueue(prog', sent')
  BY DEF Controlled
<1>1. /\ pc \in 1 .. Len(prog) /\ WellFormed(input.dev, Line)
      /\ input' = input /\ prog' = prog
  BY AtLine DEF Submit
<1>2. input.dev = "net" /\ OnControlQueue(prog, sent)
  BY <1>1 DEF Controlled
<1>3. CASE UNCHANGED <<vqs, mmio, sent>> /\ GiveUp
  BY <1>1, <1>2, <1>3
<1>4. ASSUME NEW q \in QueuesOf(input.dev), NEW n \in Nat \ {0}, Placing(q, n), Sending(q)
      PROVE  OnControlQueue(prog', sent')
  <2>1. PICK S : S = SentSet(input.dev)
    OBVIOUS
  <2>2. sent \in Seq(S)
    BY <2>1 DEF IInv, HistoryOK
  <2>3. PICK ref \in Nat : ref = ReferredTo(Line)
    BY <1>1, ReferredToNat
  <2>4. PICK rec : rec = [line |-> pc, vq |-> q, ref |-> ref]
    OBVIOUS
  <2>5. pc \in Nat \ {0}
    BY <1>1 DEF IInv, InputOK
  <2>6. rec \in S /\ rec.line = pc /\ rec.vq = q
    BY <2>1, <2>4, <2>5 DEF SentSet
  <2>7. sent' = Append(sent, rec)
    BY <1>4, <2>3, <2>4 DEF Sending
  <2>8. /\ Len(sent') = Len(sent) + 1 /\ Len(sent) \in Nat
        /\ \A k \in 1 .. Len(sent) : sent'[k] = sent[k]
        /\ sent'[Len(sent) + 1] = rec
    BY <2>2, <2>6, <2>7, AppendProperties
  <2>9. Line.op \notin {"TxPacket", "CtrlCmd"} => q = ControlQueue
    BY <1>2, <1>4, ControlFound DEF Placing
  <2> SUFFICES ASSUME NEW k \in 1 .. Len(sent'),
                      prog[sent'[k].line].op \notin {"TxPacket", "CtrlCmd"}
               PROVE  sent'[k].vq = ControlQueue
    BY <1>1 DEF OnControlQueue
  <2>10. CASE k = Len(sent) + 1
    BY <2>6, <2>8, <2>9, <2>10 DEF Line
  <2>11. CASE k \in 1 .. Len(sent)
    BY <1>2, <2>8, <2>11 DEF OnControlQueue
  <2> QED BY <2>8, <2>10, <2>11
<1> QED BY <1>3, <1>4, SubmitIs

\* A step that sends nothing.
LEMMA QuietControlled ==
  ASSUME Controlled, UNCHANGED <<input, prog>>, UNCHANGED sent \/ sent' = <<>>
  PROVE  Controlled'
<1>1. OnControlQueue(prog, <<>>)
  BY DEF OnControlQueue
<1> QED BY <1>1 DEF Controlled

LEMMA NextControlled == IInv /\ Controlled /\ [Next]_vars => Controlled'
<1> SUFFICES ASSUME IInv, Controlled, [Next]_vars PROVE Controlled'
  OBVIOUS
<1>1. CASE Submit
  BY <1>1, SubmitControlled
<1>2. CASE ~Submit
  <2>1. UNCHANGED <<input, prog>> /\ (UNCHANGED sent \/ sent' = <<>>)
    BY <1>2 DEF Next, vars, At, Untracked, VqSelect, SetFeatures, SetStatus, op_vq_setup,
                op_guest_mem_write, op_vq_add_desc, op_vq_kick, op_vq_wait_used,
                op_mmio_corrupt, reset_iteration_state
  <2> QED BY <2>1, QuietControlled
<1> QED BY <1>1, <1>2

\* Whatever lines virtio-net's harness is given, on the device its command line
\* creates every typed control command that is sent goes to the control queue.
THEOREM ReplayCommandsOnControlQueue == Spec => []CommandsOnControlQueue
<1>1. Init => Controlled
  <2> SUFFICES ASSUME Init PROVE OnControlQueue(prog, sent)
    BY DEF Controlled
  <2>1. sent = <<>>
    BY DEF Init
  <2> QED BY <2>1 DEF OnControlQueue
<1>2. IInv /\ Controlled => CommandsOnControlQueue
  BY SentDomain DEF Controlled, OnControlQueue, CommandsOnControlQueue, LineOf
<1> QED BY <1>1, <1>2, InitIInv, NextIInv, NextControlled, PTL DEF Spec

=============================================================================
