---------------------------- MODULE NetConnProofs ----------------------------
(***************************************************************************)
(* A connection of the game protocol is reliable, and its ack test never   *)
(* locks the peer out: for every size of the sequence space, of the resend *)
(* buffer and of the packets, and every loss, repetition and reordering    *)
(* that SequenceAssumption bounds. The sections follow the model: what a   *)
(* fold over chunks keeps, arithmetic on numbers, what each part of a      *)
(* handler does to a connection, the inductive invariant, one lemma for    *)
(* each action, the theorems; last the window protocol for itself.         *)
(***************************************************************************)
EXTENDS NetConn, TLAPS, WellFoundedInduction

-----------------------------------------------------------------------------
(* Folds over a sequence.                                                  *)

LEMMA FirstOf ==
  ASSUME NEW B \in SUBSET Nat, B # {}
  PROVE  \E m \in B : \A k \in B : m <= k
<1> DEFINE R == {p \in Nat \X Nat : p[1] < p[2]}
<1>1. IsWellFoundedOn(R, Nat)
  BY NatLessThanWellFounded DEF OpToRel
<1>2. PICK m \in B : \A k \in B : ~ (<<k, m>> \in R)
  BY <1>1, WFMin
<1>3. ASSUME NEW k \in B PROVE m <= k
  <2>1. m \in Nat /\ k \in Nat
    OBVIOUS
  <2>2. CASE k < m
    <3>1. <<k, m>> \in R
      BY <2>1, <2>2
    <3> QED BY <1>2, <3>1
  <2> QED BY <2>1, <2>2
<1> QED BY <1>3

(* f is the recursion over 1 .. n that starts with r and makes step F[i].  *)
Recursion(f, S, n, r, F) ==
  f \in [0 .. n -> S] /\ f[0] = r /\ \A i \in 1 .. n : f[i] = F[i][f[i - 1]]

LEMMA FoldExists ==
  ASSUME NEW S, NEW n \in Nat, NEW r \in S, NEW F \in [1 .. n -> [S -> S]]
  PROVE  \E f : Recursion(f, S, n, r, F)
<1> DEFINE Solves(f, m) == /\ f \in [0 .. m -> S] /\ f[0] = r
                           /\ \A i \in 1 .. m : f[i] = F[i][f[i - 1]]
           Bad == {m \in 0 .. n : ~ \E f : Solves(f, m)}
<1>1. Bad = {}
  <2> SUFFICES ASSUME Bad # {} PROVE FALSE
    OBVIOUS
  <2>1. PICK m \in Bad : \A k \in Bad : m <= k
    <3>1. Bad \in SUBSET Nat
      OBVIOUS
    <3> HIDE DEF Bad
    <3> QED BY <3>1, FirstOf
  <2>2. m # 0
    <3>1. Solves([i \in 0 .. 0 |-> r], 0)
      OBVIOUS
    <3> QED BY <3>1
  <2>3. m - 1 \in 0 .. n /\ m - 1 \notin Bad
    <3>1. m \in 0 .. n /\ ~(m <= m - 1)
      OBVIOUS
    <3>2. m - 1 \in 0 .. n
      BY <2>2, <3>1
    <3> HIDE DEF Bad
    <3> QED BY <2>1, <3>1, <3>2
  <2>4. PICK f : Solves(f, m - 1)
    BY <2>3
  <2> DEFINE g == [i \in 0 .. m |-> IF i = m THEN F[m][f[m - 1]] ELSE f[i]]
  <2>5. f[m - 1] \in S /\ F[m][f[m - 1]] \in S /\ m \in 1 .. n
    BY <2>1, <2>2, <2>4
  <2>6. Solves(g, m)
    <3>1. g \in [0 .. m -> S]
      BY <2>4, <2>5
    <3>2. g[0] = r
      BY <2>2, <2>4, <2>5
    <3>3. ASSUME NEW i \in 1 .. m PROVE g[i] = F[i][g[i - 1]]
      <4>1. CASE i = m
        BY <4>1, <2>4, <2>5
      <4>2. CASE i # m
        <5>1. i \in 1 .. m - 1 /\ i - 1 \in 0 .. m /\ i - 1 # m
          BY <4>2, <2>5
        <5> QED BY <5>1, <4>2, <2>4
      <4> QED BY <4>1, <4>2
    <3> QED BY <3>1, <3>2, <3>3
  <2> QED BY <2>1, <2>6
<1>2. PICK f : Solves(f, n)
  BY <1>1
<1> QED BY <1>2 DEF Recursion

(* What every step of a recursion keeps is true of its result.             *)
LEMMA FoldStays ==
  ASSUME NEW S, NEW n \in Nat, NEW f, f[0] \in S,
         \A i \in 1 .. n : f[i - 1] \in S => f[i] \in S
  PROVE  f[n] \in S
<1> DEFINE Bad == {m \in 0 .. n : f[m] \notin S}
<1> SUFFICES ASSUME Bad # {} PROVE FALSE
  OBVIOUS
<1>1. PICK m \in Bad : \A k \in Bad : m <= k
  <2>1. Bad \in SUBSET Nat
    OBVIOUS
  <2> HIDE DEF Bad
  <2> QED BY <2>1, FirstOf
<1>2. m # 0 /\ m \in 1 .. n
  BY <1>1
<1>3. m - 1 \in 0 .. n /\ m - 1 \notin Bad
  BY <1>1, <1>2
<1> QED BY <1>1, <1>2, <1>3

LEMMA EachPack ==
  ASSUME NEW S, NEW C, NEW r \in S, NEW s \in Seq(C),
         \A x \in S, k \in C : Pack(x, k) \in S
  PROVE  Each(Pack, r, s) \in S
<1> DEFINE n == Len(s)
           Solves(f) == f = [i \in 0 .. n |-> IF i = 0 THEN r ELSE Pack(f[i - 1], s[i])]
           F == [i \in 1 .. n |-> [x \in S |-> Pack(x, s[i])]]
<1>1. n \in Nat /\ \A i \in 1 .. n : s[i] \in C
  OBVIOUS
<1>2. F \in [1 .. n -> [S -> S]]
  BY <1>1
<1>3. PICK g : Recursion(g, S, n, r, F)
  <2> HIDE DEF F, n
  <2> QED BY <1>1, <1>2, FoldExists
<1>4. Solves(g)
  <2>1. ASSUME NEW i \in 1 .. n PROVE g[i] = Pack(g[i - 1], s[i])
    <3>1. g[i - 1] \in S
      <4> HIDE DEF n, F
      <4> QED BY <1>1, <1>3 DEF Recursion
    <3>2. F[i][g[i - 1]] = Pack(g[i - 1], s[i])
      BY <3>1
    <3> HIDE DEF F
    <3> QED BY <1>3, <3>2 DEF Recursion
  <2> HIDE DEF F, n
  <2>2. \A i \in 0 .. n : g[i] = IF i = 0 THEN r ELSE Pack(g[i - 1], s[i])
    BY <1>1, <1>3, <2>1 DEF Recursion
  <2>3. g = [i \in 0 .. n |-> g[i]]
    BY <1>3 DEF Recursion
  <2> QED BY <2>2, <2>3
<1> DEFINE f == CHOOSE h : Solves(h)
<1>5. Solves(f)
  <2> HIDE DEF Solves
  <2> QED BY <1>4
<1>6. Each(Pack, r, s) = f[n]
  BY DEF Each
<1>7. f[n] \in S
  <2> HIDE DEF f
  <2>1. \A i \in 0 .. n : f[i] = IF i = 0 THEN r ELSE Pack(f[i - 1], s[i])
    BY <1>5
  <2> HIDE DEF n
  <2>2. ASSUME NEW i \in 1 .. n, f[i - 1] \in S PROVE f[i] \in S
    <3>1. f[i] = Pack(f[i - 1], s[i])
      BY <1>1, <2>1
    <3>2. s[i] \in C
      BY <1>1
    <3> QED BY <2>2, <3>1, <3>2
  <2>3. f[0] \in S
    BY <1>1, <2>1
  <2> QED BY <1>1, <2>2, <2>3, FoldStays
<1> QED BY <1>6, <1>7

LEMMA EachUnpack ==
  ASSUME NEW S, NEW C, NEW r \in S, NEW s \in Seq(C),
         \A x \in S, k \in C : UnpackChunk(x, k) \in S
  PROVE  Each(UnpackChunk, r, s) \in S
<1> DEFINE n == Len(s)
           Solves(f) == f = [i \in 0 .. n |-> IF i = 0 THEN r ELSE UnpackChunk(f[i - 1], s[i])]
           F == [i \in 1 .. n |-> [x \in S |-> UnpackChunk(x, s[i])]]
<1>1. n \in Nat /\ \A i \in 1 .. n : s[i] \in C
  OBVIOUS
<1>2. F \in [1 .. n -> [S -> S]]
  BY <1>1
<1>3. PICK g : Recursion(g, S, n, r, F)
  <2> HIDE DEF F, n
  <2> QED BY <1>1, <1>2, FoldExists
<1>4. Solves(g)
  <2>1. ASSUME NEW i \in 1 .. n PROVE g[i] = UnpackChunk(g[i - 1], s[i])
    <3>1. g[i - 1] \in S
      <4> HIDE DEF n, F
      <4> QED BY <1>1, <1>3 DEF Recursion
    <3>2. F[i][g[i - 1]] = UnpackChunk(g[i - 1], s[i])
      BY <3>1
    <3> HIDE DEF F
    <3> QED BY <1>3, <3>2 DEF Recursion
  <2> HIDE DEF F, n
  <2>2. \A i \in 0 .. n : g[i] = IF i = 0 THEN r ELSE UnpackChunk(g[i - 1], s[i])
    BY <1>1, <1>3, <2>1 DEF Recursion
  <2>3. g = [i \in 0 .. n |-> g[i]]
    BY <1>3 DEF Recursion
  <2> QED BY <2>2, <2>3
<1> DEFINE f == CHOOSE h : Solves(h)
<1>5. Solves(f)
  <2> HIDE DEF Solves
  <2> QED BY <1>4
<1>6. Each(UnpackChunk, r, s) = f[n]
  BY DEF Each
<1>7. f[n] \in S
  <2> HIDE DEF f
  <2>1. \A i \in 0 .. n : f[i] = IF i = 0 THEN r ELSE UnpackChunk(f[i - 1], s[i])
    BY <1>5
  <2> HIDE DEF n
  <2>2. ASSUME NEW i \in 1 .. n, f[i - 1] \in S PROVE f[i] \in S
    <3>1. f[i] = UnpackChunk(f[i - 1], s[i])
      BY <1>1, <2>1
    <3>2. s[i] \in C
      BY <1>1
    <3> QED BY <2>2, <3>1, <3>2
  <2>3. f[0] \in S
    BY <1>1, <2>1
  <2> QED BY <1>1, <2>2, <2>3, FoldStays
<1> QED BY <1>6, <1>7

(* What InTransit does with a packet.                                      *)
Keep(e, conns, count, s, p) ==
  IF Fresh(e, p, count) /\ Heard(p, conns[Peer(e)]) THEN Append(s, p) ELSE s
KeepAll(e, conns, count, r, packets) ==
  Each(LAMBDA s, p : Keep(e, conns, count, s, p), r, packets)

LEMMA EachKeep ==
  ASSUME NEW S, NEW C, NEW e, NEW conns, NEW count, NEW r \in S, NEW s \in Seq(C),
         \A x \in S, k \in C : Keep(e, conns, count, x, k) \in S
  PROVE  KeepAll(e, conns, count, r, s) \in S
<1> DEFINE n == Len(s)
           Solves(f) == f = [i \in 0 .. n |-> IF i = 0 THEN r ELSE Keep(e, conns, count, f[i - 1], s[i])]
           F == [i \in 1 .. n |-> [x \in S |-> Keep(e, conns, count, x, s[i])]]
<1>1. n \in Nat /\ \A i \in 1 .. n : s[i] \in C
  OBVIOUS
<1>2. F \in [1 .. n -> [S -> S]]
  BY <1>1
<1>3. PICK g : Recursion(g, S, n, r, F)
  <2> HIDE DEF F, n
  <2> QED BY <1>1, <1>2, FoldExists
<1>4. Solves(g)
  <2>1. ASSUME NEW i \in 1 .. n PROVE g[i] = Keep(e, conns, count, g[i - 1], s[i])
    <3>1. g[i - 1] \in S
      <4> HIDE DEF n, F
      <4> QED BY <1>1, <1>3 DEF Recursion
    <3>2. F[i][g[i - 1]] = Keep(e, conns, count, g[i - 1], s[i])
      BY <3>1
    <3> HIDE DEF F
    <3> QED BY <1>3, <3>2 DEF Recursion
  <2> HIDE DEF F, n
  <2>2. \A i \in 0 .. n : g[i] = IF i = 0 THEN r ELSE Keep(e, conns, count, g[i - 1], s[i])
    BY <1>1, <1>3, <2>1 DEF Recursion
  <2>3. g = [i \in 0 .. n |-> g[i]]
    BY <1>3 DEF Recursion
  <2> QED BY <2>2, <2>3
<1> DEFINE f == CHOOSE h : Solves(h)
<1>5. Solves(f)
  <2> HIDE DEF Solves
  <2> QED BY <1>4
<1>6. KeepAll(e, conns, count, r, s) = f[n]
  BY DEF Each, KeepAll
<1>7. f[n] \in S
  <2> HIDE DEF f
  <2>1. \A i \in 0 .. n : f[i] = IF i = 0 THEN r ELSE Keep(e, conns, count, f[i - 1], s[i])
    BY <1>5
  <2> HIDE DEF n
  <2>2. ASSUME NEW i \in 1 .. n, f[i - 1] \in S PROVE f[i] \in S
    <3>1. f[i] = Keep(e, conns, count, f[i - 1], s[i])
      BY <1>1, <2>1
    <3>2. s[i] \in C
      BY <1>1
    <3> QED BY <2>2, <3>1, <3>2
  <2>3. f[0] \in S
    BY <1>1, <2>1
  <2> QED BY <1>1, <2>2, <2>3, FoldStays
<1> QED BY <1>6, <1>7

-----------------------------------------------------------------------------
M == NET_MAX_SEQUENCE

-----------------------------------------------------------------------------
(* Division with remainder.                                                *)
LEMMA DivMod ==
  ASSUME NEW a \in Nat
  PROVE  /\ a % M \in 0 .. M - 1
         /\ a \div M \in Nat
         /\ a = M * (a \div M) + (a % M)
BY SequenceAssumption DEF M

(* Numbers less than M apart with the same remainder are equal: a chunk's  *)
(* number tells which chunk it is, within a window of the sequence space.  *)
LEMMA SameNumber ==
  ASSUME NEW a \in Nat, NEW b \in Nat,
         a % M = b % M, a - b < M, b - a < M
  PROVE  a = b
<1> DEFINE p == a \div M
           q == b \div M
<1>1. M \in Nat /\ M > 0
  BY SequenceAssumption DEF M
<1>2. p \in Nat /\ q \in Nat /\ a = M * p + (a % M) /\ b = M * q + (b % M)
  BY DivMod
<1>3. a - b = M * p - M * q
  BY <1>1, <1>2, DivMod
<1> HIDE DEF p, q
<1>4. a - b = M * (p - q)
  BY <1>1, <1>2, <1>3
<1>5. CASE p - q >= 1
  <2>1. M * (p - q) >= M
    BY <1>1, <1>2, <1>5
  <2> QED BY <2>1, <1>1, <1>4
<1>6. CASE q - p >= 1
  <2>1. M * (q - p) >= M
    BY <1>1, <1>2, <1>6
  <2>2. M * (q - p) = b - a
    BY <1>1, <1>2, <1>4
  <2> QED BY <2>1, <2>2, <1>1
<1>7. CASE p = q
  BY <1>7, <1>1, <1>2, <1>4
<1> QED BY <1>2, <1>5, <1>6, <1>7

(* Adding less than M to a number wraps around at most once.               *)
LEMMA ModAdd ==
  ASSUME NEW a \in Nat, NEW d \in 0 .. M - 1
  PROVE  (a + d) % M = (a % M) + d \/ (a + d) % M = (a % M) + d - M
<1> DEFINE r == (a % M) + d
           t == (a + d) % M
           p == a \div M
           u == (a + d) \div M
<1>1. M \in Nat /\ M > 0 /\ a + d \in Nat
  BY SequenceAssumption DEF M
<1>2. /\ p \in Nat /\ u \in Nat /\ t \in 0 .. M - 1 /\ r \in Int /\ 0 <= r /\ r < 2 * M
      /\ a = M * p + (a % M) /\ a + d = M * u + t
  BY <1>1, DivMod
<1>3. t - r = M * p - M * u
  BY <1>1, <1>2, DivMod
<1>9. r = (a % M) + d /\ t = (a + d) % M
  OBVIOUS
<1> HIDE DEF r, t, p, u
<1>4. t - r = M * (p - u)
  BY <1>1, <1>2, <1>3
<1>5. CASE p - u >= 1
  <2>1. M * (p - u) >= M
    BY <1>1, <1>2, <1>5
  <2> QED BY <2>1, <1>1, <1>2, <1>4
<1>6. CASE p = u
  <2>1. t = r
    BY <1>6, <1>1, <1>2, <1>4
  <2> QED BY <2>1, <1>1, <1>2, <1>9
<1>7. CASE u - p = 1
  <2>1. t = r - M
    BY <1>7, <1>1, <1>2, <1>4
  <2> QED BY <2>1, <1>1, <1>2, <1>9
<1>8. CASE u - p >= 2
  <2>1. M * (u - p) >= 2 * M
    BY <1>1, <1>2, <1>8
  <2>2. M * (u - p) = r - t
    BY <1>1, <1>2, <1>4
  <2> QED BY <2>1, <2>2, <1>1, <1>2
<1> QED BY <1>2, <1>5, <1>6, <1>7, <1>8

(* A number less than M is its own remainder.                              *)
LEMMA ModSmall ==
  ASSUME NEW x \in 0 .. M - 1
  PROVE  x % M = x
BY SequenceAssumption DEF M

(* The number after l's number is the number of l + 1.                     *)
LEMMA ModSucc ==
  ASSUME NEW l \in Nat
  PROVE  (l + 1) % M = ((l % M) + 1) % M
<1>1. M \in Nat /\ M > 1 /\ 1 \in 0 .. M - 1
  BY SequenceAssumption DEF M
<1>2. PICK x \in 0 .. M - 1 : x = l % M
  BY DivMod
<1>3. PICK y \in 0 .. M - 1 : y = (l + 1) % M
  <2>1. l + 1 \in Nat
    OBVIOUS
  <2> QED BY <2>1, DivMod
<1>4. PICK z \in 0 .. M - 1 : z = (x + 1) % M
  <2>1. x + 1 \in Nat
    BY <1>1
  <2> QED BY <2>1, DivMod
<1>5. y = x + 1 \/ y = x + 1 - M
  BY <1>1, <1>2, <1>3, ModAdd
<1>6. z = x + 1 \/ z = x + 1 - M
  <2>1. x \in Nat /\ x % M = x
    BY <1>1, ModSmall
  <2> QED BY <1>1, <1>4, <2>1, ModAdd
<1>7. y = z
  BY <1>1, <1>5, <1>6
<1> QED BY <1>2, <1>3, <1>4, <1>7

(* IsSeqInBackroom is right: a chunk after the acknowledged one, by less   *)
(* than half of the sequence space, is not taken for an older one.         *)
LEMMA NewerNotInBackroom ==
  ASSUME NEW k \in Nat, NEW n \in Nat, k < n, 2 * (n - k) < M
  PROVE  ~IsSeqInBackroom(ChunkSeq(n), ChunkSeq(k))
<1> DEFINE d == n - k
           h == M \div 2
           x == k % M
           s == n % M
<1>1. M \in Nat /\ M > 0 /\ d \in 0 .. M - 1 /\ d > 0 /\ n = k + d
  BY SequenceAssumption DEF M
<1>2. h \in Nat /\ 2 * h <= M /\ M <= 2 * h + 1
  BY <1>1
<1>3. x \in 0 .. M - 1 /\ s \in 0 .. M - 1
  BY DivMod
<1>4. s = x + d \/ s = x + d - M
  BY <1>1, ModAdd
<1>5. IsSeqInBackroom(ChunkSeq(n), ChunkSeq(k)) <=>
        IF x - h < 0 THEN s <= x \/ s >= x - h + M ELSE s <= x /\ s >= x - h
  BY DEF IsSeqInBackroom, ChunkSeq, M
<1>6. 2 * d < M
  OBVIOUS
<1> HIDE DEF d, h, x, s
<1>7. CASE s = x + d
  BY <1>1, <1>2, <1>3, <1>5, <1>6, <1>7
<1>8. CASE s = x + d - M
  BY <1>1, <1>2, <1>3, <1>5, <1>6, <1>8
<1> QED BY <1>4, <1>7, <1>8

-----------------------------------------------------------------------------
(* A connection and packets whose vital chunks are from C.                 *)
Kinds == {"CONNECT", "CONNECTACCEPT", "ACCEPT", "CLOSE", "CHUNKS"}

ConnOf(C) ==
  [state : States, sequence : SeqNumbers, ack : SeqNumbers, peerAck : SeqNumbers,
   remoteClosed : BOOLEAN, token : {"UNKNOWN", "token"}, resendRequested : BOOLEAN,
   buffer : Seq(C), chunks : Seq(C), resendFlag : BOOLEAN]

PacketOf(C) ==
  [kind : Kinds, ack : SeqNumbers, acked : Nat, token : {"UNKNOWN", "token"},
   resend : BOOLEAN, chunks : Seq(C)]

(* What a connection whose ack is a sends. A CONNECTACCEPT has no ack yet, *)
(* that of a CLOSE is not looked at.                                       *)
Out(C, a) == {p \in PacketOf(C) :
  p.kind # "CLOSE" => p.ack = IF p.kind = "CONNECTACCEPT" THEN 0 ELSE a}

(* The runs of a handler that leave the state, the numbers and the resend  *)
(* buffer of the connection k alone.                                       *)
Kin(k, C) == {c \in ConnOf(C) : /\ c.state = k.state /\ c.sequence = k.sequence
                                /\ c.ack = k.ack /\ c.buffer = k.buffer}
Runs(k, C) == [c : Kin(k, C), out : Seq(Out(C, k.ack))]

LEMMA PacketOut ==
  ASSUME NEW C, NEW c \in ConnOf(C), NEW kind \in Kinds \ {"CONNECTACCEPT"},
         NEW s \in Seq(C), NEW b \in BOOLEAN
  PROVE  Packet(kind, c, s, b) \in Out(C, c.ack)
BY DEF Packet, Out, PacketOf, ConnOf

LEMMA RunParts ==
  ASSUME NEW C, NEW k, NEW r \in Runs(k, C)
  PROVE  /\ r = [c |-> r.c, out |-> r.out]
         /\ r.c \in ConnOf(C) /\ r.c.ack = k.ack /\ r.c.state = k.state
         /\ r.c.buffer = k.buffer /\ r.c.sequence = k.sequence
         /\ r.out \in Seq(Out(C, k.ack))
         /\ r.c.chunks \in Seq(C) /\ r.c.buffer \in Seq(C) /\ r.c.resendFlag \in BOOLEAN
BY DEF Runs, Kin, ConnOf

LEMMA RunIs ==
  ASSUME NEW C, NEW k, NEW c \in Kin(k, C), NEW out \in Seq(Out(C, k.ack))
  PROVE  [c |-> c, out |-> out] \in Runs(k, C)
BY DEF Runs

LEMMA SendControlRuns ==
  ASSUME NEW C, NEW k, NEW r \in Runs(k, C), NEW kind \in Kinds \ {"CONNECTACCEPT"}
  PROVE  SendControl(r, kind) \in Runs(k, C)
<1> DEFINE p == Packet(kind, r.c, << >>, FALSE)
<1>1. p \in Out(C, k.ack)
  <2>1. r.c \in ConnOf(C) /\ r.c.ack = k.ack /\ << >> \in Seq(C) /\ FALSE \in BOOLEAN
    BY RunParts
  <2>2. Packet(kind, r.c, << >>, FALSE) \in Out(C, r.c.ack)
    BY <2>1, PacketOut
  <2> QED BY <2>1, <2>2
<1>2. SendControl(r, kind) = [r EXCEPT !.out = Append(@, p)]
  BY DEF SendControl
<1> HIDE DEF p
<1>3. Append(r.out, p) \in Seq(Out(C, k.ack))
  BY <1>1, RunParts
<1> QED BY <1>2, <1>3 DEF Runs

LEMMA FlushRuns ==
  ASSUME NEW C, NEW k, NEW r \in Runs(k, C), NEW other \in BOOLEAN
  PROVE  Flush(r, other) \in Runs(k, C)
<1> DEFINE c == [r.c EXCEPT !.chunks = << >>, !.resendFlag = FALSE]
           p == Packet("CHUNKS", r.c, r.c.chunks, r.c.resendFlag)
<1>1. c \in Kin(k, C)
  <2>1. r.c \in Kin(k, C) /\ << >> \in Seq(C)
    BY DEF Runs
  <2> QED BY <2>1 DEF Kin, ConnOf
<1>2. p \in Out(C, k.ack)
  BY RunParts, PacketOut DEF Kinds
<1>3. Append(r.out, p) \in Seq(Out(C, k.ack))
  BY <1>2, RunParts
<1>4. Flush(r, other) = r \/ Flush(r, other) = [c |-> c, out |-> Append(r.out, p)]
  BY DEF Flush
<1> HIDE DEF c, p
<1> QED BY <1>1, <1>3, <1>4, RunIs

LEMMA PackRuns ==
  ASSUME NEW C, NEW k, NEW r \in Runs(k, C), NEW chunk \in C
  PROVE  Pack(r, chunk) \in Runs(k, C)
<1>1. ASSUME NEW f \in Runs(k, C)
      PROVE  [f EXCEPT !.c.chunks = Append(@, chunk)] \in Runs(k, C)
  <2>1. Append(f.c.chunks, chunk) \in Seq(C)
    BY <1>1, RunParts
  <2> QED BY <2>1 DEF Runs, Kin, ConnOf
<1>2. Flush(r, FALSE) \in Runs(k, C)
  BY FlushRuns
<1> QED BY <1>1, <1>2 DEF Pack

LEMMA ResendRuns ==
  ASSUME NEW C, NEW k, NEW r \in Runs(k, C)
  PROVE  Resend(r) \in Runs(k, C)
<1>1. r.c.buffer \in Seq(C)
  BY RunParts
<1>2. \A x \in Runs(k, C), q \in C : Pack(x, q) \in Runs(k, C)
  BY PackRuns
<1> QED BY <1>1, <1>2, EachPack DEF Resend

LEMMA AnswerRuns ==
  ASSUME NEW C, NEW k, NEW r \in Runs(k, C), NEW due
  PROVE  AnswerResendRequest(r, due) \in Runs(k, C)
<1>1. [r EXCEPT !.c.resendRequested = FALSE] \in Runs(k, C)
  BY DEF Runs, Kin, ConnOf
<1> QED BY <1>1, ResendRuns DEF AnswerResendRequest

LEMMA UpdateRuns ==
  ASSUME NEW C, NEW k, NEW r \in Runs(k, C), NEW due
  PROVE  UpdateConn(r, due) \in Runs(k, C)
<1> DEFINE r1 == AnswerResendRequest(r, "answer" \in due)
           r2 == IF r1.c.buffer # << >> /\ "resend" \in due
                 THEN Pack(r1, Head(r1.c.buffer)) ELSE r1
           r3 == IF "flush" \in due THEN Flush(r2, FALSE) ELSE r2
<1>1. r1 \in Runs(k, C)
  BY AnswerRuns
<1> HIDE DEF r1
<1>2. r2 \in Runs(k, C)
  <2>1. r1.c.buffer # << >> => Head(r1.c.buffer) \in C
    BY <1>1, RunParts
  <2> QED BY <1>1, <2>1, PackRuns
<1> HIDE DEF r2
<1>3. r3 \in Runs(k, C)
  BY <1>2, FlushRuns
<1>4. SendControl(r3, "CHUNKS") \in Runs(k, C) /\ SendControl(r2, "CONNECT") \in Runs(k, C)
  <2> HIDE DEF r3
  <2> QED BY <1>2, <1>3, SendControlRuns DEF Kinds
<1>5. UpdateConn(r, due) = IF r2.c.state = "ONLINE"
        THEN IF "keepalive" \in due /\ r3 = r2 THEN SendControl(r3, "CHUNKS") ELSE r3
        ELSE IF "flush" \in due THEN SendControl(r2, "CONNECT") ELSE r2
  BY DEF UpdateConn, r1, r2
<1> HIDE DEF r3
<1> QED BY <1>2, <1>3, <1>4, <1>5

(* AckChunks, and Feed which calls it, release a head of the buffer.       *)
Released(old, new, ack) ==
  \E first \in 1 .. Len(old) + 1 :
    /\ new = SubSeq(old, first, Len(old))
    /\ \A i \in 1 .. first - 1 : IsSeqInBackroom(old[i].seq, ack)

LEMMA NothingReleased ==
  ASSUME NEW C, NEW s \in Seq(C), NEW ack
  PROVE  Released(s, s, ack)
<1>1. s = SubSeq(s, 1, Len(s)) /\ 1 \in 1 .. Len(s) + 1
  OBVIOUS
<1> QED BY <1>1 DEF Released

LEMMA AckReleases ==
  ASSUME NEW C, NEW c \in ConnOf(C), NEW ack
  PROVE  /\ AckChunks(c, ack) \in ConnOf(C)
         /\ AckChunks(c, ack) = [c EXCEPT !.buffer = AckChunks(c, ack).buffer]
         /\ Released(c.buffer, AckChunks(c, ack).buffer, ack)
<1> DEFINE s == c.buffer
           kept == {i \in DOMAIN s : ~IsSeqInBackroom(s[i].seq, ack)}
           first == IF kept = {} THEN Len(s) + 1
                    ELSE CHOOSE i \in kept : \A j \in kept : i <= j
           t == SubSeq(s, first, Len(s))
<1>1. s \in Seq(C) /\ Len(s) \in Nat /\ DOMAIN s = 1 .. Len(s)
  BY DEF ConnOf
<1>2. AckChunks(c, ack) = [c EXCEPT !.buffer = t]
  BY DEF AckChunks
<1>3. /\ first \in 1 .. Len(s) + 1
      /\ \A i \in 1 .. first - 1 : IsSeqInBackroom(s[i].seq, ack)
  <2>1. CASE kept = {}
    <3>1. first = Len(s) + 1
      BY <2>1
    <3> QED BY <1>1, <2>1, <3>1
  <2>2. CASE kept # {}
    <3>1. kept \in SUBSET Nat
      BY <1>1
    <3>2. \E i \in kept : \A j \in kept : i <= j
      <4> HIDE DEF kept
      <4> QED BY <2>2, <3>1, FirstOf
    <3>3. first \in kept /\ \A j \in kept : first <= j
      BY <2>2, <3>2
    <3>4. first \in 1 .. Len(s)
      BY <1>1, <3>3
    <3>5. ASSUME NEW i \in 1 .. first - 1 PROVE i \notin kept /\ i \in 1 .. Len(s)
      <4> HIDE DEF first, kept
      <4> QED BY <1>1, <3>3, <3>4
    <3> HIDE DEF first
    <3> QED BY <1>1, <3>4, <3>5
  <2> QED BY <2>1, <2>2
<1>4. t \in Seq(C)
  <2> HIDE DEF first, s
  <2> QED BY <1>1, <1>3
<1> HIDE DEF t, first
<1>5. AckChunks(c, ack).buffer = t
  BY <1>2 DEF ConnOf
<1>6. Released(s, t, ack)
  BY <1>3 DEF Released, t
<1>7. [c EXCEPT !.buffer = t] \in ConnOf(C)
  BY <1>4 DEF ConnOf
<1> QED BY <1>2, <1>5, <1>6, <1>7

LEMMA FeedReleases ==
  ASSUME NEW C, NEW k \in ConnOf(C), NEW r \in Runs(k, C), NEW due,
         NEW D, NEW p \in PacketOf(D)
  PROVE  LET q == Feed(r, p, due) IN
         /\ q = [c |-> q.c, out |-> q.out]
         /\ q.out \in Seq(Out(C, k.ack))
         /\ q.c \in ConnOf(C) /\ q.c.ack = k.ack /\ q.c.sequence = k.sequence
         /\ p.kind = "CLOSE" => q.c.state = "ERROR"
         /\ Released(k.buffer, q.c.buffer, p.ack)
<1> DEFINE r0 == [r EXCEPT !.c.peerAck = p.ack, !.c.resendRequested = @ \/ p.resend]
           r1 == AnswerResendRequest(r0, due)
           r2 == IF p.kind = "CONNECTACCEPT" /\ r1.c.state = "CONNECT"
                 THEN [SendControl([r1 EXCEPT !.c.token = p.token], "ACCEPT")
                         EXCEPT !.c.state = "ONLINE"]
                 ELSE r1
           q == Feed(r, p, due)
<1>1. r0 \in Runs(k, C)
  <2>1. p.ack \in SeqNumbers /\ p.resend \in BOOLEAN
    BY DEF PacketOf
  <2>2. (r.c.resendRequested \/ p.resend) \in BOOLEAN
    OBVIOUS
  <2> QED BY <2>1, <2>2 DEF Runs, Kin, ConnOf
<1>2. r1 \in Runs(k, C)
  <2> HIDE DEF r0
  <2> QED BY <1>1, AnswerRuns
<1>3. q = IF p.kind = "CLOSE"
          THEN [r1 EXCEPT !.c.state = "ERROR", !.c.remoteClosed = TRUE]
          ELSE IF r2.c.state = "ONLINE" THEN [r2 EXCEPT !.c = AckChunks(r2.c, p.ack)] ELSE r2
  BY DEF Feed
<1> HIDE DEF r1, q
<1>4. /\ r2 = [c |-> r2.c, out |-> r2.out] /\ r2.out \in Seq(Out(C, k.ack))
      /\ r2.c \in ConnOf(C) /\ r2.c.ack = k.ack /\ r2.c.sequence = k.sequence
      /\ r2.c.buffer = k.buffer
  <2>1. r2 = r1 \/ r2 = [SendControl([r1 EXCEPT !.c.token = p.token], "ACCEPT")
                           EXCEPT !.c.state = "ONLINE"]
    OBVIOUS
  <2>2. [r1 EXCEPT !.c.token = p.token] \in Runs(k, C)
    <3>1. p.token \in {"UNKNOWN", "token"}
      BY DEF PacketOf
    <3> QED BY <1>2, <3>1 DEF Runs, Kin, ConnOf
  <2>3. PICK f \in Runs(k, C) : f = SendControl([r1 EXCEPT !.c.token = p.token], "ACCEPT")
    BY <2>2, SendControlRuns DEF Kinds
  <2>4. [f EXCEPT !.c.state = "ONLINE"].c \in ConnOf(C)
    BY DEF Runs, Kin, ConnOf, States
  <2>5. r2 = r1 \/ r2 = [f EXCEPT !.c.state = "ONLINE"]
    BY <2>1, <2>3
  <2>6. CASE r2 = [f EXCEPT !.c.state = "ONLINE"]
    <3> HIDE DEF r2
    <3> QED BY <2>4, <2>6 DEF Runs, Kin, ConnOf
  <2>7. CASE r2 = r1
    <3> HIDE DEF r2
    <3> QED BY <1>2, <2>7, RunParts
  <2> QED BY <2>5, <2>6, <2>7
<1> HIDE DEF r2
<1>5. CASE p.kind = "CLOSE"
  <2>1. q = [r1 EXCEPT !.c.state = "ERROR", !.c.remoteClosed = TRUE]
    BY <1>3, <1>5
  <2>2. /\ q = [c |-> q.c, out |-> q.out] /\ q.out \in Seq(Out(C, k.ack))
        /\ q.c \in ConnOf(C) /\ q.c.ack = k.ack /\ q.c.sequence = k.sequence
        /\ q.c.state = "ERROR" /\ q.c.buffer = k.buffer
    BY <1>2, <2>1 DEF Runs, Kin, ConnOf, States
  <2>3. Released(k.buffer, k.buffer, p.ack)
    BY NothingReleased DEF ConnOf
  <2> QED BY <2>2, <2>3 DEF q
<1>6. CASE p.kind # "CLOSE" /\ r2.c.state = "ONLINE"
  <2>1. q = [r2 EXCEPT !.c = AckChunks(r2.c, p.ack)]
    BY <1>3, <1>6
  <2>2. PICK a : a = AckChunks(r2.c, p.ack)
    OBVIOUS
  <2>3. /\ a \in ConnOf(C) /\ a = [r2.c EXCEPT !.buffer = a.buffer]
        /\ Released(k.buffer, a.buffer, p.ack)
    BY <1>4, <2>2, AckReleases
  <2>4. q.c = a /\ q.out = r2.out /\ q = [c |-> q.c, out |-> q.out]
    BY <1>4, <2>1, <2>2
  <2>5. a.ack = k.ack /\ a.sequence = k.sequence
    BY <1>4, <2>3 DEF ConnOf
  <2> QED BY <1>4, <1>6, <2>3, <2>4, <2>5 DEF q
<1>7. CASE p.kind # "CLOSE" /\ r2.c.state # "ONLINE"
  <2>1. q = r2
    BY <1>3, <1>7
  <2>2. Released(k.buffer, k.buffer, p.ack)
    BY NothingReleased DEF ConnOf
  <2> QED BY <1>4, <1>7, <2>1, <2>2 DEF q
<1> QED BY <1>5, <1>6, <1>7

-----------------------------------------------------------------------------
(* The network.                                                            *)
LEMMA InTransitKeeps ==
  ASSUME NEW P, NEW e \in Ends, NEW packets \in Seq(P), NEW conns, NEW count
  PROVE  InTransit(e, packets, conns, count) \in Seq({p \in P : Fresh(e, p, count)})
<1> DEFINE Q == {p \in P : Fresh(e, p, count)}
           kept == Each(LAMBDA s, p : IF Fresh(e, p, count) /\ Heard(p, conns[Peer(e)])
                                      THEN Append(s, p) ELSE s, << >>, packets)
<1>1. kept = KeepAll(e, conns, count, << >>, packets)
  BY DEF Keep, KeepAll, Each
<1>2. \A s \in Seq(Q), p \in P : Keep(e, conns, count, s, p) \in Seq(Q)
  <2> SUFFICES ASSUME NEW s \in Seq(Q), NEW p \in P, Fresh(e, p, count)
               PROVE  Append(s, p) \in Seq(Q)
    BY DEF Keep
  <2>1. p \in Q
    OBVIOUS
  <2> HIDE DEF Q
  <2> QED BY <2>1
<1>3. kept \in Seq(Q)
  <2>1. << >> \in Seq(Q)
    OBVIOUS
  <2> HIDE DEF Q, kept
  <2> QED BY <1>1, <1>2, <2>1, EachKeep
<1> HIDE DEF Q
<1>4. InFlight[e] \in Nat \ {0}
  BY ConnAssumption
<1>5. Len(kept) > InFlight[e] =>
        SubSeq(kept, Len(kept) - InFlight[e] + 1, Len(kept)) \in Seq(Q)
  <2> HIDE DEF kept
  <2>1. \A m \in 1 .. Len(kept) : SubSeq(kept, m, Len(kept)) \in Seq(Q)
    BY <1>3
  <2>2. Len(kept) > InFlight[e] => Len(kept) - InFlight[e] + 1 \in 1 .. Len(kept)
    BY <1>3, <1>4
  <2> QED BY <2>1, <2>2
<1>6. InTransit(e, packets, conns, count) =
        IF Len(kept) > InFlight[e]
        THEN SubSeq(kept, Len(kept) - InFlight[e] + 1, Len(kept)) ELSE kept
  BY DEF InTransit
<1> HIDE DEF kept
<1> QED BY <1>3, <1>5, <1>6 DEF Q

LEMMA ConcatIn ==
  ASSUME NEW S, NEW s \in Seq(S), NEW t \in Seq(S)
  PROVE  s \o t \in Seq(S)
<1>1. /\ Len(s \o t) = Len(s) + Len(t) /\ DOMAIN (s \o t) = 1 .. Len(s \o t)
      /\ \A i \in 1 .. Len(s \o t) :
           (s \o t)[i] = IF i <= Len(s) THEN s[i] ELSE t[i - Len(s)]
  OBVIOUS
<1>2. \A i \in 1 .. Len(s \o t) : (s \o t)[i] \in S
  BY <1>1
<1> QED BY <1>1, <1>2

(* A packet as Transmit sends it.                                          *)
Stamped(p, n) == [p EXCEPT !.acked = IF p.kind = "CONNECTACCEPT" THEN 0 ELSE n]

Acked(e) == IF conn[e].state = "OFFLINE" THEN 0 ELSE Len(rcvd[e])

Carried(P, count) ==
  /\ net' = [d \in Ends |-> net'[d]]
  /\ \A d \in Ends : net'[d] \in Seq({p \in P[d] : Fresh(d, p, count)})

LEMMA TransmitKeeps ==
  ASSUME NEW flying, NEW e \in Ends, NEW O, NEW out \in Seq(O), NEW conns, NEW count,
         Transmit(flying, e, out, conns, count),
         NEW P, \A d \in Ends : flying[d] \in Seq(P[d]),
         \A p \in O : Stamped(p, Acked(e)) \in P[e]
  PROVE  Carried(P, count)
<1> DEFINE new == [i \in DOMAIN out |-> Stamped(out[i], Acked(e))]
           both == flying[e] \o new
<1>1. new \in Seq(P[e])
  <2>1. DOMAIN out = 1 .. Len(out) /\ Len(out) \in Nat /\ \A i \in 1 .. Len(out) : out[i] \in O
    OBVIOUS
  <2> QED BY <2>1
<1>2. both \in Seq(P[e])
  <2>1. flying[e] \in Seq(P[e])
    OBVIOUS
  <2> HIDE DEF new
  <2> QED BY <1>1, <2>1, ConcatIn
<1>3. net' = [d \in Ends |-> InTransit(d, IF d = e THEN both ELSE flying[d], conns, count)]
  BY DEF Transmit, Stamped, Acked
<1> HIDE DEF both
<1>4. ASSUME NEW d \in Ends PROVE net'[d] \in Seq({p \in P[d] : Fresh(d, p, count)})
  <2>1. PICK s : s = IF d = e THEN both ELSE flying[d]
    OBVIOUS
  <2>2. s \in Seq(P[d])
    BY <1>2, <2>1
  <2>3. net'[d] = InTransit(d, s, conns, count)
    BY <1>3, <2>1
  <2> QED BY <2>2, <2>3, InTransitKeeps
<1> QED BY <1>3, <1>4 DEF Carried

-----------------------------------------------------------------------------
(* Sending a vital chunk, and closing.                                     *)
LEMMA ResetIn == ASSUME NEW C PROVE Reset \in ConnOf(C) /\ DirectInit \in ConnOf(C)
<1>1. 0 \in SeqNumbers
  BY SequenceAssumption DEF SeqNumbers
<1>2. << >> \in Seq(C)
  OBVIOUS
<1>3. Reset \in ConnOf(C)
  BY <1>1, <1>2 DEF Reset, ConnOf, States
<1>4. DirectInit \in ConnOf(C)
  <2> HIDE DEF Reset
  <2> QED BY <1>3 DEF DirectInit, ConnOf, States
<1> QED BY <1>3, <1>4

LEMMA DisconnectRuns ==
  ASSUME NEW C, NEW a, NEW c \in ConnOf(C), NEW out \in Seq(Out(C, a)), NEW quiet,
         NEW q, q = Disconnect([c |-> c, out |-> out], quiet)
  PROVE  /\ q = [c |-> q.c, out |-> q.out]
         /\ q.out \in Seq(Out(C, a))
         /\ q.c \in ConnOf(C) /\ q.c.state = "OFFLINE"
<1> DEFINE p == Packet("CLOSE", c, << >>, FALSE)
<1>1. p \in Out(C, a)
  BY DEF Packet, Out, PacketOf, ConnOf, Kinds
<1>2. \/ q = [c |-> c, out |-> out] /\ c.state = "OFFLINE"
      \/ q = [c |-> Reset, out |-> out]
      \/ q = [c |-> Reset, out |-> Append(out, p)]
  BY DEF Disconnect, SendControl
<1> HIDE DEF p
<1>3. Append(out, p) \in Seq(Out(C, a))
  BY <1>1
<1>4. Reset \in ConnOf(C) /\ Reset.state = "OFFLINE"
  BY ResetIn DEF Reset
<1>5. PICK c2, out2 : q = [c |-> c2, out |-> out2] /\ c2 \in ConnOf(C)
                      /\ c2.state = "OFFLINE" /\ out2 \in Seq(Out(C, a))
  BY <1>2, <1>3, <1>4
<1> QED BY <1>5

LEMMA NextSequence ==
  ASSUME NEW n \in SeqNumbers
  PROVE  (n + 1) % NET_MAX_SEQUENCE \in SeqNumbers
<1>1. n + 1 \in Nat
  BY SequenceAssumption DEF SeqNumbers
<1> QED BY <1>1, DivMod DEF SeqNumbers, M

LEMMA QueueVitalRuns ==
  ASSUME NEW C, NEW c \in ConnOf(C), NEW n, NEW chunk \in C,
         chunk = [seq |-> (c.sequence + 1) % NET_MAX_SEQUENCE, data |-> n],
         NEW q, q = QueueVital(Run(c), n)
  PROVE  /\ q.out \in Seq(Out(C, c.ack))
         /\ q.c \in ConnOf(C) /\ q.c.state = c.state /\ q.c.ack = c.ack
         /\ q.c.sequence = chunk.seq
         /\ q.c.buffer = IF c.state \in {"OFFLINE", "ERROR"} \/ Len(c.buffer) = BufferSize
                         THEN c.buffer ELSE Append(c.buffer, chunk)
<1> DEFINE k == [c EXCEPT !.sequence = chunk.seq]
           r == [c |-> k, out |-> << >>]
           p == Pack(r, chunk)
<1>1. (c.sequence + 1) % NET_MAX_SEQUENCE \in SeqNumbers
  BY NextSequence DEF ConnOf
<1>2. /\ k \in ConnOf(C) /\ k.state = c.state /\ k.ack = c.ack /\ k.buffer = c.buffer
      /\ k.sequence = chunk.seq
  BY <1>1 DEF ConnOf
<1>3. [Run(c) EXCEPT !.c.sequence = chunk.seq] = r
  BY DEF Run
<1>4. q = IF c.state \in {"OFFLINE", "ERROR"} \/ Len(c.buffer) = BufferSize THEN p
          ELSE [p EXCEPT !.c.buffer = Append(@, chunk)]
  BY <1>3 DEF QueueVital, Run
<1>5. chunk \in C
  OBVIOUS
<1>6. c.buffer \in Seq(C)
  BY DEF ConnOf
<1> HIDE DEF k
<1>7. r \in Runs(k, C)
  <2>1. k \in Kin(k, C) /\ << >> \in Seq(Out(C, k.ack))
    BY <1>2 DEF Kin
  <2> QED BY <2>1, RunIs
<1>8. p \in Runs(k, C)
  <2> HIDE DEF r
  <2> QED BY <1>5, <1>7, PackRuns
<1> HIDE DEF p
<1>9. CASE c.state \in {"OFFLINE", "ERROR"} \/ Len(c.buffer) = BufferSize
  <2>1. q = p
    BY <1>4, <1>9
  <2> QED BY <1>2, <1>8, <1>9, <2>1, RunParts
<1>10. CASE ~(c.state \in {"OFFLINE", "ERROR"} \/ Len(c.buffer) = BufferSize)
  <2>1. q = [p EXCEPT !.c.buffer = Append(@, chunk)]
    BY <1>4, <1>10
  <2>2. p.c.buffer = c.buffer
    BY <1>2, <1>8, RunParts
  <2>3. Append(c.buffer, chunk) \in Seq(C)
    BY <1>5, <1>6
  <2>4. p.c \in Kin(k, C) /\ p.out \in Seq(Out(C, k.ack)) /\ p = [c |-> p.c, out |-> p.out]
    BY <1>8 DEF Runs
  <2>5. q = [c |-> [p.c EXCEPT !.buffer = Append(c.buffer, chunk)], out |-> p.out]
    BY <2>1, <2>2, <2>4
  <2>6. PICK b : b = Append(c.buffer, chunk)
    OBVIOUS
  <2>7. /\ q.out \in Seq(Out(C, k.ack))
        /\ q.c \in ConnOf(C) /\ q.c.state = k.state /\ q.c.ack = k.ack
        /\ q.c.sequence = k.sequence /\ q.c.buffer = b
    <3>1. q.c = [p.c EXCEPT !.buffer = b] /\ q.out = p.out /\ b \in Seq(C)
      BY <2>3, <2>5, <2>6
    <3> QED BY <2>4, <3>1 DEF Kin, ConnOf
  <2> QED BY <1>2, <1>10, <2>6, <2>7
<1> QED BY <1>9, <1>10

-----------------------------------------------------------------------------
(* The unpacking of a packet's chunks at an end that has L of the S chunks *)
(* its peer has queued.                                                    *)
Unpacked(k, C, L, S) ==
  {u \in [c : ConnOf(C), got : Seq(Nat)] :
     /\ u.c.state = k.state /\ u.c.sequence = k.sequence /\ u.c.buffer = k.buffer
     /\ u.c.ack = ChunkSeq(L + Len(u.got))
     /\ L + Len(u.got) <= S
     /\ \A j \in 1 .. Len(u.got) : u.got[j] = L + j}

Arriving(L, S) ==
  {q \in Chunks : /\ q.data \in 1 .. S /\ q.seq = ChunkSeq(q.data)
                  /\ S - q.data < ChunkSpan /\ q.data <= L + BufferSize}

LEMMA ChunkUnpacks ==
  ASSUME NEW k, NEW C, NEW L \in Nat, NEW S \in Nat,
         NEW u \in Unpacked(k, C, L, S), NEW q \in Arriving(L, S)
  PROVE  UnpackChunk(u, q) \in Unpacked(k, C, L, S)
<1> DEFINE l == L + Len(u.got)
           v == [c |-> [u.c EXCEPT !.ack = q.seq], got |-> Append(u.got, q.data)]
           w == [u EXCEPT !.c.resendFlag = TRUE]
<1>1. /\ u \in [c : ConnOf(C), got : Seq(Nat)] /\ u.c \in ConnOf(C) /\ u.got \in Seq(Nat)
      /\ u.c.state = k.state /\ u.c.sequence = k.sequence /\ u.c.buffer = k.buffer
      /\ u.c.ack = ChunkSeq(l) /\ l \in Nat /\ L <= l /\ l <= S
      /\ \A j \in 1 .. Len(u.got) : u.got[j] = L + j
  BY DEF Unpacked
<1>2. /\ q.data \in Nat /\ q.seq \in SeqNumbers /\ q.seq = ChunkSeq(q.data)
      /\ q.data <= S /\ S - q.data < ChunkSpan /\ q.data <= L + BufferSize
  BY DEF Arriving, Chunks
<1>3. w \in Unpacked(k, C, L, S)
  BY DEF Unpacked, ConnOf
<1>4. CASE q.seq = (u.c.ack + 1) % NET_MAX_SEQUENCE
  <2>1. /\ M \in Nat /\ M > 1 /\ BufferSize < M /\ ChunkSpan < M
        /\ ChunkSpan \in Nat /\ BufferSize \in Nat
    BY SequenceAssumption DEF M
  <2>2. q.data % M = (l + 1) % M
    <3>1. (l + 1) % M = ((l % M) + 1) % M
      BY <1>1, ModSucc
    <3> HIDE DEF l
    <3> QED BY <1>1, <1>2, <1>4, <3>1 DEF ChunkSeq, M
  <2>3. q.data = l + 1
    <3> HIDE DEF l
    <3>1. q.data - (l + 1) < M /\ (l + 1) - q.data < M /\ l + 1 \in Nat
      BY <1>1, <1>2, <2>1
    <3> QED BY <1>2, <2>2, <3>1, SameNumber
  <2>4. Append(u.got, q.data) \in Seq(Nat) /\ Len(Append(u.got, q.data)) = Len(u.got) + 1
    BY <1>1, <1>2
  <2>5. \A j \in 1 .. Len(u.got) + 1 : Append(u.got, q.data)[j] = L + j
    <3>1. Len(u.got) \in Nat
      BY <1>1
    <3> QED BY <1>1, <2>3, <3>1
  <2>6. [u.c EXCEPT !.ack = q.seq] \in ConnOf(C)
    BY <1>1, <1>2 DEF ConnOf
  <2>7. PICK g : g = Append(u.got, q.data)
    OBVIOUS
  <2>8. v = [c |-> [u.c EXCEPT !.ack = q.seq], got |-> g]
    BY <2>7
  <2> HIDE DEF v
  <2>9. /\ v \in [c : ConnOf(C), got : Seq(Nat)] /\ v.got = g
        /\ v.c.state = k.state /\ v.c.sequence = k.sequence /\ v.c.buffer = k.buffer
        /\ v.c.ack = q.seq
    <3>1. v \in [c : ConnOf(C), got : Seq(Nat)] /\ v.got = g
      BY <2>4, <2>6, <2>7, <2>8
    <3>2. v.c = [u.c EXCEPT !.ack = q.seq]
      BY <2>8
    <3> QED BY <1>1, <3>1, <3>2 DEF ConnOf
  <2>10. Len(g) = Len(u.got) + 1 /\ \A j \in 1 .. Len(g) : g[j] = L + j
    BY <2>4, <2>5, <2>7
  <2>11. q.data = L + Len(g) /\ L + Len(g) <= S
    <3>1. Len(u.got) \in Nat
      BY <1>1
    <3> QED BY <1>2, <2>3, <2>10, <3>1
  <2>12. v \in Unpacked(k, C, L, S)
    BY <1>2, <2>9, <2>10, <2>11 DEF Unpacked
  <2>13. UnpackChunk(u, q) = v
    BY <1>4 DEF UnpackChunk, v
  <2> QED BY <2>12, <2>13
<1>5. CASE q.seq # (u.c.ack + 1) % NET_MAX_SEQUENCE
  BY <1>3, <1>5 DEF UnpackChunk
<1> QED BY <1>4, <1>5

LEMMA ChunksUnpack ==
  ASSUME NEW C, NEW k \in ConnOf(C), NEW L \in Nat, NEW S \in Nat,
         k.ack = ChunkSeq(L), L <= S, NEW s \in Seq(Arriving(L, S))
  PROVE  Each(UnpackChunk, [c |-> k, got |-> << >>], s) \in Unpacked(k, C, L, S)
<1>1. [c |-> k, got |-> << >>] \in Unpacked(k, C, L, S)
  BY DEF Unpacked
<1>2. \A u \in Unpacked(k, C, L, S), q \in Arriving(L, S) : UnpackChunk(u, q) \in Unpacked(k, C, L, S)
  BY ChunkUnpacks
<1> QED BY <1>1, <1>2, EachUnpack

-----------------------------------------------------------------------------
(* The inductive invariant. Of an end that has queued s chunks, l of which *)
(* the peer has, and that has r chunks of the peer:                        *)
(* the chunks it may still hold or have in flight,                         *)
GoodChunks(s, l) ==
  {k \in Chunks : k.data \in 1 .. s /\ k.seq = ChunkSeq(k.data) /\ k.data <= l + BufferSize}

(* the packets it may have sent,                                           *)
Sendable(s, l, r) ==
  {p \in PacketOf(GoodChunks(s, l)) :
     p.kind # "CLOSE" => p.ack = ChunkSeq(p.acked) /\ p.acked <= r}

(* and its connection: the resend buffer is the tail of what it queued and *)
(* reaches back to what the peer has.                                      *)
Linked(c, s, l, r) ==
  /\ c.sequence = ChunkSeq(s) /\ c.ack = ChunkSeq(r)
  /\ Len(c.buffer) <= BufferSize /\ Len(c.buffer) <= s /\ s - Len(c.buffer) <= l
  /\ \A i \in 1 .. Len(c.buffer) : /\ c.buffer[i].data = s - Len(c.buffer) + i
                                   /\ c.buffer[i].seq = ChunkSeq(s - Len(c.buffer) + i)

Live == {"CONNECT", "ONLINE"}
Has(e) == Len(rcvd[e])
Good(e) == GoodChunks(sent[e], Has(Peer(e)))
Flying(d) == {p \in Sendable(sent[d], Has(Peer(d)), Has(d)) : Fresh(d, p, sent)}

SafeInv ==
  \A e \in Ends :
    /\ Has(e) <= sent[Peer(e)]
    /\ \A i \in 1 .. Has(e) : rcvd[e][i] = i
    /\ conn[e] \in ConnOf(Good(e))
    /\ conn[e].state \in Live => Linked(conn[e], sent[e], Has(Peer(e)), Has(e))
    /\ net[e] \in Seq(Flying(e))

IInv == TypeOK /\ (broken = {} => SafeInv)

-----------------------------------------------------------------------------
LEMMA EndsAre ==
  ASSUME NEW e \in Ends
  PROVE  /\ Peer(e) \in Ends /\ Peer(Peer(e)) = e /\ Peer(e) # e
         /\ \A d \in Ends : d = e \/ d = Peer(e)
BY ConnAssumption DEF Ends, Peer

LEMMA SeqSub ==
  ASSUME NEW S, NEW T, S \subseteq T, NEW s \in Seq(S)
  PROVE  s \in Seq(T)
OBVIOUS

LEMMA GoodGrows ==
  ASSUME NEW s \in Nat, NEW l \in Nat, NEW s2 \in Nat, NEW l2 \in Nat, s <= s2, l <= l2
  PROVE  GoodChunks(s, l) \subseteq GoodChunks(s2, l2) /\ GoodChunks(s, l) \subseteq Chunks
BY SequenceAssumption DEF GoodChunks, Chunks

LEMMA ConnGrows ==
  ASSUME NEW C, NEW D, C \subseteq D
  PROVE  ConnOf(C) \subseteq ConnOf(D) /\ PacketOf(C) \subseteq PacketOf(D)
<1>1. Seq(C) \subseteq Seq(D)
  BY SeqSub
<1> QED BY <1>1 DEF ConnOf, PacketOf

LEMMA OutGrows ==
  ASSUME NEW C, NEW D, C \subseteq D, NEW a
  PROVE  Seq(Out(C, a)) \subseteq Seq(Out(D, a))
<1>1. Out(C, a) \subseteq Out(D, a)
  BY ConnGrows DEF Out
<1> QED BY <1>1, SeqSub

LEMMA SendableGrows ==
  ASSUME NEW s \in Nat, NEW l \in Nat, NEW r \in Nat,
         NEW s2 \in Nat, NEW l2 \in Nat, NEW r2 \in Nat, s <= s2, l <= l2, r <= r2
  PROVE  Sendable(s, l, r) \subseteq Sendable(s2, l2, r2)
<1>1. PacketOf(GoodChunks(s, l)) \subseteq PacketOf(GoodChunks(s2, l2))
  BY GoodGrows, ConnGrows
<1>2. \A p \in PacketOf(GoodChunks(s, l)) : p.acked \in Nat
  BY DEF PacketOf
<1> QED BY <1>1, <1>2 DEF Sendable

LEMMA StampedSendable ==
  ASSUME NEW s, NEW l, NEW r \in Nat, NEW n \in Nat, n <= r,
         NEW p \in Out(GoodChunks(s, l), ChunkSeq(n))
  PROVE  Stamped(p, n) \in Sendable(s, l, r)
<1>1. ChunkSeq(0) = 0
  BY SequenceAssumption DEF ChunkSeq
<1>2. p \in PacketOf(GoodChunks(s, l))
  BY DEF Out
<1>3. Stamped(p, n) \in PacketOf(GoodChunks(s, l))
  BY <1>2 DEF Stamped, PacketOf
<1>4. /\ Stamped(p, n).kind = p.kind /\ Stamped(p, n).ack = p.ack
      /\ Stamped(p, n).acked = IF p.kind = "CONNECTACCEPT" THEN 0 ELSE n
  BY <1>2 DEF Stamped, PacketOf
<1> QED BY <1>1, <1>3, <1>4 DEF Sendable, Out

LEMMA StampedPacket ==
  ASSUME NEW a, NEW n \in Nat, NEW p \in Out(Chunks, a)
  PROVE  Stamped(p, n) \in Packets
BY DEF Out, Stamped, PacketOf, Packets, Kinds

LEMMA TypesOf ==
  ASSUME TypeOK
  PROVE  /\ sent \in [Ends -> Nat] /\ rcvd \in [Ends -> Seq(Nat)]
         /\ conn \in [Ends -> ConnOf(Chunks)] /\ net \in [Ends -> Seq(PacketOf(Chunks))]
         /\ \A e \in Ends : /\ Has(e) \in Nat /\ sent[e] \in Nat
                            /\ Acked(e) \in Nat /\ Acked(e) <= Has(e)
<1>1. Packets = PacketOf(Chunks)
  BY DEF PacketOf, Packets, Kinds
<1>2. conn \in [Ends -> ConnOf(Chunks)]
  BY DEF TypeOK, ConnOf
<1>3. /\ sent \in [Ends -> Nat] /\ rcvd \in [Ends -> Seq(Nat)]
      /\ net \in [Ends -> Seq(PacketOf(Chunks))]
  BY <1>1 DEF TypeOK
<1>4. ASSUME NEW e \in Ends
      PROVE  /\ Has(e) \in Nat /\ sent[e] \in Nat
             /\ Acked(e) \in Nat /\ Acked(e) <= Has(e)
  <2>1. rcvd[e] \in Seq(Nat) /\ Len(rcvd[e]) \in Nat /\ sent[e] \in Nat
    BY <1>3
  <2> QED BY <2>1 DEF Has, Acked
<1> QED BY <1>2, <1>3, <1>4

(* The types after a handler at e.                                         *)
LEMMA StepTypes ==
  ASSUME TypeOK, NEW e \in Ends, NEW c \in ConnOf(Chunks), conn' = [conn EXCEPT ![e] = c],
         NEW a, NEW out \in Seq(Out(Chunks, a)),
         NEW flying, \A d \in Ends : flying[d] \in Seq(Packets),
         Transmit(flying, e, out, conn', sent'),
         session' = session, sent' \in [Ends -> Nat], rcvd' \in [Ends -> Seq(Nat)],
         broken' \subseteq {"out of buffer", "rejoin", "stale construct"}
  PROVE  TypeOK'
<1> DEFINE P == [d \in Ends |-> Packets]
<1>1. Acked(e) \in Nat
  BY TypesOf
<1>2. \A d \in Ends : P[d] = Packets
  OBVIOUS
<1> HIDE DEF P
<1>3. \A p \in Out(Chunks, a) : Stamped(p, Acked(e)) \in P[e]
  BY <1>1, <1>2, StampedPacket
<1>4. Carried(P, sent')
  <2>1. \A d \in Ends : flying[d] \in Seq(P[d])
    BY <1>2
  <2> QED BY <1>3, <2>1, TransmitKeeps
<1>5. \A d \in Ends : net'[d] \in Seq(Packets)
  <2> SUFFICES ASSUME NEW d \in Ends PROVE net'[d] \in Seq(Packets)
    OBVIOUS
  <2>1. {p \in P[d] : Fresh(d, p, sent')} \subseteq Packets
    BY <1>2
  <2> QED BY <1>4, <2>1, SeqSub DEF Carried
<1>6. net' \in [Ends -> Seq(Packets)]
  BY <1>4, <1>5 DEF Carried
<1>7. conn' \in [Ends -> ConnOf(Chunks)]
  BY TypesOf
<1> QED BY <1>6, <1>7 DEF TypeOK, ConnOf

LEMMA FlyingPackets ==
  ASSUME NEW flying, \A d \in Ends : flying[d] \in Seq(Flying(d))
  PROVE  \A d \in Ends : flying[d] \in Seq(Packets)
<1> SUFFICES ASSUME NEW d \in Ends PROVE flying[d] \in Seq(Packets)
  OBVIOUS
<1>1. GoodChunks(sent[d], Has(Peer(d))) \subseteq Chunks
  BY DEF GoodChunks
<1>2. PacketOf(GoodChunks(sent[d], Has(Peer(d)))) \subseteq PacketOf(Chunks)
  BY <1>1, ConnGrows
<1>3. Flying(d) \subseteq Packets
  BY <1>2 DEF Flying, Sendable, PacketOf, Packets, Kinds
<1> QED BY <1>3, SeqSub

(* A handler at e queues the chunks up to the s-th, hands out the payloads *)
(* g, leaves the connection c and sends the packets out.                   *)
LEMMA StepKeeps ==
  ASSUME IInv, broken = {}, broken' = {}, session' = session, NEW e \in Ends,
         NEW s \in Nat, sent[e] <= s, sent' = [sent EXCEPT ![e] = s],
         NEW g \in Seq(Nat), rcvd' = [rcvd EXCEPT ![e] = @ \o g],
         Has(e) + Len(g) <= sent[Peer(e)],
         \A j \in 1 .. Len(g) : g[j] = Has(e) + j,
         NEW c \in ConnOf(GoodChunks(s, Has(Peer(e)))), conn' = [conn EXCEPT ![e] = c],
         c.state \in Live => Linked(c, s, Has(Peer(e)), Has(e) + Len(g)),
         NEW out \in Seq(Out(GoodChunks(s, Has(Peer(e))), ChunkSeq(Acked(e)))),
         NEW flying, \A d \in Ends : flying[d] \in Seq(Flying(d)),
         Transmit(flying, e, out, conn', sent')
  PROVE  IInv'
<1> DEFINE f == Peer(e)
           l == Has(f)
           r == Has(e)
           r2 == Has(e) + Len(g)
           P == [d \in Ends |-> Sendable(sent'[d], Has(Peer(d)), Has(d))]
<1>1. /\ f \in Ends /\ Peer(f) = e /\ f # e /\ \A d \in Ends : d = e \/ d = f
      /\ sent \in [Ends -> Nat] /\ rcvd \in [Ends -> Seq(Nat)]
      /\ conn \in [Ends -> ConnOf(Chunks)] /\ net \in [Ends -> Seq(PacketOf(Chunks))]
      /\ TypeOK /\ SafeInv
  BY EndsAre, TypesOf DEF IInv
<1>2. /\ l \in Nat /\ r \in Nat /\ r2 \in Nat /\ r <= r2 /\ sent[e] \in Nat /\ sent[f] \in Nat
      /\ Acked(e) \in Nat /\ Acked(e) <= r /\ r2 <= sent[f] /\ Len(g) \in Nat
  BY <1>1, TypesOf
<1>3. /\ sent'[e] = s /\ sent'[f] = sent[f] /\ conn'[e] = c /\ conn'[f] = conn[f]
      /\ rcvd'[e] = rcvd[e] \o g /\ rcvd'[f] = rcvd[f]
      /\ sent' \in [Ends -> Nat]
  BY <1>1
<1>4. /\ rcvd'[e] \in Seq(Nat) /\ Len(rcvd'[e]) = r2
      /\ \A i \in 1 .. r2 : rcvd'[e][i] = IF i <= r THEN rcvd[e][i] ELSE g[i - r]
  <2>1. PICK a \in Seq(Nat) : a = rcvd[e]
    BY <1>1
  <2>2. /\ a \o g \in Seq(Nat) /\ Len(a \o g) = Len(a) + Len(g)
        /\ \A i \in 1 .. Len(a) + Len(g) : (a \o g)[i] = IF i <= Len(a) THEN a[i] ELSE g[i - Len(a)]
    BY ConcatIn
  <2>3. r = Len(a)
    BY <2>1 DEF Has
  <2> QED BY <1>3, <2>1, <2>2, <2>3
<1>5. Has(e)' = r2 /\ Has(f)' = l
  BY <1>3, <1>4 DEF Has
<1>6. GoodChunks(s, l) \subseteq Chunks /\ GoodChunks(sent[f], r) \subseteq GoodChunks(sent[f], r2)
  BY <1>2, GoodGrows
<1> HIDE DEF f, l, r, r2
<1>7. TypeOK'
  <2>1. c \in ConnOf(Chunks)
    BY <1>6, ConnGrows DEF l, f
  <2>2. out \in Seq(Out(Chunks, ChunkSeq(Acked(e))))
    BY <1>6, OutGrows DEF l, f
  <2>3. \A d \in Ends : flying[d] \in Seq(Packets)
    BY FlyingPackets
  <2>4. rcvd' \in [Ends -> Seq(Nat)]
    BY <1>1, <1>3, <1>4
  <2> QED BY <1>1, <1>3, <2>1, <2>2, <2>3, <2>4, StepTypes
<1>8. Carried(P, sent')
  <2>1. /\ P[e] = Sendable(s, l, r) /\ P[f] = Sendable(sent[f], r, l)
    BY <1>1, <1>3 DEF l, r, f
  <2>2. \A d \in Ends : flying[d] \in Seq(P[d])
    <3>1. Flying(e) \subseteq P[e]
      <4>1. Sendable(sent[e], l, r) \subseteq Sendable(s, l, r)
        <5>1. l <= l /\ r <= r /\ sent[e] <= s
          BY <1>2
        <5> QED BY <1>2, <5>1, SendableGrows
      <4> QED BY <2>1, <4>1 DEF Flying, l, r, f
    <3>2. Flying(f) \subseteq P[f]
      <4>1. Flying(f) \subseteq Sendable(sent[f], r, l)
        BY <1>1 DEF Flying, l, r
      <4> QED BY <2>1, <4>1
    <3> HIDE DEF P
    <3>3. flying[e] \in Seq(P[e]) /\ flying[f] \in Seq(P[f])
      <4>1. flying[e] \in Seq(Flying(e)) /\ flying[f] \in Seq(Flying(f))
        BY <1>1
      <4> QED BY <3>1, <3>2, <4>1, SeqSub
    <3> QED BY <1>1, <3>3
  <2> HIDE DEF P
  <2>3. \A p \in Out(GoodChunks(s, l), ChunkSeq(Acked(e))) : Stamped(p, Acked(e)) \in P[e]
    BY <1>2, <2>1, StampedSendable
  <2>4. out \in Seq(Out(GoodChunks(s, l), ChunkSeq(Acked(e))))
    BY DEF l, f
  <2> QED BY <2>2, <2>3, <2>4, TransmitKeeps
<1>9. net'[e] \in Seq(Flying(e)') /\ net'[f] \in Seq(Flying(f)')
  <2>1. /\ P[e] = Sendable(s, l, r) /\ P[f] = Sendable(sent[f], r, l)
    BY <1>1, <1>3 DEF l, r, f
  <2> HIDE DEF P
  <2>2. /\ Flying(e)' = {p \in Sendable(s, l, r2) : Fresh(e, p, sent')}
        /\ Flying(f)' = {p \in Sendable(sent[f], r2, l) : Fresh(f, p, sent')}
    BY <1>1, <1>3, <1>5 DEF Flying, f
  <2>3. /\ Sendable(s, l, r) \subseteq Sendable(s, l, r2)
        /\ Sendable(sent[f], r, l) \subseteq Sendable(sent[f], r2, l)
    <3>1. s <= s /\ l <= l /\ r <= r2 /\ sent[f] <= sent[f]
      BY <1>2
    <3>2. Sendable(s, l, r) \subseteq Sendable(s, l, r2)
      BY <1>2, <3>1, SendableGrows
    <3>3. Sendable(sent[f], r, l) \subseteq Sendable(sent[f], r2, l)
      BY <1>2, <3>1, SendableGrows
    <3> QED BY <3>2, <3>3
  <2>4. /\ {p \in P[e] : Fresh(e, p, sent')} \subseteq Flying(e)'
        /\ {p \in P[f] : Fresh(f, p, sent')} \subseteq Flying(f)'
    BY <2>1, <2>2, <2>3
  <2>5. /\ net'[e] \in Seq({p \in P[e] : Fresh(e, p, sent')})
        /\ net'[f] \in Seq({p \in P[f] : Fresh(f, p, sent')})
    BY <1>1, <1>8 DEF Carried
  <2> QED BY <2>4, <2>5, SeqSub
<1> DEFINE Fine(d) == /\ Has(d) <= sent[Peer(d)]
                      /\ \A i \in 1 .. Has(d) : rcvd[d][i] = i
                      /\ conn[d] \in ConnOf(Good(d))
                      /\ conn[d].state \in Live => Linked(conn[d], sent[d], Has(Peer(d)), Has(d))
                      /\ net[d] \in Seq(Flying(d))
<1>10. Fine(e) /\ Fine(f)
  BY <1>1 DEF SafeInv
<1>11. Fine(e)'
  <2>1. (Has(e) <= sent[Peer(e)])'
    BY <1>2, <1>3, <1>5 DEF f
  <2>2. (\A i \in 1 .. Has(e) : rcvd[e][i] = i)'
    <3> SUFFICES ASSUME NEW i \in 1 .. r2 PROVE rcvd'[e][i] = i
      BY <1>5
    <3>1. CASE i <= r
      <4>1. i \in 1 .. r /\ rcvd'[e][i] = rcvd[e][i]
        BY <1>2, <1>4, <3>1
      <4> QED BY <1>10, <4>1 DEF r
    <3>2. CASE ~(i <= r)
      <4>1. i - r \in 1 .. Len(g) /\ r + (i - r) = i
        BY <1>2, <3>2 DEF r2, r
      <4>2. g[i - r] = r + (i - r)
        BY <4>1 DEF r
      <4> QED BY <1>4, <3>2, <4>1, <4>2
    <3> QED BY <3>1, <3>2
  <2>3. (conn[e] \in ConnOf(Good(e)))'
    BY <1>3, <1>5 DEF Good, f, l
  <2>4. (conn[e].state \in Live => Linked(conn[e], sent[e], Has(Peer(e)), Has(e)))'
    <3>1. c.state \in Live => Linked(c, s, l, r2)
      BY DEF l, r2, f
    <3>2. Has(Peer(e))' = l
      BY <1>5 DEF f
    <3> QED BY <1>3, <1>5, <3>1, <3>2 DEF Live, Linked
  <2> QED BY <1>9, <2>1, <2>2, <2>3, <2>4
<1>12. Fine(f)'
  <2>1. (Has(f) <= sent[Peer(f)])'
    <3>1. Has(f) <= sent[e]
      BY <1>1, <1>10
    <3> QED BY <1>1, <1>2, <1>3, <1>5, <3>1 DEF l
  <2>2. (\A i \in 1 .. Has(f) : rcvd[f][i] = i)'
    BY <1>3, <1>5, <1>10 DEF l
  <2>3. (conn[f] \in ConnOf(Good(f)))'
    <3>1. conn[f] \in ConnOf(GoodChunks(sent[f], r))
      BY <1>1, <1>10 DEF Good, r
    <3>2. conn[f] \in ConnOf(GoodChunks(sent[f], r2))
      BY <1>6, <3>1, ConnGrows
    <3> QED BY <1>1, <1>3, <1>5, <3>2 DEF Good
  <2>4. (conn[f].state \in Live => Linked(conn[f], sent[f], Has(Peer(f)), Has(f)))'
    <3>1. conn[f].state \in Live => Linked(conn[f], sent[f], r, l)
      BY <1>1, <1>10 DEF r, l
    <3>2. conn[f].state \in Live => Linked(conn[f], sent[f], r2, l)
      <4>1. conn[f].buffer \in Seq(Chunks)
        BY <1>1 DEF ConnOf
      <4> QED BY <1>2, <3>1, <4>1 DEF Linked
    <3>3. Has(Peer(f))' = r2
      BY <1>1, <1>5
    <3> QED BY <1>3, <1>5, <3>2, <3>3 DEF Live, Linked
  <2> QED BY <1>9, <2>1, <2>2, <2>3, <2>4
<1>13. SafeInv'
  BY <1>1, <1>11, <1>12 DEF SafeInv
<1> QED BY <1>7, <1>13 DEF IInv

-----------------------------------------------------------------------------
(* A packet at a live connection.                                          *)

(* An ack releases nothing the peer does not have: the first chunk it      *)
(* lacks is newer than the ack by less than half of the sequence space.    *)
LEMMA ReleasedLinked ==
  ASSUME NEW s \in Nat, NEW l \in Nat, NEW r \in Nat, NEW n \in Nat,
         NEW C, NEW c \in ConnOf(C), NEW d \in ConnOf(C), Linked(c, s, l, r),
         d.sequence = c.sequence, d.ack = c.ack,
         n <= l, s - n <= BufferSize + AckDelay,
         Released(c.buffer, d.buffer, ChunkSeq(n))
  PROVE  Linked(d, s, l, r)
<1>1. PICK old \in Seq(C), new \in Seq(C) : old = c.buffer /\ new = d.buffer
  BY DEF ConnOf
<1>2. PICK first \in 1 .. Len(old) + 1 :
        /\ new = SubSeq(old, first, Len(old))
        /\ \A i \in 1 .. first - 1 : IsSeqInBackroom(old[i].seq, ChunkSeq(n))
  BY <1>1 DEF Released
<1>3. PICK j \in Nat : j = Len(old)
  BY <1>1
<1>4. /\ Len(new) = j - first + 1
      /\ \A i \in 1 .. j - first + 1 : new[i] = old[first + i - 1]
  BY <1>2, <1>3
<1>5. /\ j <= BufferSize /\ j <= s /\ s - j <= l
      /\ \A i \in 1 .. j : old[i].data = s - j + i /\ old[i].seq = ChunkSeq(s - j + i)
  BY <1>1, <1>3 DEF Linked
<1>6. s - (j - first + 1) <= l
  <2> DEFINE m == s - j + (first - 1)
  <2> SUFFICES ASSUME m > l PROVE FALSE
    BY <1>2, <1>3, <1>5
  <2>1. first - 1 \in 1 .. first - 1 /\ first - 1 \in 1 .. j /\ m \in Nat /\ m <= s
    BY <1>2, <1>3, <1>5
  <2>2. old[first - 1].seq = ChunkSeq(m)
    BY <1>5, <2>1
  <2>3. IsSeqInBackroom(ChunkSeq(m), ChunkSeq(n))
    BY <1>2, <2>1, <2>2
  <2>4. n < m /\ 2 * (m - n) < M
    <3>1. BufferSize \in Nat /\ AckDelay \in Nat /\ M \in Nat /\ 2 * (BufferSize + AckDelay) < M
      BY SequenceAssumption DEF M
    <3> HIDE DEF m
    <3> QED BY <2>1, <3>1
  <2> HIDE DEF m
  <2> QED BY <2>1, <2>3, <2>4, NewerNotInBackroom
<1>7. \A i \in 1 .. j - first + 1 : /\ new[i].data = s - (j - first + 1) + i
                                    /\ new[i].seq = ChunkSeq(s - (j - first + 1) + i)
  <2> SUFFICES ASSUME NEW i \in 1 .. j - first + 1
               PROVE  /\ new[i].data = s - (j - first + 1) + i
                      /\ new[i].seq = ChunkSeq(s - (j - first + 1) + i)
    OBVIOUS
  <2>1. PICK x \in 1 .. j : x = first + i - 1
    BY <1>2, <1>3
  <2>2. s - j + x = s - (j - first + 1) + i
    BY <1>2, <2>1
  <2> QED BY <1>4, <1>5, <2>1, <2>2
<1>8. j - first + 1 <= BufferSize /\ j - first + 1 <= s
  BY <1>2, <1>3, <1>5, SequenceAssumption
<1> QED BY <1>1, <1>4, <1>6, <1>7, <1>8 DEF Linked

(* The connection after Feed of packet i of the peer, the chunks of it     *)
(* that are unpacked, and the connection after unpacking them.             *)
Fed(e, i, due, reply) ==
  IF FeedAccepts(conn[e], net[Peer(e)][i])
  THEN Feed([c |-> conn[e], out |-> reply], net[Peer(e)][i], due)
  ELSE [c |-> conn[e], out |-> reply]
Taken(e, i, taken) ==
  IF FeedAccepts(conn[e], net[Peer(e)][i]) THEN SubSeq(net[Peer(e)][i].chunks, 1, taken) ELSE << >>
Read(e, i, due, reply, taken) ==
  Each(UnpackChunk, [c |-> Fed(e, i, due, reply).c, got |-> << >>], Taken(e, i, taken))

(* What is true of a packet that has arrived.                              *)
LEMMA ArrivedPacket ==
  ASSUME IInv, broken = {}, NEW e \in Ends, NEW i \in DOMAIN net[Peer(e)], NEW p,
         p = net[Peer(e)][i]
  PROVE  /\ p \in PacketOf(GoodChunks(sent[Peer(e)], Has(e)))
         /\ p.kind # "CLOSE" => p.ack = ChunkSeq(p.acked) /\ p.acked <= Has(Peer(e))
         /\ \A j \in DOMAIN p.chunks : sent[Peer(e)] - p.chunks[j].data < ChunkSpan
         /\ sent[e] - p.acked <= BufferSize + AckDelay
<1> DEFINE f == Peer(e)
<1>1. f \in Ends /\ Peer(f) = e
  BY EndsAre
<1>2. net[f] \in Seq(Flying(f))
  BY <1>1 DEF IInv, SafeInv
<1>3. p \in Flying(f)
  BY <1>2
<1>4. p \in PacketOf(GoodChunks(sent[f], Has(e))) /\ Fresh(f, p, sent)
      /\ (p.kind # "CLOSE" => p.ack = ChunkSeq(p.acked) /\ p.acked <= Has(f))
  BY <1>1, <1>3 DEF Flying, Sendable
<1> QED BY <1>1, <1>4 DEF Fresh

LEMMA ReadKeeps ==
  ASSUME IInv, broken = {}, NEW e \in Ends, NEW i \in DOMAIN net[Peer(e)],
         conn[e].state \in Live, NEW due,
         NEW reply \in Seq(Out(Good(e), ChunkSeq(Has(e)))),
         NEW taken \in 0 .. Len(net[Peer(e)][i].chunks),
         NEW r, r = Fed(e, i, due, reply), NEW u, u = Read(e, i, due, reply, taken)
  PROVE  /\ r.out \in Seq(Out(Good(e), ChunkSeq(Has(e))))
         /\ u.c \in ConnOf(Good(e)) /\ u.got \in Seq(Nat)
         /\ Has(e) + Len(u.got) <= sent[Peer(e)]
         /\ \A j \in 1 .. Len(u.got) : u.got[j] = Has(e) + j
         /\ u.c.state \in Live => Linked(u.c, sent[e], Has(Peer(e)), Has(e) + Len(u.got))
<1> DEFINE f == Peer(e)
           C == Good(e)
           D == GoodChunks(sent[f], Has(e))
<1>1. PICK k \in ConnOf(C) : k = conn[e] /\ k.state \in Live /\ Linked(k, sent[e], Has(f), Has(e))
  BY DEF IInv, SafeInv
<1>2. PICK p \in PacketOf(D) :
        /\ p = net[f][i]
        /\ p.kind # "CLOSE" => p.ack = ChunkSeq(p.acked) /\ p.acked <= Has(f)
        /\ \A j \in DOMAIN p.chunks : sent[f] - p.chunks[j].data < ChunkSpan
        /\ sent[e] - p.acked <= BufferSize + AckDelay
  BY ArrivedPacket
<1>3. f \in Ends /\ Has(e) \in Nat /\ Has(f) \in Nat /\ sent[e] \in Nat /\ sent[f] \in Nat
      /\ Has(e) <= sent[f] /\ p.acked \in Nat
  <2>1. f \in Ends
    BY EndsAre
  <2>2. p.acked \in Nat
    BY DEF PacketOf
  <2> QED BY <2>1, <2>2, TypesOf DEF IInv, SafeInv
<1>4. k.ack = ChunkSeq(Has(e))
  BY <1>1 DEF Linked
<1> HIDE DEF C, D
<1>5. [c |-> k, out |-> reply] \in Runs(k, C)
  <2>1. k \in Kin(k, C)
    BY DEF Kin
  <2>2. reply \in Seq(Out(C, k.ack))
    BY <1>4 DEF C
  <2> QED BY <2>1, <2>2, RunIs
<1>6. /\ r.out \in Seq(Out(C, k.ack))
      /\ r.c \in ConnOf(C) /\ r.c.ack = k.ack
      /\ r.c.state \in Live => Linked(r.c, sent[e], Has(f), Has(e))
  <2>1. CASE FeedAccepts(k, p)
    <3>1. r = Feed([c |-> k, out |-> reply], p, due)
      BY <1>1, <1>2, <2>1 DEF Fed
    <3>2. /\ r.out \in Seq(Out(C, k.ack))
          /\ r.c \in ConnOf(C) /\ r.c.ack = k.ack /\ r.c.sequence = k.sequence
          /\ p.kind = "CLOSE" => r.c.state = "ERROR"
          /\ Released(k.buffer, r.c.buffer, p.ack)
      BY <1>5, <3>1, FeedReleases
    <3>3. CASE p.kind = "CLOSE"
      BY <3>2, <3>3 DEF Live
    <3>4. CASE p.kind # "CLOSE"
      <4>1. Released(k.buffer, r.c.buffer, ChunkSeq(p.acked)) /\ p.acked <= Has(f)
        BY <1>2, <3>2, <3>4
      <4>2. Linked(r.c, sent[e], Has(f), Has(e))
        BY <1>1, <1>2, <1>3, <3>2, <4>1, ReleasedLinked
      <4> QED BY <3>2, <4>2
    <3> QED BY <3>3, <3>4
  <2>2. CASE ~FeedAccepts(k, p)
    <3>1. r = [c |-> k, out |-> reply]
      BY <1>1, <1>2, <2>2 DEF Fed
    <3> QED BY <1>1, <1>4, <3>1 DEF C
  <2> QED BY <2>1, <2>2
<1>7. PICK s \in Seq(Arriving(Has(e), sent[f])) : s = Taken(e, i, taken)
  <2>1. p.chunks \in Seq(D) /\ taken \in 0 .. Len(p.chunks)
    BY <1>2 DEF PacketOf
  <2>2. \A j \in 1 .. Len(p.chunks) : p.chunks[j] \in Arriving(Has(e), sent[f])
    BY <1>2, <2>1 DEF Arriving, D, GoodChunks
  <2>3. SubSeq(p.chunks, 1, taken) \in Seq(Arriving(Has(e), sent[f]))
    BY <2>1, <2>2
  <2>4. << >> \in Seq(Arriving(Has(e), sent[f]))
    OBVIOUS
  <2> QED BY <1>2, <2>3, <2>4 DEF Taken
<1>8. u \in Unpacked(r.c, C, Has(e), sent[f])
  <2>1. u = Each(UnpackChunk, [c |-> r.c, got |-> << >>], s)
    BY <1>7 DEF Read
  <2> QED BY <1>3, <1>4, <1>6, <2>1, ChunksUnpack
<1>9. /\ u.c \in ConnOf(C) /\ u.got \in Seq(Nat)
      /\ u.c.state = r.c.state /\ u.c.sequence = r.c.sequence /\ u.c.buffer = r.c.buffer
      /\ u.c.ack = ChunkSeq(Has(e) + Len(u.got))
      /\ Has(e) + Len(u.got) <= sent[f]
      /\ \A j \in 1 .. Len(u.got) : u.got[j] = Has(e) + j
  BY <1>8 DEF Unpacked
<1>10. u.c.state \in Live => Linked(u.c, sent[e], Has(f), Has(e) + Len(u.got))
  BY <1>6, <1>9 DEF Linked
<1> QED BY <1>4, <1>6, <1>9, <1>10 DEF C

-----------------------------------------------------------------------------
(* Handlers that queue nothing and hand nothing out.                       *)
LEMMA FinishKeeps ==
  ASSUME IInv, broken = {}, UNCHANGED <<session, sent, rcvd, broken>>, NEW e \in Ends,
         NEW c \in ConnOf(Good(e)), conn' = [conn EXCEPT ![e] = c],
         c.state \in Live => Linked(c, sent[e], Has(Peer(e)), Has(e)),
         NEW out \in Seq(Out(Good(e), ChunkSeq(Acked(e)))),
         NEW flying, \A d \in Ends : flying[d] \in Seq(Flying(d)),
         Transmit(flying, e, out, conn', sent)
  PROVE  IInv'
<1>1. /\ sent \in [Ends -> Nat] /\ rcvd \in [Ends -> Seq(Nat)] /\ Has(e) \in Nat
      /\ sent[e] \in Nat /\ sent[e] <= sent[e] /\ Has(e) <= sent[Peer(e)]
  <2>1. sent \in [Ends -> Nat] /\ rcvd \in [Ends -> Seq(Nat)] /\ Has(e) \in Nat /\ sent[e] \in Nat
    BY TypesOf DEF IInv
  <2> QED BY <2>1 DEF IInv, SafeInv
<1>2. /\ sent' = [sent EXCEPT ![e] = sent[e]] /\ sent' = sent
      /\ rcvd' = [rcvd EXCEPT ![e] = @ \o << >>]
      /\ session' = session /\ broken' = {}
  <2>1. rcvd[e] \o << >> = rcvd[e]
    BY <1>1
  <2> QED BY <1>1, <2>1
<1>3. Transmit(flying, e, out, conn', sent')
  BY <1>2
<1> DEFINE g == << >>
<1>4. g \in Seq(Nat) /\ Len(g) = 0 /\ rcvd' = [rcvd EXCEPT ![e] = @ \o g]
  <2>1. g \in Seq(Nat) /\ Len(g) = 0
    OBVIOUS
  <2>2. rcvd' = [rcvd EXCEPT ![e] = @ \o g]
    BY <1>2
  <2> QED BY <2>1, <2>2
<1> HIDE DEF g
<1>5. Has(e) + Len(g) = Has(e) /\ \A j \in 1 .. Len(g) : g[j] = Has(e) + j
  BY <1>1, <1>4
<1>6. /\ c \in ConnOf(GoodChunks(sent[e], Has(Peer(e))))
      /\ out \in Seq(Out(GoodChunks(sent[e], Has(Peer(e))), ChunkSeq(Acked(e))))
      /\ c.state \in Live => Linked(c, sent[e], Has(Peer(e)), Has(e) + Len(g))
      /\ Has(e) + Len(g) <= sent[Peer(e)]
  BY <1>1, <1>5 DEF Good
<1> QED BY <1>1, <1>2, <1>3, <1>4, <1>5, <1>6, StepKeeps

(* The same without a packet that has arrived.                             *)
LEMMA InFlightStays ==
  ASSUME IInv, broken = {}, NEW e \in Ends, NEW i \in DOMAIN net[Peer(e)], NEW keep,
         NEW flying, flying = IF keep THEN net ELSE [net EXCEPT ![Peer(e)] = RemoveAt(@, i)]
  PROVE  \A d \in Ends : flying[d] \in Seq(Flying(d))
<1>1. \A d \in Ends : net[d] \in Seq(Flying(d))
  BY DEF IInv, SafeInv
<1>2. net = [d \in Ends |-> net[d]] /\ Peer(e) \in Ends
  BY EndsAre, TypesOf DEF IInv
<1>3. RemoveAt(net[Peer(e)], i) \in Seq(Flying(Peer(e)))
  <2> DEFINE S == Flying(Peer(e))
  <2>1. PICK s \in Seq(S) : s = net[Peer(e)]
    BY <1>1, <1>2
  <2> HIDE DEF S
  <2>2. i \in 1 .. Len(s)
    BY <2>1
  <2>3. SubSeq(s, 1, i - 1) \in Seq(S) /\ SubSeq(s, i + 1, Len(s)) \in Seq(S)
    BY <2>2
  <2> QED BY <2>1, <2>3, ConcatIn DEF RemoveAt, S
<1> QED BY <1>1, <1>2, <1>3

(* The run of a handler starts at the connection.                          *)
LEMMA StartRun ==
  ASSUME IInv, broken = {}, NEW e \in Ends, conn[e].state \in Live
  PROVE  /\ Run(conn[e]) \in Runs(conn[e], Good(e))
         /\ conn[e].ack = ChunkSeq(Acked(e)) /\ Acked(e) = Has(e)
<1>1. conn[e] \in ConnOf(Good(e)) /\ Linked(conn[e], sent[e], Has(Peer(e)), Has(e))
  BY DEF IInv, SafeInv
<1>2. conn[e] \in Kin(conn[e], Good(e)) /\ << >> \in Seq(Out(Good(e), conn[e].ack))
  BY <1>1 DEF Kin
<1>3. Run(conn[e]) \in Runs(conn[e], Good(e))
  BY <1>2, RunIs DEF Run
<1>4. Acked(e) = Has(e)
  BY DEF Acked, Has, Live
<1> QED BY <1>1, <1>3, <1>4 DEF Linked

LEMMA RunKeeps ==
  ASSUME IInv, broken = {}, UNCHANGED <<session, sent, rcvd, broken>>, NEW e \in Ends,
         conn[e].state \in Live, NEW r \in Runs(conn[e], Good(e)), Finish(e, r)
  PROVE  IInv'
<1>1. Linked(conn[e], sent[e], Has(Peer(e)), Has(e))
  BY DEF IInv, SafeInv
<1>2. conn[e].ack = ChunkSeq(Acked(e))
  BY StartRun
<1>3. /\ r.c \in ConnOf(Good(e)) /\ r.out \in Seq(Out(Good(e), ChunkSeq(Acked(e))))
      /\ r.c.sequence = conn[e].sequence /\ r.c.ack = conn[e].ack /\ r.c.buffer = conn[e].buffer
  BY <1>2, RunParts
<1>4. Linked(r.c, sent[e], Has(Peer(e)), Has(e))
  BY <1>1, <1>3 DEF Linked
<1>5. \A d \in Ends : net[d] \in Seq(Flying(d))
  BY DEF IInv, SafeInv
<1>6. conn' = [conn EXCEPT ![e] = r.c] /\ Transmit(net, e, r.out, conn', sent)
  BY DEF Finish
<1> QED BY <1>3, <1>4, <1>5, <1>6, FinishKeeps

LEMMA DisconnectKeeps ==
  ASSUME IInv, broken = {}, UNCHANGED <<session, sent, rcvd, broken>>, NEW e \in Ends,
         NEW quiet, Finish(e, Disconnect(Run(conn[e]), quiet))
  PROVE  IInv'
<1>1. conn[e] \in ConnOf(Good(e)) /\ \A d \in Ends : net[d] \in Seq(Flying(d))
  BY DEF IInv, SafeInv
<1>2. PICK q : q = Disconnect([c |-> conn[e], out |-> << >>], quiet)
  OBVIOUS
<1>3. << >> \in Seq(Out(Good(e), ChunkSeq(Acked(e))))
  OBVIOUS
<1>4. /\ q.out \in Seq(Out(Good(e), ChunkSeq(Acked(e))))
      /\ q.c \in ConnOf(Good(e)) /\ q.c.state = "OFFLINE"
  <2>1. PICK C, a, k, o : C = Good(e) /\ a = ChunkSeq(Acked(e)) /\ k = conn[e] /\ o = << >>
    OBVIOUS
  <2>2. k \in ConnOf(C) /\ o \in Seq(Out(C, a)) /\ q = Disconnect([c |-> k, out |-> o], quiet)
    BY <1>1, <1>2, <1>3, <2>1
  <2>3. q.out \in Seq(Out(C, a)) /\ q.c \in ConnOf(C) /\ q.c.state = "OFFLINE"
    BY <2>2, DisconnectRuns
  <2> QED BY <2>1, <2>3
<1>5. conn' = [conn EXCEPT ![e] = q.c] /\ Transmit(net, e, q.out, conn', sent)
  BY <1>2 DEF Finish, Run
<1> QED BY <1>1, <1>4, <1>5, FinishKeeps DEF Live

LEMMA ConnectKeeps == ASSUME IInv, broken = {}, Connect PROVE IInv'
<1> DEFINE c == [Reset EXCEPT !.state = "CONNECT"]
           C == Good(Client)
           q == SendControl(Run(c), "CONNECT")
<1>1. Client \in Ends
  BY DEF Ends
<1>2. c \in ConnOf(C) /\ c.ack = 0 /\ c.sequence = 0 /\ c.buffer = << >>
  <2>1. Reset \in ConnOf(C)
    BY ResetIn
  <2> QED BY <2>1 DEF ConnOf, States, Reset
<1>3. Acked(Client) = 0 /\ Has(Client) = 0 /\ sent[Client] = 0
  BY <1>1 DEF Connect, Acked, Has, Reset
<1>4. ChunkSeq(0) = 0
  BY SequenceAssumption DEF ChunkSeq
<1> HIDE DEF c, C
<1>5. q \in Runs(c, C)
  <2>1. c \in Kin(c, C) /\ << >> \in Seq(Out(C, c.ack))
    BY <1>2 DEF Kin
  <2>2. Run(c) \in Runs(c, C)
    BY <2>1, RunIs DEF Run
  <2> QED BY <2>2, SendControlRuns DEF Kinds
<1>6. /\ q.c \in ConnOf(C) /\ q.out \in Seq(Out(C, ChunkSeq(Acked(Client))))
      /\ q.c.sequence = 0 /\ q.c.ack = 0 /\ q.c.buffer = << >>
  BY <1>2, <1>3, <1>4, <1>5, RunParts
<1>7. Linked(q.c, sent[Client], Has(Peer(Client)), Has(Client))
  <2>1. Has(Peer(Client)) \in Nat
    BY <1>1, EndsAre, TypesOf DEF IInv
  <2>2. Len(<< >>) = 0
    OBVIOUS
  <2> HIDE DEF q
  <2> QED BY <1>3, <1>4, <1>6, <2>1, <2>2, SequenceAssumption DEF Linked
<1>8. \A d \in Ends : net[d] \in Seq(Flying(d))
  BY DEF IInv, SafeInv
<1>9. /\ conn' = [conn EXCEPT ![Client] = q.c] /\ Transmit(net, Client, q.out, conn', sent)
      /\ UNCHANGED <<session, sent, rcvd, broken>>
  BY DEF Connect, Finish, c
<1> HIDE DEF q
<1>10. q.c \in ConnOf(Good(Client)) /\ q.out \in Seq(Out(Good(Client), ChunkSeq(Acked(Client))))
  BY <1>6 DEF C
<1> QED BY <1>1, <1>7, <1>8, <1>9, <1>10, FinishKeeps

LEMMA SendFlushKeeps ==
  ASSUME IInv, broken = {}, NEW e \in Ends, SendFlush(e) PROVE IInv'
<1>1. conn[e].state \in Live
  BY DEF SendFlush, Live
<1>2. Flush(Run(conn[e]), TRUE) \in Runs(conn[e], Good(e))
  BY <1>1, StartRun, FlushRuns
<1> QED BY <1>1, <1>2, RunKeeps DEF SendFlush

LEMMA UpdateKeeps ==
  ASSUME IInv, broken = {}, NEW e \in Ends, NEW due, Update(e, due) PROVE IInv'
<1>1. conn[e].state \in Live
  BY DEF Update, Live
<1>2. UpdateConn(Run(conn[e]), due) \in Runs(conn[e], Good(e))
  BY <1>1, StartRun, UpdateRuns
<1> QED BY <1>1, <1>2, RunKeeps DEF Update

LEMMA CloseKeeps ==
  ASSUME IInv, broken = {}, NEW e \in Ends, Close(e) \/ TimeOut(e) PROVE IInv'
BY DisconnectKeeps DEF Close, TimeOut

-----------------------------------------------------------------------------
(* Queueing a vital chunk.                                                 *)
LEMMA QueueVitalDown ==
  ASSUME NEW C, NEW c \in ConnOf(C), NEW n, c.state = "ERROR"
  PROVE  QueueVital(Run(c), n) =
           [c |-> [c EXCEPT !.sequence = (c.sequence + 1) % NET_MAX_SEQUENCE], out |-> << >>]
BY DEF QueueVital, Pack, Run, ConnOf

(* A number used up in e's session, with the connection c left, packets    *)
(* out sent, and nothing handed out.                                       *)
LEMMA QueuedKeeps ==
  ASSUME IInv, broken = {}, broken' = {}, UNCHANGED <<session, rcvd>>, NEW e \in Ends,
         NEW s, s = sent[e] + 1, sent' = [sent EXCEPT ![e] = @ + 1],
         NEW c \in ConnOf(GoodChunks(s, Has(Peer(e)))), conn' = [conn EXCEPT ![e] = c],
         c.state \in Live => Linked(c, s, Has(Peer(e)), Has(e)),
         NEW out \in Seq(Out(GoodChunks(s, Has(Peer(e))), ChunkSeq(Acked(e)))),
         Transmit(net, e, out, conn', sent')
  PROVE  IInv'
<1>1. /\ sent \in [Ends -> Nat] /\ rcvd \in [Ends -> Seq(Nat)] /\ Has(e) \in Nat
      /\ s \in Nat /\ sent[e] <= s /\ Has(e) <= sent[Peer(e)]
  <2>1. /\ sent \in [Ends -> Nat] /\ rcvd \in [Ends -> Seq(Nat)] /\ Has(e) \in Nat
        /\ sent[e] \in Nat
    BY TypesOf DEF IInv
  <2> QED BY <2>1 DEF IInv, SafeInv
<1> DEFINE g == << >>
<1>2. g \in Seq(Nat) /\ Len(g) = 0
  OBVIOUS
<1>3. rcvd' = [rcvd EXCEPT ![e] = @ \o g]
  <2>1. rcvd[e] \o << >> = rcvd[e]
    BY <1>1
  <2> QED BY <1>1, <2>1
<1> HIDE DEF g
<1>4. Has(e) + Len(g) = Has(e) /\ \A j \in 1 .. Len(g) : g[j] = Has(e) + j
  BY <1>1, <1>2
<1>5. \A d \in Ends : net[d] \in Seq(Flying(d))
  BY DEF IInv, SafeInv
<1>6. /\ session' = session /\ sent' = [sent EXCEPT ![e] = s]
      /\ Has(e) + Len(g) <= sent[Peer(e)]
      /\ c.state \in Live => Linked(c, s, Has(Peer(e)), Has(e) + Len(g))
  BY <1>1, <1>4
<1> QED BY <1>1, <1>2, <1>3, <1>4, <1>5, <1>6, StepKeeps

LEMMA AppendLinked ==
  ASSUME NEW s \in Nat, NEW l \in Nat, NEW r \in Nat, NEW C, NEW c \in ConnOf(C),
         Linked(c, s, l, r), Len(c.buffer) # BufferSize,
         NEW D, NEW d \in ConnOf(D), NEW chunk, chunk.data = s + 1,
         chunk.seq = (c.sequence + 1) % NET_MAX_SEQUENCE,
         d.sequence = chunk.seq, d.ack = c.ack, d.buffer = Append(c.buffer, chunk)
  PROVE  Linked(d, s + 1, l, r)
<1>1. chunk.seq = ChunkSeq(s + 1)
  <2>1. (s + 1) % M = ((s % M) + 1) % M
    BY ModSucc
  <2> QED BY <2>1 DEF Linked, ChunkSeq, M
<1>2. PICK b \in Seq(C), j \in Nat : b = c.buffer /\ j = Len(b)
  BY DEF ConnOf
<1>3. /\ j < BufferSize /\ j <= s /\ s - j <= l /\ BufferSize \in Nat
      /\ \A i \in 1 .. j : b[i].data = s - j + i /\ b[i].seq = ChunkSeq(s - j + i)
  <2>1. /\ Len(b) <= BufferSize /\ Len(b) <= s /\ s - Len(b) <= l /\ Len(b) # BufferSize
        /\ \A i \in 1 .. Len(b) : /\ b[i].data = s - Len(b) + i
                                  /\ b[i].seq = ChunkSeq(s - Len(b) + i)
    BY <1>2 DEF Linked
  <2>2. BufferSize \in Nat
    BY SequenceAssumption
  <2>3. j <= BufferSize /\ j # BufferSize /\ j <= s /\ s - j <= l
    BY <1>2, <2>1
  <2>4. \A i \in 1 .. j : b[i].data = s - j + i /\ b[i].seq = ChunkSeq(s - j + i)
    BY <1>2, <2>1
  <2> QED BY <2>2, <2>3, <2>4
<1>4. PICK a : a = Append(b, chunk)
  OBVIOUS
<1>5. Len(a) = j + 1 /\ \A i \in 1 .. j + 1 : a[i] = IF i = j + 1 THEN chunk ELSE b[i]
  BY <1>2, <1>4
<1>6. \A i \in 1 .. j + 1 : /\ a[i].data = (s + 1) - (j + 1) + i
                            /\ a[i].seq = ChunkSeq((s + 1) - (j + 1) + i)
  <2> SUFFICES ASSUME NEW i \in 1 .. j + 1
               PROVE  /\ a[i].data = (s + 1) - (j + 1) + i
                      /\ a[i].seq = ChunkSeq((s + 1) - (j + 1) + i)
    OBVIOUS
  <2>1. CASE i = j + 1
    <3>1. (s + 1) - (j + 1) + i = s + 1 /\ a[i] = chunk
      BY <1>5, <2>1
    <3> QED BY <1>1, <3>1
  <2>2. CASE i # j + 1
    <3>1. (s + 1) - (j + 1) + i = s - j + i /\ i \in 1 .. j
      BY <1>2, <2>2
    <3>2. a[i] = b[i]
      BY <1>5, <2>2
    <3> QED BY <1>3, <3>1, <3>2
  <2> QED BY <2>1, <2>2
<1>7. d.buffer = a /\ d.sequence = ChunkSeq(s + 1) /\ d.ack = ChunkSeq(r)
  BY <1>1, <1>2, <1>4 DEF Linked
<1>8. Len(a) <= BufferSize /\ Len(a) <= s + 1 /\ (s + 1) - Len(a) <= l
  BY <1>3, <1>5
<1> QED BY <1>5, <1>6, <1>7, <1>8 DEF Linked

LEMMA SendVitalKeeps ==
  ASSUME IInv, broken = {}, NEW e \in Ends, SendVital(e) PROVE IInv'
<1> DEFINE s == sent[e] + 1
           l == Has(Peer(e))
           k == conn[e]
           chunk == [seq |-> (k.sequence + 1) % NET_MAX_SEQUENCE, data |-> s]
           q == QueueVital(Run(k), s)
<1>1. /\ k \in ConnOf(Chunks) /\ k \in ConnOf(Good(e)) /\ k.state \in {"ONLINE", "ERROR"}
      /\ sent[e] \in Nat /\ s \in Nat /\ l \in Nat /\ Has(e) \in Nat /\ sent[e] <= s
  <2>1. Peer(e) \in Ends
    BY EndsAre
  <2>2. sent[e] \in Nat /\ Has(Peer(e)) \in Nat /\ Has(e) \in Nat
    BY <2>1, TypesOf DEF IInv
  <2>3. conn[e] \in ConnOf(Chunks)
    BY TypesOf DEF IInv
  <2>4. conn[e] \in ConnOf(Good(e)) /\ conn[e].state \in {"ONLINE", "ERROR"}
    BY DEF IInv, SafeInv, SendVital
  <2> QED BY <2>2, <2>3, <2>4
<1>2. /\ conn' = [conn EXCEPT ![e] = q.c] /\ sent' = [sent EXCEPT ![e] = @ + 1]
      /\ Transmit(net, e, q.out, conn', sent') /\ UNCHANGED <<session, rcvd>>
      /\ broken' = IF k.state = "ONLINE" /\ Len(k.buffer) = BufferSize
                   THEN broken \cup {"out of buffer"} ELSE broken
  BY DEF SendVital
<1>3. (k.sequence + 1) % NET_MAX_SEQUENCE \in SeqNumbers
  BY <1>1, NextSequence DEF ConnOf
<1>4. chunk \in Chunks /\ chunk.data = s /\ chunk.seq = (k.sequence + 1) % NET_MAX_SEQUENCE
  BY <1>1, <1>3 DEF Chunks
<1> DEFINE Names == /\ s = sent[e] + 1 /\ q = QueueVital(Run(k), s) /\ k = conn[e]
                    /\ chunk = [seq |-> (k.sequence + 1) % NET_MAX_SEQUENCE, data |-> s]
<1>0. Names
  OBVIOUS
<1>5. Good(e) \subseteq GoodChunks(s, l)
  BY <1>1, GoodGrows DEF Good
<1>6. k \in ConnOf(GoodChunks(s, l))
  BY <1>1, <1>5, ConnGrows
<1>7. CASE k.state = "ONLINE" /\ Len(k.buffer) = BufferSize
  <2> HIDE DEF k, q, chunk, s
  <2>4. q.out \in Seq(Out(Chunks, k.ack)) /\ q.c \in ConnOf(Chunks)
    BY <1>1, <1>4, <1>0, QueueVitalRuns
  <2>5. \A d \in Ends : net[d] \in Seq(Packets)
    BY DEF IInv, TypeOK
  <2>6. /\ sent' \in [Ends -> Nat] /\ rcvd' \in [Ends -> Seq(Nat)] /\ session' = session
        /\ broken' \subseteq {"out of buffer", "rejoin", "stale construct"} /\ broken' # {}
    <3>1. /\ sent \in [Ends -> Nat] /\ rcvd \in [Ends -> Seq(Nat)] /\ sent[e] + 1 \in Nat
          /\ broken' = {"out of buffer"}
      <4>1. sent \in [Ends -> Nat] /\ rcvd \in [Ends -> Seq(Nat)]
        BY TypesOf DEF IInv
      <4>2. broken' = {"out of buffer"}
        BY <1>2, <1>7
      <4>3. sent[e] + 1 \in Nat
        BY <1>1
      <4> QED BY <4>1, <4>2, <4>3
    <3> QED BY <1>2, <3>1
  <2>7. TypeOK'
    BY <1>2, <2>4, <2>5, <2>6, StepTypes DEF IInv
  <2> QED BY <2>6, <2>7 DEF IInv
<1>8. CASE k.state = "ONLINE" /\ Len(k.buffer) # BufferSize
  <2>1. Linked(k, sent[e], l, Has(e)) /\ Acked(e) = Has(e) /\ k.ack = ChunkSeq(Acked(e))
    <3>1. k.state \in Live
      BY <1>8 DEF Live
    <3> QED BY <3>1, StartRun DEF IInv, SafeInv
  <2> HIDE DEF k, q, chunk
  <2>2. chunk.seq = ChunkSeq(s) /\ s <= l + BufferSize
    <3>1. PICK b : b = Append(k.buffer, chunk)
      OBVIOUS
    <3>2. /\ k.sequence = ChunkSeq(sent[e]) /\ Len(k.buffer) <= BufferSize
          /\ sent[e] - Len(k.buffer) <= l
      BY <2>1 DEF Linked
    <3>3. k.buffer \in Seq(Chunks) /\ Len(k.buffer) \in Nat
      BY <1>1 DEF ConnOf
    <3>4. (sent[e] + 1) % M = ((sent[e] % M) + 1) % M
      BY <1>1, ModSucc
    <3> QED BY <1>1, <1>4, <1>8, <3>2, <3>3, <3>4, SequenceAssumption DEF ChunkSeq, M
  <2>3. chunk \in GoodChunks(s, l)
    BY <1>1, <1>4, <2>2 DEF GoodChunks
  <2>4. PICK C : C = GoodChunks(s, l)
    OBVIOUS
  <2> HIDE DEF s
  <2>5. chunk \in C /\ k \in ConnOf(C)
    BY <1>6, <2>3, <2>4
  <2>6. /\ q.out \in Seq(Out(C, k.ack))
        /\ q.c \in ConnOf(C) /\ q.c.ack = k.ack
        /\ q.c.sequence = chunk.seq
        /\ q.c.buffer = Append(k.buffer, chunk)
    <3>1. k.state \notin {"OFFLINE", "ERROR"} /\ Len(k.buffer) # BufferSize
      BY <1>8
    <3>2. /\ q.out \in Seq(Out(C, k.ack))
          /\ q.c \in ConnOf(C) /\ q.c.ack = k.ack
          /\ q.c.sequence = chunk.seq
          /\ q.c.buffer = IF k.state \in {"OFFLINE", "ERROR"} \/ Len(k.buffer) = BufferSize
                          THEN k.buffer ELSE Append(k.buffer, chunk)
      BY <1>0, <2>5, QueueVitalRuns
    <3> QED BY <3>1, <3>2
  <2>7. Linked(q.c, s, l, Has(e))
    <3>1. k \in ConnOf(Chunks) /\ chunk.data = sent[e] + 1
      BY <1>1, <1>4 DEF s
    <3>2. Linked(q.c, sent[e] + 1, l, Has(e))
      BY <1>1, <1>4, <1>8, <2>1, <2>6, <3>1, AppendLinked
    <3> QED BY <3>2 DEF s
  <2>8. broken' = {}
    BY <1>2, <1>8
  <2>9. q.c \in ConnOf(GoodChunks(s, l)) /\ q.out \in Seq(Out(GoodChunks(s, l), ChunkSeq(Acked(e))))
    BY <2>1, <2>4, <2>6
  <2>10. s = sent[e] + 1
    BY <1>0
  <2> QED BY <1>2, <2>7, <2>8, <2>9, <2>10, QueuedKeeps
<1>9. CASE k.state = "ERROR"
  <2>1. q = [c |-> [k EXCEPT !.sequence = (k.sequence + 1) % NET_MAX_SEQUENCE], out |-> << >>]
    BY <1>1, <1>9, QueueVitalDown
  <2> HIDE DEF k, q
  <2>2. q.c \in ConnOf(GoodChunks(s, l)) /\ q.c.state = "ERROR"
    BY <1>3, <1>6, <1>9, <2>1 DEF ConnOf
  <2>3. q.out \in Seq(Out(GoodChunks(s, l), ChunkSeq(Acked(e))))
    BY <2>1
  <2>4. broken' = {} /\ q.c.state \notin Live
    BY <1>2, <1>9, <2>2 DEF Live
  <2> QED BY <1>2, <2>2, <2>3, <2>4, QueuedKeeps
<1> QED BY <1>1, <1>7, <1>8, <1>9

-----------------------------------------------------------------------------
(* Receiving a packet: c is the connection and out the packets sent when   *)
(* the application has handled the chunks.                                 *)
LEMMA ReceiveKeeps ==
  ASSUME IInv, broken = {}, UNCHANGED <<session, sent, broken>>, NEW e \in Ends,
         NEW i \in DOMAIN net[Peer(e)], conn[e].state \in Live, NEW due,
         NEW reply \in Seq(Out(Good(e), ChunkSeq(Has(e)))),
         NEW taken \in 0 .. Len(net[Peer(e)][i].chunks),
         NEW u, u = Read(e, i, due, reply, taken),
         NEW c \in ConnOf(Good(e)), conn' = [conn EXCEPT ![e] = c],
         c.state \in Live => Linked(c, sent[e], Has(Peer(e)), Has(e) + Len(u.got)),
         NEW out \in Seq(Out(Good(e), ChunkSeq(Has(e)))),
         rcvd' = [rcvd EXCEPT ![e] = @ \o u.got], NEW keep,
         Transmit(IF keep THEN net ELSE [net EXCEPT ![Peer(e)] = RemoveAt(@, i)],
                  e, out, conn', sent)
  PROVE  IInv'
<1>1. /\ u.got \in Seq(Nat) /\ Has(e) + Len(u.got) <= sent[Peer(e)]
      /\ \A j \in 1 .. Len(u.got) : u.got[j] = Has(e) + j
  <2>1. PICK r : r = Fed(e, i, due, reply)
    OBVIOUS
  <2> QED BY <2>1, ReadKeeps
<1>2. PICK g \in Seq(Nat) : g = u.got
  BY <1>1
<1>3. sent \in [Ends -> Nat] /\ sent[e] \in Nat /\ sent[e] <= sent[e]
  <2>1. sent \in [Ends -> Nat]
    BY TypesOf DEF IInv
  <2> QED BY <2>1
<1>4. Acked(e) = Has(e)
  BY DEF Acked, Has, Live
<1>5. PICK flying : flying = IF keep THEN net ELSE [net EXCEPT ![Peer(e)] = RemoveAt(@, i)]
  OBVIOUS
<1>6. \A d \in Ends : flying[d] \in Seq(Flying(d))
  BY <1>5, InFlightStays
<1>7. /\ sent' = [sent EXCEPT ![e] = sent[e]] /\ session' = session /\ broken' = {}
      /\ Transmit(flying, e, out, conn', sent')
  <2>1. sent' = sent
    OBVIOUS
  <2> QED BY <1>3, <1>5, <2>1
<1>8. /\ c \in ConnOf(GoodChunks(sent[e], Has(Peer(e))))
      /\ out \in Seq(Out(GoodChunks(sent[e], Has(Peer(e))), ChunkSeq(Acked(e))))
  BY <1>4 DEF Good
<1>9. /\ Has(e) + Len(g) <= sent[Peer(e)] /\ \A j \in 1 .. Len(g) : g[j] = Has(e) + j
      /\ rcvd' = [rcvd EXCEPT ![e] = @ \o g]
      /\ c.state \in Live => Linked(c, sent[e], Has(Peer(e)), Has(e) + Len(g))
  BY <1>1, <1>2
<1> QED BY <1>3, <1>6, <1>7, <1>8, <1>9, StepKeeps

LEMMA NoReplyOut == ASSUME NEW S PROVE NoReply \in Seq(S)
BY DEF NoReply

LEMMA ChunksOf ==
  ASSUME IInv, broken = {}, NEW e \in Ends, NEW i \in DOMAIN net[Peer(e)]
  PROVE  Len(net[Peer(e)][i].chunks) \in Nat
<1>1. PICK p : p = net[Peer(e)][i]
  OBVIOUS
<1>2. p \in PacketOf(GoodChunks(sent[Peer(e)], Has(e)))
  BY <1>1, ArrivedPacket
<1>3. Len(p.chunks) \in Nat
  BY <1>2 DEF PacketOf
<1> QED BY <1>1, <1>3

LEMMA RecvKeeps ==
  ASSUME IInv, broken = {}, NEW e \in Ends, NEW i, NEW due, NEW keep, Recv(e, i, due, keep)
  PROVE  IInv'
<1> DEFINE taken == Len(net[Peer(e)][i].chunks)
           u == Read(e, i, due, NoReply, taken)
           r == Fed(e, i, due, NoReply)
<1>1. /\ i \in DOMAIN net[Peer(e)] /\ conn[e].state \in Live
      /\ UNCHANGED <<session, sent, broken>>
  BY DEF Recv, Arrived, Live
<1>2. /\ conn' = [conn EXCEPT ![e] = u.c] /\ rcvd' = [rcvd EXCEPT ![e] = @ \o u.got]
      /\ Transmit(IF keep THEN net ELSE [net EXCEPT ![Peer(e)] = RemoveAt(@, i)],
                  e, r.out, conn', sent)
  BY DEF Recv, Receive, Nothing, Fed, Taken, Read
<1>3. taken \in 0 .. taken
  BY <1>1, ChunksOf
<1>4. NoReply \in Seq(Out(Good(e), ChunkSeq(Has(e))))
  BY NoReplyOut
<1>5. u = Read(e, i, due, NoReply, taken) /\ r = Fed(e, i, due, NoReply)
  OBVIOUS
<1> HIDE DEF u, r
<1>6. /\ r.out \in Seq(Out(Good(e), ChunkSeq(Has(e)))) /\ u.c \in ConnOf(Good(e))
      /\ u.c.state \in Live => Linked(u.c, sent[e], Has(Peer(e)), Has(e) + Len(u.got))
  BY <1>1, <1>3, <1>4, <1>5, ReadKeeps
<1> QED BY <1>1, <1>2, <1>3, <1>4, <1>5, <1>6, ReceiveKeeps

LEMMA RecvAndCloseKeeps ==
  ASSUME IInv, broken = {}, NEW e \in Ends, NEW i, NEW taken, RecvAndClose(e, i, taken)
  PROVE  IInv'
<1> DEFINE u == Read(e, i, FALSE, NoReply, taken)
           r == Fed(e, i, FALSE, NoReply)
           q == Disconnect([c |-> u.c, out |-> r.out], FALSE)
<1>1. /\ i \in DOMAIN net[Peer(e)] /\ conn[e].state \in Live
      /\ UNCHANGED <<session, sent, broken>>
  BY DEF RecvAndClose, Arrived, Live
<1>2. /\ taken \in 0 .. Len(net[Peer(e)][i].chunks)
      /\ conn' = [conn EXCEPT ![e] = q.c] /\ rcvd' = [rcvd EXCEPT ![e] = @ \o u.got]
      /\ Transmit(IF FALSE THEN net ELSE [net EXCEPT ![Peer(e)] = RemoveAt(@, i)],
                  e, q.out, conn', sent)
  BY DEF RecvAndClose, Receive, Fed, Taken, Read
<1>3. NoReply \in Seq(Out(Good(e), ChunkSeq(Has(e))))
  BY NoReplyOut
<1>4. u = Read(e, i, FALSE, NoReply, taken) /\ r = Fed(e, i, FALSE, NoReply)
  OBVIOUS
<1>5. q = Disconnect([c |-> u.c, out |-> r.out], FALSE)
  OBVIOUS
<1> HIDE DEF u, r, q
<1>6. /\ r.out \in Seq(Out(Good(e), ChunkSeq(Has(e)))) /\ u.c \in ConnOf(Good(e))
  BY <1>1, <1>2, <1>3, <1>4, ReadKeeps
<1>7. /\ q.out \in Seq(Out(Good(e), ChunkSeq(Has(e)))) /\ q.c \in ConnOf(Good(e))
      /\ q.c.state \notin Live
  <2>1. PICK C, a, k, o, b : /\ C = Good(e) /\ a = ChunkSeq(Has(e))
                             /\ k = u.c /\ o = r.out /\ b = FALSE
    OBVIOUS
  <2>2. k \in ConnOf(C) /\ o \in Seq(Out(C, a)) /\ q = Disconnect([c |-> k, out |-> o], b)
    BY <1>5, <1>6, <2>1
  <2>3. q.out \in Seq(Out(C, a)) /\ q.c \in ConnOf(C) /\ q.c.state = "OFFLINE"
    BY <2>2, DisconnectRuns
  <2> QED BY <2>1, <2>3 DEF Live
<1> QED BY <1>1, <1>2, <1>3, <1>4, <1>7, ReceiveKeeps

LEMMA ReplyOut ==
  ASSUME NEW C, NEW a
  PROVE  <<Packet("CONNECTACCEPT", [ack |-> 0, token |-> "token"], << >>, FALSE)>> \in Seq(Out(C, a))
<1>1. 0 \in SeqNumbers
  BY SequenceAssumption DEF SeqNumbers
<1>2. PICK p : p = Packet("CONNECTACCEPT", [ack |-> 0, token |-> "token"], << >>, FALSE)
  OBVIOUS
<1>3. p \in Out(C, a)
  BY <1>1, <1>2 DEF Packet, Out, PacketOf, Kinds
<1>4. <<p>> \in Seq(Out(C, a))
  BY <1>3
<1> QED BY <1>2, <1>4

LEMMA RecvConnectKeeps ==
  ASSUME IInv, broken = {}, NEW i, NEW keep, RecvConnect(i, keep)
  PROVE  IInv'
<1> DEFINE e == Server
           reply == <<Packet("CONNECTACCEPT", [ack |-> 0, token |-> "token"], << >>, FALSE)>>
           u == Read(e, i, FALSE, reply, 0)
           r == Fed(e, i, FALSE, reply)
<1>1. e \in Ends /\ Peer(e) = Client /\ i \in DOMAIN net[Peer(e)]
      /\ UNCHANGED <<session, sent, broken>>
  BY ConnAssumption DEF RecvConnect, Arrived, Ends, Peer
<1>2. reply \in Seq(Out(Good(e), ChunkSeq(Has(e)))) /\ reply \in Seq(Out(Good(e), ChunkSeq(Acked(e))))
  BY ReplyOut
<1>3. CASE conn[Server].state \in {"OFFLINE", "ERROR"}
  <2>1. /\ conn' = conn /\ rcvd' = rcvd
        /\ Transmit(IF keep THEN net ELSE [net EXCEPT ![Peer(e)] = RemoveAt(@, i)],
                    e, reply, conn, sent)
    BY <1>1, <1>3 DEF RecvConnect
  <2> HIDE DEF reply
  <2>2. PICK flying : flying = IF keep THEN net ELSE [net EXCEPT ![Peer(e)] = RemoveAt(@, i)]
    OBVIOUS
  <2>3. \A d \in Ends : flying[d] \in Seq(Flying(d))
    BY <1>1, <2>2, InFlightStays
  <2>4. /\ conn[e] \in ConnOf(Good(e)) /\ conn' = [conn EXCEPT ![e] = conn[e]]
        /\ conn[e].state \in Live => Linked(conn[e], sent[e], Has(Peer(e)), Has(e))
    <3>1. conn \in [Ends -> ConnOf(Chunks)]
      BY TypesOf DEF IInv
    <3> QED BY <1>1, <2>1, <3>1 DEF IInv, SafeInv
  <2>5. Transmit(flying, e, reply, conn', sent)
    BY <2>1, <2>2
  <2> QED BY <1>1, <1>2, <2>1, <2>3, <2>4, <2>5, FinishKeeps
<1>4. CASE ~(conn[Server].state \in {"OFFLINE", "ERROR"})
  <2>1. conn[e].state \in Live
    <3>1. conn[e] \in ConnOf(Chunks)
      BY <1>1, TypesOf DEF IInv
    <3> QED BY <1>4, <3>1 DEF ConnOf, States, Live
  <2>2. /\ conn' = [conn EXCEPT ![e] = u.c] /\ rcvd' = [rcvd EXCEPT ![e] = @ \o u.got]
        /\ Transmit(IF keep THEN net ELSE [net EXCEPT ![Peer(e)] = RemoveAt(@, i)],
                    e, r.out, conn', sent)
    BY <1>4 DEF RecvConnect, Receive, Nothing, Fed, Taken, Read
  <2>3. 0 \in 0 .. Len(net[Peer(e)][i].chunks)
    BY <1>1, ChunksOf
  <2>4. u = Read(e, i, FALSE, reply, 0) /\ r = Fed(e, i, FALSE, reply)
    OBVIOUS
  <2> HIDE DEF u, r, reply
  <2>5. /\ r.out \in Seq(Out(Good(e), ChunkSeq(Has(e)))) /\ u.c \in ConnOf(Good(e))
        /\ u.c.state \in Live => Linked(u.c, sent[e], Has(Peer(e)), Has(e) + Len(u.got))
    BY <1>1, <1>2, <2>1, <2>3, <2>4, ReadKeeps
  <2> QED BY <1>1, <1>2, <2>1, <2>2, <2>3, <2>4, <2>5, ReceiveKeeps
<1> QED BY <1>3, <1>4

LEMMA RecvAcceptKeeps ==
  ASSUME IInv, broken = {}, NEW i, NEW keep, RecvAccept(i, keep)
  PROVE  IInv'
<1> DEFINE e == Server
<1>1. e \in Ends /\ Peer(e) = Client /\ i \in DOMAIN net[Peer(e)]
  BY ConnAssumption DEF RecvAccept, Arrived, Ends, Peer
<1>2. /\ conn' = [conn EXCEPT ![e] = DirectInit] /\ session' = session
      /\ sent' = [sent EXCEPT ![e] = 0] /\ rcvd' = [rcvd EXCEPT ![e] = << >>]
      /\ Transmit(IF keep THEN net ELSE [net EXCEPT ![Peer(e)] = RemoveAt(@, i)],
                  e, NoReply, conn', sent')
      /\ broken' = IF conn[e].state # "OFFLINE" \/ sent[e] > 0 \/ rcvd[e] # << >>
                   THEN broken \cup {"rejoin"} ELSE broken
  BY <1>1 DEF RecvAccept
<1>3. PICK flying : flying = IF keep THEN net ELSE [net EXCEPT ![Peer(e)] = RemoveAt(@, i)]
  OBVIOUS
<1>4. /\ \A d \in Ends : flying[d] \in Seq(Flying(d))
      /\ Transmit(flying, e, NoReply, conn', sent')
  BY <1>1, <1>2, <1>3, InFlightStays
<1>5. /\ sent \in [Ends -> Nat] /\ rcvd \in [Ends -> Seq(Nat)] /\ << >> \in Seq(Nat)
      /\ sent[e] \in Nat /\ rcvd[e] \in Seq(Nat)
  BY <1>1, TypesOf DEF IInv
<1>6. CASE conn[e].state # "OFFLINE" \/ sent[e] > 0 \/ rcvd[e] # << >>
  <2>1. broken' = {"rejoin"}
    BY <1>2, <1>6
  <2>2. \A d \in Ends : flying[d] \in Seq(Packets)
    BY <1>4, FlyingPackets
  <2>3. /\ sent' \in [Ends -> Nat] /\ rcvd' \in [Ends -> Seq(Nat)]
        /\ broken' \subseteq {"out of buffer", "rejoin", "stale construct"}
    BY <1>2, <1>5, <2>1
  <2>4. NoReply \in Seq(Out(Chunks, 0)) /\ DirectInit \in ConnOf(Chunks)
    BY NoReplyOut, ResetIn
  <2>5. TypeOK'
    BY <1>1, <1>2, <1>4, <2>2, <2>3, <2>4, StepTypes DEF IInv
  <2> QED BY <2>1, <2>5 DEF IInv
<1>7. CASE ~(conn[e].state # "OFFLINE" \/ sent[e] > 0 \/ rcvd[e] # << >>)
  <2>1. sent[e] = 0 /\ rcvd[e] = << >> /\ broken' = broken /\ Has(e) = 0
    BY <1>2, <1>5, <1>7 DEF Has
  <2>2. sent' = sent /\ rcvd' = rcvd
    BY <1>2, <1>5, <2>1
  <2>3. /\ DirectInit \in ConnOf(Good(e))
        /\ NoReply \in Seq(Out(Good(e), ChunkSeq(Acked(e))))
    BY ResetIn, NoReplyOut
  <2>4. Linked(DirectInit, sent[e], Has(Peer(e)), Has(e))
    <3>1. Has(Peer(e)) \in Nat
      BY <1>1, EndsAre, TypesOf DEF IInv
    <3>2. ChunkSeq(0) = 0
      BY SequenceAssumption DEF ChunkSeq
    <3>3. /\ DirectInit.sequence = 0 /\ DirectInit.ack = 0
          /\ DirectInit.buffer = << >> /\ Len(<< >>) = 0
      BY DEF DirectInit, Reset
    <3> QED BY <2>1, <3>1, <3>2, <3>3, SequenceAssumption DEF Linked
  <2>5. Transmit(flying, e, NoReply, conn', sent)
    BY <1>4, <2>2
  <2> QED BY <1>1, <1>2, <1>4, <2>1, <2>2, <2>3, <2>4, <2>5, FinishKeeps
<1> QED BY <1>6, <1>7

LEMMA RecvAndResumeKeeps ==
  ASSUME IInv, broken = {}, NEW i, NEW taken, NEW peerAck \in StalePeerAcks,
         NEW left \in {<< >>} \cup {<<[seq |-> s, data |-> 0]>> : s \in StalePeerAcks},
         RecvAndResume(i, taken, peerAck, left)
  PROVE  IInv'
<1> DEFINE e == Server
           u == Read(e, i, FALSE, NoReply, taken)
           r == Fed(e, i, FALSE, NoReply)
           c == [u.c EXCEPT !.peerAck = peerAck, !.chunks = left, !.resendFlag = FALSE]
<1>1. /\ e \in Ends /\ Peer(e) = Client /\ i \in DOMAIN net[Peer(e)] /\ conn[e].state \in Live
      /\ UNCHANGED <<session, sent>>
  BY ConnAssumption DEF RecvAndResume, Arrived, Live, Ends, Peer
<1>2. /\ taken \in 0 .. Len(net[Peer(e)][i].chunks)
      /\ conn' = [conn EXCEPT ![e] = c] /\ rcvd' = [rcvd EXCEPT ![e] = @ \o u.got]
      /\ Transmit(IF FALSE THEN net ELSE [net EXCEPT ![Peer(e)] = RemoveAt(@, i)],
                  e, r.out, conn', sent)
      /\ broken' = IF left = << >> THEN broken ELSE broken \cup {"stale construct"}
  BY DEF RecvAndResume, Receive, Fed, Taken, Read, ResumeConnection
<1>3. NoReply \in Seq(Out(Good(e), ChunkSeq(Has(e))))
  BY NoReplyOut
<1>4. u = Read(e, i, FALSE, NoReply, taken) /\ r = Fed(e, i, FALSE, NoReply)
  OBVIOUS
<1>5. c = [u.c EXCEPT !.peerAck = peerAck, !.chunks = left, !.resendFlag = FALSE]
  OBVIOUS
<1> HIDE DEF u, r, c
<1>6. /\ r.out \in Seq(Out(Good(e), ChunkSeq(Has(e)))) /\ u.c \in ConnOf(Good(e))
      /\ u.got \in Seq(Nat)
      /\ u.c.state \in Live => Linked(u.c, sent[e], Has(Peer(e)), Has(e) + Len(u.got))
  BY <1>1, <1>2, <1>3, <1>4, ReadKeeps
<1>7. peerAck \in SeqNumbers
  BY ConnAssumption
<1>8. CASE left = << >>
  <2>1. c \in ConnOf(Good(e)) /\ c.state = u.c.state /\ c.sequence = u.c.sequence
        /\ c.ack = u.c.ack /\ c.buffer = u.c.buffer
    <3>1. left \in Seq(Good(e))
      BY <1>8
    <3> QED BY <1>5, <1>6, <1>7, <3>1 DEF ConnOf
  <2>2. c.state \in Live => Linked(c, sent[e], Has(Peer(e)), Has(e) + Len(u.got))
    BY <1>6, <2>1 DEF Linked
  <2>3. UNCHANGED broken
    BY <1>2, <1>8
  <2> QED BY <1>1, <1>2, <1>3, <1>4, <1>6, <2>1, <2>2, <2>3, ReceiveKeeps
<1>9. CASE left # << >>
  <2>1. broken' = {"stale construct"}
    BY <1>2, <1>9
  <2>2. left \in Seq(Chunks)
    <3>1. PICK s \in StalePeerAcks : left = <<[seq |-> s, data |-> 0]>>
      BY <1>9
    <3>2. [seq |-> s, data |-> 0] \in Chunks
      BY ConnAssumption DEF Chunks
    <3> QED BY <3>1, <3>2
  <2>3. Good(e) \subseteq Chunks
    BY DEF Good, GoodChunks
  <2>4. c \in ConnOf(Chunks)
    <3>1. u.c \in ConnOf(Chunks)
      BY <1>6, <2>3, ConnGrows
    <3> QED BY <1>5, <1>7, <2>2, <3>1 DEF ConnOf
  <2>5. r.out \in Seq(Out(Chunks, ChunkSeq(Has(e))))
    BY <1>6, <2>3, OutGrows
  <2>6. PICK flying : flying = IF FALSE THEN net ELSE [net EXCEPT ![Peer(e)] = RemoveAt(@, i)]
    OBVIOUS
  <2>7. \A d \in Ends : flying[d] \in Seq(Packets)
    <3>1. \A d \in Ends : flying[d] \in Seq(Flying(d))
      BY <1>1, <2>6, InFlightStays
    <3> QED BY <3>1, FlyingPackets
  <2>8. /\ sent' \in [Ends -> Nat] /\ rcvd' \in [Ends -> Seq(Nat)] /\ session' = session
        /\ broken' \subseteq {"out of buffer", "rejoin", "stale construct"}
    <3>1. sent \in [Ends -> Nat] /\ rcvd \in [Ends -> Seq(Nat)]
      BY TypesOf DEF IInv
    <3>2. rcvd[e] \o u.got \in Seq(Nat)
      BY <1>1, <1>6, <3>1, ConcatIn
    <3> QED BY <1>1, <1>2, <2>1, <3>1, <3>2
  <2>9. Transmit(flying, e, r.out, conn', sent')
    BY <1>1, <1>2, <2>6
  <2>10. TypeOK'
    BY <1>1, <1>2, <2>4, <2>5, <2>7, <2>8, <2>9, StepTypes DEF IInv
  <2> QED BY <2>1, <2>10 DEF IInv
<1> QED BY <1>8, <1>9

-----------------------------------------------------------------------------
LEMMA InitKeeps == Init => IInv
<1> SUFFICES ASSUME Init PROVE IInv
  OBVIOUS
<1>1. /\ session.from \in [Ends -> Nat] /\ sent = session.from /\ session \in Sessions
      /\ net = [e \in Ends |-> << >>] /\ broken = {}
      /\ rcvd = [e \in Ends |-> [i \in 1 .. session.from[Peer(e)] |-> i]]
  BY ConnAssumption DEF Init
<1> DEFINE from == session.from
<1>2. ASSUME NEW e \in Ends
      PROVE  /\ Peer(e) \in Ends /\ from[e] \in Nat /\ from[Peer(e)] \in Nat
             /\ rcvd[e] \in Seq(Nat) /\ Has(e) = from[Peer(e)] /\ Has(Peer(e)) = from[e]
             /\ \A i \in 1 .. Has(e) : rcvd[e][i] = i
  <2>1. Peer(e) \in Ends /\ Peer(Peer(e)) = e
    BY EndsAre
  <2>2. ASSUME NEW d \in Ends
        PROVE  /\ Peer(d) \in Ends /\ from[Peer(d)] \in Nat /\ rcvd[d] \in Seq(Nat)
               /\ Has(d) = from[Peer(d)] /\ \A i \in 1 .. Has(d) : rcvd[d][i] = i
    <3>1. PICK n \in Nat : n = from[Peer(d)] /\ Peer(d) \in Ends
      BY <1>1, EndsAre
    <3>2. rcvd[d] = [i \in 1 .. n |-> i]
      BY <1>1, <3>1
    <3>3. rcvd[d] \in Seq(Nat) /\ Len(rcvd[d]) = n /\ \A i \in 1 .. n : rcvd[d][i] = i
      BY <3>2
    <3> QED BY <3>1, <3>3 DEF Has
  <2> QED BY <1>1, <2>1, <2>2
<1>3. ASSUME NEW e \in Ends
      PROVE  /\ conn[e] \in ConnOf(Good(e))
             /\ conn[e].state \in Live => Linked(conn[e], from[e], Has(Peer(e)), Has(e))
  <2> DEFINE up == [DirectInit EXCEPT !.sequence = ChunkSeq(from[e]),
                                     !.peerAck = ChunkSeq(from[e]),
                                     !.ack = ChunkSeq(from[Peer(e)])]
  <2>1. conn[e] = Reset \/ conn[e] = up
    BY <1>1 DEF Init
  <2>2. Reset \in ConnOf(Good(e)) /\ Reset.state \notin Live
    BY ResetIn DEF Reset, Live
  <2>3. ChunkSeq(from[e]) \in SeqNumbers /\ ChunkSeq(from[Peer(e)]) \in SeqNumbers
    BY <1>2, DivMod DEF ChunkSeq, SeqNumbers, M
  <2>4. up \in ConnOf(Good(e))
    BY <2>3, ResetIn DEF ConnOf
  <2>5. /\ up.sequence = ChunkSeq(from[e]) /\ up.ack = ChunkSeq(from[Peer(e)])
        /\ up.buffer = << >> /\ Len(<< >>) = 0
    BY DEF DirectInit, Reset
  <2> HIDE DEF up
  <2>6. Linked(up, from[e], Has(Peer(e)), Has(e))
    BY <1>2, <2>5, SequenceAssumption DEF Linked
  <2> QED BY <2>1, <2>2, <2>4, <2>6
<1>4. SafeInv
  <2> SUFFICES ASSUME NEW e \in Ends
               PROVE  /\ Has(e) <= sent[Peer(e)]
                      /\ \A i \in 1 .. Has(e) : rcvd[e][i] = i
                      /\ conn[e] \in ConnOf(Good(e))
                      /\ conn[e].state \in Live => Linked(conn[e], sent[e], Has(Peer(e)), Has(e))
                      /\ net[e] \in Seq(Flying(e))
    BY DEF SafeInv
  <2>1. net[e] \in Seq(Flying(e))
    BY <1>1
  <2>2. /\ Peer(e) \in Ends /\ sent[e] = from[e] /\ sent[Peer(e)] = from[Peer(e)]
        /\ from[Peer(e)] \in Nat /\ Has(e) = from[Peer(e)]
        /\ \A i \in 1 .. Has(e) : rcvd[e][i] = i
    BY <1>1, <1>2
  <2>3. /\ conn[e] \in ConnOf(Good(e))
        /\ conn[e].state \in Live => Linked(conn[e], sent[e], Has(Peer(e)), Has(e))
    BY <1>3, <2>2
  <2>4. Has(e) <= sent[Peer(e)]
    BY <2>2
  <2> QED BY <2>1, <2>2, <2>3, <2>4
<1>5. TypeOK
  <2>1. conn = [e \in Ends |-> conn[e]]
    BY DEF Init
  <2>2. \A e \in Ends : conn[e] \in ConnOf(Chunks)
    <3> SUFFICES ASSUME NEW e \in Ends PROVE conn[e] \in ConnOf(Chunks)
      OBVIOUS
    <3>1. Good(e) \subseteq Chunks
      BY DEF Good, GoodChunks
    <3> QED BY <1>3, <3>1, ConnGrows
  <2>3. conn \in [Ends -> ConnOf(Chunks)]
    BY <2>1, <2>2
  <2>4. net \in [Ends -> Seq(Packets)]
    BY <1>1
  <2>5. rcvd \in [Ends -> Seq(Nat)]
    BY <1>1, <1>2
  <2> QED BY <1>1, <2>3, <2>4, <2>5 DEF TypeOK, ConnOf
<1> QED BY <1>4, <1>5 DEF IInv

LEMMA NextKeeps == IInv /\ [Next]_vars => IInv'
<1> SUFFICES ASSUME IInv, [Next]_vars PROVE IInv'
  OBVIOUS
<1>1. CASE UNCHANGED vars
  BY <1>1 DEF vars, IInv, TypeOK, SafeInv, Has, Good, Flying
<1>2. CASE Next
  <2>1. broken = {}
    BY <1>2 DEF Next
  <2>2. CASE Connect
    BY <2>1, <2>2, ConnectKeeps
  <2>3. ASSUME NEW e \in Ends, SendVital(e) PROVE IInv'
    BY <2>1, <2>3, SendVitalKeeps
  <2>4. ASSUME NEW e \in Ends, SendFlush(e) PROVE IInv'
    BY <2>1, <2>4, SendFlushKeeps
  <2>5. ASSUME NEW e \in Ends, Close(e) \/ TimeOut(e) PROVE IInv'
    BY <2>1, <2>5, CloseKeeps
  <2>6. ASSUME NEW e \in Ends, NEW due, Update(e, due) PROVE IInv'
    BY <2>1, <2>6, UpdateKeeps
  <2>7. ASSUME NEW e \in Ends, NEW i, NEW due, NEW keep, Recv(e, i, due, keep) PROVE IInv'
    BY <2>1, <2>7, RecvKeeps
  <2>8. ASSUME NEW e \in Ends, NEW i, NEW taken, RecvAndClose(e, i, taken) PROVE IInv'
    BY <2>1, <2>8, RecvAndCloseKeeps
  <2>9. ASSUME NEW i, NEW keep, RecvConnect(i, keep) \/ RecvAccept(i, keep) PROVE IInv'
    BY <2>1, <2>9, RecvConnectKeeps, RecvAcceptKeeps
  <2>10. ASSUME NEW i, NEW taken, NEW peerAck \in StalePeerAcks,
                NEW left \in {<< >>} \cup {<<[seq |-> s, data |-> 0]>> : s \in StalePeerAcks},
                RecvAndResume(i, taken, peerAck, left)
         PROVE  IInv'
    BY <2>1, <2>10, RecvAndResumeKeeps
  <2> QED BY <1>2, <2>2, <2>3, <2>4, <2>5, <2>6, <2>7, <2>8, <2>9, <2>10 DEF Next
<1> QED BY <1>1, <1>2

LEMMA ConnInvariant == Spec => []IInv
BY InitKeeps, NextKeeps, PTL DEF Spec

-----------------------------------------------------------------------------
(* The connection hands out the vital chunks in the order they were queued,*)
(* each once, and never drops one the peer lacks from its resend buffer,   *)
(* whatever the network loses, repeats and reorders: for every size of the *)
(* sequence space, the resend buffer and the packets.                      *)
THEOREM AlwaysReliable == Spec => []Reliable
<1>1. IInv => Reliable
  <2> SUFFICES ASSUME IInv PROVE Reliable
    OBVIOUS
  <2>1. VitalInOrder
    <3> SUFFICES ASSUME broken = {}, NEW e \in Ends, NEW i \in DOMAIN rcvd[e]
                 PROVE  rcvd[e][i] = i
      BY DEF VitalInOrder
    <3>1. rcvd[e] \in Seq(Nat)
      BY TypesOf DEF IInv
    <3>2. i \in 1 .. Has(e)
      BY <3>1 DEF Has
    <3> QED BY <3>2 DEF IInv, SafeInv
  <2>2. BufferCovers
    <3> SUFFICES ASSUME BothOnline, broken = {}, NEW e \in Ends,
                        NEW n \in Len(rcvd[Peer(e)]) + 1 .. sent[e]
                 PROVE  \E i \in DOMAIN conn[e].buffer : conn[e].buffer[i].data = n
      BY DEF BufferCovers
    <3>1. Linked(conn[e], sent[e], Has(Peer(e)), Has(e))
      BY DEF BothOnline, Live, IInv, SafeInv
    <3>2. /\ sent[e] \in Nat /\ Has(Peer(e)) \in Nat /\ conn[e].buffer \in Seq(Chunks)
      BY EndsAre, TypesOf DEF IInv, ConnOf
    <3>3. PICK j \in Nat : j = Len(conn[e].buffer) /\ DOMAIN conn[e].buffer = 1 .. j
      BY <3>2
    <3>4. /\ sent[e] - j <= Has(Peer(e)) /\ j <= sent[e]
          /\ \A i \in 1 .. j : conn[e].buffer[i].data = sent[e] - j + i
      BY <3>1, <3>3 DEF Linked
    <3>5. n \in Has(Peer(e)) + 1 .. sent[e]
      BY DEF Has
    <3>6. n - (sent[e] - j) \in 1 .. j /\ sent[e] - j + (n - (sent[e] - j)) = n
      BY <3>2, <3>4, <3>5
    <3> QED BY <3>3, <3>4, <3>6
  <2> QED BY <2>1, <2>2 DEF Reliable, IInv
<1> QED BY <1>1, ConnInvariant, PTL

(* The ack test of Feed never locks the peer out, also after a resumed     *)
(* session kept the last ack of another one.                               *)
THEOREM NeverLockedOut == Spec => []NoLockOut
<1>1. IInv => NoLockOut
  <2> SUFFICES ASSUME IInv, BothOnline, broken = {}, NEW e \in Ends
               PROVE  \/ AckInRange(conn[e].sequence, conn[e].peerAck, conn[Peer(e)].ack)
                      \/ /\ conn[e].buffer # << >>
                         /\ AckInRange(conn[e].sequence, conn[e].peerAck, conn[e].sequence)
    BY DEF NoLockOut
  <2>1. Peer(e) \in Ends /\ Peer(Peer(e)) = e
    BY EndsAre
  <2>2. /\ Linked(conn[e], sent[e], Has(Peer(e)), Has(e)) /\ Has(Peer(e)) <= sent[e]
        /\ Linked(conn[Peer(e)], sent[Peer(e)], Has(e), Has(Peer(e)))
    BY <2>1 DEF BothOnline, Live, IInv, SafeInv
  <2>3. /\ sent[e] \in Nat /\ Has(Peer(e)) \in Nat
        /\ conn[e].sequence \in Int /\ conn[e].peerAck \in Int
    <3>1. conn[e].sequence \in SeqNumbers /\ conn[e].peerAck \in SeqNumbers
      BY TypesOf DEF IInv, ConnOf
    <3> QED BY <2>1, <3>1, TypesOf DEF IInv, SeqNumbers
  <2>4. AckInRange(conn[e].sequence, conn[e].peerAck, conn[e].sequence)
    BY <2>3 DEF AckInRange
  <2>5. CASE conn[e].buffer = << >>
    <3>1. Len(<< >>) = 0
      OBVIOUS
    <3>2. sent[e] = Has(Peer(e))
      BY <2>2, <2>3, <2>5, <3>1 DEF Linked
    <3>3. conn[Peer(e)].ack = conn[e].sequence
      BY <2>2, <3>2 DEF Linked
    <3> QED BY <2>4, <3>3
  <2> QED BY <2>4, <2>5
<1> QED BY <1>1, ConnInvariant, PTL

-----------------------------------------------------------------------------
(* The window protocol of one direction, for itself: VitalWindow keeps its *)
(* promise for every size of the sequence space, the resend buffer and the *)
(* delays that SequenceAssumption allows.                                  *)
VARIABLES queued, log, base

W == INSTANCE VitalWindow WITH sent <- queued

LEMMA NewerNotInWindow ==
  ASSUME NEW k \in Nat, NEW n \in Nat, k < n, 2 * (n - k) < M
  PROVE  ~W!IsSeqInBackroom(W!ChunkSeq(n), W!ChunkSeq(k))
BY NewerNotInBackroom DEF W!IsSeqInBackroom, W!ChunkSeq, IsSeqInBackroom, ChunkSeq

(* The inductive invariant: what the receiver has and what the sender      *)
(* still keeps overlap, and together they are never further apart than     *)
(* the resend buffer is long.                                              *)
WindowBounds ==
  /\ Len(log) <= queued
  /\ 1 <= base /\ base <= queued + 1
  /\ queued - base + 1 <= BufferSize

WindowInv == W!TypeOK /\ W!InOrder /\ W!BufferCovers /\ WindowBounds

(* The next number is the number of the next message: in a state of the    *)
(* invariant the receiver takes no other chunk for it.                     *)
LEMMA NextNumber ==
  ASSUME WindowInv, NEW n \in Nat, W!Receive(n)
  PROVE  n = Len(log) + 1
<1> DEFINE l == Len(log)
<1>1. /\ M \in Nat /\ M > 1 /\ BufferSize \in Nat /\ AckDelay \in Nat /\ ChunkSpan \in Nat
      /\ ChunkSpan < M /\ 2 * (BufferSize + AckDelay) < M
  BY SequenceAssumption DEF M
<1>2. /\ l \in Nat /\ queued \in Nat /\ base \in Nat
      /\ l <= queued /\ base <= l + 1 /\ queued - base + 1 <= BufferSize
  BY DEF WindowInv, W!TypeOK, W!BufferCovers, WindowBounds
<1>3. n \in Nat /\ n <= queued /\ queued - n < ChunkSpan
  BY <1>1, <1>2 DEF W!Receive
<1>4. n % M = ((l % M) + 1) % M
  BY DEF W!Receive, W!ChunkSeq, M
<1>5. (l + 1) % M = ((l % M) + 1) % M
  BY <1>2, ModSucc
<1>6. n - (l + 1) < M /\ (l + 1) - n < M
  BY <1>1, <1>2, <1>3
<1> HIDE DEF l
<1>7. n = l + 1
  BY <1>2, <1>3, <1>4, <1>5, <1>6, SameNumber
<1> QED BY <1>7 DEF l

-----------------------------------------------------------------------------
LEMMA InitWindow == W!Init => WindowInv
BY SequenceAssumption DEF W!Init, WindowInv, W!TypeOK, W!InOrder, W!BufferCovers, WindowBounds

LEMMA QueueWindow == WindowInv /\ W!Queue => WindowInv'
BY SequenceAssumption DEF W!Queue, WindowInv, W!TypeOK, W!InOrder, W!BufferCovers, WindowBounds

LEMMA ReceiveWindow ==
  ASSUME WindowInv, NEW n \in Nat, W!Receive(n)
  PROVE  WindowInv'
<1>1. n = Len(log) + 1
  BY NextNumber
<1>2. /\ queued \in Nat /\ base \in Nat /\ log \in Seq(Nat) /\ n <= queued
      /\ log' = Append(log, n) /\ queued' = queued /\ base' = base
  BY DEF W!Receive, WindowInv, W!TypeOK
<1>3. log' \in Seq(Nat) /\ Len(log') = Len(log) + 1
  BY <1>2
<1>4. W!InOrder'
  BY <1>1, <1>2 DEF W!InOrder, WindowInv
<1> QED BY <1>1, <1>2, <1>3, <1>4 DEF WindowInv, W!TypeOK, W!BufferCovers, WindowBounds

(* An ack releases nothing the receiver does not have: the first message   *)
(* it lacks is newer than the ack by less than half of the sequence space. *)
LEMMA ReleaseWindow ==
  ASSUME WindowInv, NEW k \in Nat, W!Release(k)
  PROVE  WindowInv'
<1> DEFINE n == Len(log) + 1
<1>1. /\ queued \in Nat /\ base \in Nat /\ log \in Seq(Nat) /\ Len(log) \in Nat /\ Len(log) <= queued
      /\ 1 <= base /\ base <= queued + 1 /\ base <= n /\ queued - base + 1 <= BufferSize
  BY DEF WindowInv, W!TypeOK, W!BufferCovers, WindowBounds
<1>2. k <= Len(log) /\ queued - k <= BufferSize + AckDelay /\ log' = log /\ queued' = queued
  BY <1>1 DEF W!Release
<1>3. PICK b \in base .. queued + 1 :
        /\ \A m \in base .. b - 1 : W!IsSeqInBackroom(W!ChunkSeq(m), W!ChunkSeq(k))
        /\ base' = b
  BY DEF W!Release
<1>4. BufferSize \in Nat /\ AckDelay \in Nat /\ M \in Nat /\ 2 * (BufferSize + AckDelay) < M
  BY SequenceAssumption DEF M
<1>5. b <= n
  <2> SUFFICES ASSUME b > n PROVE FALSE
    BY <1>1, <1>3
  <2>1. n \in base .. b - 1 /\ n <= queued
    BY <1>1, <1>3
  <2>2. n \in Nat /\ k < n /\ 2 * (n - k) < M
    BY <1>1, <1>2, <1>4, <2>1
  <2> QED BY <1>3, <2>1, <2>2, NewerNotInWindow
<1>6. W!InOrder'
  BY <1>2 DEF WindowInv, W!InOrder
<1>7. base' = b /\ b \in Nat /\ b <= Len(log') + 1 /\ base <= b /\ b <= queued + 1
  BY <1>1, <1>2, <1>3, <1>5
<1>8. W!TypeOK'
  BY <1>1, <1>2, <1>7 DEF W!TypeOK
<1>9. W!BufferCovers'
  BY <1>7 DEF W!BufferCovers
<1>10. WindowBounds'
  BY <1>1, <1>2, <1>4, <1>7 DEF WindowBounds
<1> QED BY <1>6, <1>8, <1>9, <1>10 DEF WindowInv

LEMMA StutterWindow == WindowInv /\ UNCHANGED W!vars => WindowInv'
BY DEF W!vars, WindowInv, W!TypeOK, W!InOrder, W!BufferCovers, WindowBounds

LEMMA WindowInvariant == W!Spec => []WindowInv
<1>1. WindowInv /\ [W!Next]_(W!vars) => WindowInv'
  BY QueueWindow, ReceiveWindow, ReleaseWindow, StutterWindow DEF W!Next
<1> QED BY InitWindow, <1>1, PTL DEF W!Spec

-----------------------------------------------------------------------------
(* The receiver's log and the sender's window keep their types.            *)
THEOREM WindowTypes == W!Spec => []W!TypeOK
BY WindowInvariant, PTL DEF WindowInv

(* Whatever is lost, delayed, repeated or reordered within the assumed     *)
(* delays, CNetRecvUnpacker hands out the vital chunks in the order they   *)
(* were queued, each once.                                                 *)
THEOREM WindowInOrder == W!Spec => []W!InOrder
BY WindowInvariant, PTL DEF WindowInv

(* AckChunks never drops a chunk the peer has not received, so a resend    *)
(* can always fill the gap.                                                *)
THEOREM WindowBufferCovers == W!Spec => []W!BufferCovers
BY WindowInvariant, PTL DEF WindowInv
=============================================================================
