---------------------------- MODULE PipesProofs -----------------------------
(***************************************************************************)
(* Proofs about the pipes.  While a process forks only when it has both    *)
(* ends of every pipe it created and of no other, and closes its ends      *)
(* before it exits, the count of each end is the number of processes that  *)
(* have it open, and every pipe is a stream, for buffers of any size.      *)
(***************************************************************************)
EXTENDS Pipes, FiniteSetTheorems, SequenceTheorems, TLAPS

-----------------------------------------------------------------------------
(* The inductive invariant. *)

Octets == Bytes \cup {0}

Ops == {NoOp}
       \cup [call : {"read"}, slot : Slots, count : 1..BufSize]
       \cup [call : {"write"}, slot : Slots, left : Seq(Octets) \ {<<>>}]

PipeTypes ==
    /\ pipe_used \in [Slots -> BOOLEAN] /\ creator_pid \in [Slots -> PipeProcs]
    /\ refs \in [Slots -> [Ends -> Nat]]
    /\ pipe_buf \in [Slots -> [Pos -> Octets]]
    /\ read_pos \in [Slots -> Pos] /\ write_pos \in [Slots -> Pos]
    /\ data_bytes \in [Slots -> 0..BufSize]
    /\ alive \subseteq PipeProcs
    /\ holds \in [PipeProcs -> SUBSET (Slots \X Ends)]
    /\ op \in [PipeProcs -> Ops]
    /\ sent \in [Slots -> Seq(Octets)] /\ rcvd \in [Slots -> Seq(Octets)]

\* Only live processes hold ends, and a count is the number of the holders.
Counted ==
    /\ \A p \in PipeProcs \ alive : holds[p] = {}
    /\ \A i \in Slots, e \in Ends :
          IF pipe_used[i] THEN refs[i][e] = Cardinality(EndHolders(i, e))
          ELSE EndHolders(i, e) = {}

\* The buffered bytes lie between the two positions.
RingOk == \A i \in Slots : write_pos[i] = (read_pos[i] + data_bytes[i]) % BufSize

PipeInv == PipeTypes /\ Counted /\ RingOk /\ StreamExact

-----------------------------------------------------------------------------
(* The ring. *)

\* The position of the k-th byte from position r on.
At(r, k) == (r + k - 1) % BufSize

\* The n bytes from position r on.
Ring(b, r, n) == [k \in 1..n |-> b[At(r, k)]]

\* An index that has gone round at most once.
LEMMA WrapOnce ==
    ASSUME NEW a \in Nat, a < BufSize + BufSize
    PROVE  a % BufSize = IF a < BufSize THEN a ELSE a - BufSize
<1>1. CASE a < BufSize
  BY <1>1, PipesAssumption
<1>2. CASE a >= BufSize
  <2>1. a - BufSize \in 0 .. BufSize - 1 /\ a % BufSize \in 0 .. BufSize - 1
    BY <1>2, PipesAssumption
  <2>2. a = BufSize * (a \div BufSize) + (a % BufSize)
    BY PipesAssumption
  <2> QED BY <1>2, <2>1, <2>2, PipesAssumption
<1> QED
  BY <1>1, <1>2, PipesAssumption

LEMMA AtIs ==
    ASSUME NEW r \in Pos, NEW k \in 1..BufSize
    PROVE  /\ At(r, k) = IF (r + k) - 1 < BufSize THEN (r + k) - 1 ELSE (r + k) - 1 - BufSize
           /\ At(r, k) \in Pos
<1>1. (r + k) - 1 \in Nat /\ (r + k) - 1 < BufSize + BufSize /\ BufSize \in Nat \ {0}
      /\ r \in Nat /\ r < BufSize /\ k \in Nat /\ k >= 1
  BY PipesAssumption DEF Pos
<1>2. At(r, k) = IF (r + k) - 1 < BufSize THEN (r + k) - 1 ELSE (r + k) - 1 - BufSize
  BY <1>1, WrapOnce DEF At
<1> QED BY <1>1, <1>2 DEF Pos

\* The position n bytes on.
LEMMA OnIs ==
    ASSUME NEW r \in Pos, NEW n \in 0..BufSize
    PROVE  /\ (r + n) % BufSize = IF r + n < BufSize THEN r + n ELSE r + n - BufSize
           /\ (r + n) % BufSize \in Pos
<1>1. r + n \in Nat /\ r + n < BufSize + BufSize /\ BufSize \in Nat \ {0} /\ r \in Nat
      /\ r < BufSize /\ n \in Nat
  BY PipesAssumption DEF Pos
<1>2. (r + n) % BufSize = IF r + n < BufSize THEN r + n ELSE r + n - BufSize
  BY <1>1, WrapOnce
<1> QED BY <1>1, <1>2 DEF Pos

LEMMA AtOn ==
    ASSUME NEW r \in Pos, NEW n \in 0..BufSize, NEW k \in 1..BufSize, n + k <= BufSize
    PROVE  At((r + n) % BufSize, k) = At(r, n + k)
<1>1. PICK w \in Pos : w = (r + n) % BufSize
  BY OnIs
<1>2. w = IF r + n < BufSize THEN r + n ELSE r + n - BufSize
  BY <1>1, OnIs
<1>3. At(w, k) = IF (w + k) - 1 < BufSize THEN (w + k) - 1 ELSE (w + k) - 1 - BufSize
  BY AtIs
<1>4. n + k \in 1..BufSize
  BY PipesAssumption
<1>5. At(r, n + k) = IF (r + (n + k)) - 1 < BufSize THEN (r + (n + k)) - 1
                     ELSE (r + (n + k)) - 1 - BufSize
  BY <1>4, AtIs
<1>6. BufSize \in Nat \ {0} /\ r \in Nat /\ r < BufSize /\ n \in Nat /\ k \in Nat /\ k >= 1
  BY PipesAssumption DEF Pos
<1> QED BY <1>1, <1>2, <1>3, <1>5, <1>6

LEMMA AtDiffers ==
    ASSUME NEW r \in Pos, NEW j \in 1..BufSize, NEW k \in 1..BufSize, At(r, j) = At(r, k)
    PROVE  j = k
<1>1. /\ BufSize \in Nat \ {0} /\ r \in Nat /\ r < BufSize
      /\ j \in Nat /\ j >= 1 /\ j <= BufSize /\ k \in Nat /\ k >= 1 /\ k <= BufSize
  BY PipesAssumption DEF Pos
<1>2. At(r, j) = IF (r + j) - 1 < BufSize THEN (r + j) - 1 ELSE (r + j) - 1 - BufSize
  BY AtIs
<1>3. At(r, k) = IF (r + k) - 1 < BufSize THEN (r + k) - 1 ELSE (r + k) - 1 - BufSize
  BY AtIs
<1>4. (IF (r + j) - 1 < BufSize THEN (r + j) - 1 ELSE (r + j) - 1 - BufSize)
      = (IF (r + k) - 1 < BufSize THEN (r + k) - 1 ELSE (r + k) - 1 - BufSize)
  BY ZenonT(60), <1>2, <1>3
<1> QED BY ONLY <1>1, <1>4

LEMMA RingType ==
    ASSUME NEW S, NEW b \in [Pos -> S], NEW r \in Pos, NEW n \in 0..BufSize
    PROVE  Ring(b, r, n) \in Seq(S) /\ Len(Ring(b, r, n)) = n
<1>1. n \in Nat /\ \A k \in 1..n : k \in 1..BufSize
  BY PipesAssumption
<1>2. \A k \in 1..n : b[At(r, k)] \in S
  BY <1>1, AtIs
<1>3. Ring(b, r, n) \in [1..n -> S]
  BY <1>2 DEF Ring
<1> QED BY <1>1, <1>3

\* The first n of m bytes and the others.
LEMMA RingSplit ==
    ASSUME NEW S, NEW b \in [Pos -> S], NEW r \in Pos, NEW m \in 0..BufSize, NEW n \in 0..m
    PROVE  Ring(b, r, n) \o Ring(b, (r + n) % BufSize, m - n) = Ring(b, r, m)
<1> DEFINE x == Ring(b, r, n)
           y == Ring(b, (r + n) % BufSize, m - n)
           z == Ring(b, r, m)
<1>1. m \in Nat /\ n \in Nat /\ n <= m /\ m <= BufSize /\ BufSize \in Nat
      /\ n \in 0..BufSize /\ m - n \in 0..BufSize
  BY PipesAssumption
<1>2. (r + n) % BufSize \in Pos
  BY <1>1, OnIs
<1>3. /\ x \in Seq(S) /\ Len(x) = n /\ y \in Seq(S) /\ Len(y) = m - n
      /\ z \in Seq(S) /\ Len(z) = m
  BY ZenonT(60), <1>1, <1>2, RingType
<1>4. \A k \in 1..n : x[k] = z[k]
  BY <1>1 DEF Ring
<1>5. \A k \in 1..(m - n) : y[k] = z[n + k]
  <2> TAKE k \in 1..(m - n)
  <2>1. k \in 1..BufSize /\ n + k <= BufSize /\ n + k \in 1..m
    BY <1>1
  <2>2. At((r + n) % BufSize, k) = At(r, n + k)
    BY <1>1, <2>1, AtOn
  <2> QED BY <2>1, <2>2 DEF Ring
<1> HIDE DEF x, y, z
<1>6. /\ x \o y \in Seq(S) /\ Len(x \o y) = m
      /\ \A k \in 1..m : (x \o y)[k] = IF k <= n THEN x[k] ELSE y[k - n]
  <2>1. /\ x \o y \in Seq(S) /\ Len(x \o y) = Len(x) + Len(y)
        /\ \A k \in 1..(Len(x) + Len(y)) : (x \o y)[k] = IF k <= Len(x) THEN x[k] ELSE y[k - Len(x)]
    BY ONLY ZenonT(60), <1>3, ConcatProperties
  <2>2. Len(x) + Len(y) = m
    BY ONLY <1>1, <1>3
  <2> QED BY ONLY ZenonT(60), <1>3, <2>1, <2>2
<1>7. \A k \in 1..m : (x \o y)[k] = z[k]
  <2> TAKE k \in 1..m
  <2>1. CASE k <= n
    <3>1. k \in 1..n
      BY <1>1, <2>1
    <3> QED BY ZenonT(60), <1>4, <1>6, <2>1, <3>1
  <2>2. CASE k > n
    <3>1. k - n \in 1..(m - n) /\ n + (k - n) = k /\ ~(k <= n)
      BY <1>1, <2>2
    <3> QED BY ZenonT(60), <1>5, <1>6, <3>1
  <2>3. k <= n \/ k > n
    BY <1>1
  <2> QED BY ZenonT(60), <2>1, <2>2, <2>3
<1>8. x \o y = z
  BY ZenonT(60), <1>3, <1>6, <1>7, SeqEqual
<1> QED BY <1>8 DEF x, y, z

\* The first n bytes of s stored from position w on.
Put(b, w, s, n) ==
    [k \in Pos |->
        IF \E j \in 1..n : k = At(w, j)
        THEN s[CHOOSE j \in 1..n : k = At(w, j) /\ \A h \in (j + 1)..n : k # At(w, h)]
        ELSE b[k]]

\* Bytes stored behind those that are there follow them.
LEMMA RingPut ==
    ASSUME NEW S, NEW b \in [Pos -> S], NEW r \in Pos, NEW m \in 0..BufSize,
           NEW s \in Seq(S), NEW n \in 0..Len(s), m + n <= BufSize,
           NEW w \in Pos, w = (r + m) % BufSize
    PROVE  /\ Put(b, w, s, n) \in [Pos -> S]
           /\ Ring(Put(b, w, s, n), r, m + n) = Ring(b, r, m) \o SubSeq(s, 1, n)
<1> DEFINE c == Put(b, w, s, n)
<1>1. /\ m \in Nat /\ n \in Nat /\ n <= Len(s) /\ BufSize \in Nat \ {0} /\ n \in 0..BufSize
      /\ m + n \in 0..BufSize /\ m \in 0..(m + n) /\ (m + n) - m = n
      /\ \A j \in 1..n : j \in 1..BufSize /\ j \in 1..Len(s)
  BY PipesAssumption, LenProperties
<1>2. \A j \in 1..n : c[At(w, j)] = s[j]
  <2> TAKE j \in 1..n
  <2>1. \A h \in 1..n : At(w, h) = At(w, j) => h = j
    BY <1>1, AtDiffers
  <2>2. At(w, j) \in Pos
    BY <1>1, AtIs
  <2>3. \A h \in (j + 1)..n : h \in 1..n /\ h # j
    BY <1>1
  <2>4. j = CHOOSE i \in 1..n : At(w, j) = At(w, i) /\ \A h \in (i + 1)..n : At(w, j) # At(w, h)
    BY <2>1, <2>3
  <2> QED BY ZenonT(60), <2>2, <2>4 DEF Put
<1>3. \A k \in Pos : (\A j \in 1..n : k # At(w, j)) => c[k] = b[k]
  BY DEF Put
<1>4. c \in [Pos -> S]
  <2>1. \A k \in Pos : c[k] \in S
    BY <1>1, <1>2, <1>3, ElementOfSeq
  <2>2. c = [k \in Pos |-> c[k]]
    BY DEF Put
  <2> HIDE DEF c
  <2> QED BY <2>1, <2>2
<1>5. \A k \in 1..m : c[At(r, k)] = b[At(r, k)]
  <2> TAKE k \in 1..m
  <2>1. k \in 1..BufSize
    BY <1>1
  <2>2. ASSUME NEW j \in 1..n
        PROVE  At(w, j) = At(r, m + j) /\ m + j \in 1..BufSize /\ m + j # k
    <3>1. m + j \in 1..BufSize /\ m + j # k /\ m + j <= BufSize
      BY <1>1
    <3>2. At((r + m) % BufSize, j) = At(r, m + j)
      BY ZenonT(60), <1>1, <3>1, AtOn
    <3> QED BY <3>1, <3>2
  <2>3. \A j \in 1..n : At(r, k) # At(w, j)
    BY <2>1, <2>2, AtDiffers
  <2> QED BY ZenonT(60), <1>3, <2>1, <2>3, AtIs
<1> HIDE DEF c
<1>6. Ring(c, r, m) = Ring(b, r, m)
  BY <1>5 DEF Ring
<1>7. Ring(c, w, n) = SubSeq(s, 1, n)
  <2>1. /\ SubSeq(s, 1, n) \in Seq(S) /\ Len(SubSeq(s, 1, n)) = n
        /\ \A j \in 1..n : SubSeq(s, 1, n)[j] = s[j]
    BY <1>1, ElementOfSeq, SubSeqProperties
  <2>2. Ring(c, w, n) \in Seq(S) /\ Len(Ring(c, w, n)) = n
    BY <1>1, <1>4, RingType
  <2>3. \A j \in 1..n : Ring(c, w, n)[j] = s[j]
    BY <1>2 DEF Ring
  <2> QED BY <2>1, <2>2, <2>3, SeqEqual
<1>8. Ring(c, r, m) \o Ring(c, w, n) = Ring(c, r, m + n)
  <2>1. Ring(c, r, m) \o Ring(c, (r + m) % BufSize, (m + n) - m) = Ring(c, r, m + n)
    BY Zenon, <1>1, <1>4, RingSplit
  <2> QED BY <1>1, <2>1
<1> QED BY ZenonT(60), <1>4, <1>6, <1>7, <1>8 DEF c

-----------------------------------------------------------------------------
(* The counts. *)

LEMMA HoldersFinite ==
    ASSUME NEW i, NEW e
    PROVE  /\ IsFiniteSet(EndHolders(i, e)) /\ Cardinality(EndHolders(i, e)) \in Nat
           /\ Cardinality(EndHolders(i, e)) = 0 <=> EndHolders(i, e) = {}
<1>1. EndHolders(i, e) \subseteq PipeProcs
  BY DEF EndHolders
<1>2. IsFiniteSet(EndHolders(i, e))
  BY <1>1, PipesAssumption, FS_Subset
<1> QED BY <1>2, FS_CardinalityType, FS_EmptySet

LEMMA PipeInvInit == PipeInit => PipeInv
<1> SUFFICES ASSUME PipeInit PROVE PipeInv
  OBVIOUS
<1>1. 0 \in Pos /\ 0 \in 0..BufSize /\ 0 \in Octets /\ FirstProc \in PipeProcs /\ BufSize \in Nat \ {0}
  BY PipesAssumption DEF Pos, Octets
<1>2. \A S : <<>> \in Seq(S)
  BY EmptySeq
<1>3. PipeTypes
  BY <1>1, <1>2 DEF PipeInit, PipeTypes, Ops
<1>4. Counted
  BY <1>1 DEF PipeInit, Counted, EndHolders
<1>5. RingOk
  BY <1>1 DEF PipeInit, RingOk
<1>6. StreamExact
  BY DEF PipeInit, StreamExact
<1> QED BY <1>3, <1>4, <1>5, <1>6 DEF PipeInv

\* A new pipe is empty, and its creator has both ends.
LEMMA CreatePreserves ==
    ASSUME PipeInv, NEW p \in PipeProcs, pipe_create(p)
    PROVE  PipeInv'
<1>0. PipeTypes
  BY ZenonT(60) DEF PipeInv
<1>1. PICK i \in Slots :
        /\ p \in alive /\ ~pipe_used[i]
        /\ pipe_used' = [pipe_used EXCEPT ![i] = TRUE]
        /\ creator_pid' = [creator_pid EXCEPT ![i] = p]
        /\ refs' = [refs EXCEPT ![i] = [e \in Ends |-> 1]]
        /\ pipe_buf' = [pipe_buf EXCEPT ![i] = [k \in Pos |-> 0]]
        /\ read_pos' = [read_pos EXCEPT ![i] = 0]
        /\ write_pos' = [write_pos EXCEPT ![i] = 0]
        /\ data_bytes' = [data_bytes EXCEPT ![i] = 0]
        /\ holds' = [holds EXCEPT ![p] = @ \cup {<<i, e>> : e \in Ends}]
        /\ sent' = [sent EXCEPT ![i] = <<>>]
        /\ rcvd' = [rcvd EXCEPT ![i] = <<>>]
        /\ UNCHANGED <<alive, op>>
  BY ZenonT(60) DEF pipe_create, InUser
<1>2. /\ 0 \in Pos /\ 0 \in 0..BufSize /\ 0 \in Octets /\ BufSize \in Nat \ {0} /\ 0 % BufSize = 0
      /\ [e \in Ends |-> 1] \in [Ends -> Nat] /\ [k \in Pos |-> 0] \in [Pos -> Octets]
      /\ <<>> \in Seq(Octets)
  BY PipesAssumption, EmptySeq DEF Pos, Octets
<1>3. holds' \in [PipeProcs -> SUBSET (Slots \X Ends)]
  BY <1>0, <1>1 DEF PipeTypes
<1>4. PipeTypes'
  <2>1. /\ pipe_used' \in [Slots -> BOOLEAN] /\ creator_pid' \in [Slots -> PipeProcs]
        /\ refs' \in [Slots -> [Ends -> Nat]] /\ alive' \subseteq PipeProcs
        /\ op' \in [PipeProcs -> Ops]
    BY <1>0, <1>1, <1>2 DEF PipeTypes
  <2>2. /\ pipe_buf' \in [Slots -> [Pos -> Octets]] /\ read_pos' \in [Slots -> Pos]
        /\ write_pos' \in [Slots -> Pos] /\ data_bytes' \in [Slots -> 0..BufSize]
    BY <1>0, <1>1, <1>2 DEF PipeTypes
  <2>3. sent' \in [Slots -> Seq(Octets)] /\ rcvd' \in [Slots -> Seq(Octets)]
    BY <1>0, <1>1, <1>2 DEF PipeTypes
  <2> QED BY <1>3, <2>1, <2>2, <2>3 DEF PipeTypes
<1>5. \A e \in Ends : EndHolders(i, e) = {}
  BY <1>1 DEF PipeInv, Counted
<1>6. \A e \in Ends : EndHolders(i, e)' = {p}
  <2>1. \A q \in PipeProcs, e \in Ends : <<i, e>> \in holds'[q] <=> q = p
    BY <1>0, <1>1, <1>5 DEF EndHolders, PipeTypes
  <2> QED BY <2>1 DEF EndHolders
<1>7. \A j \in Slots \ {i}, e \in Ends : EndHolders(j, e)' = EndHolders(j, e)
  <2>1. \A q \in PipeProcs, j \in Slots \ {i}, e \in Ends :
            <<j, e>> \in holds'[q] <=> <<j, e>> \in holds[q]
    BY <1>0, <1>1 DEF PipeTypes
  <2> QED BY <2>1 DEF EndHolders
<1>8. /\ pipe_used'[i] /\ \A e \in Ends : refs'[i][e] = 1
      /\ \A j \in Slots \ {i} : pipe_used'[j] = pipe_used[j] /\ refs'[j] = refs[j]
  BY <1>0, <1>1 DEF PipeTypes
<1>9. Counted'
  <2>1. \A q \in PipeProcs \ alive' : holds'[q] = {}
    BY <1>0, <1>1 DEF PipeInv, Counted, PipeTypes
  <2>2. Cardinality({p}) = 1
    BY FS_Singleton
  <2>3. \A j \in Slots, e \in Ends :
            IF pipe_used'[j] THEN refs'[j][e] = Cardinality(EndHolders(j, e)')
            ELSE EndHolders(j, e)' = {}
    <3> SUFFICES ASSUME NEW j \in Slots, NEW e \in Ends
                 PROVE  IF pipe_used'[j] THEN refs'[j][e] = Cardinality(EndHolders(j, e)')
                        ELSE EndHolders(j, e)' = {}
      OBVIOUS
    <3>1. CASE j = i
      BY ZenonT(60), <1>6, <1>8, <2>2, <3>1
    <3>2. CASE j # i
      <4>1. IF pipe_used[j] THEN refs[j][e] = Cardinality(EndHolders(j, e)) ELSE EndHolders(j, e) = {}
        BY DEF PipeInv, Counted
      <4> QED BY ZenonT(60), <1>7, <1>8, <3>2, <4>1
    <3> QED BY <3>1, <3>2
  <2> QED BY <2>1, <2>3 DEF Counted
<1>10. RingOk'
  BY <1>0, <1>1, <1>2 DEF PipeInv, RingOk, PipeTypes
<1>11. StreamExact'
  <2> SUFFICES ASSUME NEW j \in Slots, pipe_used'[j] PROVE rcvd'[j] \o Content(j)' = sent'[j]
    BY DEF StreamExact
  <2>1. CASE j = i
    <3>1. rcvd'[j] = <<>> /\ sent'[j] = <<>> /\ data_bytes'[j] = 0
      BY <1>0, <1>1, <2>1 DEF PipeTypes
    <3> QED BY <3>1 DEF Content
  <2>2. CASE j # i
    <3>1. Content(j)' = Content(j) /\ rcvd'[j] = rcvd[j] /\ sent'[j] = sent[j]
      BY <1>0, <1>1, <2>2 DEF Content, PipeTypes
    <3> QED BY <1>8, <2>2, <3>1 DEF PipeInv, StreamExact
  <2> QED BY <2>1, <2>2
<1> QED BY <1>4, <1>9, <1>10, <1>11 DEF PipeInv

\* What is buffered and what was transferred does not depend on who holds the ends.
LEMMA StreamStays ==
    ASSUME PipeInv, UNCHANGED <<pipe_buf, read_pos, write_pos, data_bytes, sent, rcvd>>,
           \A i \in Slots : pipe_used'[i] => pipe_used[i]
    PROVE  RingOk' /\ StreamExact'
BY ZenonT(60) DEF PipeInv, RingOk, StreamExact, Content

\* Without OthersFork the child's ends are exactly those that fork counts.
LEMMA ForkPreserves ==
    ASSUME ~OthersFork, PipeInv, NEW p \in PipeProcs, NEW c \in PipeProcs, PipeFork(p, c)
    PROVE  PipeInv'
<1>0. PipeTypes
  BY DEF PipeInv
<1>1. /\ p \in alive /\ c \notin alive /\ c # p /\ holds[c] = {} /\ alive' = alive \cup {c}
      /\ refs' = pipe_fork_inherit(p) /\ holds' = [holds EXCEPT ![c] = holds[p]]
      /\ UNCHANGED <<pipe_used, creator_pid, pipe_buf, read_pos, write_pos, data_bytes, opens, op,
                     sent, rcvd>>
  BY DEF PipeFork, InUser, PipeInv, Counted
<1>2. \A i \in Slots : \/ \A e \in Ends : <<i, e>> \notin holds[p] /\ creator_pid[i] # p
                       \/ \A e \in Ends : <<i, e>> \in holds[p] /\ creator_pid[i] = p
  BY DEF PipeFork
<1>3. /\ refs' \in [Slots -> [Ends -> Nat]]
      /\ \A i \in Slots, e \in Ends :
            refs'[i][e] = IF pipe_used[i] /\ creator_pid[i] = p /\ refs[i][e] > 0
                          THEN refs[i][e] + 1 ELSE refs[i][e]
  BY <1>0, <1>1 DEF pipe_fork_inherit, PipeTypes
<1>4. PipeTypes'
  BY <1>0, <1>1, <1>3 DEF PipeTypes
<1>5. \A i \in Slots, e \in Ends :
          EndHolders(i, e)' = IF <<i, e>> \in holds[p] THEN EndHolders(i, e) \cup {c}
                              ELSE EndHolders(i, e)
  <2>1. \A q \in PipeProcs : holds'[q] = IF q = c THEN holds[p] ELSE holds[q]
    BY <1>0, <1>1 DEF PipeTypes
  <2> QED BY <1>1, <2>1 DEF EndHolders
<1>6. ASSUME NEW i \in Slots, NEW e \in Ends
      PROVE  IF pipe_used'[i] THEN refs'[i][e] = Cardinality(EndHolders(i, e)')
             ELSE EndHolders(i, e)' = {}
  <2>1. CASE <<i, e>> \notin holds[p]
    <3>1. creator_pid[i] # p
      BY <1>2, <2>1
    <3>2. refs'[i][e] = refs[i][e] /\ EndHolders(i, e)' = EndHolders(i, e) /\ pipe_used' = pipe_used
      BY <1>1, <1>3, <1>5, <2>1, <3>1
    <3> QED BY <3>2 DEF PipeInv, Counted
  <2>2. CASE <<i, e>> \in holds[p]
    <3>1. creator_pid[i] = p /\ p \in EndHolders(i, e) /\ c \notin EndHolders(i, e)
      BY <1>1, <1>2, <2>2 DEF EndHolders
    <3>2. pipe_used[i] /\ refs[i][e] = Cardinality(EndHolders(i, e))
      BY <3>1 DEF PipeInv, Counted
    <3>3. refs[i][e] > 0
      BY <3>1, <3>2, HoldersFinite
    <3>4. Cardinality(EndHolders(i, e) \cup {c}) = Cardinality(EndHolders(i, e)) + 1
      BY ZenonT(60), <3>1, HoldersFinite, FS_AddElement
    <3> QED BY ZenonT(60), <1>1, <1>3, <1>5, <2>2, <3>1, <3>2, <3>3, <3>4
  <2> QED BY <2>1, <2>2
<1>7. Counted'
  <2>1. \A q \in PipeProcs \ alive' : holds'[q] = {}
    BY <1>0, <1>1 DEF PipeInv, Counted, PipeTypes
  <2> QED BY <1>6, <2>1 DEF Counted
<1> QED BY <1>1, <1>4, <1>7, StreamStays DEF PipeInv

LEMMA ClosePreserves ==
    ASSUME PipeInv, NEW p \in PipeProcs, NEW i \in Slots, NEW e \in Ends, pipe_close(p, i, e)
    PROVE  PipeInv'
<1>0. PipeTypes
  BY DEF PipeInv
<1>1. p \in EndHolders(i, e)
  BY DEF pipe_close, EndHolders
<1>2. pipe_used[i] /\ refs[i][e] = Cardinality(EndHolders(i, e)) /\ refs[i][e] > 0
  BY <1>1, HoldersFinite DEF PipeInv, Counted
<1>3. /\ holds' = [holds EXCEPT ![p] = @ \ {<<i, e>>}]
      /\ refs' = [refs EXCEPT ![i][e] = IF @ > 0 THEN @ - 1 ELSE @]
      /\ pipe_used' = [pipe_used EXCEPT ![i] = ~LastClose(refs'[i])]
      /\ UNCHANGED <<creator_pid, pipe_buf, read_pos, write_pos, data_bytes, opens,
                     alive, op, sent, rcvd>>
  BY <1>2 DEF pipe_close
<1>4. /\ refs' \in [Slots -> [Ends -> Nat]]
      /\ refs'[i][e] = refs[i][e] - 1
      /\ \A j \in Slots, d \in Ends : <<j, d>> # <<i, e>> => refs'[j][d] = refs[j][d]
  BY <1>0, <1>2, <1>3 DEF PipeTypes
<1>5. PipeTypes'
  <2>1. holds' \in [PipeProcs -> SUBSET (Slots \X Ends)]
    BY <1>0, <1>3 DEF PipeTypes
  <2>2. pipe_used' \in [Slots -> BOOLEAN]
    BY <1>0, <1>3 DEF PipeTypes, LastClose
  <2> QED BY ZenonT(60), <1>0, <1>3, <1>4, <2>1, <2>2 DEF PipeTypes
<1>6. /\ EndHolders(i, e)' = EndHolders(i, e) \ {p}
      /\ \A j \in Slots, d \in Ends : <<j, d>> # <<i, e>> => EndHolders(j, d)' = EndHolders(j, d)
  <2>1. \A q \in PipeProcs : holds'[q] = IF q = p THEN holds[q] \ {<<i, e>>} ELSE holds[q]
    BY ZenonT(60), <1>0, <1>3 DEF PipeTypes
  <2> QED BY ZenonT(60), <2>1 DEF EndHolders
<1>7. Cardinality(EndHolders(i, e) \ {p}) = Cardinality(EndHolders(i, e)) - 1
  BY ZenonT(60), <1>1, HoldersFinite, FS_RemoveElement
<1>8. \A d \in Ends : refs'[i][d] = Cardinality(EndHolders(i, d)')
  <2> TAKE d \in Ends
  <2>1. CASE d = e
    BY ZenonT(60), <1>2, <1>4, <1>6, <1>7, <2>1
  <2>2. CASE d # e
    BY <1>2, <1>4, <1>6, <2>2 DEF PipeInv, Counted
  <2> QED BY <2>1, <2>2
<1>9. ~pipe_used'[i] => \A d \in Ends : EndHolders(i, d)' = {}
  <2>1. pipe_used'[i] = ~LastClose(refs'[i])
    BY <1>0, <1>3 DEF PipeTypes
  <2>2. LastClose(refs'[i]) => \A d \in Ends : Cardinality(EndHolders(i, d)') = 0
    BY <1>8 DEF LastClose, Ends
  <2>3. \A d \in Ends : Cardinality(EndHolders(i, d)') = 0 => EndHolders(i, d)' = {}
    <3> TAKE d \in Ends
    <3>1. IsFiniteSet(EndHolders(i, d)')
      <4>1. EndHolders(i, d)' \subseteq PipeProcs
        BY DEF EndHolders
      <4> QED BY <4>1, PipesAssumption, FS_Subset
    <3> QED BY <3>1, FS_EmptySet
  <2> QED BY ZenonT(60), <2>1, <2>2, <2>3
<1>10. \A j \in Slots \ {i} : pipe_used'[j] = pipe_used[j]
  BY <1>0, <1>3 DEF PipeTypes
<1>11. ASSUME NEW j \in Slots, NEW d \in Ends
       PROVE  IF pipe_used'[j] THEN refs'[j][d] = Cardinality(EndHolders(j, d)')
              ELSE EndHolders(j, d)' = {}
  <2>1. CASE j = i
    BY <1>8, <1>9, <2>1
  <2>2. CASE j # i
    <3>1. refs'[j][d] = refs[j][d] /\ EndHolders(j, d)' = EndHolders(j, d)
          /\ pipe_used'[j] = pipe_used[j]
      BY ZenonT(60), <1>4, <1>6, <1>10, <2>2
    <3> QED BY <3>1 DEF PipeInv, Counted
  <2> QED BY <2>1, <2>2
<1>12. Counted'
  <2>1. \A q \in PipeProcs \ alive' : holds'[q] = {}
    BY <1>0, <1>3 DEF PipeInv, Counted, PipeTypes
  <2> QED BY ZenonT(60), <1>11, <2>1 DEF Counted
<1>13. \A j \in Slots : pipe_used'[j] => pipe_used[j]
  BY <1>2, <1>10
<1> QED BY ZenonT(60), <1>3, <1>5, <1>12, <1>13, StreamStays DEF PipeInv

\* Without ExitOpen nothing is left open.
LEMMA ExitPreserves ==
    ASSUME ~ExitOpen, PipeInv, NEW p \in PipeProcs, PipeExit(p)
    PROVE  PipeInv'
<1>0. PipeTypes
  BY DEF PipeInv
<1>1. /\ holds[p] = {} /\ alive' = alive \ {p} /\ holds' = [holds EXCEPT ![p] = {}]
      /\ UNCHANGED <<pipe_used, creator_pid, refs, pipe_buf, read_pos, write_pos, data_bytes,
                     op, sent, rcvd>>
  BY DEF PipeExit, pipeVars
<1>2. holds' = holds
  BY <1>0, <1>1 DEF PipeTypes
<1>3. PipeTypes'
  BY <1>0, <1>1, <1>2 DEF PipeTypes
<1>4. Counted'
  BY <1>1, <1>2 DEF PipeInv, Counted, EndHolders
<1> QED BY <1>1, <1>3, <1>4, StreamStays DEF PipeInv

-----------------------------------------------------------------------------
(* Reading and writing. *)

\* What a process is doing does not matter to the pipes.
LEMMA OpPreserves ==
    ASSUME PipeInv, op' \in [PipeProcs -> Ops],
           UNCHANGED <<pipe_used, creator_pid, refs, pipe_buf, read_pos, write_pos, data_bytes,
                       alive, holds, sent, rcvd>>
    PROVE  PipeInv'
<1>1. PipeTypes'
  BY ZenonT(60) DEF PipeInv, PipeTypes
<1>2. Counted'
  BY ZenonT(60) DEF PipeInv, Counted, EndHolders
<1> QED BY <1>1, <1>2, StreamStays DEF PipeInv

LEMMA CallPreserves ==
    ASSUME PipeInv, NEW p \in PipeProcs,
           \/ ReadEof(p) \/ WriteFails(p)
           \/ \E i \in Slots : \/ \E n \in 1..BufSize : read(p, i, n)
                               \/ \E s \in Strings(i) : write(p, i, s)
    PROVE  PipeInv'
<1>1. UNCHANGED <<pipe_used, creator_pid, refs, pipe_buf, read_pos, write_pos, data_bytes,
                  alive, holds, sent, rcvd>>
  BY ZenonT(60) DEF ReadEof, WriteFails, read, write, pipeVars
<1>2. \E o \in Ops : op' = [op EXCEPT ![p] = o]
  <2>1. CASE ReadEof(p) \/ WriteFails(p)
    BY <2>1 DEF ReadEof, WriteFails, Ops
  <2>2. ASSUME NEW i \in Slots, NEW n \in 1..BufSize, read(p, i, n)
        PROVE  \E o \in Ops : op' = [op EXCEPT ![p] = o]
    BY ZenonT(60), <2>2 DEF read, Ops
  <2>3. ASSUME NEW i \in Slots, NEW s \in Strings(i), write(p, i, s)
        PROVE  \E o \in Ops : op' = [op EXCEPT ![p] = o]
    <3>1. PICK n \in 1..(BufSize + 1) : s \in [1..n -> Bytes]
      BY DEF Strings
    <3>2. n \in Nat \ {0}
      BY PipesAssumption
    <3>3. s \in [1..n -> Octets]
      BY <3>1 DEF Octets
    <3>4. s \in Seq(Octets) /\ Len(s) = n /\ s # <<>>
      BY <3>2, <3>3
    <3> QED BY ZenonT(60), <2>3, <3>4 DEF write, Ops
  <2> QED BY <2>1, <2>2, <2>3
<1>3. op' \in [PipeProcs -> Ops]
  BY ZenonT(60), <1>2 DEF PipeInv, PipeTypes
<1> QED BY <1>1, <1>3, OpPreserves

\* The operation a process is in.
LEMMA OpIs ==
    ASSUME PipeTypes, NEW p \in PipeProcs
    PROVE  /\ op[p].call = "read" => op[p].slot \in Slots /\ op[p].count \in 1..BufSize
           /\ op[p].call = "write" => op[p].slot \in Slots /\ op[p].left \in Seq(Octets) \ {<<>>}
BY DEF PipeTypes, Ops, NoOp

\* Two advances of a position are one.
LEMMA OnOn ==
    ASSUME NEW r \in Pos, NEW m \in 0..BufSize, NEW n \in 0..BufSize, m + n <= BufSize
    PROVE  (((r + m) % BufSize) + n) % BufSize = (r + (m + n)) % BufSize
<1>0. BufSize \in Nat /\ r \in Nat /\ r < BufSize /\ m \in Nat /\ n \in Nat /\ m + n \in 0..BufSize
  BY PipesAssumption DEF Pos
<1>1. PICK w \in Pos : w = (r + m) % BufSize
  BY OnIs
<1>2. w = IF r + m < BufSize THEN r + m ELSE r + m - BufSize
  BY <1>1, OnIs
<1>3. (w + n) % BufSize = IF w + n < BufSize THEN w + n ELSE w + n - BufSize
  BY OnIs
<1>4. (r + (m + n)) % BufSize = IF r + (m + n) < BufSize THEN r + (m + n) ELSE r + (m + n) - BufSize
  BY <1>0, OnIs
<1>5. w \in Nat /\ w < BufSize
  BY <1>0 DEF Pos
<1>6. (w + n) % BufSize = (r + (m + n)) % BufSize
  BY ONLY <1>0, <1>2, <1>3, <1>4, <1>5
<1> QED BY <1>1, <1>6

LEMMA ThreeParts ==
    ASSUME NEW x \in Seq(Octets), NEW y \in Seq(Octets), NEW z \in Seq(Octets)
    PROVE  (x \o y) \o z = x \o (y \o z)
BY ConcatAssociative

\* The bytes that a reader gets are the first of those that are buffered.
LEMMA ReadPreserves ==
    ASSUME PipeInv, NEW p \in PipeProcs, ReadData(p)
    PROVE  PipeInv'
<1>0. PipeTypes /\ Counted /\ RingOk /\ StreamExact
  BY ZenonT(60) DEF PipeInv
<1>s. PICK i \in Slots : i = op[p].slot
  BY ZenonT(60), <1>0, OpIs DEF ReadData
<1> DEFINE n == Lesser(op[p].count, data_bytes[i])
           b == pipe_buf[i]
           r == read_pos[i]
           m == data_bytes[i]
           x == Ring(b, r, n)
           y == Ring(b, (r + n) % BufSize, m - n)
<1>1. /\ i \in Slots /\ op[p].count \in 1..BufSize /\ m \in 0..BufSize /\ m > 0
      /\ b \in [Pos -> Octets] /\ r \in Pos /\ BufSize \in Nat \ {0} /\ pipe_used[i]
  BY ZenonT(60), <1>0, <1>s, OpIs, PipesAssumption DEF PipeTypes, ReadData
<1>2. /\ rcvd' = [rcvd EXCEPT ![i] = @ \o x]
      /\ read_pos' = [read_pos EXCEPT ![i] = (@ + n) % BufSize]
      /\ data_bytes' = [data_bytes EXCEPT ![i] = @ - n]
      /\ op' = [op EXCEPT ![p] = NoOp]
      /\ UNCHANGED <<pipe_used, creator_pid, refs, pipe_buf, write_pos, alive, holds, sent>>
  BY ZenonT(60), <1>s DEF ReadData, Ring, At, Advance
<1>3. n \in 0..m /\ n \in 0..BufSize /\ m - n \in 0..BufSize
  BY <1>1 DEF Lesser
<1> HIDE DEF n
<1>4. (r + n) % BufSize \in Pos
  BY <1>1, <1>3, OnIs
<1>5. x \in Seq(Octets) /\ y \in Seq(Octets) /\ rcvd[i] \in Seq(Octets)
  BY ZenonT(60), <1>0, <1>1, <1>3, <1>4, RingType DEF PipeTypes
<1>6. x \o y = Ring(b, r, m)
  BY ZenonT(60), <1>1, <1>3, RingSplit
<1>7. (rcvd[i] \o x) \o y = sent[i]
  <2>1. rcvd[i] \o Ring(b, r, m) = sent[i]
    BY ZenonT(60), <1>0, <1>1 DEF StreamExact, Content, Ring, At
  <2>2. (rcvd[i] \o x) \o y = rcvd[i] \o (x \o y)
    BY ZenonT(60), <1>5, ThreeParts
  <2> QED BY ZenonT(60), <1>6, <2>1, <2>2
<1>8. rcvd[i] \o x \in Seq(Octets)
  BY <1>5, ConcatProperties
<1> HIDE DEF x, y
<1>9. PipeTypes'
  <2>1. rcvd' \in [Slots -> Seq(Octets)] /\ read_pos' \in [Slots -> Pos]
    BY ZenonT(60), <1>0, <1>1, <1>2, <1>4, <1>8 DEF PipeTypes
  <2>2. data_bytes' \in [Slots -> 0..BufSize] /\ op' \in [PipeProcs -> Ops]
    BY <1>0, <1>1, <1>2, <1>3 DEF PipeTypes, Ops
  <2> QED BY ZenonT(60), <1>0, <1>2, <2>1, <2>2 DEF PipeTypes
<1>10. Counted'
  BY ZenonT(60), <1>0, <1>2 DEF Counted, EndHolders
<1>11. /\ read_pos'[i] = (r + n) % BufSize /\ data_bytes'[i] = m - n /\ rcvd'[i] = rcvd[i] \o x
       /\ \A j \in Slots \ {i} : /\ read_pos'[j] = read_pos[j] /\ data_bytes'[j] = data_bytes[j]
                                 /\ rcvd'[j] = rcvd[j]
  BY <1>0, <1>1, <1>2 DEF PipeTypes
<1>12. RingOk'
  <2>1. write_pos[i] = (((r + n) % BufSize) + (m - n)) % BufSize
    <3>1. write_pos[i] = (r + m) % BufSize
      BY <1>0, <1>1 DEF RingOk
    <3>2. n + (m - n) = m /\ n \in 0..BufSize /\ m - n \in 0..BufSize /\ n + (m - n) <= BufSize
      BY <1>1, <1>3
    <3>3. (((r + n) % BufSize) + (m - n)) % BufSize = (r + (n + (m - n))) % BufSize
      BY ZenonT(60), <1>1, <3>2, OnOn
    <3> QED BY <3>1, <3>2, <3>3
  <2> QED BY <1>0, <1>2, <1>11, <2>1 DEF RingOk
<1>13. StreamExact'
  <2> SUFFICES ASSUME NEW j \in Slots, pipe_used'[j] PROVE rcvd'[j] \o Content(j)' = sent'[j]
    BY DEF StreamExact
  <2>1. CASE j = i
    <3>1. Content(i)' = y
      BY <1>2, <1>11 DEF Content, Ring, At, y
    <3> QED BY ZenonT(60), <1>2, <1>7, <1>11, <2>1, <3>1
  <2>2. CASE j # i
    <3>1. Content(j)' = Content(j) /\ rcvd'[j] = rcvd[j]
      BY <1>2, <1>11, <2>2 DEF Content
    <3> QED BY ZenonT(60), <1>0, <1>2, <3>1 DEF StreamExact
  <2> QED BY <2>1, <2>2
<1> QED BY <1>9, <1>10, <1>12, <1>13 DEF PipeInv

\* The bytes that a writer puts in follow those that are buffered.
LEMMA WritePreserves ==
    ASSUME PipeInv, NEW p \in PipeProcs, WriteChunk(p)
    PROVE  PipeInv'
<1>0. PipeTypes /\ Counted /\ RingOk /\ StreamExact
  BY DEF PipeInv
<1>s. PICK i \in Slots : i = op[p].slot
  BY ZenonT(60), <1>0, OpIs DEF WriteChunk
<1> DEFINE s == op[p].left
           n == Lesser(Len(s), Room(i))
           b == pipe_buf[i]
           r == read_pos[i]
           m == data_bytes[i]
           w == write_pos[i]
           rest == SubSeq(s, n + 1, Len(s))
           c == Put(b, w, s, n)
           x == SubSeq(s, 1, n)
<1>1. /\ i \in Slots /\ s \in Seq(Octets) /\ m \in 0..BufSize /\ b \in [Pos -> Octets]
      /\ r \in Pos /\ w \in Pos /\ BufSize \in Nat \ {0} /\ pipe_used[i] /\ op[p].call = "write"
  BY ZenonT(60), <1>0, <1>s, OpIs, PipesAssumption DEF PipeTypes, WriteChunk
<1>2. /\ pipe_buf' = [pipe_buf EXCEPT ![i] = c]
      /\ write_pos' = [write_pos EXCEPT ![i] = (@ + n) % BufSize]
      /\ data_bytes' = [data_bytes EXCEPT ![i] = @ + n]
      /\ sent' = [sent EXCEPT ![i] = @ \o x]
      /\ op' = [op EXCEPT ![p] = IF rest = <<>> THEN NoOp ELSE [@ EXCEPT !.left = rest]]
      /\ UNCHANGED <<pipe_used, creator_pid, refs, read_pos, alive, holds, rcvd>>
  <2> DEFINE k == op[p].slot
             q == Lesser(Len(s), Room(k))
  <2>1. /\ pipe_buf' = [pipe_buf EXCEPT ![k] = Put(@, write_pos[k], s, q)]
        /\ write_pos' = [write_pos EXCEPT ![k] = (@ + q) % BufSize]
        /\ data_bytes' = [data_bytes EXCEPT ![k] = @ + q]
        /\ sent' = [sent EXCEPT ![k] = @ \o SubSeq(s, 1, q)]
        /\ op' = [op EXCEPT ![p] = IF SubSeq(s, q + 1, Len(s)) = <<>> THEN NoOp
                                   ELSE [@ EXCEPT !.left = SubSeq(s, q + 1, Len(s))]]
        /\ UNCHANGED <<pipe_used, creator_pid, refs, read_pos, alive, holds, rcvd>>
    BY ZenonT(60) DEF WriteChunk, Put, At
  <2>2. k = i /\ q = n
    BY <1>s
  <2> HIDE DEF k, q, s, n
  <2> QED BY ZenonT(60), <2>1, <2>2
<1>3. Len(s) \in Nat /\ n \in 0..Len(s) /\ m + n <= BufSize /\ n \in 0..BufSize /\ m + n \in 0..BufSize
  <2>1. Len(s) \in Nat
    BY ONLY ZenonT(60), <1>1, LenProperties
  <2>2. n = IF Len(s) < BufSize - m THEN Len(s) ELSE BufSize - m
    BY DEF Lesser, Room
  <2> HIDE DEF s, n, m
  <2> QED BY ONLY <1>1, <2>1, <2>2
<1>4. w = (r + m) % BufSize
  BY <1>0, <1>1 DEF RingOk
<1>5. rest \in Seq(Octets) /\ x \in Seq(Octets)
  <2>1. \A k \in (n + 1)..Len(s) : s[k] \in Octets
    BY <1>1, <1>3, ElementOfSeq
  <2>2. \A k \in 1..n : s[k] \in Octets
    BY <1>1, <1>3, ElementOfSeq
  <2>3. n + 1 \in Int /\ n \in Int /\ 1 \in Int /\ Len(s) \in Int
    BY <1>3
  <2> HIDE DEF s, n
  <2> QED BY <2>1, <2>2, <2>3, SubSeqProperties
<1>6. op' \in [PipeProcs -> Ops]
  <2>1. op[p] \in [call : {"write"}, slot : Slots, left : Seq(Octets) \ {<<>>}]
    BY <1>0, <1>1 DEF PipeTypes, Ops, NoOp
  <2>2. rest # <<>> => [op[p] EXCEPT !.left = rest] \in Ops
    <3> HIDE DEF rest
    <3> QED BY <1>5, <2>1 DEF Ops
  <2>3. (IF rest = <<>> THEN NoOp ELSE [op[p] EXCEPT !.left = rest]) \in Ops
    BY <2>2 DEF Ops
  <2> HIDE DEF rest
  <2> QED BY ZenonT(60), <1>0, <1>2, <2>3 DEF PipeTypes
<1> HIDE DEF s, n
<1>7. c \in [Pos -> Octets] /\ Ring(c, r, m + n) = Ring(b, r, m) \o x
  <2> HIDE DEF b, r, m, w
  <2>1. /\ b \in [Pos -> Octets] /\ r \in Pos /\ m \in 0..BufSize /\ s \in Seq(Octets)
        /\ n \in 0..Len(s) /\ m + n <= BufSize /\ w \in Pos /\ w = (r + m) % BufSize
    BY ONLY ZenonT(60), <1>1, <1>3, <1>4
  <2> QED BY ONLY <2>1, RingPut
<1> HIDE DEF c, x, rest
<1>8. (w + n) % BufSize \in Pos
  BY ZenonT(60), <1>1, <1>3, OnIs
<1>9. rcvd[i] \o Ring(c, r, m + n) = sent[i] \o x
  <2>1. rcvd[i] \o Ring(b, r, m) = sent[i]
    BY ZenonT(60), <1>0, <1>1 DEF StreamExact, Content, Ring, At
  <2>2. rcvd[i] \in Seq(Octets) /\ Ring(b, r, m) \in Seq(Octets)
    BY ZenonT(60), <1>0, <1>1, RingType DEF PipeTypes
  <2>3. (rcvd[i] \o Ring(b, r, m)) \o x = rcvd[i] \o (Ring(b, r, m) \o x)
    BY ZenonT(60), <1>5, <2>2, ThreeParts
  <2> QED BY ZenonT(60), <1>7, <2>1, <2>3
<1>10. sent[i] \o x \in Seq(Octets)
  BY <1>0, <1>1, <1>5, ConcatProperties DEF PipeTypes
<1>11. PipeTypes'
  <2>1. pipe_buf' \in [Slots -> [Pos -> Octets]] /\ write_pos' \in [Slots -> Pos]
    BY ZenonT(60), <1>0, <1>1, <1>2, <1>7, <1>8 DEF PipeTypes
  <2>2. data_bytes' \in [Slots -> 0..BufSize] /\ sent' \in [Slots -> Seq(Octets)]
    BY <1>0, <1>1, <1>2, <1>3, <1>10 DEF PipeTypes
  <2> QED BY ZenonT(60), <1>0, <1>2, <1>6, <2>1, <2>2 DEF PipeTypes
<1>12. Counted'
  BY ZenonT(60), <1>0, <1>2 DEF Counted, EndHolders
<1>13. /\ pipe_buf'[i] = c /\ write_pos'[i] = (w + n) % BufSize /\ data_bytes'[i] = m + n
       /\ sent'[i] = sent[i] \o x
       /\ \A j \in Slots \ {i} : /\ pipe_buf'[j] = pipe_buf[j] /\ write_pos'[j] = write_pos[j]
                                 /\ data_bytes'[j] = data_bytes[j] /\ sent'[j] = sent[j]
  BY <1>0, <1>1, <1>2 DEF PipeTypes
<1>14. RingOk'
  <2>1. (w + n) % BufSize = (r + (m + n)) % BufSize
    BY <1>1, <1>3, <1>4, OnOn
  <2> QED BY <1>0, <1>2, <1>13, <2>1 DEF RingOk
<1>15. StreamExact'
  <2> SUFFICES ASSUME NEW j \in Slots, pipe_used'[j] PROVE rcvd'[j] \o Content(j)' = sent'[j]
    BY DEF StreamExact
  <2>1. CASE j = i
    <3>1. Content(i)' = Ring(c, r, m + n)
      BY <1>2, <1>13 DEF Content, Ring, At
    <3> QED BY ZenonT(60), <1>2, <1>9, <1>13, <2>1, <3>1
  <2>2. CASE j # i
    <3>1. Content(j)' = Content(j) /\ sent'[j] = sent[j]
      BY <1>2, <1>13, <2>2 DEF Content
    <3> QED BY ZenonT(60), <1>0, <1>2, <3>1 DEF StreamExact
  <2> QED BY <2>1, <2>2
<1> QED BY <1>11, <1>12, <1>14, <1>15 DEF PipeInv

-----------------------------------------------------------------------------

LEMMA PipeInvNext ==
    ASSUME ~OthersFork, ~ExitOpen, PipeInv, [PipeNext]_pipesVars
    PROVE  PipeInv'
<1>1. CASE UNCHANGED pipesVars
  BY ZenonT(60), <1>1, OpPreserves DEF pipesVars, pipeVars, PipeInv, PipeTypes
<1>2. ASSUME NEW p \in PipeProcs, Loop(p) PROVE PipeInv'
  BY <1>2, ReadPreserves, WritePreserves, CallPreserves DEF Loop
<1>3. ASSUME NEW p \in PipeProcs, NEW i \in Slots,
             \/ \E e \in Ends : pipe_close(p, i, e)
             \/ \E n \in 1..BufSize : read(p, i, n)
             \/ \E s \in Strings(i) : write(p, i, s)
      PROVE  PipeInv'
  BY ZenonT(60), <1>3, ClosePreserves, CallPreserves
<1> QED
  BY ZenonT(60), <1>1, <1>2, <1>3, CreatePreserves, ForkPreserves, ExitPreserves DEF PipeNext

\* While processes fork only with both ends of the pipes they created and of
\* no others, and close their ends before they exit: every pipe delivers the
\* bytes that were written to it, once and in order, and an end is open as long
\* as a process holds it, for any number of processes and pipes and buffers of
\* any size.
THEOREM PipeStreams ==
    ASSUME ~OthersFork, ~ExitOpen
    PROVE  PipeSpec => []PipesExact
<1>1. PipeInv => PipesExact
  <2> SUFFICES ASSUME PipeInv PROVE PipesExact
    OBVIOUS
  <2>1. PipeTypeOK
    BY DEF PipeInv, PipeTypes, PipeTypeOK
  <2>2. NoEarlyClose
    <3> SUFFICES ASSUME NEW i \in Slots, NEW e \in Ends, EndHolders(i, e) # {}
                 PROVE  pipe_used[i] /\ refs[i][e] > 0
      BY DEF NoEarlyClose
    <3>1. pipe_used[i] /\ refs[i][e] = Cardinality(EndHolders(i, e))
      BY DEF PipeInv, Counted
    <3> QED BY <3>1, HoldersFinite
  <2> QED BY <2>1, <2>2 DEF PipesExact, PipeInv
<1> QED
  BY <1>1, PipeInvInit, PipeInvNext, PTL DEF PipeSpec
=============================================================================
