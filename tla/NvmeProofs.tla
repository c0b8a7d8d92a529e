----------------------------- MODULE NvmeProofs -----------------------------
(***************************************************************************)
(* Proofs about the NVMe driver.  As long as the controller does not       *)
(* answer after the driver has given up, every transfer is exact: what the *)
(* poll takes for the answer of a command is the answer of that command,   *)
(* for rings of any size and identifiers that wrap.                        *)
(***************************************************************************)
EXTENDS Nvme, FiniteSetTheorems, TLAPS

-----------------------------------------------------------------------------
(* The inductive invariant. *)

Phases == {0, 1}

\* The commands that callers issue.
Commands ==
    [op : {"read", "write"}, cid : 1..MaxCid, lba : Lbas, val : Contents \cup {0}, frame : Frames]

\* Commands issued since the one with this identifier, which is counted too.
Age(c, next) == IF c < next THEN next - c ELSE (next + MaxCid) - c

\* Completions since the entry i was written, which is counted too.
Behind(i, dev) == IF i < dev THEN dev - i ELSE (dev + Depth) - i

\* Where the command of the caller is.
Ready == cmd = NoCmd /\ running = {} /\ dev_sq = sq_tail /\ dev_cq = cq_head
Queued == /\ cmd # NoCmd /\ running = {} /\ dev_cq = cq_head
          /\ dev_sq # sq_tail /\ Advance(dev_sq) = sq_tail /\ sq[dev_sq] = cmd
Running == cmd # NoCmd /\ running = {cmd} /\ dev_sq = sq_tail /\ dev_cq = cq_head
Dropped == cmd # NoCmd /\ running = {} /\ dev_sq = sq_tail /\ dev_cq = cq_head
Answered == cmd # NoCmd /\ running = {} /\ dev_sq = sq_tail /\ dev_cq = Advance(cq_head)

InFlight == Queued \/ Running

\* The phase that the controller will write is the one the driver waits for.
PhasesAgree ==
    dev_phase = IF cq_head # dev_cq /\ dev_cq = 0 THEN 1 - cq_phase ELSE cq_phase

Done ==
    /\ cmd.op = "read" => frame_mem[cmd.frame] = media[cmd.lba]
    /\ cmd.op = "write" => media[cmd.lba] = cmd.val

NvmeTypes ==
    /\ queue \in {"io", "admin"} /\ toggles \in BOOLEAN /\ (queue = "admin" => toggles)
    /\ next_cid \in 1..MaxCid /\ losses \in 0..MaxLosses
    /\ sq \in [Entries -> Commands \cup {NoCmd}] /\ sq_tail \in Entries
    /\ cq \in [Entries -> [cid : 0..MaxCid, phase : Phases, ok : BOOLEAN]]
    /\ cq_head \in Entries /\ cq_phase \in Phases
    /\ dev_sq \in Entries /\ dev_cq \in Entries /\ dev_phase \in Phases
    /\ cmd \in Commands \cup {NoCmd} /\ (cmd.op = "write" => cmd.val \in Contents)
    /\ frame_mem \in [Frames -> Contents] /\ media \in [Lbas -> Contents]
    /\ maybe \in [Lbas -> SUBSET Contents]

\* The identifiers in the completion ring are recent: none is as old as the
\* one that will be used next.
Recent ==
    \A i \in Entries : cq[i].cid # 0 =>
        Age(cq[i].cid, next_cid) <= Behind(i, dev_cq) + losses + (IF InFlight THEN 1 ELSE 0)

\* The contents of a block are among those that the callers expect, but for
\* the value that is being written.
Expected ==
    \A b \in Lbas : \/ media[b] \in maybe[b]
                    \/ cmd.op = "write" /\ cmd.lba = b /\ media[b] = cmd.val

NvmeInv ==
    /\ NvmeTypes
    /\ Ready \/ Queued \/ Running \/ Dropped \/ Answered
    /\ cmd # NoCmd => next_cid = IF cmd.cid = MaxCid THEN 1 ELSE cmd.cid + 1
    /\ Recent
    /\ cmd # NoCmd /\ ~Answered => \A i \in Entries : cq[i].cid # cmd.cid
    /\ Answered => /\ cq[cq_head].cid = cmd.cid
                   /\ queue = "admin" => cq[cq_head].phase = cq_phase
                   /\ cq[cq_head].ok => Done
    /\ queue = "admin" => PhasesAgree
    /\ InFlight /\ cmd.op = "write" => frame_mem[cmd.frame] = cmd.val
    /\ Expected

-----------------------------------------------------------------------------
(* The rings and the identifiers. *)

\* The entry after an entry is another one.
LEMMA AdvanceIs ==
    ASSUME NEW i \in Entries
    PROVE  /\ Advance(i) \in Entries /\ Advance(i) # i
           /\ Advance(i) = IF i = Depth - 1 THEN 0 ELSE i + 1
<1>1. i \in Nat /\ i + 1 \in 1..Depth /\ Depth \in Nat \ {0, 1}
  BY NvmeAssumption DEF Entries
<1>2. CASE i + 1 < Depth
  BY <1>1, <1>2 DEF Entries, Advance
<1>3. CASE i + 1 = Depth
  <2>1. Depth % Depth = 0
    BY <1>1
  <2> QED BY <1>1, <1>3, <2>1 DEF Entries, Advance
<1> QED
  BY <1>1, <1>2, <1>3

\* Where the entries lie after a completion.
LEMMA BehindAdvance ==
    ASSUME NEW i \in Entries, NEW d \in Entries
    PROVE  /\ Behind(i, d) \in 1..Depth
           /\ i # d => Behind(i, Advance(d)) = Behind(i, d) + 1
           /\ Behind(d, Advance(d)) = 1
<1>1. i \in Nat /\ d \in Nat /\ Depth \in Nat \ {0, 1} /\ i < Depth /\ d < Depth
  BY NvmeAssumption DEF Entries
<1>2. Advance(d) = IF d = Depth - 1 THEN 0 ELSE d + 1
  BY AdvanceIs
<1> QED
  BY <1>1, <1>2 DEF Behind

\* The identifiers after one more command.
LEMMA AgeNext ==
    ASSUME NEW c \in 1..MaxCid, NEW n \in 1..MaxCid
    PROVE  /\ Age(c, n) \in 1..MaxCid
           /\ Age(c, n) < MaxCid => /\ c # n
                                    /\ Age(c, IF n = MaxCid THEN 1 ELSE n + 1) = Age(c, n) + 1
           /\ Age(n, IF n = MaxCid THEN 1 ELSE n + 1) = 1
BY NvmeAssumption DEF Age

LEMMA NvmeInvInit == NvmeInit => NvmeInv
<1> SUFFICES ASSUME NvmeInit PROVE NvmeInv
  OBVIOUS
<1>1. /\ 0 \in Entries /\ 1 \in 1..MaxCid /\ 0 \in 0..MaxCid /\ 0 \in 0..MaxLosses
      /\ NoCqe \in [cid : 0..MaxCid, phase : Phases, ok : BOOLEAN]
      /\ NoCmd.op = "none" /\ cmd = NoCmd
  BY NvmeAssumption DEF Entries, NvmeInit, NoCqe, Phases, NoCmd
<1>2. NvmeTypes
  BY <1>1 DEF NvmeInit, NvmeTypes, Phases
<1>3. \A i \in Entries : cq[i].cid = 0
  BY DEF NvmeInit, NoCqe
<1> QED
  BY <1>1, <1>2, <1>3 DEF NvmeInit, NvmeInv, Ready, Queued, Running, Dropped, Answered, InFlight,
                          Recent, Expected, PhasesAgree

-----------------------------------------------------------------------------
(* The steps of the driver. *)

LEMMA SubmitPreserves ==
    ASSUME NvmeInv, NEW op \in {"read", "write"}, NEW b \in Lbas, NEW f \in Frames,
           NEW v \in Contents \cup {0}, op = "write" => v \in Contents,
           Submit(op, b, v, f)
    PROVE  NvmeInv'
<1> DEFINE c == [op |-> op, cid |-> next_cid, lba |-> b, val |-> v, frame |-> f]
<1>1. /\ cmd = NoCmd /\ cmd.op = "none" /\ Ready /\ ~InFlight /\ NvmeTypes
      /\ dev_cq = cq_head /\ dev_sq = sq_tail
  BY DEF NvmeInv, Submit, Queued, Running, Dropped, Answered, InFlight, NoCmd, Ready
<1>2. c \in Commands /\ c # NoCmd /\ c.op = op /\ c.cid = next_cid /\ c.lba = b /\ c.val = v
      /\ c.frame = f
  BY <1>1 DEF Commands, NvmeTypes, NoCmd
<1>3. /\ cmd' = c /\ sq' = [sq EXCEPT ![sq_tail] = c] /\ sq_tail' = Advance(sq_tail)
      /\ next_cid' = IF next_cid = MaxCid THEN 1 ELSE next_cid + 1
      /\ frame_mem' = IF op = "write" THEN [frame_mem EXCEPT ![f] = v] ELSE frame_mem
      /\ UNCHANGED <<queue, toggles, cq_head, cq_phase, dev_sq, dev_cq, dev_phase, losses,
                     running, cq, media, maybe>>
  BY DEF Submit, NextCid, device
<1> HIDE DEF c
<1>4. sq_tail' \in Entries /\ sq_tail' # sq_tail /\ next_cid' \in 1..MaxCid
  BY <1>1, <1>3, AdvanceIs, NvmeAssumption DEF NvmeTypes
<1>5. NvmeTypes'
  BY <1>1, <1>2, <1>3, <1>4 DEF NvmeTypes
<1>6. Queued' /\ InFlight' /\ ~Answered'
  BY <1>1, <1>2, <1>3, <1>4 DEF Ready, Queued, InFlight, Answered, NvmeTypes
<1>7. \A i \in Entries : cq[i].cid # 0 =>
          /\ cq[i].cid # next_cid
          /\ Age(cq[i].cid, next_cid') <= Behind(i, dev_cq) + losses + 1
  <2> SUFFICES ASSUME NEW i \in Entries, cq[i].cid # 0
               PROVE  /\ cq[i].cid # next_cid
                      /\ Age(cq[i].cid, next_cid') <= Behind(i, dev_cq) + losses + 1
    OBVIOUS
  <2>1. PICK k \in 1..MaxCid : k = cq[i].cid
    BY <1>1 DEF NvmeTypes
  <2>2. Age(k, next_cid) <= Behind(i, dev_cq) + losses
    BY <1>1, <2>1, BehindAdvance DEF NvmeInv, Recent, NvmeTypes
  <2>3. Behind(i, dev_cq) \in 1..Depth /\ losses \in 0..MaxLosses /\ next_cid \in 1..MaxCid
    BY <1>1, BehindAdvance DEF NvmeTypes
  <2>4. Age(k, next_cid) < MaxCid
    BY <2>2, <2>3, AgeNext, NvmeAssumption
  <2>5. k # next_cid /\ Age(k, next_cid') = Age(k, next_cid) + 1 /\ Age(k, next_cid) \in Nat
    BY <1>3, <2>3, <2>4, AgeNext
  <2> QED BY <2>1, <2>2, <2>3, <2>5, NvmeAssumption
<1>8. Recent'
  BY <1>3, <1>6, <1>7 DEF Recent
<1>9. \A i \in Entries : cq'[i].cid # cmd'.cid
  BY <1>1, <1>2, <1>3, <1>7, NvmeAssumption DEF NvmeTypes
<1>10. cmd'.op = "write" => frame_mem'[cmd'.frame] = cmd'.val
  BY <1>1, <1>2, <1>3 DEF NvmeTypes
<1>11. Expected'
  BY <1>1, <1>3 DEF Expected, NvmeInv
<1>12. (queue = "admin" => PhasesAgree)'
  BY <1>3 DEF NvmeInv, PhasesAgree
<1>13. cmd' # NoCmd /\ next_cid' = IF cmd'.cid = MaxCid THEN 1 ELSE cmd'.cid + 1
  BY <1>2, <1>3
<1> QED
  BY <1>5, <1>6, <1>8, <1>9, <1>10, <1>11, <1>12, <1>13 DEF NvmeInv

\* The entry at the head is the answer only if the controller has answered.
LEMMA MatchIsAnswer ==
    ASSUME NvmeInv, cmd # NoCmd, Matches
    PROVE  Answered
BY DEF NvmeInv, NvmeTypes, Matches

LEMMA PollPreserves ==
    ASSUME NvmeInv, Poll
    PROVE  NvmeInv'
<1>1. Answered /\ NvmeTypes /\ cmd # NoCmd
  BY MatchIsAnswer DEF Poll, NvmeInv
<1>2. /\ cq_head' = Advance(cq_head) /\ cq_phase' = IF cq_head' = 0 THEN 1 - cq_phase ELSE cq_phase
      /\ cmd' = NoCmd
      /\ UNCHANGED <<queue, toggles, next_cid, sq, sq_tail, dev_sq, dev_cq, dev_phase, losses,
                     running, cq, media, frame_mem>>
  BY DEF Poll, Consumed, device
<1>3. /\ cq_head' = dev_cq /\ cq_head' \in Entries /\ cq_head # dev_cq
      /\ cq_phase' \in Phases /\ NoCmd.op = "none"
  BY <1>1, <1>2, AdvanceIs DEF Answered, NvmeTypes, Phases, NoCmd
<1>4. /\ maybe' \in [Lbas -> SUBSET Contents]
      /\ \A x \in Lbas : media[x] \in maybe'[x]
  <2>1. cmd \in Commands /\ cmd.op \in {"read", "write"} /\ cmd.lba \in Lbas
        /\ (cmd.op = "write" => cmd.val \in Contents)
    BY <1>1 DEF NvmeTypes, Commands
  <2>2. cq[cq_head].ok /\ cmd.op = "write" => media[cmd.lba] = cmd.val
    BY <1>1 DEF NvmeInv, Done
  <2>3. maybe' = IF cmd.op = "write" /\ ~cq[cq_head].ok
                 THEN [maybe EXCEPT ![cmd.lba] = @ \cup {cmd.val}]
                 ELSE IF cmd.op = "write" THEN [maybe EXCEPT ![cmd.lba] = {cmd.val}] ELSE maybe
    BY DEF Poll
  <2>4. \A x \in Lbas : \/ media[x] \in maybe[x]
                        \/ cmd.op = "write" /\ cmd.lba = x /\ media[x] = cmd.val
    BY DEF NvmeInv, Expected
  <2>5. maybe \in [Lbas -> SUBSET Contents]
    BY <1>1 DEF NvmeTypes
  <2>6. CASE cmd.op = "read"
    BY <2>3, <2>4, <2>5, <2>6
  <2>7. CASE cmd.op = "write" /\ cq[cq_head].ok
    BY <2>1, <2>2, <2>3, <2>4, <2>5, <2>7
  <2>8. CASE cmd.op = "write" /\ ~cq[cq_head].ok
    BY <2>1, <2>3, <2>4, <2>5, <2>8
  <2> QED BY <2>1, <2>6, <2>7, <2>8
<1>5. NvmeTypes'
  BY <1>1, <1>2, <1>3, <1>4 DEF NvmeTypes
<1>6. Ready' /\ ~Answered' /\ ~InFlight'
  BY <1>1, <1>2, <1>3 DEF Ready, Answered, InFlight, Queued, Running
<1>7. ~InFlight
  BY <1>1, <1>3 DEF InFlight, Queued, Running, Answered
<1>8. Recent'
  BY <1>2, <1>6, <1>7 DEF Recent, NvmeInv
<1>9. (queue = "admin" => PhasesAgree)'
  BY <1>2, <1>3 DEF NvmeInv, PhasesAgree
<1>10. Expected'
  BY <1>2, <1>4 DEF Expected
<1> QED
  BY <1>2, <1>5, <1>6, <1>8, <1>9, <1>10 DEF NvmeInv

\* The driver gives up only on a command that the controller has dropped.
LEMMA TimeoutPreserves ==
    ASSUME ~Late, NvmeInv, Timeout
    PROVE  NvmeInv'
<1>1. Dropped /\ NvmeTypes /\ ~InFlight /\ NoCmd.op = "none"
  BY AdvanceIs DEF NvmeInv, NvmeTypes, Timeout, Lost, Ready, Queued, Running, Answered, InFlight, NoCmd
<1>2. /\ cmd' = NoCmd
      /\ maybe' = IF cmd.op = "write" THEN [maybe EXCEPT ![cmd.lba] = @ \cup {cmd.val}] ELSE maybe
      /\ UNCHANGED <<queue, toggles, next_cid, sq, sq_tail, cq_head, cq_phase, dev_sq, dev_cq,
                     dev_phase, losses, running, cq, media, frame_mem>>
  BY DEF Timeout, device
<1>3. Ready' /\ ~Answered' /\ ~InFlight'
  BY <1>1, <1>2 DEF Dropped, Ready, Answered, InFlight, Queued, Running
<1>4. /\ maybe' \in [Lbas -> SUBSET Contents]
      /\ \A x \in Lbas : media[x] \in maybe'[x]
  <2>1. cmd \in Commands /\ cmd.op \in {"read", "write"} /\ cmd.lba \in Lbas
        /\ (cmd.op = "write" => cmd.val \in Contents)
    BY <1>1 DEF NvmeTypes, Commands, Dropped
  <2>2. \A x \in Lbas : \/ media[x] \in maybe[x]
                        \/ cmd.op = "write" /\ cmd.lba = x /\ media[x] = cmd.val
    BY DEF NvmeInv, Expected
  <2>3. maybe \in [Lbas -> SUBSET Contents]
    BY <1>1 DEF NvmeTypes
  <2> QED BY <1>2, <2>1, <2>2, <2>3
<1>5. NvmeTypes'
  BY <1>1, <1>2, <1>4 DEF NvmeTypes
<1>6. Recent'
  BY ZenonT(60), <1>1, <1>2, <1>3 DEF Recent, NvmeInv
<1>7. (queue = "admin" => PhasesAgree)'
  BY <1>2 DEF NvmeInv, PhasesAgree
<1>8. Expected'
  BY ZenonT(60), <1>2, <1>4 DEF Expected
<1> QED
  BY ZenonT(60), <1>2, <1>3, <1>5, <1>6, <1>7, <1>8 DEF NvmeInv

-----------------------------------------------------------------------------
(* The steps of the controller. *)

LEMMA FetchPreserves ==
    ASSUME NvmeInv, Fetch
    PROVE  NvmeInv'
<1>1. Queued /\ NvmeTypes /\ cmd # NoCmd
  BY DEF NvmeInv, Fetch, Ready, Queued, Running, Dropped, Answered
<1>2. /\ running' = running \cup {sq[dev_sq]} /\ dev_sq' = Advance(dev_sq)
      /\ UNCHANGED <<queue, toggles, next_cid, sq, sq_tail, cq, cq_head, cq_phase,
                     dev_cq, dev_phase, losses, cmd, frame_mem, media, maybe>>
  BY DEF Fetch, Advance
<1>3. dev_cq # Advance(cq_head) /\ dev_sq' \in Entries
  BY <1>1, <1>2, AdvanceIs DEF Queued, NvmeTypes
<1>4. Running' /\ InFlight' /\ ~Answered' /\ InFlight /\ ~Answered
  BY <1>1, <1>2, <1>3 DEF Queued, Running, InFlight, Answered, NvmeTypes
<1>5. NvmeTypes'
  BY <1>1, <1>2, <1>3 DEF NvmeTypes
<1>6. Recent' /\ Expected' /\ (queue = "admin" => PhasesAgree)'
  BY <1>2, <1>4 DEF NvmeInv, Recent, Expected, PhasesAgree
<1> QED
  BY ZenonT(60), <1>2, <1>4, <1>5, <1>6 DEF NvmeInv

LEMMA LosePreserves ==
    ASSUME NvmeInv, NEW c \in running, Lose(c)
    PROVE  NvmeInv'
<1>1. Running /\ NvmeTypes /\ cmd # NoCmd /\ InFlight
  BY DEF NvmeInv, Ready, Queued, Running, Dropped, Answered, InFlight
<1>2. /\ running' = {} /\ losses' = losses + 1 /\ losses < MaxLosses
      /\ UNCHANGED <<queue, toggles, next_cid, sq, sq_tail, cq, cq_head, cq_phase,
                     dev_sq, dev_cq, dev_phase, cmd, frame_mem, media, maybe>>
  BY <1>1 DEF Lose, Running
<1>3. dev_cq # Advance(cq_head)
  BY <1>1, AdvanceIs DEF Running, NvmeTypes
<1>4. Dropped' /\ ~InFlight' /\ ~Answered' /\ ~Answered
  BY <1>1, <1>2, <1>3 DEF Queued, Running, Dropped, InFlight, Answered
<1>5. NvmeTypes'
  BY <1>1, <1>2, NvmeAssumption DEF NvmeTypes
<1>6. Recent'
  <2> SUFFICES ASSUME NEW i \in Entries, cq[i].cid # 0
               PROVE  Age(cq[i].cid, next_cid) <= Behind(i, dev_cq) + losses' + 0
    BY <1>2, <1>4 DEF Recent
  <2>1. Age(cq[i].cid, next_cid) <= Behind(i, dev_cq) + losses + 1
    BY <1>1 DEF NvmeInv, Recent
  <2>2. Behind(i, dev_cq) \in 1..Depth /\ losses \in 0..MaxLosses
    BY <1>1, BehindAdvance DEF NvmeTypes
  <2> QED BY <1>2, <2>1, <2>2, NvmeAssumption
<1>7. Expected' /\ (queue = "admin" => PhasesAgree)'
  BY ZenonT(60), <1>2 DEF NvmeInv, Expected, PhasesAgree
<1> QED
  BY <1>2, <1>4, <1>5, <1>6, <1>7 DEF NvmeInv

LEMMA CompletePreserves ==
    ASSUME NvmeInv, NEW c \in running, NEW ok \in BOOLEAN, Complete(c, ok)
    PROVE  NvmeInv'
<1> DEFINE e == [cid |-> cmd.cid, phase |-> dev_phase, ok |-> ok]
<1>1. /\ Running /\ NvmeTypes /\ cmd # NoCmd /\ InFlight /\ c = cmd /\ ~Answered
      /\ dev_cq = cq_head /\ dev_sq = sq_tail
  BY ZenonT(60), AdvanceIs DEF NvmeInv, NvmeTypes, Ready, Queued, Running, Dropped, Answered, InFlight
<1>2. cmd \in Commands /\ cmd.op \in {"read", "write"} /\ cmd.cid \in 1..MaxCid /\ cmd.lba \in Lbas
      /\ cmd.frame \in Frames /\ (cmd.op = "write" => frame_mem[cmd.frame] = cmd.val)
  BY <1>1 DEF NvmeTypes, Commands, NvmeInv
<1>3. /\ running' = {} /\ cq' = [cq EXCEPT ![dev_cq] = e] /\ dev_cq' = Advance(dev_cq)
      /\ frame_mem' = IF ok /\ cmd.op = "read" THEN [frame_mem EXCEPT ![cmd.frame] = media[cmd.lba]]
                      ELSE frame_mem
      /\ media' = IF ok /\ cmd.op = "write" THEN [media EXCEPT ![cmd.lba] = frame_mem[cmd.frame]]
                  ELSE media
      /\ dev_phase' = IF dev_cq' = 0 /\ toggles THEN 1 - dev_phase ELSE dev_phase
      /\ UNCHANGED <<queue, toggles, next_cid, sq, sq_tail, cq_head, cq_phase,
                     dev_sq, losses, cmd, maybe>>
  BY <1>1 DEF Complete, Advance, Running
<1>4. /\ e \in [cid : 0..MaxCid, phase : Phases, ok : BOOLEAN]
      /\ e.cid = cmd.cid /\ e.phase = dev_phase /\ e.ok = ok
  BY <1>1, <1>2, NvmeAssumption DEF NvmeTypes
<1> HIDE DEF e
<1>5. dev_cq' \in Entries /\ dev_cq' # dev_cq /\ dev_phase' \in Phases
  BY <1>1, <1>3, AdvanceIs DEF NvmeTypes, Phases
<1>6. frame_mem' \in [Frames -> Contents] /\ media' \in [Lbas -> Contents]
  BY ZenonT(60), <1>1, <1>2, <1>3 DEF NvmeTypes
<1>7. NvmeTypes'
  BY ZenonT(60), <1>1, <1>3, <1>4, <1>5, <1>6 DEF NvmeTypes
<1>8. Answered' /\ ~InFlight'
  BY <1>1, <1>3, <1>5 DEF Running, Answered, InFlight, Queued
<1>9. Recent'
  <2> SUFFICES ASSUME NEW i \in Entries, cq'[i].cid # 0
               PROVE  Age(cq'[i].cid, next_cid) <= Behind(i, dev_cq') + losses + 0
    BY ZenonT(60), <1>3, <1>8 DEF Recent
  <2>1. losses \in 0..MaxLosses /\ next_cid \in 1..MaxCid /\ dev_cq \in Entries
    BY <1>1 DEF NvmeTypes
  <2>2. CASE i = dev_cq
    <3>1. cq'[i].cid = cmd.cid
      BY <1>1, <1>3, <1>4, <2>2 DEF NvmeTypes
    <3>2. Age(cmd.cid, next_cid) = 1
      BY <1>1, <1>2, AgeNext DEF NvmeInv
    <3>3. Behind(i, dev_cq') = 1
      BY <1>3, <2>1, <2>2, BehindAdvance
    <3> QED BY <2>1, <3>1, <3>2, <3>3
  <2>3. CASE i # dev_cq
    <3>1. cq'[i] = cq[i]
      BY ZenonT(60), <1>1, <1>3, <2>3 DEF NvmeTypes
    <3>2. Age(cq[i].cid, next_cid) <= Behind(i, dev_cq) + losses + 1
      BY <1>1, <3>1 DEF NvmeInv, Recent
    <3>3. Behind(i, dev_cq') = Behind(i, dev_cq) + 1 /\ Behind(i, dev_cq) \in 1..Depth
      BY <1>3, <2>1, <2>3, BehindAdvance
    <3> QED BY <2>1, <3>1, <3>2, <3>3, NvmeAssumption
  <2> QED BY ZenonT(60), <2>2, <2>3
<1>10. cq'[cq_head] = e
  BY ZenonT(60), <1>1, <1>3 DEF NvmeTypes
<1>11. queue = "admin" => dev_phase = cq_phase
  BY ZenonT(60), <1>1 DEF NvmeInv, PhasesAgree
<1>12. (queue = "admin" => PhasesAgree)'
  BY ZenonT(60), <1>1, <1>3, <1>5, <1>11 DEF PhasesAgree, NvmeTypes
<1>13. ok => Done'
  BY ZenonT(60), <1>1, <1>2, <1>3 DEF Done, NvmeTypes
<1>14. Expected'
  BY <1>1, <1>2, <1>3 DEF Expected, NvmeInv, NvmeTypes
<1> QED
  BY ZenonT(60), <1>3, <1>4, <1>7, <1>8, <1>9, <1>10, <1>11, <1>12, <1>13, <1>14 DEF NvmeInv

-----------------------------------------------------------------------------

LEMMA NvmeInvNext ==
    ASSUME ~Late, NvmeInv, [NvmeNext]_nvmeVars
    PROVE  NvmeInv'
<1>1. CASE UNCHANGED nvmeVars
  BY ZenonT(60), <1>1 DEF nvmeVars, NvmeInv, NvmeTypes, Ready, Queued, Running, Dropped, Answered, InFlight,
              Recent, Expected, PhasesAgree, Done
<1>2. ASSUME NEW b \in Lbas, NEW f \in Frames, Submit("read", b, 0, f) PROVE NvmeInv'
  BY <1>2, SubmitPreserves
<1>3. ASSUME NEW b \in Lbas, NEW f \in Frames, NEW v \in Contents, Submit("write", b, v, f)
      PROVE  NvmeInv'
  BY <1>3, SubmitPreserves
<1>4. ASSUME NEW c \in running, Lose(c) \/ \E ok \in BOOLEAN : Complete(c, ok) PROVE NvmeInv'
  BY <1>4, LosePreserves, CompletePreserves
<1> QED
  BY ZenonT(60), <1>1, <1>2, <1>3, <1>4, PollPreserves, TimeoutPreserves, FetchPreserves
     DEF NvmeNext, NvmeDevice

\* What the properties ask for follows.
LEMMA NvmeInvExact == NvmeInv => TransfersExact
<1> SUFFICES ASSUME NvmeInv PROVE TransfersExact
  OBVIOUS
<1>1. NvmeTypes
  BY ZenonT(60) DEF NvmeInv
<1>2. DmaOwned
  BY DEF NvmeInv, DmaOwned, Ready, Queued, Running, Dropped, Answered
<1>3. Cardinality(running) <= 1
  <2>1. running = {} \/ running = {cmd}
    BY DEF NvmeInv, Ready, Queued, Running, Dropped, Answered
  <2>2. Cardinality(running) = 0 \/ Cardinality(running) = 1
    BY <2>1, FS_EmptySet, FS_Singleton, Zenon
  <2> QED BY <2>2
<1>4. NvmeTypeOK
  BY <1>1, <1>3 DEF NvmeTypes, NvmeTypeOK, Phases
<1>5. SuccessMeansDone
  <2> SUFFICES ASSUME cmd # NoCmd, Matches, cq[cq_head].ok
               PROVE  CASE cmd.op = "read" -> frame_mem[cmd.frame] = media[cmd.lba]
                                              /\ media[cmd.lba] \in maybe[cmd.lba]
                        [] cmd.op = "write" -> media[cmd.lba] = cmd.val
    BY ZenonT(60) DEF SuccessMeansDone
  <2>1. Answered /\ Done
    BY MatchIsAnswer DEF NvmeInv
  <2>2. cmd.op \in {"read", "write"} /\ cmd.lba \in Lbas
    BY <1>1 DEF NvmeTypes, Commands
  <2> QED BY ZenonT(60), <2>1, <2>2 DEF Done, NvmeInv, Expected
<1> QED
  BY <1>2, <1>4, <1>5 DEF TransfersExact

\* Whatever the controller fails or loses, in rings of any size and however
\* often the identifiers wrap: when the poll of nvme_read_block or
\* nvme_write_block reports success, this very command has been carried out,
\* and when either frees its bounce frame nothing of it is left with the
\* controller.  The controller must not answer after the driver has given up.
THEOREM NvmeTransfers ==
    ASSUME ~Late
    PROVE  NvmeSpec => []TransfersExact
BY NvmeInvInit, NvmeInvNext, NvmeInvExact, PTL DEF NvmeSpec
=============================================================================
