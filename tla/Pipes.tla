------------------------------- MODULE Pipes -------------------------------
(***************************************************************************)
(* The pipes of kernel/ipc/pipe.c: a ring buffer and a reference count for *)
(* each end, shared by the processes that hold its descriptors.  A         *)
(* critical section of pipe_lock is one action; readers and writers that   *)
(* have to wait yield and try again.  Descriptors are global numbers: the  *)
(* kernel does not record who holds one, so `holds` is what the programs   *)
(* know after pipe, fork and close.                                        *)
(***************************************************************************)
EXTENDS Naturals, Sequences, FiniteSets

CONSTANTS
    PipeProcs, FirstProc,
    NPipes,         \* PIPE_MAX
    BufSize,        \* PIPE_BUF_SIZE
    Bytes,
    MaxSent,        \* bound: bytes written to one pipe
    MaxPipes,       \* bound: how often a slot is allocated
    OthersFork,     \* processes also fork when they hold ends they got by fork,
                    \* or have closed an end
    ExitOpen        \* processes exit with ends still open

Slots == 1..NPipes
Ends == {"read", "write"}
Pos == 0 .. BufSize - 1

ASSUME PipesAssumption ==
    /\ NPipes \in Nat \ {0} /\ BufSize \in Nat \ {0} /\ MaxSent \in Nat
    /\ IsFiniteSet(PipeProcs) /\ FirstProc \in PipeProcs
    /\ OthersFork \in BOOLEAN /\ ExitOpen \in BOOLEAN

VARIABLES
    pipe_used, creator_pid, refs, pipe_buf, read_pos, write_pos, data_bytes,   \* pipe_t
    opens,          \* how often each slot has been allocated
    alive,          \* processes
    holds,          \* the <<slot, end>> pairs each process has open
    op,             \* the read or write a process is in: <<slot, count or bytes>>
    sent, rcvd      \* what was written to and read from each pipe

pipeVars == <<pipe_used, creator_pid, refs, pipe_buf, read_pos, write_pos, data_bytes>>
pipesVars == <<pipeVars, opens, alive, holds, op, sent, rcvd>>

NoOp == [call |-> "none"]
Lesser(a, b) == IF a < b THEN a ELSE b

PipeInit ==
    /\ pipe_used = [i \in Slots |-> FALSE]
    /\ creator_pid = [i \in Slots |-> FirstProc]
    /\ refs = [i \in Slots |-> [e \in Ends |-> 0]]
    /\ pipe_buf = [i \in Slots |-> [k \in Pos |-> 0]]
    /\ read_pos = [i \in Slots |-> 0]
    /\ write_pos = [i \in Slots |-> 0]
    /\ data_bytes = [i \in Slots |-> 0]
    /\ opens = [i \in Slots |-> 0]
    /\ alive = {FirstProc}
    /\ holds = [p \in PipeProcs |-> {}]
    /\ op = [p \in PipeProcs |-> NoOp]
    /\ sent = [i \in Slots |-> <<>>]
    /\ rcvd = [i \in Slots |-> <<>>]

InUser(p) == p \in alive /\ op[p] = NoOp

\* pipe_alloc and pipe_create: the lowest free slot, cleared.
pipe_create(p) ==
    \E i \in Slots :
        /\ InUser(p)
        /\ ~pipe_used[i] /\ \A j \in 1..(i - 1) : pipe_used[j]
        /\ opens[i] < MaxPipes
        /\ pipe_used' = [pipe_used EXCEPT ![i] = TRUE]
        /\ creator_pid' = [creator_pid EXCEPT ![i] = p]
        /\ refs' = [refs EXCEPT ![i] = [e \in Ends |-> 1]]
        /\ pipe_buf' = [pipe_buf EXCEPT ![i] = [k \in Pos |-> 0]]
        /\ read_pos' = [read_pos EXCEPT ![i] = 0]
        /\ write_pos' = [write_pos EXCEPT ![i] = 0]
        /\ data_bytes' = [data_bytes EXCEPT ![i] = 0]
        /\ opens' = [opens EXCEPT ![i] = @ + 1]
        /\ holds' = [holds EXCEPT ![p] = @ \cup {<<i, e>> : e \in Ends}]
        /\ sent' = [sent EXCEPT ![i] = <<>>]
        /\ rcvd' = [rcvd EXCEPT ![i] = <<>>]
        /\ UNCHANGED <<alive, op>>

\* Mutant: the child's ends are not counted.
InheritNothing(parent) == refs

\* The ends of the pipes that the parent created are counted once more.
pipe_fork_inherit(parent) ==
    [i \in Slots |-> [e \in Ends |->
        IF pipe_used[i] /\ creator_pid[i] = parent /\ refs[i][e] > 0
        THEN refs[i][e] + 1 ELSE refs[i][e]]]

\* fork: the child has the parent's descriptors.
PipeFork(p, c) ==
    /\ InUser(p) /\ c \in PipeProcs \ alive
    /\ OthersFork \/ \A i \in Slots :
          \/ \A e \in Ends : <<i, e>> \notin holds[p] /\ creator_pid[i] # p
          \/ \A e \in Ends : <<i, e>> \in holds[p] /\ creator_pid[i] = p
    /\ refs' = pipe_fork_inherit(p)
    /\ holds' = [holds EXCEPT ![c] = holds[p]]
    /\ alive' = alive \cup {c}
    /\ UNCHANGED <<pipe_used, creator_pid, pipe_buf, read_pos, write_pos, data_bytes,
                   opens, op, sent, rcvd>>

LastClose(r) == r["read"] = 0 /\ r["write"] = 0

pipe_close(p, i, e) ==
    /\ InUser(p) /\ <<i, e>> \in holds[p]
    /\ holds' = [holds EXCEPT ![p] = @ \ {<<i, e>>}]
    /\ IF pipe_used[i]
       THEN /\ refs' = [refs EXCEPT ![i][e] = IF @ > 0 THEN @ - 1 ELSE @]
            /\ pipe_used' = [pipe_used EXCEPT ![i] = ~LastClose(refs'[i])]
       ELSE UNCHANGED <<refs, pipe_used>>
    /\ UNCHANGED <<creator_pid, pipe_buf, read_pos, write_pos, data_bytes, opens,
                   alive, op, sent, rcvd>>

\* Nothing closes the descriptors of a process that exits.
PipeExit(p) ==
    /\ InUser(p) /\ (ExitOpen \/ holds[p] = {})
    /\ alive' = alive \ {p}
    /\ holds' = [holds EXCEPT ![p] = {}]
    /\ UNCHANGED <<pipeVars, opens, op, sent, rcvd>>

-----------------------------------------------------------------------------
(* Reading and writing.  The slot is looked up once, outside the lock. *)

read(p, i, n) ==
    /\ InUser(p) /\ <<i, "read">> \in holds[p] /\ pipe_used[i]
    /\ op' = [op EXCEPT ![p] = [call |-> "read", slot |-> i, count |-> n]]
    /\ UNCHANGED <<pipeVars, opens, alive, holds, sent, rcvd>>

Advance(pos, n) == (pos + n) % BufSize

\* pipe_read with data, or at the end of file; without either it yields.
ReadData(p) ==
    LET i == op[p].slot
        n == Lesser(op[p].count, data_bytes[i])
    IN  /\ op[p].call = "read" /\ pipe_used[i] /\ data_bytes[i] > 0
        /\ rcvd' = [rcvd EXCEPT ![i] = @ \o [k \in 1..n |-> pipe_buf[i][(read_pos[i] + k - 1) % BufSize]]]
        /\ read_pos' = [read_pos EXCEPT ![i] = Advance(@, n)]
        /\ data_bytes' = [data_bytes EXCEPT ![i] = @ - n]
        /\ op' = [op EXCEPT ![p] = NoOp]
        /\ UNCHANGED <<pipe_used, creator_pid, refs, pipe_buf, write_pos, opens, alive, holds, sent>>

\* Mutant: end of file only when the slot is free.
AtEofLate(i) == ~pipe_used[i]
AtEof(i) == ~pipe_used[i] \/ (data_bytes[i] = 0 /\ refs[i]["write"] = 0)

ReadEof(p) ==
    /\ op[p].call = "read" /\ AtEof(op[p].slot)
    /\ op' = [op EXCEPT ![p] = NoOp]
    /\ UNCHANGED <<pipeVars, opens, alive, holds, sent, rcvd>>

write(p, i, s) ==
    /\ InUser(p) /\ <<i, "write">> \in holds[p] /\ pipe_used[i]
    /\ op' = [op EXCEPT ![p] = [call |-> "write", slot |-> i, left |-> s]]
    /\ UNCHANGED <<pipeVars, opens, alive, holds, sent, rcvd>>

Room(i) == BufSize - data_bytes[i]

\* pipe_write puts in as much as fits; when nothing does it yields.
WriteChunk(p) ==
    LET i == op[p].slot
        s == op[p].left
        n == Lesser(Len(s), Room(i))
        rest == SubSeq(s, n + 1, Len(s))
    IN  /\ op[p].call = "write"
        /\ pipe_used[i] /\ refs[i]["read"] > 0 /\ Room(i) > 0
        /\ pipe_buf' = [pipe_buf EXCEPT ![i] = [k \in Pos |->
                     IF \E j \in 1..n : k = (write_pos[i] + j - 1) % BufSize
                     THEN s[CHOOSE j \in 1..n :
                              /\ k = (write_pos[i] + j - 1) % BufSize
                              /\ \A h \in (j + 1)..n : k # (write_pos[i] + h - 1) % BufSize]
                     ELSE @[k]]]
        /\ write_pos' = [write_pos EXCEPT ![i] = (@ + n) % BufSize]
        /\ data_bytes' = [data_bytes EXCEPT ![i] = @ + n]
        /\ sent' = [sent EXCEPT ![i] = @ \o SubSeq(s, 1, n)]
        /\ op' = [op EXCEPT ![p] = IF rest = <<>> THEN NoOp ELSE [@ EXCEPT !.left = rest]]
        /\ UNCHANGED <<pipe_used, creator_pid, refs, read_pos, opens, alive, holds, rcvd>>

\* Nobody is left to read.
WriteFails(p) ==
    /\ op[p].call = "write"
    /\ ~pipe_used[op[p].slot] \/ refs[op[p].slot]["read"] = 0
    /\ op' = [op EXCEPT ![p] = NoOp]
    /\ UNCHANGED <<pipeVars, opens, alive, holds, sent, rcvd>>

\* The retries inside the two calls.
Loop(p) == ReadData(p) \/ ReadEof(p) \/ WriteChunk(p) \/ WriteFails(p)

\* The byte strings programs write: as long as fits the bound.
Strings(i) == {s \in UNION {[1..n -> Bytes] : n \in 1..(BufSize + 1)} :
                  Len(sent[i]) + Len(s) <= MaxSent}

PipeNext ==
    \E p \in PipeProcs :
        \/ pipe_create(p)
        \/ \E c \in PipeProcs : PipeFork(p, c)
        \/ PipeExit(p)
        \/ \E i \in Slots :
              \/ \E e \in Ends : pipe_close(p, i, e)
              \/ \E n \in 1..BufSize : read(p, i, n)
              \/ \E s \in Strings(i) : write(p, i, s)
        \/ Loop(p)

PipeSpec == PipeInit /\ [][PipeNext]_pipesVars

\* A process inside read or write gets to run and to try again.
PipeFairness == \A p \in PipeProcs : WF_pipesVars(Loop(p))

PipeFairSpec == PipeSpec /\ PipeFairness

-----------------------------------------------------------------------------
(* Properties. *)

\* The types of the variables; the ring never holds more than it can.
PipeTypeOK ==
    /\ pipe_used \in [Slots -> BOOLEAN]
    /\ creator_pid \in [Slots -> PipeProcs]
    /\ \A i \in Slots, e \in Ends : refs[i][e] \in Nat
    /\ read_pos \in [Slots -> Pos] /\ write_pos \in [Slots -> Pos]
    /\ data_bytes \in [Slots -> 0..BufSize]
    /\ alive \subseteq PipeProcs
    /\ holds \in [PipeProcs -> SUBSET (Slots \X Ends)]

Content(i) == [k \in 1..data_bytes[i] |-> pipe_buf[i][(read_pos[i] + k - 1) % BufSize]]

\* What was read, followed by what is buffered, is what was written: no byte
\* is lost, doubled, overwritten or out of order, however reads and writes of
\* several processes interleave ("can be read from the read end in FIFO order").
StreamExact == \A i \in Slots : pipe_used[i] => rcvd[i] \o Content(i) = sent[i]

EndHolders(i, e) == {p \in PipeProcs : <<i, e>> \in holds[p]}

\* An end is closed only when nobody holds it any more, and a slot is free
\* only when both are ("parent closing its write fd must not mark the pipe
\* write-closed while the child still holds a copy").
NoEarlyClose ==
    \A i \in Slots, e \in Ends :
        EndHolders(i, e) # {} => pipe_used[i] /\ refs[i][e] > 0

\* A reader of an empty pipe that no process can write to any more returns.
ReaderReturns ==
    \A p \in PipeProcs :
        op[p].call = "read" /\ EndHolders(op[p].slot, "write") = {} ~> op[p].call # "read"

\* Pipes are exact: bytes arrive once and in order, and ends are open as long
\* as somebody holds them.
PipesExact == PipeTypeOK /\ StreamExact /\ NoEarlyClose

=============================================================================
