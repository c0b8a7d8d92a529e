----------------------------- MODULE FileStore -----------------------------
(***************************************************************************)
(* What the file system of kernel/fs promises its callers: every call      *)
(* changes one path and nothing else, a call that returns has had exactly  *)
(* its effect, and a call cut short by a crash leaves its path as it was,  *)
(* as it would have become, or, for the bytes of a file, a mixture.        *)
(***************************************************************************)
EXTENDS Naturals, Sequences

CONSTANT Paths

VARIABLES
    tree,           \* what each path names
    call,           \* the call that is running, with the value before and after
    boots           \* how often the machine has started

Absent == [kind |-> "absent"]
Directory == [kind |-> "directory"]
File(s) == [kind |-> "file", bytes |-> s]

Running == call.kind = "call"
Quiet == [kind |-> "none"]

\* s cut, or extended with zeros, to n bytes.
Resized(s, n) ==
    IF n <= Len(s) THEN SubSeq(s, 1, n) ELSE s \o [k \in 1..(n - Len(s)) |-> 0]

\* s with t at offset off; zeros fill a gap.
Spliced(s, off, t) ==
    Resized(s, off) \o t \o SubSeq(s, off + Len(t) + 1, Len(s))

\* What a call may turn a path's value into: creat and mkdir of a new path,
\* unlink of a file, a write (of fewer bytes than asked when the device is
\* full) and a change of size; a call that fails has no effect.
Effect(old, new) ==
    \/ new = old
    \/ old = Absent /\ new \in {File(<<>>), Directory}
    \/ old.kind = "file" /\ new = Absent
    \/ /\ old.kind = "file" /\ new.kind = "file"
       /\ \/ \E n \in 0..Len(new.bytes) : new = File(Resized(old.bytes, n))
          \/ \E off, n \in 0..Len(new.bytes) :
                /\ off + n <= Len(new.bytes)
                /\ new = File(Spliced(old.bytes, off, SubSeq(new.bytes, off + 1, off + n)))

\* A value a crash may leave.
Torn(v, old, new) ==
    \/ v \in {old, new}
    \/ /\ v.kind = "file" /\ old.kind = "file" /\ new.kind = "file"
       /\ Len(v.bytes) \in {Len(old.bytes), Len(new.bytes)}
       /\ \A k \in 1..Len(v.bytes) :
             \/ k <= Len(old.bytes) /\ v.bytes[k] = old.bytes[k]
             \/ k <= Len(new.bytes) /\ v.bytes[k] = new.bytes[k]

\* The device may come with files on it.
Init ==
    /\ DOMAIN tree = Paths
    /\ \A p \in Paths : tree[p].kind \in {"absent", "file", "directory"}
    /\ call = Quiet /\ boots = 0

Begin ==
    /\ ~Running /\ call'.kind = "call"
    /\ call'.path \in Paths /\ call'.old = tree[call'.path]
    /\ Effect(call'.old, call'.new)
    /\ UNCHANGED <<tree, boots>>

Progress ==
    /\ Running /\ UNCHANGED <<call, boots>>
    /\ tree' = [tree EXCEPT ![call.path] = tree'[call.path]]
    /\ Torn(tree'[call.path], call.old, call.new)

Return ==
    /\ Running /\ call' = Quiet /\ UNCHANGED boots
    /\ tree' = [tree EXCEPT ![call.path] = call.new]

Crash == call' = Quiet /\ boots' = boots + 1 /\ UNCHANGED tree

Next == Begin \/ Progress \/ Return \/ Crash

Spec == Init /\ [][Next]_<<tree, call, boots>>
=============================================================================
