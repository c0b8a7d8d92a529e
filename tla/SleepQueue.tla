---------------------------- MODULE SleepQueue ----------------------------
(***************************************************************************)
(* What sched_block_on, proc_sleep and sched_wake_chan promise their       *)
(* callers.  A process is awake or asleep on a channel (NoChan for a plain *)
(* sleep).  A wake-up on a channel reaches everybody asleep on it, and     *)
(* nobody else stops sleeping before its deadline.                         *)
(***************************************************************************)
CONSTANTS Procs, Chans, NoChan, Awake

VARIABLES
    asleep,     \* the channel each process sleeps on, or Awake
    due         \* the sleeping processes whose deadline has passed

vars == <<asleep, due>>

Init == asleep = [p \in Procs |-> Awake] /\ due = {}

\* Sleepers that are due, and nobody else, may wake.
Expire(woken) ==
    /\ asleep' = [r \in Procs |-> IF r \in woken THEN Awake ELSE asleep[r]]
    /\ due' = due \ woken

\* One process falls asleep, its deadline possibly over already (late), while
\* sleepers that are due wake.
FallAsleep(p, ch, woken, late) ==
    /\ asleep' = [r \in Procs |-> IF r = p THEN ch
                                  ELSE IF r \in woken THEN Awake ELSE asleep[r]]
    /\ due' = (due \ woken) \cup (IF late THEN {p} ELSE {})

\* A wake-up leaves nobody asleep on the channel.
Wake(ch) ==
    LET woken == {r \in Procs : asleep[r] = ch}
    IN  /\ asleep' = [r \in Procs |-> IF r \in woken THEN Awake ELSE asleep[r]]
        /\ due' = due \ woken

DeadlinePasses(p) ==
    /\ asleep[p] # Awake
    /\ due' = due \cup {p}
    /\ UNCHANGED asleep

Next ==
    \/ \E woken \in SUBSET due : Expire(woken)
    \/ \E p \in Procs, ch \in Chans \cup {NoChan} :
           /\ asleep[p] = Awake /\ asleep'[p] = ch
           /\ \E woken \in SUBSET due, late \in BOOLEAN : FallAsleep(p, ch, woken, late)
    \/ \E ch \in Chans : Wake(ch)
    \/ \E p \in Procs : DeadlinePasses(p)

Spec == Init /\ [][Next]_vars
=============================================================================
