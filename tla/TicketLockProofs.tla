------------------------- MODULE TicketLockProofs -------------------------
(***************************************************************************)
(* Mutual exclusion of the ticket spinlock for any number of processors    *)
(* and any counter width with more tickets than processors.                *)
(***************************************************************************)
EXTENDS TicketLock, FiniteSetTheorems, TLAPS

\* Moving the far end of an arc one ticket on lengthens it by one, as long as
\* the arc does not close the circle.
LEMMA DistSuccFar ==
    ASSUME NEW a \in Ticket, NEW b \in Ticket, Dist(a, b) < TicketMod - 1
    PROVE  Succ(b) \in Ticket /\ Dist(a, Succ(b)) = Dist(a, b) + 1
BY TicketAssumption DEF Ticket, Dist, Succ

\* Moving the near end of a non-empty arc one ticket on shortens it by one.
LEMMA DistSuccNear ==
    ASSUME NEW a \in Ticket, NEW b \in Ticket, a # b
    PROVE  Succ(a) \in Ticket /\ Dist(Succ(a), b) = Dist(a, b) - 1
BY TicketAssumption DEF Ticket, Dist, Succ

\* Arcs have a length below TicketMod, and only the empty arc has length 0.
LEMMA DistRange ==
    ASSUME NEW a \in Ticket, NEW b \in Ticket
    PROVE  /\ Dist(a, b) \in Ticket
           /\ Dist(a, b) \in Nat
           /\ Dist(a, b) = 0 <=> a = b
BY TicketAssumption DEF Ticket, Dist

\* The outstanding tickets are countable, and a CPU without one leaves room
\* for one more ticket before the counters meet.
LEMMA HoldersFinite ==
    /\ IsFiniteSet(Holders)
    /\ Cardinality(Holders) \in Nat
    /\ \A c \in CPUs \ Holders : Cardinality(Holders) < TicketMod - 1
<1>1. Holders \subseteq CPUs
  BY DEF Holders
<1>2. IsFiniteSet(Holders) /\ Cardinality(Holders) \in Nat
  BY <1>1, CPUsAssumption, FS_Subset, FS_CardinalityType
<1>3. ASSUME NEW c \in CPUs \ Holders
      PROVE  Cardinality(Holders) < TicketMod - 1
  <2>1. /\ IsFiniteSet(Holders \cup {c})
        /\ Cardinality(Holders \cup {c}) = Cardinality(Holders) + 1
    BY <1>2, FS_AddElement
  <2>2. Holders \cup {c} \subseteq CPUs
    BY <1>1
  <2>3. Cardinality(Holders \cup {c}) <= Cardinality(CPUs)
    BY <2>2, CPUsAssumption, FS_Subset
  <2>4. Cardinality(CPUs) \in Nat
    BY CPUsAssumption, FS_CardinalityType
  <2> QED
    BY <1>2, <2>1, <2>3, <2>4, TicketAssumption
<1> QED
  BY <1>2, <1>3

\* A lock nobody has used satisfies the invariant: both counters are 0.
LEMMA LockInvInit == Init => LockInv
<1> SUFFICES ASSUME Init PROVE LockInv
  OBVIOUS
<1>1. TypeOK
  BY TicketAssumption, FS_CardinalityType, CPUsAssumption
     DEF Init, TypeOK, Ticket, PCs
<1>2. Holders = {} /\ Trying = {}
  BY DEF Init, Holders, Trying
<1>3. Dist(serving_ticket, next_ticket) = Cardinality(Holders)
  BY <1>2, FS_EmptySet DEF Init, Dist
<1> QED
  BY <1>1, <1>2, <1>3 DEF LockInv, Init

\* Drawing a ticket, the step that spinlock_acquire and a successful
\* compare-and-swap share, preserves everything LockInv says about tickets.
LEMMA DrawPreserves ==
    ASSUME LockInv, NEW c \in CPUs \ Holders, DrawTicket(c),
           NEW l \in {"spin", "held"}, pc' = [pc EXCEPT ![c] = l],
           l = "held" => next_ticket = serving_ticket,
           UNCHANGED serving_ticket
    PROVE  LockInv'
<1>1. /\ Dist(serving_ticket, next_ticket) = Cardinality(Holders)
      /\ Dist(serving_ticket, next_ticket) < TicketMod - 1
  BY HoldersFinite DEF LockInv
<1>2. Holders' = Holders \cup {c}
  BY DEF Holders, LockInv, TypeOK
<1>3. Trying' = Trying \ {c}
  BY DEF Trying, LockInv, TypeOK
<1>4. Cardinality(Holders') = Cardinality(Holders) + 1
  BY SMTT(60), <1>2, HoldersFinite, FS_AddElement
<1>5. /\ next_ticket' \in Ticket
      /\ Dist(serving_ticket, next_ticket') = Dist(serving_ticket, next_ticket) + 1
  BY <1>1, DistSuccFar DEF DrawTicket, LockInv, TypeOK
<1>6. TypeOK'
  <2>1. lag' \in [CPUs -> Ticket]
    BY TicketAssumption DEF DrawTicket, NoLap, LockInv, TypeOK, Ticket
  <2> QED
    BY <1>5, <2>1, TicketAssumption DEF DrawTicket, LockInv, TypeOK, PCs, Ticket
<1>7. (Dist(serving_ticket, next_ticket) = Cardinality(Holders))'
  BY <1>1, <1>4, <1>5
<1>8. \A d \in Holders' : Dist(serving_ticket, ticket'[d]) < Dist(serving_ticket, next_ticket')
  <2> TAKE d \in Holders'
  <2>1. CASE d = c
    BY <2>1, <1>5, DistRange, TicketAssumption DEF DrawTicket, LockInv, TypeOK, Ticket
  <2>2. CASE d \in Holders /\ d # c
    <3>1. ticket'[d] = ticket[d] /\ ticket[d] \in Ticket
      BY <2>2 DEF DrawTicket, LockInv, TypeOK, Holders
    <3>2. Dist(serving_ticket, ticket[d]) < Dist(serving_ticket, next_ticket)
      BY <2>2 DEF LockInv
    <3>3. /\ Dist(serving_ticket, ticket[d]) \in Int
          /\ Dist(serving_ticket, next_ticket) \in Int
      BY <3>1, DistRange DEF LockInv, TypeOK
    <3> QED
      BY <3>1, <3>2, <3>3, <1>5
  <2> QED
    BY <2>1, <2>2, <1>2
<1>9. \A d, e \in Holders' : ticket'[d] = ticket'[e] => d = e
  <2>1. \A d \in Holders : ticket'[d] = ticket[d] /\ ticket[d] # next_ticket
    <3> TAKE d \in Holders
    <3>1. d \in CPUs /\ d # c /\ ticket[d] \in Ticket
      BY DEF Holders, LockInv, TypeOK
    <3>2. Dist(serving_ticket, ticket[d]) # Dist(serving_ticket, next_ticket)
      BY <3>1, DistRange, TicketAssumption DEF LockInv, TypeOK, Ticket
    <3> QED
      BY <3>1, <3>2 DEF DrawTicket, LockInv, TypeOK
  <2>2. ticket'[c] = next_ticket
    BY DEF DrawTicket, LockInv, TypeOK
  <2> QED
    BY <1>2, <2>1, <2>2 DEF LockInv
<1>10. \A d \in CPUs : pc'[d] = "held" => ticket'[d] = serving_ticket
  BY DEF DrawTicket, LockInv, TypeOK, Holders
<1>11. \A d \in Trying' : Dist(seen'[d], next_ticket') = lag'[d]
  <2> TAKE d \in Trying'
  <2>1. /\ d \in Trying /\ d # c /\ d \in CPUs
        /\ seen'[d] = seen[d] /\ lag'[d] = lag[d] + 1
        /\ seen[d] \in Ticket
    BY <1>3 DEF Trying, DrawTicket, LockInv, TypeOK
  <2>2. Dist(seen[d], next_ticket) = lag[d] /\ lag[d] < TicketMod - 1
    BY <2>1 DEF LockInv, DrawTicket, NoLap
  <2> QED
    BY <2>1, <2>2, DistSuccFar DEF DrawTicket, LockInv, TypeOK
<1>12. \A d \in CPUs : pc'[d] = "cas" /\ lag'[d] = 0 => serving_ticket = next_ticket'
  <2> SUFFICES ASSUME NEW d \in CPUs, pc'[d] = "cas" PROVE lag'[d] # 0
    OBVIOUS
  <2>1. d # c /\ d \in Trying
    BY DEF LockInv, TypeOK, Trying
  <2> QED
    BY <2>1 DEF DrawTicket, LockInv, TypeOK, Ticket
<1>13. \A d \in CPUs \ Trying' : lag'[d] = 0
  BY <1>3 DEF DrawTicket, LockInv, TypeOK
<1> QED
  BY <1>6, <1>7, <1>8, <1>9, <1>10, <1>11, <1>12, <1>13 DEF LockInv

\* A step that draws no ticket, releases nothing and moves no CPU into or out
\* of a critical section except by being served disturbs only the last three
\* conjuncts of LockInv.
LEMMA StepPreserves ==
    ASSUME LockInv, NEW c \in CPUs,
           SpinDone(c) \/ SpinDeadlock(c) \/ spinlock_try_irqsave(c)
             \/ PeekServing(c) \/ TryLoadNext(c) \/ TryLoadServing(c)
             \/ CasFails(c)
    PROVE  LockInv'
<1> USE DEF SpinDone, SpinDeadlock, spinlock_try_irqsave, PeekServing,
            TryLoadNext, TryLoadServing, CasFails, ContinueTry
<1>1. TypeOK'
  BY TicketAssumption DEF LockInv, TypeOK, PCs, Ticket
<1>2. UNCHANGED <<next_ticket, serving_ticket, ticket>>
  OBVIOUS
<1>3. Holders' = Holders
  BY DEF Holders, LockInv, TypeOK
<1>4. \A d \in CPUs : pc'[d] = "held" => ticket'[d] = serving_ticket'
  BY DEF LockInv, TypeOK
<1>5. \A d \in Trying' : Dist(seen'[d], next_ticket') = lag'[d]
  <2>1. ASSUME NEW d \in Trying', d # c
        PROVE  Dist(seen'[d], next_ticket') = lag'[d]
    BY SMTT(60), <2>1, <1>2 DEF LockInv, TypeOK, Trying
  <2>2. ASSUME c \in Trying' PROVE Dist(seen'[c], next_ticket') = lag'[c]
    <3>1. CASE TryLoadNext(c)
      <4>1. lag'[c] = 0 /\ seen'[c] = next_ticket
        BY <3>1 DEF LockInv, TypeOK, Trying
      <4> QED
        BY <4>1, <1>2, DistRange DEF LockInv, TypeOK
    <3>2. CASE TryLoadServing(c)
      BY <2>2, <3>2, <1>2 DEF LockInv, TypeOK, Trying
    <3>3. CASE PeekServing(c) \/ CasFails(c)
      BY <2>2, <3>3 DEF LockInv, TypeOK, Trying
    <3>4. CASE SpinDone(c) \/ SpinDeadlock(c) \/ spinlock_try_irqsave(c)
      BY <2>2, <3>4 DEF LockInv, TypeOK, Trying
    <3> QED
      BY <3>1, <3>2, <3>3, <3>4
  <2> QED
    BY <2>1, <2>2
<1>6. \A d \in CPUs \ Trying' : lag'[d] = 0
  BY DEF LockInv, TypeOK, Trying
<1>7. \A d \in CPUs : pc'[d] = "cas" /\ lag'[d] = 0 => serving_ticket' = next_ticket'
  <2>1. ASSUME NEW d \in CPUs, d # c, pc'[d] = "cas", lag'[d] = 0
        PROVE  serving_ticket' = next_ticket'
    BY <2>1, <1>2 DEF LockInv, TypeOK
  <2>2. ASSUME pc'[c] = "cas", lag'[c] = 0
        PROVE  serving_ticket' = next_ticket'
    <3>1. TryLoadServing(c) /\ serving_ticket = seen[c] /\ lag[c] = 0
      BY <2>2 DEF LockInv, TypeOK
    <3>2. Dist(seen[c], next_ticket) = 0
      BY <3>1 DEF LockInv, Trying
    <3> QED
      BY <3>1, <3>2, <1>2, DistRange DEF LockInv, TypeOK
  <2> QED
    BY <2>1, <2>2
<1> QED
  BY <1>1, <1>2, <1>3, <1>4, <1>5, <1>6, <1>7 DEF LockInv

\* The release hands the lock to the next ticket in line.
LEMMA ReleasePreserves ==
    ASSUME LockInv, NEW c \in CPUs, spinlock_release(c)
    PROVE  LockInv'
<1>1. c \in Holders /\ ticket[c] = serving_ticket
  BY DEF LockInv, Holders, spinlock_release
<1>2. Holders' = Holders \ {c}
  BY DEF LockInv, TypeOK, Holders, spinlock_release
<1>3. Cardinality(Holders') = Cardinality(Holders) - 1 /\ Cardinality(Holders) > 0
  <2>1. Cardinality(Holders') = Cardinality(Holders) - 1
    BY <1>1, <1>2, HoldersFinite, FS_RemoveElement
  <2>2. Cardinality(Holders) # 0
    BY <1>1, HoldersFinite, FS_EmptySet
  <2> QED
    BY <2>1, <2>2, HoldersFinite
<1>4. serving_ticket # next_ticket
  BY <1>3, HoldersFinite, DistRange DEF LockInv, TypeOK
<1>5. /\ serving_ticket' \in Ticket /\ next_ticket' = next_ticket
      /\ Dist(serving_ticket', next_ticket) = Dist(serving_ticket, next_ticket) - 1
  BY <1>4, DistSuccNear DEF LockInv, TypeOK, spinlock_release
<1>6. TypeOK'
  BY <1>5, TicketAssumption DEF LockInv, TypeOK, PCs, Ticket, spinlock_release
<1>7. \A d \in Holders' : /\ d \in Holders /\ d \in CPUs /\ d # c
                          /\ ticket'[d] = ticket[d] /\ ticket[d] \in Ticket
                          /\ ticket[d] # serving_ticket
  BY <1>1, <1>2 DEF LockInv, TypeOK, Holders, spinlock_release
<1>8. \A d \in Holders' :
          Dist(serving_ticket', ticket'[d]) < Dist(serving_ticket', next_ticket')
  <2> TAKE d \in Holders'
  <2>1. Dist(serving_ticket', ticket[d]) = Dist(serving_ticket, ticket[d]) - 1
    BY <1>7, DistSuccNear DEF LockInv, TypeOK, spinlock_release
  <2>2. Dist(serving_ticket, ticket[d]) < Dist(serving_ticket, next_ticket)
    BY <1>7 DEF LockInv
  <2>3. /\ Dist(serving_ticket, ticket[d]) \in Int
        /\ Dist(serving_ticket, next_ticket) \in Int
    BY <1>7, DistRange DEF LockInv, TypeOK
  <2> QED
    BY <1>5, <1>7, <2>1, <2>2, <2>3
<1>9. \A d, e \in Holders' : ticket'[d] = ticket'[e] => d = e
  BY <1>7 DEF LockInv
<1>10. \A d \in CPUs : pc'[d] # "held"
  BY <1>7 DEF Holders, spinlock_release, LockInv, TypeOK
<1>11. \A d \in Trying' : Dist(seen'[d], next_ticket') = lag'[d]
  BY DEF LockInv, TypeOK, Trying, spinlock_release
<1>12. \A d \in CPUs : pc'[d] = "cas" /\ lag'[d] = 0 => serving_ticket' = next_ticket'
  BY <1>4 DEF LockInv, TypeOK, spinlock_release
<1>13. \A d \in CPUs \ Trying' : lag'[d] = 0
  BY DEF LockInv, TypeOK, Trying, spinlock_release
<1>14. (Dist(serving_ticket, next_ticket) = Cardinality(Holders))'
  BY <1>3, <1>5 DEF LockInv
<1> QED
  BY <1>6, <1>8, <1>9, <1>10, <1>11, <1>12, <1>13, <1>14 DEF LockInv

\* Every memory access of the lock code preserves the invariant.
LEMMA LockInvNext == LockInv /\ [Next]_vars => LockInv'
<1> SUFFICES ASSUME LockInv, [Next]_vars PROVE LockInv'
  OBVIOUS
<1>1. CASE UNCHANGED vars
  BY <1>1 DEF vars, LockInv, TypeOK, Holders, Trying
<1>2. ASSUME NEW c \in CPUs, spinlock_acquire(c) PROVE LockInv'
  BY ZenonT(60), <1>2, DrawPreserves DEF spinlock_acquire, Holders
<1>3. ASSUME NEW c \in CPUs, CasSucceeds(c) PROVE LockInv'
  <2>1. c \in CPUs \ Holders /\ c \in Trying
    BY <1>3 DEF CasSucceeds, Holders, Trying
  <2>2. lag[c] = 0
    BY <1>3, <2>1, DistRange DEF LockInv, TypeOK, CasSucceeds
  <2>3. next_ticket = serving_ticket
    BY <1>3, <2>2 DEF LockInv, CasSucceeds
  <2> QED
    BY ZenonT(60), <1>3, <2>1, <2>3, DrawPreserves DEF CasSucceeds
<1>4. ASSUME NEW c \in CPUs, spinlock_release(c) PROVE LockInv'
  BY <1>4, ReleasePreserves
<1> QED
  BY <1>1, <1>2, <1>3, <1>4, StepPreserves DEF Next

\* In every behaviour of the lock code, for any number of processors, the
\* strengthened invariant holds, and with it the types of all its variables.
THEOREM LockInvariant == Spec => []LockInv
BY LockInvInit, LockInvNext, PTL DEF Spec

\* No two processors are ever inside the critical section of one spinlock.
THEOREM LockMutualExclusion == Spec => []MutualExclusion
<1>1. LockInv => MutualExclusion
  BY DEF LockInv, MutualExclusion, Holders
<1> QED
  BY <1>1, LockInvariant, PTL

-----------------------------------------------------------------------------
(* The order of service. *)

\* What Line makes of a set of CPUs, their tickets and the ticket being served.
LineOf(H, tk, sv) ==
    [i \in 1..Cardinality(H) |-> CHOOSE c \in H : Dist(sv, tk[c]) = i - 1]

\* The CPUs of H have different tickets, which follow each other from sv on.
Queued(H, tk, sv) ==
    /\ IsFiniteSet(H) /\ sv \in Ticket
    /\ \A c \in H : tk[c] \in Ticket /\ Dist(sv, tk[c]) < Cardinality(H)
    /\ \A c, d \in H : tk[c] = tk[d] => c = d

\* Two arcs from one ticket that are equally long end at the same ticket.
LEMMA DistSame ==
    ASSUME NEW a \in Ticket, NEW b \in Ticket, NEW c \in Ticket, Dist(a, b) = Dist(a, c)
    PROVE  b = c
BY TicketAssumption DEF Ticket, Dist

\* Every place in the line is taken: there are as many CPUs as places and no
\* two have the same one.
LEMMA LineOfExact ==
    ASSUME NEW H, NEW tk, NEW sv, Queued(H, tk, sv)
    PROVE  /\ Cardinality(H) \in Nat
           /\ LineOf(H, tk, sv) \in [1..Cardinality(H) -> H]
           /\ \A i \in 1..Cardinality(H) : Dist(sv, tk[LineOf(H, tk, sv)[i]]) = i - 1
<1> DEFINE n == Cardinality(H)
           T == 0..(n - 1)
           f == [c \in H |-> Dist(sv, tk[c])]
<1>1. n \in Nat /\ IsFiniteSet(H)
  BY FS_CardinalityType DEF Queued
<1>2. IsFiniteSet(T) /\ Cardinality(T) = n
  BY <1>1, FS_Interval
<1>3. \A c \in H : Dist(sv, tk[c]) \in T
  BY <1>1, DistRange DEF Queued
<1>4. \A c, d \in H : Dist(sv, tk[c]) = Dist(sv, tk[d]) => c = d
  BY DistSame DEF Queued
<1>5. f \in Injection(H, T)
  BY <1>3, <1>4 DEF Injection, IsInjective
<1>6. f \in Surjection(H, T)
  <2> HIDE DEF f, n, T
  <2> QED
    BY <1>2, <1>5, FS_Injection DEF n
<1>7. \A i \in 1..n : \E c \in H : Dist(sv, tk[c]) = i - 1
  <2>1. \A i \in 1..n : i - 1 \in T
    BY <1>1
  <2> QED
    BY ZenonT(60), <1>6, <2>1 DEF Surjection
<1>8. \A i \in 1..n : /\ LineOf(H, tk, sv)[i] \in H
                      /\ Dist(sv, tk[LineOf(H, tk, sv)[i]]) = i - 1
  BY <1>7 DEF LineOf
<1> QED
  BY <1>1, <1>8 DEF LineOf

\* There is only one such line.
LEMMA LineOfUnique ==
    ASSUME NEW H, NEW tk, NEW sv, Queued(H, tk, sv),
           NEW s \in [1..Cardinality(H) -> H],
           \A i \in 1..Cardinality(H) : Dist(sv, tk[s[i]]) = i - 1
    PROVE  s = LineOf(H, tk, sv)
<1>1. \A i \in 1..Cardinality(H) : s[i] = LineOf(H, tk, sv)[i]
  <2> TAKE i \in 1..Cardinality(H)
  <2> DEFINE l == LineOf(H, tk, sv)
  <2>1. s[i] \in H /\ l[i] \in H /\ Dist(sv, tk[s[i]]) = Dist(sv, tk[l[i]])
    BY LineOfExact
  <2> QED
    BY <2>1, DistSame DEF Queued
<1>2. LineOf(H, tk, sv) \in [1..Cardinality(H) -> H]
  BY LineOfExact
<1>3. DOMAIN s = DOMAIN LineOf(H, tk, sv) /\ s = [i \in DOMAIN s |-> s[i]]
      /\ LineOf(H, tk, sv) = [i \in DOMAIN LineOf(H, tk, sv) |-> LineOf(H, tk, sv)[i]]
  BY <1>2
<1> QED
  BY ZenonT(60), <1>1, <1>3

\* The abstract lock as the lock code sees it.
LEMMA LockInvLine ==
    ASSUME LockInv
    PROVE  /\ Queued(Holders, ticket, serving_ticket)
           /\ Line = LineOf(Holders, ticket, serving_ticket)
           /\ Line \in [1..Cardinality(Holders) -> Holders]
           /\ Cardinality(Holders) \in Nat
           /\ Line \in Seq(CPUs) /\ Len(Line) = Cardinality(Holders)
<1>1. Queued(Holders, ticket, serving_ticket)
  BY HoldersFinite DEF LockInv, TypeOK, Queued, Holders
<1>2. Line = LineOf(Holders, ticket, serving_ticket)
  BY DEF Line, LineOf
<1>3. Cardinality(Holders) \in Nat /\ Line \in [1..Cardinality(Holders) -> Holders]
  BY <1>1, <1>2, LineOfExact
<1>4. Line \in [1..Cardinality(Holders) -> CPUs]
  BY <1>3 DEF Holders
<1> QED
  BY <1>1, <1>2, <1>3, <1>4

\* The same after a step.
LEMMA LockInvLineNext ==
    ASSUME LockInv'
    PROVE  /\ Queued(Holders', ticket', serving_ticket')
           /\ Line' = LineOf(Holders', ticket', serving_ticket')
<1>1. Holders' \subseteq CPUs
  BY DEF Holders
<1>2. IsFiniteSet(Holders')
  BY <1>1, CPUsAssumption, FS_Subset
<1> QED
  BY <1>2 DEF LockInv, TypeOK, Queued, Holders, Line, LineOf

\* A function has its range in every set that holds its values.
LEMMA Ranged ==
    ASSUME NEW S, NEW T, NEW n, NEW f \in [1..n -> S], \A i \in 1..n : f[i] \in T
    PROVE  f \in [1..n -> T]
OBVIOUS

\* A CPU that draws a ticket goes to the end of the line.
LEMMA DrawJoins ==
    ASSUME LockInv, LockInv', NEW c \in CPUs \ Holders, DrawTicket(c),
           Holders' = Holders \cup {c}, UNCHANGED serving_ticket
    PROVE  Line' = Append(Line, c)
<1> DEFINE n == Cardinality(Holders)
           s == Append(Line, c)
<1>1. n \in Nat /\ Cardinality(Holders') = n + 1
  BY HoldersFinite, FS_AddElement
<1>2. Line \in [1..n -> Holders] /\ Line \in Seq(CPUs) /\ Len(Line) = n
  BY LockInvLine
<1>3. /\ s \in [1..(n + 1) -> Holders']
      /\ s[n + 1] = c /\ \A i \in 1..n : s[i] = Line[i]
  <2>1. s \in Seq(CPUs) /\ Len(s) = n + 1 /\ s[n + 1] = c /\ \A i \in 1..n : s[i] = Line[i]
    BY <1>1, <1>2
  <2>2. s \in [1..(n + 1) -> CPUs]
    <3> HIDE DEF s, n
    <3> QED BY <2>1
  <2>3. \A i \in 1..(n + 1) : i = n + 1 \/ i \in 1..n
    BY <1>1
  <2>4. \A i \in 1..(n + 1) : s[i] \in Holders'
    BY <1>2, <2>1, <2>3
  <2> HIDE DEF s
  <2> QED BY <2>1, <2>2, <2>4, Ranged
<1>4. \A i \in 1..n : Dist(serving_ticket, ticket[Line[i]]) = i - 1
  BY LockInvLine, LineOfExact
<1>5. \A i \in 1..n : ticket'[Line[i]] = ticket[Line[i]]
  <2>1. \A d \in Holders : d # c /\ ticket'[d] = ticket[d]
    BY DEF DrawTicket, LockInv, TypeOK, Holders
  <2> QED BY <1>2, <2>1
<1>6. ticket'[c] = next_ticket /\ Dist(serving_ticket, next_ticket) = n
  BY DEF DrawTicket, LockInv, TypeOK
<1>7. \A i \in 1..(n + 1) : Dist(serving_ticket', ticket'[s[i]]) = i - 1
  <2>1. \A i \in 1..(n + 1) : i = n + 1 \/ i \in 1..n
    BY <1>1
  <2>2. n = (n + 1) - 1
    BY <1>1
  <2> HIDE DEF s, n
  <2> QED BY <1>3, <1>4, <1>5, <1>6, <2>1, <2>2
<1>8. /\ s \in [1..Cardinality(Holders') -> Holders']
      /\ \A i \in 1..Cardinality(Holders') : Dist(serving_ticket', ticket'[s[i]]) = i - 1
  BY ONLY <1>1, <1>3, <1>7
<1> HIDE DEF s, n
<1>9. Queued(Holders', ticket', serving_ticket')
  BY LockInvLineNext
<1>10. s = LineOf(Holders', ticket', serving_ticket')
  BY ONLY ZenonT(60), <1>8, <1>9, LineOfUnique
<1> QED
  BY <1>10, LockInvLineNext DEF s

\* A release takes the first CPU out of the line.
LEMMA ReleaseLeaves ==
    ASSUME LockInv, LockInv', NEW c \in CPUs, spinlock_release(c)
    PROVE  Line' = Tail(Line) /\ Line # <<>>
<1> DEFINE n == Cardinality(Holders)
           s == Tail(Line)
<1>1. c \in Holders /\ ticket[c] = serving_ticket /\ Holders' = Holders \ {c}
  BY DEF LockInv, TypeOK, Holders, spinlock_release
<1>2. n \in Nat \ {0} /\ Cardinality(Holders') = n - 1
  BY <1>1, HoldersFinite, FS_RemoveElement, FS_EmptySet
<1>3. Line \in [1..n -> Holders] /\ Line \in Seq(CPUs) /\ Len(Line) = n
  BY LockInvLine
<1>4. s \in Seq(CPUs) /\ Len(s) = n - 1 /\ \A i \in 1..(n - 1) : s[i] = Line[i + 1]
  BY <1>2, <1>3
<1>5. \A i \in 1..n : Dist(serving_ticket, ticket[Line[i]]) = i - 1
  BY LockInvLine, LineOfExact
<1>6. \A i \in 1..(n - 1) : s[i] \in Holders' /\ Dist(serving_ticket', ticket'[s[i]]) = i - 1
  <2> SUFFICES ASSUME NEW i \in 1..(n - 1)
               PROVE  s[i] \in Holders' /\ Dist(serving_ticket', ticket'[s[i]]) = i - 1
    BY ZenonT(60)
  <2>1. i + 1 \in 1..n /\ i \in Nat /\ i # 0
    BY <1>2
  <2>2. PICK d \in Holders : d = Line[i + 1]
    BY <1>3, <2>1
  <2>3. d \in CPUs /\ ticket[d] \in Ticket /\ Dist(serving_ticket, ticket[d]) = i
    BY <1>5, <2>1, <2>2 DEF LockInv, TypeOK, Holders
  <2>4. ticket[d] # serving_ticket
    BY <2>1, <2>3, DistRange DEF LockInv, TypeOK
  <2>5. d # c /\ ticket'[d] = ticket[d] /\ serving_ticket' = Succ(serving_ticket)
    BY <1>1, <2>3, <2>4 DEF spinlock_release, LockInv, TypeOK
  <2>6. Dist(serving_ticket', ticket[d]) = i - 1
    BY <2>3, <2>4, <2>5, DistSuccNear DEF LockInv, TypeOK
  <2> QED BY <1>1, <1>4, <2>2, <2>5, <2>6
<1>7. s \in [1..(n - 1) -> Holders']
  <2>1. s \in [1..(n - 1) -> CPUs]
    <3> HIDE DEF s, n
    <3> QED BY <1>4
  <2> HIDE DEF s, n
  <2> QED BY <1>6, <2>1, Ranged
<1>8. Line # <<>>
  BY <1>2, <1>3
<1>9. /\ s \in [1..Cardinality(Holders') -> Holders']
      /\ \A i \in 1..Cardinality(Holders') : Dist(serving_ticket', ticket'[s[i]]) = i - 1
  BY ONLY <1>2, <1>6, <1>7
<1> HIDE DEF s, n
<1>10. s = LineOf(Holders', ticket', serving_ticket')
  BY ZenonT(60), <1>9, LockInvLineNext, LineOfUnique
<1> QED
  BY <1>8, <1>10, LockInvLineNext DEF s

\* The owner is the CPU in its critical section.
LEMMA OwnerIs ==
    ASSUME LockInv
    PROVE  /\ \A c \in CPUs : pc[c] = "held" => Owner = c
           /\ (\A c \in CPUs : pc[c] # "held") => Owner = NoCPU
<1>1. \A c, d \in CPUs : pc[c] = "held" /\ pc[d] = "held" => c = d
  BY DEF LockInv, Holders
<1> QED
  BY <1>1 DEF Owner

\* The same after a step.
LEMMA OwnerIsNext ==
    ASSUME LockInv'
    PROVE  /\ \A c \in CPUs : pc'[c] = "held" => Owner' = c
           /\ (\A c \in CPUs : pc'[c] # "held") => Owner' = NoCPU
<1>1. \A c, d \in CPUs : pc'[c] = "held" /\ pc'[d] = "held" => c = d
  BY DEF LockInv, Holders
<1> QED
  BY <1>1 DEF Owner

\* A step that changes neither the tickets out nor who is inside leaves the
\* abstract lock as it is.
LEMMA LineStays ==
    ASSUME LockInv, LockInv', Holders' = Holders, UNCHANGED <<ticket, serving_ticket>>
    PROVE  Line' = Line
BY LockInvLine, LockInvLineNext

LEMMA OwnerStays ==
    ASSUME LockInv, LockInv', \A c \in CPUs : pc'[c] = "held" <=> pc[c] = "held"
    PROVE  Owner' = Owner
BY OwnerIs, OwnerIsNext

\* The steps of a try-acquire before its compare-and-swap succeeds, and the
\* halt of a CPU that gives up, are invisible.
LEMMA FifoStutter ==
    ASSUME LockInv, LockInv', NEW c \in CPUs,
           \/ SpinDeadlock(c) \/ spinlock_try_irqsave(c) \/ PeekServing(c)
           \/ TryLoadNext(c) \/ TryLoadServing(c) \/ CasFails(c)
    PROVE  UNCHANGED <<Line, Owner>>
<1>1. pc \in [CPUs -> PCs]
  BY DEF LockInv, TypeOK
<1>2. PICK l \in PCs : pc' = [pc EXCEPT ![c] = l] /\ l # "held" /\ pc[c] # "held"
                       /\ (l \in {"spin", "halted"} <=> pc[c] \in {"spin", "halted"})
  BY DEF SpinDeadlock, spinlock_try_irqsave, PeekServing, TryLoadNext, TryLoadServing,
         CasFails, ContinueTry, PCs
<1>3. UNCHANGED <<ticket, serving_ticket>>
  BY DEF SpinDeadlock, spinlock_try_irqsave, PeekServing, TryLoadNext, TryLoadServing,
         CasFails, ContinueTry
<1>4. Holders' = Holders
  BY <1>1, <1>2 DEF Holders
<1>5. \A d \in CPUs : pc'[d] = "held" <=> pc[d] = "held"
  BY <1>1, <1>2
<1> QED
  BY <1>3, <1>4, <1>5, LineStays, OwnerStays

\* Drawing a ticket in spinlock_acquire joins the line.
LEMMA FifoJoin ==
    ASSUME LockInv, LockInv', NEW c \in CPUs, spinlock_acquire(c)
    PROVE  Fifo!Join(c)
<1>1. pc \in [CPUs -> PCs] /\ pc[c] = "out" /\ pc' = [pc EXCEPT ![c] = "spin"]
  BY DEF LockInv, TypeOK, spinlock_acquire
<1>2. c \notin Holders /\ Holders' = Holders \cup {c}
  BY <1>1 DEF Holders
<1>3. Line' = Append(Line, c)
  BY <1>2, DrawJoins DEF spinlock_acquire
<1>4. \A d \in CPUs : pc'[d] = "held" <=> pc[d] = "held"
  BY <1>1
<1>5. \A i \in 1..Len(Line) : Line[i] # c
  BY <1>2, LockInvLine
<1> QED
  BY <1>3, <1>4, <1>5, OwnerStays DEF Fifo!Join

\* The end of the spin loop is the entry of the first in line.
LEMMA FifoEnter ==
    ASSUME LockInv, LockInv', NEW c \in CPUs, SpinDone(c)
    PROVE  Fifo!Enter(c)
<1>1. pc \in [CPUs -> PCs] /\ pc[c] = "spin" /\ pc' = [pc EXCEPT ![c] = "held"]
  BY DEF LockInv, TypeOK, SpinDone
<1>2. Holders' = Holders /\ c \in Holders
  BY <1>1 DEF Holders
<1>3. Line' = Line
  BY <1>2, LineStays DEF SpinDone
<1>4. \A d \in CPUs : pc[d] # "held"
  BY <1>1, <1>2 DEF LockInv, Holders, SpinDone
<1>5. Owner = NoCPU /\ Owner' = c
  BY <1>1, <1>4, OwnerIs, OwnerIsNext
<1>6. Cardinality(Holders) \in Nat \ {0}
  BY <1>2, HoldersFinite, FS_EmptySet
<1>7. Line # <<>> /\ Head(Line) = Line[1] /\ Line[1] \in Holders
  BY <1>6, LockInvLine
<1>8. Dist(serving_ticket, ticket[Line[1]]) = 0
  BY <1>6, LockInvLine, LineOfExact
<1>9. Dist(serving_ticket, ticket[c]) = 0
  BY DEF SpinDone, LockInv, TypeOK, Ticket, Dist
<1>10. Line[1] = c
  BY <1>2, <1>7, <1>8, <1>9, DistSame DEF LockInv, TypeOK, Holders
<1> QED
  BY <1>3, <1>5, <1>7, <1>10 DEF Fifo!Enter

\* A successful compare-and-swap finds the line empty.
LEMMA FifoTryEnter ==
    ASSUME LockInv, LockInv', NEW c \in CPUs, CasSucceeds(c)
    PROVE  Fifo!TryEnter(c)
<1>1. pc \in [CPUs -> PCs] /\ pc[c] = "cas" /\ pc' = [pc EXCEPT ![c] = "held"]
  BY DEF LockInv, TypeOK, CasSucceeds
<1>2. c \notin Holders /\ Holders' = Holders \cup {c} /\ c \in Trying
  BY <1>1 DEF Holders, Trying
<1>3. lag[c] = 0
  BY <1>2, DistRange DEF LockInv, TypeOK, CasSucceeds
<1>4. serving_ticket = next_ticket
  BY <1>1, <1>3 DEF LockInv
<1>5. Cardinality(Holders) = 0
  BY <1>4, DistRange DEF LockInv, TypeOK
<1>6. Line = <<>>
  BY <1>5, LockInvLine
<1>7. Line' = Append(Line, c)
  BY <1>2, DrawJoins DEF CasSucceeds
<1>8. Line' = <<c>>
  BY <1>6, <1>7
<1>9. Owner' = c
  BY <1>1, OwnerIsNext
<1> QED
  BY <1>6, <1>8, <1>9 DEF Fifo!TryEnter

\* A release is the owner's departure.
LEMMA FifoLeave ==
    ASSUME LockInv, LockInv', NEW c \in CPUs, spinlock_release(c)
    PROVE  Fifo!Leave(c)
<1>1. pc \in [CPUs -> PCs] /\ pc[c] = "held" /\ pc' = [pc EXCEPT ![c] = "out"]
  BY DEF LockInv, TypeOK, spinlock_release
<1>2. \A d \in CPUs : pc'[d] # "held"
  BY <1>1 DEF LockInv, Holders
<1>3. Owner = c /\ Owner' = NoCPU
  BY <1>1, <1>2, OwnerIs, OwnerIsNext
<1> QED
  BY <1>3, ReleaseLeaves DEF Fifo!Leave

\* Every step of the lock code is a step of the first-come-first-served lock.
LEMMA FifoStep ==
    ASSUME LockInv, LockInv', [Next]_vars
    PROVE  [Fifo!Next]_(Fifo!vars)
<1>1. CASE UNCHANGED vars
  <2>1. Holders' = Holders /\ UNCHANGED <<ticket, serving_ticket, pc>>
    BY <1>1 DEF vars, Holders
  <2> QED
    BY <2>1, LineStays, OwnerStays DEF Fifo!vars
<1>2. ASSUME NEW c \in CPUs, spinlock_acquire(c) PROVE Fifo!Next
  BY <1>2, FifoJoin DEF Fifo!Next
<1>3. ASSUME NEW c \in CPUs, SpinDone(c) PROVE Fifo!Next
  BY <1>3, FifoEnter DEF Fifo!Next
<1>4. ASSUME NEW c \in CPUs, CasSucceeds(c) PROVE Fifo!Next
  BY <1>4, FifoTryEnter DEF Fifo!Next
<1>5. ASSUME NEW c \in CPUs, spinlock_release(c) PROVE Fifo!Next
  BY <1>5, FifoLeave DEF Fifo!Next
<1>6. ASSUME NEW c \in CPUs,
             \/ SpinDeadlock(c) \/ spinlock_try_irqsave(c) \/ PeekServing(c)
             \/ TryLoadNext(c) \/ TryLoadServing(c) \/ CasFails(c)
      PROVE  UNCHANGED Fifo!vars
  BY <1>6, FifoStutter DEF Fifo!vars
<1> QED
  BY ZenonT(60), <1>1, <1>2, <1>3, <1>4, <1>5, <1>6 DEF Next

LEMMA FifoInit == Init => Fifo!Init
<1> SUFFICES ASSUME Init PROVE Fifo!Init
  OBVIOUS
<1>1. Holders = {} /\ \A c \in CPUs : pc[c] # "held"
  BY DEF Init, Holders
<1>2. LockInv
  BY LockInvInit
<1>3. Line = <<>>
  BY <1>1, <1>2, LockInvLine, FS_EmptySet
<1> QED
  BY <1>1, <1>2, <1>3, OwnerIs DEF Fifo!Init

\* The ticket lock implements the first-come-first-served lock, for any
\* number of CPUs: blocking callers get the lock in the order in which they
\* drew their tickets, and a try-acquire gets it only when nobody is in line.
THEOREM LockImplementsFifo == Spec => ImplementsFifoLock
BY LockInvariant, FifoInit, FifoStep, PTL DEF Spec, ImplementsFifoLock, Fifo!Spec
=============================================================================
