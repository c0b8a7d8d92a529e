------------------------------ MODULE MCVirtio ------------------------------
(* Virtio for TLC.  The queues share no state, so that a behaviour sends on *)
(* one of them; the others have used up the bound on their requests.        *)
EXTENDS Virtio

MCVirtioInit ==
    /\ RxInit
    /\ \E used \in Chans :
          /\ sent = [ch \in Chans |-> IF ch = used THEN 0 ELSE MaxRequests]
          /\ vq = [ch \in Chans |-> EmptyQueue]
          /\ vbuf = [ch \in Chans |-> 0] /\ vcall = [ch \in Chans |-> 0]
          /\ lost = [ch \in Chans |-> 0]
          /\ held = [ch \in Chans |-> {}] /\ seen = [ch \in Chans |-> <<>>]

MCVirtioSpec == MCVirtioInit /\ [][VirtioNext]_virtioVars /\ VirtioFairness
=============================================================================
