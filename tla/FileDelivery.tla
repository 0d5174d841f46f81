---------------------------- MODULE FileDelivery ----------------------------
(***************************************************************************)
(* What the file transfer promises, whatever the network does: each file   *)
(* has an outcome on each side, an outcome is final, the receiver's is     *)
(* "done" only for an intact file, and the sender's is "done" or "failed"  *)
(* only when the receiver's is.  FileTransfer implements it.               *)
(***************************************************************************)
CONSTANT Xfer   \* transfer ids

VARIABLES sent,    \* what the sender's history says of each transfer
          got,     \* what the receiver's says
          whole    \* is the file on the receiver's disk the one that was offered

dvars == <<sent, got, whole>>

Final == {"done", "failed", "cancelled"}
Outcome == {"none", "open"} \cup Final

DInit ==
  /\ sent = [x \in Xfer |-> "none"]
  /\ got = [x \in Xfer |-> "none"]
  /\ whole \in [Xfer -> BOOLEAN]

Offer(x) ==
  /\ sent[x] = "none"
  /\ sent' = [sent EXCEPT ![x] = "open"]
  /\ UNCHANGED <<got, whole>>

Announce(x) ==
  /\ sent[x] # "none" /\ got[x] = "none"
  /\ got' = [got EXCEPT ![x] = "open"]
  /\ UNCHANGED <<sent, whole>>

\* The receiver writes to the file, and may find it finished.
Write(x) ==
  /\ got[x] = "open"
  /\ \E w \in BOOLEAN :
       /\ whole' = [whole EXCEPT ![x] = w]
       /\ \/ UNCHANGED got
          \/ got' = [got EXCEPT ![x] = IF w THEN "done" ELSE "failed"]
  /\ UNCHANGED sent

GiveUp(x) ==
  /\ got[x] = "open"
  /\ \E o \in {"failed", "cancelled"} : got' = [got EXCEPT ![x] = o]
  /\ UNCHANGED <<sent, whole>>

\* The sender learns the receiver's outcome, or cancels on its own.
Learn(x) ==
  /\ sent[x] = "open" /\ got[x] \in Final
  /\ sent' = [sent EXCEPT ![x] = got[x]]
  /\ UNCHANGED <<got, whole>>

CancelSend(x) ==
  /\ sent[x] = "open"
  /\ sent' = [sent EXCEPT ![x] = "cancelled"]
  /\ UNCHANGED <<got, whole>>

DNext ==
  \E x \in Xfer : Offer(x) \/ Announce(x) \/ Write(x) \/ GiveUp(x) \/ Learn(x) \/ CancelSend(x)

DSpec == DInit /\ [][DNext]_dvars
=============================================================================
