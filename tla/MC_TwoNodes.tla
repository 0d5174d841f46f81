---------------------------- MODULE MC_TwoNodes ----------------------------
(* Instances of TwoNodes for TLC. *)
EXTENDS TwoNodes

\* Which bits online are set and which prompts are posted decides no other step.
NetworkView == <<aTrust, aState, aLinks, aLinkToPeer, aPending, aDoomed,
                 bTrust, bState, bLinks, bLinkToPeer, bPending, bDoomed, wires,
                 backlogA, backlogB>>
=============================================================================
