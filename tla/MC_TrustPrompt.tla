-------------------------- MODULE MC_TrustPrompt --------------------------
(* Instances of TrustPrompt for TLC. *)
EXTENDS TrustPrompt, TLC

\* Peers that all have a smaller id than ours, and peers that all have a greater.
AllSmaller == {}

\* Fingerprints and links are interchangeable; so are the peers, as none of
\* them is dialled.
Symmetry == Permutations(Link) \cup Permutations(Fp) \cup Permutations(Peer)

\* No guard reads fresh or online but their own: they are left out of the
\* states TLC tells apart.
PromptView == <<peerVars, linkVars, asks, promptVars>>
===========================================================================
