-------------------------- MODULE MCChannelDispatch --------------------------
(* Instances of ChannelDispatch: two sessions that may be exchanged.        *)
EXTENDS ChannelDispatch

CONSTANTS s1, s2

MCSessions == {s1, s2}
SessionSymmetry == Permutations(MCSessions)

\* The same for liveness, where TLC must not be given a symmetry set: the session whose
\* message comes first is called s1.
MCNext ==
  \/ Work
  \/ \E s \in Sessions, stop \in BOOLEAN : (inbox = <<>> => s = s1) /\ Receive(s, stop)
MCSpec == Init /\ [][MCNext]_vars /\ Fairness
=============================================================================
