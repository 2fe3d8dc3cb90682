--------------------------- MODULE MCAudioUpload ----------------------------
EXTENDS AudioUpload, TLC

\* Senders, submissions and recordings are interchangeable.
MCSymmetry ==
  Permutations(Senders) \cup Permutations(Submissions) \cup Permutations(Recordings)
=============================================================================
