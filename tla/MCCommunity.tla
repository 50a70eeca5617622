---------------------------- MODULE MCCommunity ----------------------------
(* Instances of Community for TLC. *)
EXTENDS Community, TLC

CONSTANTS p1, p2, m1, m2, i1

\* The second mail answers the first.
Follows == {<<m2, m1>>}

\* The Message-ID of the first mail has a name; that of the second is the same or not.
MailInit == Init /\ messageId[m1] = i1

MailSpec == MailInit /\ [][Next]_vars /\ Fairness

Interchangeable == Permutations({p1, p2})
=============================================================================
