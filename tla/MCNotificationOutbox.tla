------------------------ MODULE MCNotificationOutbox ------------------------
(* Instances of NotificationOutbox for TLC. *)
EXTENDS NotificationOutbox, TLC

\* Workers are interchangeable, and so are the rows of one channel.
Symmetry == Permutations(Workers) \cup Permutations(Rows \ InApp)
=============================================================================
