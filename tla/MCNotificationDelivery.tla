----------------------- MODULE MCNotificationDelivery -----------------------
(* Small instances of NotificationDelivery for TLC. *)
EXTENDS NotificationDelivery, TLC

(* Workers run the same program and members are treated alike. *)
Symmetry == Permutations(Worker) \union Permutations(Recipient)
=============================================================================
