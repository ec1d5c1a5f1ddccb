-------------------------- MODULE MCNotifications --------------------------
(* Small instances of Notifications: the statuses the two schema histories  *)
(* allow; processes and filters are interchangeable.                        *)
EXTENDS Notifications, TLC

\* migrations/006_sprint5_notification_delivery.sql
SqlSchema == {Statuses}
\* alembic/versions/5fdae000458c_add_tables.py and the model's table arguments
AlembicSchema == {Statuses \ {"sending"}}
BothSchemas == SqlSchema \cup AlembicSchema

Symmetry == Permutations(Filters) \cup Permutations(Matchers) \cup Permutations(Senders)
=============================================================================
