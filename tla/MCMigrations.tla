---- MODULE MCMigrations ----
(* One or two instances of the app, and the pipeline's migrate command. *)
EXTENDS Migrations

CONSTANTS i1, i2, c1, c2

Same == [i \in Instances |-> 4]
\* A deploy: i1 still runs an earlier version of the app.
Rolling == [i \in Instances |-> IF i = i1 THEN 1 ELSE 3]
====
