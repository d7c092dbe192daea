---- MODULE MCRequests ----
EXTENDS Requests
MCWorkers == {0}
MCTokens == {"token"}
MCTokenOf == [w \in MCWorkers |-> "token"]
MCBackoffs == [attempts \in 0..(MaxRetries-1) |-> 1]
====
