----------------------------- MODULE MCLoadRun ------------------------------
(* A small instance: two phases for the open loop, two closed-loop workers. *)
EXTENDS LoadRun

Measured == [duration |-> 3, interval |-> 1, concurrency |-> 2, timeout |-> 2, rule |-> "measured"]
Health == [duration |-> 2, interval |-> 1, concurrency |-> 1, timeout |-> 2, rule |-> "health"]
OpenWorkload == [requests |-> {<<"GET", "/">>, <<"POST", "/api/public-inquiries">>}, phases |-> <<Measured, Health>>,
                 ceilings |-> [interval |-> 1, concurrency |-> 2, duration |-> 5, total |-> 5]]
ClosedWorkload == [requests |-> {<<"GET", "/">>}, phases |-> <<[Measured EXCEPT !.duration = 3]>>,
                   ceilings |-> [interval |-> 1, concurrency |-> 2, duration |-> 3, total |-> 3]]
MCWorkloads == [e \in Engines |-> IF e = "http-closed-loop" THEN ClosedWorkload ELSE OpenWorkload]
MCCliLimits == {[interval |-> 1, concurrency |-> 2, duration |-> 5],
                [interval |-> 1, concurrency |-> 2, duration |-> 3],
                [interval |-> 2, concurrency |-> 1, duration |-> 5],
                [interval |-> 1, concurrency |-> 3, duration |-> 5]}
MCStop == [consecutive |-> 2, afterSamples |-> 2, errorPercent |-> 50]
MCPass == [minSamples |-> 1, errorPercent |-> 50]

Remote == [id |-> "remote", class |-> "lab-remote", host |-> "address", methods |-> {"GET", "POST"},
           paths |-> LAB_PATH_CATALOGUE, disposable |-> TRUE, expires |-> 4]
\* Authorisations that lapse during the run, and definitions the load refuses or the workload exceeds.
MCOperatorFiles ==
  {{}, {Remote}, {[Remote EXCEPT !.expires = 2]}, {[Remote EXCEPT !.expires = 0]},
   {[Remote EXCEPT !.expires = 9]}, {[Remote EXCEPT !.host = "live domain"]},
   {[Remote EXCEPT !.host = "reserved"]}, {[Remote EXCEPT !.id = "local"]},
   {[Remote EXCEPT !.paths = {"/"}, !.methods = {"GET"}]}}
=============================================================================
