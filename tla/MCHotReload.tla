---------------------------- MODULE MCHotReload ----------------------------
(***************************************************************************)
(* Instance of HotReload for TLC: two processes, a release that does not   *)
(* seed the table yet and two that do, one setting of each kind of check.  *)
(***************************************************************************)
EXTENDS HotReload, TLC

CONSTANTS p1, p2, rr, wrr, other

TwoProcesses == {p1, p2}

MCMigrations == {"config", "events", "seed"}
MCVersion    == [m \in MCMigrations |-> CASE m = "events" -> 3 [] m = "config" -> 4 [] m = "seed" -> 5]
MCReleases   == {{"config"}, {"events", "config", "seed"}}

MCSettings == {"strategy", "attempts", "threshold", "load_shed"}
MCKind     == "strategy" :> "name" @@ "attempts" :> "count" @@
              "threshold" :> "number" @@ "load_shed" :> "ratio"
Strategies == {rr, wrr}

Values(strategy, attempts, threshold, shed) ==
  "strategy" :> strategy @@ "attempts" :> attempts @@
  "threshold" :> threshold @@ "load_shed" :> shed

MCDefault == Values(rr, 4, 3, 50)
MCSeeded  == Values(rr, 4, 3, 50)

\* Nothing set; a junk number, which is replaced by the default, and numbers
\* that nothing checks; values that validate refuses.
MCEnvironments == {Values(NoText, NoText, NoText, NoText), Values(wrr, other, 0, 200),
                   Values(other, 4, 3, 50), Values(rr, 0, 3, 50)}

\* Usable values, junk, and both at once.
MCBodies == {"strategy" :> wrr @@ "attempts" :> 0,
             "strategy" :> other @@ "threshold" :> 5 @@ "load_shed" :> NaN}
=============================================================================
