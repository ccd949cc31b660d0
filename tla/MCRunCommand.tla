---------------------------- MODULE MCRunCommand ----------------------------
(* The environments of a client: every combination without a grant, and the *)
(* paired ones that differ in what submission makes of them.                *)
EXTENDS RunCommand

MCEnvs ==
    LET Env(m, e, g, p, r, t, v) ==
            [marker |-> m, endpoint |-> e, grant |-> g, parent |-> p, ring |-> r,
             paired |-> t, v2 |-> v]
    IN {Env(m, e, "absent", "root", r, t, TRUE) :
            m \in {"absent", "one", "bad"}, e \in BOOLEAN,
            r \in {"paired", "other", "malformed"}, t \in BOOLEAN}
       \cup {Env("one", TRUE, "legacy", "nested", "paired", TRUE, FALSE),
             Env("one", TRUE, "v2", "nested", "paired", TRUE, TRUE),
             Env("one", FALSE, "v2", "nested", "paired", TRUE, TRUE),
             Env("absent", TRUE, "legacy", "torn", "paired", TRUE, TRUE),
             Env("absent", TRUE, "bad", "root", "paired", TRUE, TRUE)}
=============================================================================
